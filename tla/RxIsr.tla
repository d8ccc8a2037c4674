-------------------------------- MODULE RxIsr -------------------------------
(***************************************************************************)
(* The fields of armbl_ctx that armbl_feed_byte, in the UART interrupt,    *)
(* shares with armbl_tick, in the main loop, at the grain of the main      *)
(* loop's single reads and writes.                                         *)
(*                                                                         *)
(* The interrupt runs to completion between any two of them.  None of the  *)
(* fields is volatile and nothing masks the interrupt, so the compiler may *)
(* order the three stores of clear_rx as it likes; ClearOrders are the     *)
(* orders considered.                                                      *)
(*                                                                         *)
(* ArmblEngine has the whole of armbl_tick, with clear_rx as one step.     *)
(* Here the rest of armbl_tick is reduced to what it does to these fields: *)
(* it asks (a transmit, then clear_rx) or waits for a line, and a line it  *)
(* takes is programmed, refused with a reason, or ignored.                 *)
(***************************************************************************)
EXTENDS Naturals, Sequences

CONSTANTS
  LINE_MAX,     (* ARMBL_LINE_MAX, in bytes.                                *)
  LineLens,     (* Lengths of the lines that arrive, the newline excluded.  *)
  MaxLines,     (* Bound: lines that arrive.                                *)
  ClearOrders,  (* Orders of the stores of clear_rx.                        *)
  Burst         (* Bytes that can arrive during clear_rx: its stores take   *)
                (* far less than a byte on the line, so one where each      *)
                (* interrupt hands over one byte (STM32F0, STM32F1), more   *)
                (* where it empties a FIFO (TM4C129).                       *)

Fields == {"len", "ready", "overflow"}

ASSUME RxAssumption ==
  /\ LINE_MAX \in Nat \ {0}
  /\ LineLens \subseteq Nat \ {0}
  /\ MaxLines \in Nat
  /\ Burst \in Nat
  /\ ClearOrders # {}
  /\ \A o \in ClearOrders :
       o \in Seq(Fields) /\ Len(o) = 3 /\ {o[i] : i \in 1 .. 3} = Fields

VARIABLES
  rx_buf, rx_overflow, rx_line_ready,
  pending_err, pending_err_reason,   (* "none" stands for NULL.             *)
  waiting,      (* ctx->state is one of the WAIT states, not an ASK state.  *)
  pc,           (* Place in armbl_tick; "idle" outside it.                  *)
  clearing,     (* Fields clear_rx still has to clear.                      *)
  fed,          (* Bytes that arrived since clear_rx began.                 *)
  refused,      (* Reason parse_s3 returned, or "none".                     *)
  parsing,      (* rx_buf as it was when parsing began.                     *)
  line, at,     (* The byte that arrives next: byte at of line line.        *)
  size,         (* Length of that line.                                     *)
  sent,         (* The reason of the last ERR line, or "none".              *)
  owed          (* A line was dropped as overlong and no ERR begun since.   *)

bufVars  == <<rx_buf, rx_overflow, rx_line_ready>>
errVars  == <<pending_err, pending_err_reason>>
tickVars == <<waiting, pc, clearing, refused, parsing>>
lineVars == <<line, at, size, fed>>
vars == <<bufVars, errVars, tickVars, lineVars, sent, owed>>

Init ==
  /\ rx_buf = <<>> /\ rx_overflow = FALSE /\ rx_line_ready = FALSE
  /\ pending_err = FALSE /\ pending_err_reason = "none"
  /\ waiting = FALSE /\ pc = "idle"
  /\ clearing = <<>> /\ refused = "none" /\ parsing = <<>>
  /\ line = 1 /\ at = 1 /\ size \in LineLens /\ fed = 0
  /\ sent = "none" /\ owed = FALSE

-----------------------------------------------------------------------------
(* armbl_feed_byte, in the interrupt.                                      *)

(* Mutant: bytes are appended to a line the tick has not consumed yet.     *)
Holding_Never == FALSE

Holding == rx_line_ready

(* Mutant: one byte more than the buffer holds.                            *)
Full_OffByOne == Len(rx_buf) > LINE_MAX

Full == Len(rx_buf) >= LINE_MAX

FeedChar(b) ==
  /\ \/ /\ Holding
        /\ UNCHANGED bufVars
     \/ /\ ~Holding /\ Full
        /\ rx_overflow' = TRUE
        /\ UNCHANGED <<rx_buf, rx_line_ready>>
     \/ /\ ~Holding /\ ~Full
        /\ rx_buf' = Append(rx_buf, b)
        /\ UNCHANGED <<rx_overflow, rx_line_ready>>
  /\ UNCHANGED <<errVars, owed>>

(* Mutant: a blank line is a line.                                         *)
Blank_Never == FALSE

Blank == rx_buf = <<>>

FeedNewline ==
  \/ /\ rx_overflow
     /\ rx_buf' = <<>>
     /\ rx_overflow' = FALSE
     /\ pending_err' = TRUE
     /\ pending_err_reason' = "len"
     /\ owed' = TRUE
     /\ UNCHANGED rx_line_ready
  \/ /\ ~rx_overflow /\ Blank
     /\ UNCHANGED <<bufVars, errVars, owed>>
  \/ /\ ~rx_overflow /\ ~Blank
     /\ rx_line_ready' = TRUE
     /\ UNCHANGED <<rx_buf, rx_overflow, errVars, owed>>

Arrive ==
  /\ pc = "clear" => fed < Burst
  /\ fed' = IF pc = "clear" THEN fed + 1 ELSE 0

IsrChar ==
  /\ Arrive
  /\ line <= MaxLines /\ at <= size
  /\ FeedChar(<<line, at>>)
  /\ at' = at + 1
  /\ UNCHANGED <<line, size, tickVars, sent>>

IsrNewline ==
  /\ Arrive
  /\ line <= MaxLines /\ at > size
  /\ FeedNewline
  /\ line' = line + 1
  /\ at' = 1
  /\ size' \in LineLens
  /\ UNCHANGED <<tickVars, sent>>

-----------------------------------------------------------------------------
(* armbl_tick: the ERR drain.                                              *)

TestPending ==
  /\ pc = "idle"
  /\ pc' = IF pending_err THEN "reason" ELSE "switch"
  /\ UNCHANGED <<bufVars, errVars, waiting, clearing, refused, parsing,
                 lineVars, sent, owed>>

(* The line is composed from the reason and transmitted.                   *)
SendErr ==
  /\ pc = "reason"
  /\ pc' = "sent"
  /\ sent' = IF pending_err_reason = "none" THEN "?" ELSE pending_err_reason
  /\ owed' = FALSE
  /\ UNCHANGED <<bufVars, errVars, waiting, clearing, refused, parsing,
                 lineVars>>

ClearPending ==
  /\ pc = "sent"
  /\ pc' = "clearreason"
  /\ pending_err' = FALSE
  /\ UNCHANGED <<bufVars, pending_err_reason, waiting, clearing, refused,
                 parsing, lineVars, sent, owed>>

ClearReason ==
  /\ pc = "clearreason"
  /\ pc' = "switch"
  /\ pending_err_reason' = "none"
  /\ UNCHANGED <<bufVars, pending_err, waiting, clearing, refused, parsing,
                 lineVars, sent, owed>>

-----------------------------------------------------------------------------
(* armbl_tick: clear_rx after a request and after a line.                  *)

StartClear ==
  /\ pc' = "clear"
  /\ clearing' \in ClearOrders

ClearField ==
  /\ pc = "clear" /\ clearing # <<>>
  /\ clearing' = Tail(clearing)
  /\ rx_buf' = IF Head(clearing) = "len" THEN <<>> ELSE rx_buf
  /\ rx_line_ready' = (Head(clearing) # "ready" /\ rx_line_ready)
  /\ rx_overflow' = (Head(clearing) # "overflow" /\ rx_overflow)
  /\ UNCHANGED <<errVars, waiting, pc, refused, parsing, lineVars, sent,
                 owed>>

Cleared ==
  /\ pc = "clear" /\ clearing = <<>>
  /\ pc' = IF refused = "none" THEN "idle" ELSE "setpending"
  /\ fed' = 0
  /\ UNCHANGED <<bufVars, errVars, waiting, clearing, refused, parsing,
                 line, at, size, sent, owed>>

(* ST_ASK_VER, ST_ASK_LINE.                                                *)
Ask ==
  /\ pc = "switch" /\ ~waiting
  /\ waiting' = TRUE
  /\ StartClear
  /\ UNCHANGED <<bufVars, errVars, refused, parsing, lineVars, sent, owed>>

(* ST_WAIT_VER, ST_WAIT_LINE without a line: wait on, or ask again.        *)
NoLine ==
  /\ pc = "switch" /\ waiting /\ ~rx_line_ready
  /\ pc' = "idle"
  /\ waiting' \in BOOLEAN
  /\ UNCHANGED <<bufVars, errVars, clearing, refused, parsing, lineVars,
                 sent, owed>>

TakeLine ==
  /\ pc = "switch" /\ waiting /\ rx_line_ready
  /\ pc' = "parse"
  /\ parsing' = rx_buf
  /\ UNCHANGED <<bufVars, errVars, waiting, clearing, refused, lineVars,
                 sent, owed>>

(* The line is an unrelated one in ST_WAIT_VER, a good one, or a record    *)
(* that is refused.                                                        *)
Parsed ==
  /\ pc = "parse"
  /\ \/ refused' = "none" /\ waiting' \in BOOLEAN
     \/ refused' = "csum" /\ waiting' = FALSE
  /\ StartClear
  /\ UNCHANGED <<bufVars, errVars, parsing, lineVars, sent, owed>>

SetPending ==
  /\ pc = "setpending"
  /\ pc' = "setreason"
  /\ pending_err' = TRUE
  /\ UNCHANGED <<bufVars, pending_err_reason, waiting, clearing, refused,
                 parsing, lineVars, sent, owed>>

SetReason ==
  /\ pc = "setreason"
  /\ pc' = "idle"
  /\ pending_err_reason' = refused
  /\ refused' = "none"
  /\ UNCHANGED <<bufVars, pending_err, waiting, clearing, parsing, lineVars,
                 sent, owed>>

-----------------------------------------------------------------------------
Tick ==
  TestPending \/ SendErr \/ ClearPending \/ ClearReason \/ ClearField
    \/ Cleared \/ Ask \/ NoLine \/ TakeLine \/ Parsed \/ SetPending
    \/ SetReason

Next == Tick \/ IsrChar \/ IsrNewline

Spec == Init /\ [][Next]_vars

-----------------------------------------------------------------------------
(* Properties.                                                             *)

Reasons == {"none", "len", "csum"}

RxTypeOK ==
  /\ rx_buf \in Seq(Nat \X Nat) /\ Len(rx_buf) <= LINE_MAX
  /\ rx_overflow \in BOOLEAN /\ rx_line_ready \in BOOLEAN
  /\ pending_err \in BOOLEAN /\ pending_err_reason \in Reasons
  /\ waiting \in BOOLEAN
  /\ pc \in {"idle", "reason", "sent", "clearreason", "switch", "parse",
             "clear", "setpending", "setreason"}
  /\ clearing \in Seq(Fields)
  /\ refused \in Reasons
  /\ parsing \in Seq(Nat \X Nat)
  /\ line \in Nat /\ at \in Nat /\ size \in LineLens /\ fed \in 0 .. Burst
  /\ sent \in Reasons \cup {"?"}
  /\ owed \in BOOLEAN

(* What check_terminator and parse_s3 read does not change under them.     *)
ParseStable == pc = "parse" => rx_buf = parsing

(* A line that is parsed is the end of one line that was sent: it has no   *)
(* byte of another line, no gap, and nothing missing at its end; only its  *)
(* beginning may have been dropped or cleared.                             *)
ParsedFromOneLine ==
  pc = "parse" =>
    \A i \in 1 .. Len(rx_buf) - 1 :
      /\ rx_buf[i + 1][1] = rx_buf[i][1]
      /\ rx_buf[i + 1][2] = rx_buf[i][2] + 1

(* A line that is parsed is not empty.                                     *)
NeverParsesNothing == pc = "parse" => rx_buf # <<>>

-----------------------------------------------------------------------------
(* What the documents say and the code does not do.                        *)

(* armbl.h, armbl_feed_byte: overlong lines "are dropped with an "ERR len" *)
(* reply.  Safe to call from an ISR": once the drain has found nothing     *)
(* pending, no reply is outstanding.                                       *)
OverlongAnswered == pc = "idle" /\ ~pending_err => ~owed

=============================================================================
