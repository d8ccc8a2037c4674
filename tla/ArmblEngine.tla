---------------------------- MODULE ArmblEngine -----------------------------
(***************************************************************************)
(* The bootloader engine of armbl.c: armbl_tick, armbl_feed_byte and the   *)
(* functions they call.                                                    *)
(*                                                                         *)
(* armbl_feed_byte runs in the UART interrupt and is one step.  armbl_tick *)
(* runs in the main loop and is cut into steps at every hook call, because *)
(* a hook takes long enough (a blocking transmit, a page erase) for bytes  *)
(* to arrive or for the device to be reset before the tick goes on; pc     *)
(* says where inside armbl_tick the main loop is:                          *)
(*   "idle"    not in armbl_tick                                           *)
(*   "drain"   a pending OK is sent; pending_err is about to be tested     *)
(*   "err"     the ERR line is sent; pending_err is about to be cleared    *)
(*   "switch"  about to dispatch on ctx->state                             *)
(*   "asked"   V? or L? is sent; the rest of ASK_VER / ASK_LINE follows    *)
(*   "erase"   inside hooks.flash_erase, before page off                   *)
(*   "prog"    inside parse_s3, before data word off + 1 of the record     *)
(*   "marked"  the sentinel is written; DONE is about to be sent           *)
(*   "app"     jump_to_app was called: the bootloader is gone              *)
(*                                                                         *)
(* A line is a message; its bytes are abstract tokens that only say which  *)
(* message they belong to and at what place, so that a line that lost a    *)
(* part in transit is recognised as such.                                  *)
(***************************************************************************)
EXTENDS ArmblFlash

CONSTANTS
  Image,                  (* Image[n]: the addresses record n programs.     *)
  Versions,               (* <<major, minor>> pairs the app may report.     *)
  JunkReasons,            (* parse_s3's reasons for a malformed line.       *)
  BodyLen,                (* Tokens of a line of normal length.             *)
  LINE_MAX,               (* ARMBL_LINE_MAX, in tokens.                     *)
  HasDecideHook,          (* hooks.decide is not NULL                       *)
  version_timeout_ticks, version_retries,
  line_timeout_ticks, line_retries,
  MaxReqs                 (* Bound: requests the app's input queue holds.   *)

Lines == Len(Image)

ASSUME EngineAssumption ==
  /\ Image \in Seq(Seq(Addr \ {DoneAddr}))
  /\ Versions \subseteq (0 .. 255) \X (0 .. 255)
  /\ JunkReasons \subseteq {"len", "addr", "hex", "csum"}
  /\ JunkReasons # {}
  /\ BodyLen \in Nat \ {0}
  /\ LINE_MAX \in Nat /\ LINE_MAX >= BodyLen
  /\ HasDecideHook \in BOOLEAN
  /\ version_timeout_ticks \in Nat /\ version_retries \in Nat
  /\ line_timeout_ticks \in Nat /\ line_retries \in Nat
  /\ MaxReqs \in Nat

VARIABLES
  state, timer_ticks, retry_left, requested_line,
  app_version, got_version,
  rx_buf, rx_overflow, rx_line_ready,
  pending_ack,
  pending_err,            (* The reason, or "none" when the flag is clear.  *)
  pc, off,
  faults_left,            (* Bound: flash faults still to come.             *)
  reqs,                   (* V? and L? lines the app has not answered yet.  *)
  told                    (* Last OK / ERR / DONE line of this power cycle. *)

rxVars   == <<rx_buf, rx_overflow, rx_line_ready>>
verVars  == <<app_version, got_version>>
hwVars   == <<flash, unlocked, faults_left>>
outVars  == <<reqs, told>>
engineVars ==
  <<state, timer_ticks, retry_left, requested_line, verVars, rxVars,
    pending_ack, pending_err, pc, off, hwVars, outVars>>

-----------------------------------------------------------------------------
(* Messages, and the bytes that carry them.                                *)

Version(v)  == [kind |-> "ver",  arg |-> v]
Record(n)   == [kind |-> "rec",  arg |-> <<n>>]
Terminator  == [kind |-> "term", arg |-> <<>>]
Junk        == [kind |-> "junk", arg |-> <<>>]  (* fails every parser      *)
Overlong    == [kind |-> "long", arg |-> <<>>]  (* exceeds ARMBL_LINE_MAX  *)

Message ==
  {Version(v) : v \in Versions} \cup {Record(n) : n \in 1 .. Lines}
    \cup {Terminator, Junk, Overlong}

BodySize(m) == IF m = Overlong THEN LINE_MAX + 1 ELSE BodyLen

Body(m) == [i \in 1 .. BodySize(m) |-> [of |-> m, at |-> i]]

CR == [of |-> [kind |-> "cr", arg |-> <<>>], at |-> 0]
NL == [of |-> [kind |-> "nl", arg |-> <<>>], at |-> 0]

Byte == [of : Message, at : Nat] \cup {CR, NL}

(* What the parsers make of a buffer: the message whose body it holds, or  *)
(* junk.  A version line is accepted whatever follows the minor number.    *)
LineIn(buf) ==
  IF buf = <<>> THEN Junk
  ELSE LET m == buf[1].of IN
       IF \/ buf = Body(m)
          \/ /\ m.kind = "ver"
             /\ Len(buf) >= BodyLen
             /\ \A i \in 1 .. BodyLen : buf[i] = Body(m)[i]
       THEN m ELSE Junk

Line == LineIn(rx_buf)

-----------------------------------------------------------------------------
(* armbl_feed_byte, in the UART interrupt.                                 *)

(* Mutant: one byte more than the buffer holds.                            *)
Full_OffByOne == Len(rx_buf) > LINE_MAX

Full == Len(rx_buf) >= LINE_MAX

(* Mutant: bytes are appended to a line the tick has not consumed yet.     *)
Holding_Never == FALSE

(* A complete line waits for the tick: bytes are dropped.                  *)
Holding == rx_line_ready

(* Mutant: a carriage return is a character like any other.                *)
Stripped_Never(b) == FALSE

Stripped(b) == b = CR

FeedByte(b) ==
  /\ \/ /\ Stripped(b) \/ (b = NL /\ ~rx_overflow /\ rx_buf = <<>>)
        /\ UNCHANGED <<rxVars, pending_err>>
     \/ /\ b = NL /\ rx_overflow
        /\ rx_buf' = <<>>
        /\ rx_overflow' = FALSE
        /\ pending_err' = "len"
        /\ UNCHANGED rx_line_ready
     \/ /\ b = NL /\ ~rx_overflow /\ rx_buf # <<>>
        /\ rx_line_ready' = TRUE
        /\ UNCHANGED <<rx_buf, rx_overflow, pending_err>>
     \/ /\ b # NL /\ ~Stripped(b) /\ Holding
        /\ UNCHANGED <<rxVars, pending_err>>
     \/ /\ b # NL /\ ~Stripped(b) /\ ~Holding /\ Full
        /\ rx_overflow' = TRUE
        /\ UNCHANGED <<rx_buf, rx_line_ready, pending_err>>
     \/ /\ b # NL /\ ~Stripped(b) /\ ~Holding /\ ~Full
        /\ rx_buf' = Append(rx_buf, b)
        /\ UNCHANGED <<rx_overflow, rx_line_ready, pending_err>>
  /\ UNCHANGED <<state, timer_ticks, retry_left, requested_line, verVars,
                 pending_ack, pc, off, hwVars, outVars>>

ClearRx ==
  /\ rx_buf' = <<>>
  /\ rx_line_ready' = FALSE
  /\ rx_overflow' = FALSE

-----------------------------------------------------------------------------
(* Lines out: write_line.  The link has no flow control: a request that    *)
(* finds the app's queue full is lost.                                     *)

Send(req) == reqs' = IF Len(reqs) < MaxReqs THEN Append(reqs, req) ELSE reqs

VersionRequest == [kind |-> "V?", n |-> 0]
LineRequest(n) == [kind |-> "L?", n |-> n % 65536]   (* (uint16_t) cast *)

Request == [kind : {"V?", "L?"}, n : Nat]

(* A zero in the configuration selects the built-in default.               *)
OrDefault(v, d) == IF v = 0 THEN d ELSE v

-----------------------------------------------------------------------------
(* armbl_tick: draining the pending answer.                                *)

TickDrainAck ==
  /\ pc = "idle"
  /\ pc' = "drain"
  /\ pending_ack' = FALSE
  /\ told' = IF pending_ack THEN "OK" ELSE told
  /\ UNCHANGED <<state, timer_ticks, retry_left, requested_line, verVars,
                 rxVars, pending_err, off, hwVars, reqs>>

TickDrainErr ==
  /\ pc = "drain"
  /\ IF pending_err = "none" THEN pc' = "switch" /\ UNCHANGED told
                             ELSE pc' = "err" /\ told' = "ERR"
  /\ UNCHANGED <<state, timer_ticks, retry_left, requested_line, verVars,
                 rxVars, pending_ack, pending_err, off, hwVars, reqs>>

TickDrained ==
  /\ pc = "err"
  /\ pc' = "switch"
  /\ pending_err' = "none"
  /\ UNCHANGED <<state, timer_ticks, retry_left, requested_line, verVars,
                 rxVars, pending_ack, off, hwVars, outVars>>

-----------------------------------------------------------------------------
(* armbl_tick: case ST_INIT, ST_ASK_VER, ST_WAIT_VER, ST_DECIDE.           *)

(* The dispatch reaches case s, which ends this tick in state next.        *)
Case(s) == pc = "switch" /\ state = s
Goto(next) == pc' = "idle" /\ state' = next

TickInit ==
  /\ Case("INIT")
  /\ Goto("ASK_VER")
  /\ retry_left' = OrDefault(version_retries, 3)
  /\ UNCHANGED <<timer_ticks, requested_line, verVars, rxVars, pending_ack,
                 pending_err, off, hwVars, outVars>>

TickAskVer ==
  /\ Case("ASK_VER")
  /\ pc' = "asked"
  /\ Send(VersionRequest)
  /\ UNCHANGED <<state, timer_ticks, retry_left, requested_line, verVars,
                 rxVars, pending_ack, pending_err, off, hwVars, told>>

TickAskedVer ==
  /\ pc = "asked" /\ state = "ASK_VER"
  /\ Goto("WAIT_VER")
  /\ got_version' = FALSE
  /\ timer_ticks' = OrDefault(version_timeout_ticks, 100)
  /\ ClearRx
  /\ UNCHANGED <<retry_left, requested_line, app_version, pending_ack,
                 pending_err, off, hwVars, outVars>>

TickVersionLine ==
  /\ Case("WAIT_VER")
  /\ rx_line_ready /\ Line.kind = "ver"
  /\ Goto("DECIDE")
  /\ app_version' = Line.arg
  /\ got_version' = TRUE
  /\ ClearRx
  /\ UNCHANGED <<timer_ticks, retry_left, requested_line, pending_ack,
                 pending_err, off, hwVars, outVars>>

(* Mutant: a timeout does not cost a retry.                                *)
RetryUsed_Free == retry_left

RetryUsed == retry_left - 1

(* The countdown shared by WAIT_VER and WAIT_LINE: one tick less, or, on   *)
(* expiry, one retry less and back to asking, or else give up.             *)
Countdown(wait, ask, giveUp) ==
  \/ /\ timer_ticks > 0
     /\ Goto(wait)
     /\ timer_ticks' = timer_ticks - 1
     /\ UNCHANGED retry_left
  \/ /\ timer_ticks = 0 /\ retry_left > 0
     /\ Goto(ask)
     /\ retry_left' = RetryUsed
     /\ UNCHANGED timer_ticks
  \/ /\ timer_ticks = 0 /\ retry_left = 0
     /\ Goto(giveUp)
     /\ UNCHANGED <<timer_ticks, retry_left>>

(* No version line: an unrelated line is cleared and the wait goes on.     *)
TickWaitVer ==
  /\ Case("WAIT_VER")
  /\ ~(rx_line_ready /\ Line.kind = "ver")
  /\ IF rx_line_ready THEN ClearRx ELSE UNCHANGED rxVars
  /\ Countdown("WAIT_VER", "ASK_VER", "DECIDE")
  /\ UNCHANGED <<requested_line, verVars, pending_ack, pending_err, off,
                 hwVars, outVars>>

(* The built-in policy.                                                    *)
default_decide(got, v, flash_version, flash_done) ==
  IF ~got THEN IF flash_done = "zero" THEN "UPGRADE" ELSE "BOOT"
  ELSE IF v = <<0, 0>> THEN "UPGRADE"
  ELSE IF MajorOf[flash_version] # v[1] THEN "UPGRADE"
  ELSE "BOOT"

(* A decide hook of the caller may return either decision.                 *)
Decisions ==
  IF HasDecideHook THEN {"BOOT", "UPGRADE"}
  ELSE {default_decide(got_version, app_version,
                       flash[VersionAddr], flash[DoneAddr])}

TickDecide ==
  /\ Case("DECIDE")
  /\ \E d \in Decisions : Goto(IF d = "BOOT" THEN "BOOT" ELSE "ERASE")
  /\ UNCHANGED <<timer_ticks, retry_left, requested_line, verVars, rxVars,
                 pending_ack, pending_err, off, hwVars, outVars>>

-----------------------------------------------------------------------------
(* armbl_tick: case ST_ERASE, with the page loop of the erase hook.        *)

TickErase ==
  /\ Case("ERASE")
  /\ pc' = "erase"
  /\ off' = 0
  /\ unlocked' = TRUE
  /\ UNCHANGED <<state, timer_ticks, retry_left, requested_line, verVars,
                 rxVars, pending_ack, pending_err, flash, faults_left,
                 outVars>>

TickErasePage ==
  /\ pc = "erase" /\ off <= LastPage
  /\ ErasePage(off)
  /\ off' = off + 1
  /\ UNCHANGED <<state, timer_ticks, retry_left, requested_line, verVars,
                 rxVars, pending_ack, pending_err, pc, unlocked,
                 faults_left, outVars>>

(* Mutant: the hook locks the controller again when it has succeeded.      *)
UnlockedAfterErase_Not == ~HasLock

(* The success path leaves the controller unlocked.                        *)
UnlockedAfterErase == unlocked

(* Mutant: the old image is booted when an upgrade fails.                  *)
GiveUp_Boots == "BOOT"

GiveUp == "TIMEOUT"

(* The controller reports an error: the hook locks it again and returns    *)
(* ARMBL_FLASH_ERR.                                                        *)
TickEraseFails ==
  /\ pc = "erase" /\ off <= LastPage
  /\ faults_left > 0
  /\ faults_left' = faults_left - 1
  /\ unlocked' = ~HasLock
  /\ Goto(GiveUp)
  /\ UNCHANGED <<timer_ticks, retry_left, requested_line, verVars, rxVars,
                 pending_ack, pending_err, off, flash, outVars>>

TickErased ==
  /\ pc = "erase" /\ off > LastPage
  /\ Goto("ASK_LINE")
  /\ unlocked' = UnlockedAfterErase
  /\ requested_line' = 1
  /\ retry_left' = OrDefault(line_retries, 3)
  /\ UNCHANGED <<timer_ticks, verVars, rxVars, pending_ack, pending_err,
                 off, flash, faults_left, outVars>>

-----------------------------------------------------------------------------
(* armbl_tick: case ST_ASK_LINE, ST_WAIT_LINE, with parse_s3's word loop.  *)

TickAskLine ==
  /\ Case("ASK_LINE")
  /\ pc' = "asked"
  /\ Send(LineRequest(requested_line))
  /\ UNCHANGED <<state, timer_ticks, retry_left, requested_line, verVars,
                 rxVars, pending_ack, pending_err, off, hwVars, told>>

TickAskedLine ==
  /\ pc = "asked" /\ state = "ASK_LINE"
  /\ Goto("WAIT_LINE")
  /\ timer_ticks' = OrDefault(line_timeout_ticks, 500)
  /\ ClearRx
  /\ UNCHANGED <<retry_left, requested_line, verVars, pending_ack,
                 pending_err, off, hwVars, outVars>>

TickTerminator ==
  /\ Case("WAIT_LINE")
  /\ rx_line_ready /\ Line.kind = "term"
  /\ Goto("MARK_DONE")
  /\ ClearRx
  /\ UNCHANGED <<timer_ticks, retry_left, requested_line, verVars,
                 pending_ack, pending_err, off, hwVars, outVars>>

(* Mutant: the next line is requested after a failed one as well.          *)
NextRequest_Always(ok) == requested_line + 1

NextRequest(ok) == IF ok THEN requested_line + 1 ELSE requested_line

(* parse_s3 returned err: ERR err and the same line again, or give up      *)
(* silently when no retry is left.                                         *)
Reject(err) ==
  /\ ClearRx
  /\ \/ /\ retry_left > 0
        /\ retry_left' = retry_left - 1
        /\ pending_err' = err
        /\ Goto("ASK_LINE")
     \/ /\ retry_left = 0
        /\ Goto(GiveUp)
        /\ UNCHANGED <<retry_left, pending_err>>
  /\ requested_line' = NextRequest(FALSE)
  /\ UNCHANGED <<timer_ticks, verVars, pending_ack, off,
                 unlocked, outVars>>

(* Neither a terminator nor a well-formed S3 record for the region.        *)
TickBadLine ==
  /\ Case("WAIT_LINE")
  /\ rx_line_ready /\ Line.kind \notin {"term", "rec"}
  /\ \E err \in JunkReasons : Reject(err)
  /\ UNCHANGED <<flash, faults_left>>

(* The record passes every check of parse_s3: its words are programmed.    *)
TickRecord ==
  /\ Case("WAIT_LINE")
  /\ rx_line_ready /\ Line.kind = "rec"
  /\ pc' = "prog"
  /\ off' = 0
  /\ UNCHANGED <<state, timer_ticks, retry_left, requested_line, verVars,
                 rxVars, pending_ack, pending_err, hwVars, outVars>>

(* The words of the record in rx_buf, in the order they are programmed.    *)
Words == Image[Line.arg[1]]

NextWord ==
  /\ off' = off + 1
  /\ UNCHANGED <<state, timer_ticks, retry_left, requested_line, verVars,
                 rxVars, pending_ack, pending_err, pc, unlocked, outVars>>

TickProgramWord ==
  /\ pc = "prog" /\ off < Len(Words)
  /\ MayProgram(Words[off + 1], "new")
  /\ Program(Words[off + 1], "new")
  /\ NextWord
  /\ UNCHANGED faults_left

(* The controller reports an error for v at a: it refuses v, or has a      *)
(* fault.                                                                  *)
ReportsError(a, v) ==
  /\ \/ MayRefuse(a, v) /\ UNCHANGED faults_left
     \/ MayProgram(a, v) /\ faults_left > 0 /\ faults_left' = faults_left - 1
  /\ \E x \in ContentsAfterError(a, v) : Program(a, x)

(* flash_write returns an error.                                           *)
TickProgramFails ==
  /\ pc = "prog" /\ off < Len(Words)
  /\ ReportsError(Words[off + 1], "new")
  /\ Reject("flash")

(* Mutant: the word is not read back.                                      *)
ReadBackDiffers_Unread == NextWord

(* flash_read does not return the word just written.                       *)
ReadBackDiffers == Reject("flash")

(* flash_write returns OK, but the word did not take.                      *)
TickProgramWeak ==
  /\ pc = "prog" /\ off < Len(Words)
  /\ MayProgram(Words[off + 1], "new") /\ ~Inert(Words[off + 1], "new")
  /\ faults_left > 0
  /\ faults_left' = faults_left - 1
  /\ Program(Words[off + 1], "bad")
  /\ ReadBackDiffers

(* parse_s3 returns NULL.                                                  *)
TickProgrammed ==
  /\ pc = "prog" /\ off >= Len(Words)
  /\ Goto("ASK_LINE")
  /\ ClearRx
  /\ pending_ack' = TRUE
  /\ retry_left' = OrDefault(line_retries, 3)
  /\ requested_line' = NextRequest(TRUE)
  /\ UNCHANGED <<timer_ticks, verVars, pending_err, off, hwVars, outVars>>

TickWaitLine ==
  /\ Case("WAIT_LINE")
  /\ ~rx_line_ready
  /\ Countdown("WAIT_LINE", "ASK_LINE", GiveUp)
  /\ UNCHANGED <<requested_line, verVars, rxVars, pending_ack, pending_err,
                 off, hwVars, outVars>>

-----------------------------------------------------------------------------
(* armbl_tick: case ST_MARK_DONE, ST_BOOT, ST_TIMEOUT.                     *)

(* flash_write of the sentinel returns OK.  It is not read back, so a weak *)
(* word goes unnoticed.                                                    *)
TickMark ==
  /\ Case("MARK_DONE")
  /\ MayProgram(DoneAddr, "set")
  /\ pc' = "marked"
  /\ \/ Program(DoneAddr, "set") /\ UNCHANGED faults_left
     \/ /\ faults_left > 0
        /\ faults_left' = faults_left - 1
        /\ Program(DoneAddr, "bad")
  /\ UNCHANGED <<state, timer_ticks, retry_left, requested_line, verVars,
                 rxVars, pending_ack, pending_err, off, unlocked, outVars>>

(* The controller refuses or fails the sentinel.                           *)
TickMarkFails ==
  /\ Case("MARK_DONE")
  /\ ReportsError(DoneAddr, "set")
  /\ Goto("TIMEOUT")
  /\ UNCHANGED <<timer_ticks, retry_left, requested_line, verVars, rxVars,
                 pending_ack, pending_err, off, unlocked, outVars>>

TickMarked ==
  /\ pc = "marked"
  /\ Goto("BOOT")
  /\ told' = "DONE"
  /\ UNCHANGED <<timer_ticks, retry_left, requested_line, verVars, rxVars,
                 pending_ack, pending_err, off, hwVars, reqs>>

TickBoot ==
  /\ Case("BOOT")
  /\ pc' = "app"
  /\ UNCHANGED <<state, timer_ticks, retry_left, requested_line, verVars,
                 rxVars, pending_ack, pending_err, off, hwVars, outVars>>

TickTimeout ==
  /\ Case("TIMEOUT")
  /\ Goto("TIMEOUT")
  /\ UNCHANGED <<timer_ticks, retry_left, requested_line, verVars, rxVars,
                 pending_ack, pending_err, off, hwVars, outVars>>

-----------------------------------------------------------------------------
(* armbl_init after a power-up or reset: the flash keeps its contents, its *)
(* controller starts locked again, and the context is zeroed.              *)

InitContext ==
  /\ state = "INIT" /\ timer_ticks = 0 /\ retry_left = 0
  /\ requested_line = 0
  /\ app_version = <<0, 0>> /\ got_version = FALSE
  /\ rx_buf = <<>> /\ rx_overflow = FALSE /\ rx_line_ready = FALSE
  /\ pending_ack = FALSE /\ pending_err = "none"
  /\ pc = "idle" /\ off = 0
  /\ unlocked = ~HasLock
  /\ told = "none"

RestartContext ==
  /\ state' = "INIT" /\ timer_ticks' = 0 /\ retry_left' = 0
  /\ requested_line' = 0
  /\ app_version' = <<0, 0>> /\ got_version' = FALSE
  /\ rx_buf' = <<>> /\ rx_overflow' = FALSE /\ rx_line_ready' = FALSE
  /\ pending_ack' = FALSE /\ pending_err' = "none"
  /\ pc' = "idle" /\ off' = 0
  /\ unlocked' = ~HasLock
  /\ told' = "none"

-----------------------------------------------------------------------------
TickVersionPhase ==
  TickInit \/ TickAskVer \/ TickAskedVer \/ TickVersionLine \/ TickWaitVer
    \/ TickDecide

TickErasePhase == TickErase \/ TickErasePage \/ TickEraseFails \/ TickErased

TickLinePhase ==
  TickAskLine \/ TickAskedLine \/ TickTerminator \/ TickBadLine \/ TickRecord
    \/ TickProgramWord \/ TickProgramFails \/ TickProgramWeak
    \/ TickProgrammed \/ TickWaitLine

TickFinalPhase ==
  TickMark \/ TickMarkFails \/ TickMarked \/ TickBoot \/ TickTimeout

Tick ==
  TickDrainAck \/ TickDrainErr \/ TickDrained \/ TickVersionPhase
    \/ TickErasePhase \/ TickLinePhase \/ TickFinalPhase

-----------------------------------------------------------------------------
States == {"INIT", "ASK_VER", "WAIT_VER", "DECIDE", "ERASE", "ASK_LINE",
           "WAIT_LINE", "MARK_DONE", "BOOT", "TIMEOUT"}

EngineTypeOK ==
  /\ FlashTypeOK
  /\ state \in States
  /\ timer_ticks \in Nat /\ retry_left \in Nat /\ requested_line \in Nat
  /\ app_version \in (0 .. 255) \X (0 .. 255) /\ got_version \in BOOLEAN
  /\ rx_buf \in Seq(Byte) /\ Len(rx_buf) <= LINE_MAX
  /\ rx_overflow \in BOOLEAN /\ rx_line_ready \in BOOLEAN
  /\ pending_ack \in BOOLEAN
  /\ pending_err \in {"none", "len", "addr", "hex", "csum", "flash"}
  /\ pc \in {"idle", "drain", "err", "switch", "asked", "erase", "prog",
             "marked", "app"}
  /\ off \in Nat
  /\ faults_left \in Nat
  /\ reqs \in Seq(Request) /\ Len(reqs) <= MaxReqs
  /\ told \in {"none", "OK", "ERR", "DONE"}

=============================================================================
