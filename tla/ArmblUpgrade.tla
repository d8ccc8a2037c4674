---------------------------- MODULE ArmblUpgrade ----------------------------
(***************************************************************************)
(* The engine of ArmblEngine at the end of a serial line whose other end   *)
(* is the application (or a host it relays for).                           *)
(*                                                                         *)
(* The application is not part of the repository; README.md, "Wire         *)
(* protocol", says what it does: it answers every V? with a version line   *)
(* and every L? n with line n of a firmware file, in the order the         *)
(* requests came.  The line is not reliable: answers are late, lost or     *)
(* garbled, bytes are lost, and the device may be reset at any moment.     *)
(***************************************************************************)
EXTENDS ArmblEngine

CONSTANTS
  Eol,          (* How the application ends a line: <<NL>> or <<CR, NL>>.   *)
  HasHeader,    (* The firmware file starts with an S0 header record.       *)
  InitFlash,    (* The contents the region may have at the first power-up.  *)
  MaxNoise,     (* Bound: transmission faults.                              *)
  MaxFaults,    (* Bound: flash faults.                                     *)
  MaxResets     (* Bound: resets.                                           *)

VARIABLES
  found,        (* What the region held at this power-up.                   *)
  wire,         (* Bytes of the current answer still to arrive.             *)
  noise_left,   (* Bound: transmission faults still to come.                *)
  resets_left   (* Bound: resets still to come.                             *)

linkVars == <<found, wire, noise_left, resets_left>>
vars == <<engineVars, linkVars>>

ASSUME UpgradeAssumption ==
  /\ Eol \in {<<NL>>, <<CR, NL>>}
  /\ HasHeader \in BOOLEAN
  /\ InitFlash \subseteq [Addr -> Value]
  /\ MaxNoise \in Nat /\ MaxFaults \in Nat /\ MaxResets \in Nat

Init ==
  /\ InitContext
  /\ flash \in InitFlash
  /\ found = flash
  /\ faults_left = MaxFaults
  /\ reqs = <<>>
  /\ wire = <<>>
  /\ noise_left = MaxNoise
  /\ resets_left = MaxResets

-----------------------------------------------------------------------------
(* The application.                                                        *)

(* The lines of the firmware file.                                         *)
File ==
  (IF HasHeader THEN <<Junk>> ELSE <<>>)
    \o [n \in 1 .. Lines |-> Record(n)] \o <<Terminator>>

Answers(r) ==
  IF r.kind = "V?" THEN {Version(v) : v \in Versions}
  ELSE {File[n] : n \in {r.n} \cap DOMAIN File}

(* The application takes the next request.                                 *)
TakeRequest ==
  /\ reqs # <<>>
  /\ wire = <<>>
  /\ reqs' = Tail(reqs)
  /\ UNCHANGED <<state, timer_ticks, retry_left, requested_line, verVars,
                 rxVars, pending_ack, pending_err, pc, off, hwVars, told,
                 found, resets_left>>

Answer ==
  /\ TakeRequest
  /\ \E m \in Answers(Head(reqs)) : wire' = Body(m) \o Eol

AppAnswer ==
  /\ pc # "asked"
  /\ Answer
  /\ UNCHANGED noise_left

(* There is no application to answer V?, or the file has no such line.     *)
AppSilent ==
  /\ TakeRequest
  /\ Head(reqs).kind = "V?" \/ Answers(Head(reqs)) = {}
  /\ UNCHANGED <<wire, noise_left>>

-----------------------------------------------------------------------------
(* The line.                                                               *)

Noise ==
  /\ noise_left > 0
  /\ noise_left' = noise_left - 1

(* The request or the answer is lost as a whole, or the answer arrives     *)
(* with some characters changed or with characters added.                  *)
Garble ==
  /\ TakeRequest
  /\ Noise
  /\ wire' \in {<<>>, Body(Junk) \o Eol, Body(Overlong) \o Eol}

(* The answer begins before armbl_tick, back from sending the request, has *)
(* cleared rx_buf.                                                         *)
EarlyAnswer ==
  /\ pc = "asked"
  /\ Answer
  /\ Noise

(* A byte is overrun in the receiver, as during an erase that stalls the   *)
(* processor.                                                              *)
LoseByte ==
  /\ wire # <<>>
  /\ Noise
  /\ wire' = Tail(wire)
  /\ UNCHANGED <<engineVars, found, resets_left>>

(* A byte changes into a newline.                                          *)
StrayNewline ==
  /\ wire # <<>> /\ Head(wire) # NL
  /\ Noise
  /\ wire' = <<NL>> \o Tail(wire)
  /\ UNCHANGED <<engineVars, found, resets_left>>

(* A line nobody asked for arrives.  There is no bound on these: whatever  *)
(* is at the other end may talk for ever.                                  *)
UnrelatedLine ==
  /\ wire = <<>>
  /\ wire' = Body(Junk) \o Eol
  /\ UNCHANGED <<engineVars, found, noise_left, resets_left>>

(* The UART interrupt.                                                     *)
Isr ==
  /\ pc # "app"
  /\ wire # <<>>
  /\ FeedByte(Head(wire))
  /\ wire' = Tail(wire)
  /\ UNCHANGED <<found, noise_left, resets_left>>

-----------------------------------------------------------------------------
(* Reset: the flash persists, and so does the other end of the line.       *)

Reset ==
  /\ resets_left > 0
  /\ resets_left' = resets_left - 1
  /\ RestartContext
  /\ found' = flash
  /\ UNCHANGED <<flash, faults_left, reqs, wire, noise_left>>

-----------------------------------------------------------------------------
MainLoop == Tick /\ UNCHANGED linkVars

Next ==
  MainLoop \/ Isr \/ AppAnswer \/ AppSilent \/ EarlyAnswer \/ Garble
    \/ LoseByte \/ StrayNewline \/ UnrelatedLine \/ Reset

Spec == Init /\ [][Next]_vars

(* The main loop keeps calling armbl_tick, and the hooks return.  Nothing  *)
(* is assumed of the application or of the line.                           *)
FairSpec == Spec /\ WF_vars(MainLoop)

(* The other end only answers, and a reset finds the line quiet: no answer *)
(* to a request of the session it ends comes into the next one.            *)
Quiet == reqs = <<>> /\ wire = <<>>

SettledNext ==
  \/ MainLoop \/ Isr \/ AppAnswer \/ AppSilent \/ EarlyAnswer \/ Garble
  \/ LoseByte \/ StrayNewline
  \/ Reset /\ Quiet

SettledSpec == Init /\ [][SettledNext]_vars

(* In addition, a prompt application answers a request before the engine's *)
(* timer for it runs out, and no byte of an answer turns into a newline,   *)
(* which would make two lines of it.                                       *)
TimerRunsOut ==
  /\ pc = "switch" /\ timer_ticks = 0
  /\ \/ state = "WAIT_VER" /\ ~(rx_line_ready /\ Line.kind = "ver")
     \/ state = "WAIT_LINE" /\ ~rx_line_ready

PromptNext ==
  \/ MainLoop /\ (TimerRunsOut => Quiet)
  \/ Isr \/ AppAnswer \/ AppSilent \/ EarlyAnswer \/ Garble \/ LoseByte
  \/ Reset /\ Quiet

PromptSpec == Init /\ [][PromptNext]_vars

-----------------------------------------------------------------------------
(* Properties.                                                             *)

TypeOK ==
  /\ EngineTypeOK
  /\ found \in [Addr -> Value]
  /\ wire \in Seq(Byte)
  /\ noise_left \in 0 .. MaxNoise
  /\ resets_left \in 0 .. MaxResets

AddrsOf(n) == {Image[n][i] : i \in DOMAIN Image[n]}

ImageAddrs == UNION {AddrsOf(n) : n \in 1 .. Lines}

Whole == \A a \in ImageAddrs : flash[a] = "new"

(* Bytes that arrive while a complete line waits for armbl_tick, or while  *)
(* armbl_tick parses it and programs it, do not change that line           *)
(* (armbl_feed_byte against check_terminator and parse_s3).                *)
ReadyLineFrozen ==
  [][rx_line_ready /\ rx_line_ready' => rx_buf' = rx_buf]_vars

(* From the first request for a line until the sentinel is written, the    *)
(* region holds nothing of the old image and no sentinel, whatever was     *)
(* reset, lost or repeated on the way (ST_ERASE before ST_ASK_LINE).       *)
NothingOldSurvives ==
  state \in {"ASK_LINE", "WAIT_LINE", "MARK_DONE"} /\ pc # "marked" =>
    /\ flash[DoneAddr] = "erased"
    /\ \A a \in Addr : flash[a] \in {"erased", "new", "bad"}

(* parse_s3 and ST_MARK_DONE write to an unlocked controller, which can    *)
(* refuse nothing but a word that this upgrade has written before, and     *)
(* never the sentinel (hooks_flash_erase leaves it unlocked, and every     *)
(* word erased, on each path to ST_WAIT_LINE).                             *)
RefusedOnlyIfWritten ==
  /\ pc = "prog" /\ off < Len(Words) =>
       /\ unlocked
       /\ MayRefuse(Words[off + 1], "new") =>
            flash[Words[off + 1]] \in {"new", "bad"}
  /\ pc = "switch" /\ state = "MARK_DONE" => ~MayRefuse(DoneAddr, "set")

(* Every line before the requested one is in flash: an acknowledged record *)
(* was programmed, was the one asked for, and was not damaged later.       *)
AckedLinesInFlash ==
  state \in {"ASK_LINE", "WAIT_LINE"} =>
    \A n \in 1 .. Lines :
      n < requested_line => \A a \in AddrsOf(n) : flash[a] = "new"

(* README.md, "Wire protocol": DONE says that the whole image is there.    *)
DoneMeansWhole == told = "DONE" => Whole

(* What jump_to_app starts is what this power-up found in the region,      *)
(* untouched, or the whole new image: a power-up that has begun to erase   *)
(* boots nothing less (TIMEOUT after an erase that failed or a download    *)
(* that gave up).                                                          *)
BootsOneImage == pc = "app" => flash = found \/ Whole

(* What the engine is at, as the sender of the image sees it.              *)
Phase ==
  IF pc = "app" THEN "running"
  ELSE IF state = "BOOT" /\ requested_line > 0 THEN "announced"
  ELSE IF state = "TIMEOUT" THEN "stuck"
  ELSE IF state \in {"ASK_LINE", "WAIT_LINE", "MARK_DONE"} THEN "transfer"
  ELSE "deciding"

Acked == IF requested_line = 0 THEN 0 ELSE requested_line - 1

Stored == {n \in 1 .. Lines : \A a \in AddrsOf(n) : flash[a] = "new"}

Sender == INSTANCE ImageTransfer
            WITH Lines <- Lines, phase <- Phase, acked <- Acked,
                 stored <- Stored

(* armbl_tick implements the promise of ImageTransfer: every record is     *)
(* stored before it is acknowledged and before the next one is asked for,  *)
(* none is lost while others follow, the sentinel and DONE come after the  *)
(* last, and only a reset undoes any of it.                                *)
TransferInOrder == Sender!TransferSpec

(* An upgrade meets its end in TIMEOUT only if a fault happened: the       *)
(* engine's own races (clear_rx after a line against the next line, the    *)
(* drain of OK and ERR against an answer) do not use up its retries.       *)
QuietSessionEndsWell ==
  state = "TIMEOUT" => noise_left < MaxNoise \/ faults_left < MaxFaults

(* Every power-up ends in the application or in TIMEOUT, whatever the      *)
(* application and the line do: each wait is bounded by timer_ticks and    *)
(* retry_left.                                                             *)
SessionEnds == state = "INIT" ~> pc = "app" \/ state = "TIMEOUT"

-----------------------------------------------------------------------------
(* What the documents say and the code does not do.                        *)

(* README.md, "State machine": "No version reply, no done-sentinel ->      *)
(* upgrade", and the sentinel is written "on a successful upgrade"; so a   *)
(* region that is booted because no application answered holds an image,   *)
(* the one it was delivered with or the whole new one.                     *)
SilentBootHasImage ==
  state = "BOOT" /\ ~got_version => flash \in InitFlash \/ Whole

=============================================================================
