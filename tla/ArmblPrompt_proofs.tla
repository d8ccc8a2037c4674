------------------------- MODULE ArmblPrompt_proofs --------------------------
(***************************************************************************)
(* Proofs about ArmblUpgrade with a prompt application, on any controller: *)
(* one that accepts a word it already holds (TM4C129) does not tell a      *)
(* record that is sent again from the requested one.  Here the timing      *)
(* does: when the engine asks again, no answer to an earlier request is    *)
(* under way.                                                              *)
(***************************************************************************)
EXTENDS ArmblTransfer_proofs

(* The number in L? has 16 bits; the file's lines, the terminator included,*)
(* must not use more.                                                      *)
NumbersFit == Lines < 65535

(* The records of the firmware file do not overlap.  A word they share     *)
(* could fail when the later one programs it again, and take the earlier,  *)
(* acknowledged one with it.                                               *)
RecordsApart ==
  \A m, n \in 1 .. Lines : m # n => AddrsOf(m) \cap AddrsOf(n) = {}

-----------------------------------------------------------------------------
(* The invariant of the line.                                              *)

(* The request the engine waits for an answer to, or would send next.      *)
Asked ==
  IF state \in {"ASK_LINE", "WAIT_LINE"} THEN LineRequest(requested_line)
  ELSE VersionRequest

Waiting == pc = "asked" \/ state \in {"WAIT_VER", "WAIT_LINE"}

(* What a byte of the answer to it may belong to.                          *)
Carried == Answers(Asked) \cup {Junk, Overlong, CR.of, NL.of}

OnlyOf(bytes, msgs) == \A i \in DOMAIN bytes : bytes[i].of \in msgs

NewlineLast(bytes) == \A i \in DOMAIN bytes : bytes[i] = NL => i = Len(bytes)

(* At most one request is out, nothing but its answer arrives, and nothing *)
(* is left to arrive when a line is ready or none is waited for.           *)
PromptInv ==
  /\ ~Waiting => Quiet
  /\ reqs # <<>> => reqs = <<Asked>> /\ wire = <<>>
  /\ rx_line_ready => Waiting /\ Quiet
  /\ NewlineLast(wire)
  /\ OnlyOf(wire, Carried)
  /\ state = "WAIT_LINE" => OnlyOf(rx_buf, Carried)

-----------------------------------------------------------------------------
(* Bytes and their messages.                                               *)

LEMMA EmptyOnlyOf ==
  /\ NewlineLast(<<>>)
  /\ \A S : OnlyOf(<<>>, S)
BY DEF NewlineLast, OnlyOf

LEMMA OnlyOfTail ==
  ASSUME NEW S, NEW s \in Seq(Byte), s # <<>>, OnlyOf(s, S), NewlineLast(s)
  PROVE  /\ Head(s).of \in S
         /\ OnlyOf(Tail(s), S) /\ NewlineLast(Tail(s))
         /\ Head(s) = NL => Tail(s) = <<>>
<1>1. Head(s) = s[1] /\ 1 \in DOMAIN s  OBVIOUS
<1>2. ASSUME NEW i \in DOMAIN Tail(s)
      PROVE  /\ Tail(s)[i] = s[i + 1] /\ i + 1 \in DOMAIN s
             /\ Len(Tail(s)) = Len(s) - 1 /\ i \in Nat
  OBVIOUS
<1>3. OnlyOf(Tail(s), S)  BY <1>2 DEF OnlyOf
<1>4. NewlineLast(Tail(s))  BY <1>2 DEF NewlineLast
<1>5. Head(s) = NL => Tail(s) = <<>>
  <2>1. Head(s) = NL => Len(s) = 1  BY <1>1 DEF NewlineLast
  <2>2. Tail(s) \in Seq(Byte) /\ Len(Tail(s)) = Len(s) - 1
    BY HeadTailProperties
  <2>3. \A q \in Seq(Byte) : Len(q) = 0 => q = <<>>
    BY EmptySeq
  <2>4. Len(s) = 1 => Len(Tail(s)) = 0  BY <2>2
  <2> QED  BY <2>1, <2>2, <2>3, <2>4
<1> QED  BY <1>1, <1>3, <1>4, <1>5 DEF OnlyOf

LEMMA OnlyOfAppend ==
  ASSUME NEW S, NEW s \in Seq(Byte), NEW b \in Byte, OnlyOf(s, S), b.of \in S
  PROVE  OnlyOf(Append(s, b), S)
BY DEF OnlyOf

(* An answer ends in its only newline.                                     *)
LEMMA FrameOnlyOf ==
  ASSUME NEW m \in Message, NEW S, {m, CR.of, NL.of} \subseteq S
  PROVE  /\ OnlyOf(Body(m) \o Eol, S)
         /\ NewlineLast(Body(m) \o Eol)
<1> DEFINE b == Body(m)
           n == BodySize(m)
<1>1. n \in Nat
  BY EngineAssumption DEF EngineAssumption, BodySize
<1>2. b \in Seq(Byte) /\ Len(b) = n  BY <1>1 DEF Body, Byte
<1>3. \A i \in 1 .. n : b[i].of = m /\ b[i].at = i  BY <1>1 DEF Body
<1>4. NL.at = 0 /\ CR # NL  BY DEF NL, CR
<1>5. \A i \in 1 .. n : b[i] # NL  BY <1>1, <1>3, <1>4
<1>6. CR \in Byte /\ NL \in Byte  BY DEF Byte
<1> HIDE DEF b, n
<1>7. CASE Eol = <<NL>>
  <2>1. /\ \A i \in 1 .. n : (b \o Eol)[i] = b[i]
        /\ (b \o Eol)[n + 1] = NL
        /\ DOMAIN (b \o Eol) = 1 .. n + 1 /\ Len(b \o Eol) = n + 1
    BY <1>1, <1>2, <1>6, <1>7
  <2>2. \A i \in 1 .. n + 1 : i \in 1 .. n \/ i = n + 1  BY <1>1
  <2>3. OnlyOf(b \o Eol, S)  BY <1>3, <2>1, <2>2 DEF OnlyOf
  <2>4. NewlineLast(b \o Eol)  BY <1>5, <2>1, <2>2 DEF NewlineLast
  <2> QED  BY <2>3, <2>4 DEF b
<1>8. CASE Eol = <<CR, NL>>
  <2>1. /\ \A i \in 1 .. n : (b \o Eol)[i] = b[i]
        /\ (b \o Eol)[n + 1] = CR /\ (b \o Eol)[n + 2] = NL
        /\ DOMAIN (b \o Eol) = 1 .. n + 2 /\ Len(b \o Eol) = n + 2
    BY <1>1, <1>2, <1>6, <1>8
  <2>2. \A i \in 1 .. n + 2 : i \in 1 .. n \/ i = n + 1 \/ i = n + 2
    BY <1>1
  <2>3. OnlyOf(b \o Eol, S)  BY <1>3, <2>1, <2>2 DEF OnlyOf
  <2>4. NewlineLast(b \o Eol)  BY <1>4, <1>5, <2>1, <2>2 DEF NewlineLast
  <2> QED  BY <2>3, <2>4 DEF b
<1> QED  BY <1>7, <1>8, UpgradeAssumption DEF UpgradeAssumption

-----------------------------------------------------------------------------
(* What a tick does to the line: nothing; or it consumes what was ready or *)
(* goes on with nothing under way; or it sends a request; or it begins to  *)
(* wait for the answer.                                                    *)
LinkStep ==
  \/ /\ UNCHANGED <<state, requested_line, reqs, rxVars>>
     /\ pc # "asked" /\ pc' # "asked"
  \/ /\ Quiet /\ reqs' = reqs
     /\ \/ ClearRx
        \/ ~rx_line_ready /\ UNCHANGED rxVars /\ state' # "WAIT_LINE"
  \/ /\ Quiet /\ ~rx_line_ready /\ UNCHANGED rxVars
     /\ pc' = "asked" /\ state' \in {"ASK_VER", "ASK_LINE"}
     /\ Send(Asked')
  \/ /\ pc = "asked" /\ state' \in {"WAIT_VER", "WAIT_LINE"}
     /\ ClearRx /\ Asked' = Asked /\ reqs' = reqs

LEMMA LinkStepKeeps ==
  ASSUME TypeOK, PromptInv, LinkStep, wire' = wire
  PROVE  PromptInv'
<1>1. CASE /\ UNCHANGED <<state, requested_line, reqs, rxVars>>
           /\ pc # "asked" /\ pc' # "asked"
  BY <1>1 DEF PromptInv, Waiting, Quiet, Asked, Carried, NewlineLast, OnlyOf,
              rxVars
<1>2. CASE /\ Quiet /\ reqs' = reqs
           /\ \/ ClearRx
              \/ ~rx_line_ready /\ UNCHANGED rxVars /\ state' # "WAIT_LINE"
  <2>1. reqs' = <<>> /\ wire' = <<>> /\ ~rx_line_ready'
        /\ (state' = "WAIT_LINE" => rx_buf' = <<>>)
    BY <1>2 DEF Quiet, ClearRx, rxVars
  <2> QED  BY <2>1, EmptyOnlyOf DEF PromptInv, Quiet
<1>3. CASE /\ Quiet /\ ~rx_line_ready /\ UNCHANGED rxVars
           /\ pc' = "asked" /\ state' \in {"ASK_VER", "ASK_LINE"}
           /\ Send(Asked')
  <2>1. reqs' \in {<<>>, <<Asked'>>}
    <3>1. reqs = <<>> /\ Append(reqs, Asked') = <<Asked'>>
      BY <1>3 DEF Quiet
    <3> QED  BY <1>3, <3>1 DEF Send
  <2>2. wire' = <<>> /\ ~rx_line_ready'  BY <1>3 DEF Quiet, rxVars
  <2> QED  BY <1>3, <2>1, <2>2, EmptyOnlyOf DEF PromptInv, Waiting
<1>4. CASE /\ pc = "asked" /\ state' \in {"WAIT_VER", "WAIT_LINE"}
           /\ ClearRx /\ Asked' = Asked /\ reqs' = reqs
  <2>1. Waiting' /\ ~rx_line_ready' /\ rx_buf' = <<>>
    BY <1>4 DEF Waiting, ClearRx
  <2>2. Carried' = Carried  BY <1>4 DEF Carried
  <2> QED  BY <1>4, <2>1, <2>2, EmptyOnlyOf DEF PromptInv
<1> QED  BY <1>1, <1>2, <1>3, <1>4 DEF LinkStep

-----------------------------------------------------------------------------
(* Every tick is such a step, if the timer runs out on a quiet line only.  *)

(* Before a request nothing is under way and no line is ready.             *)
LEMMA NotWaiting ==
  ASSUME PromptInv, ~Waiting
  PROVE  Quiet /\ ~rx_line_ready
BY DEF PromptInv

LEMMA ReadyIsQuiet ==
  ASSUME PromptInv, rx_line_ready
  PROVE  Quiet
BY DEF PromptInv

LEMMA VersionPhaseLink ==
  ASSUME PromptInv, TickVersionPhase, TimerRunsOut => Quiet
  PROVE  LinkStep
<1> USE DEF Goto, Case, outVars, LinkStep
<1>1. CASE TickInit
  BY <1>1, NotWaiting DEF TickInit, Waiting
<1>2. CASE TickAskVer
  <2>1. Asked' = VersionRequest  BY <1>2 DEF TickAskVer, Asked
  <2> QED  BY <1>2, <2>1, NotWaiting DEF TickAskVer, Waiting
<1>3. CASE TickAskedVer
  <2>1. Asked' = Asked  BY <1>3 DEF TickAskedVer, Asked
  <2> QED  BY <1>3, <2>1 DEF TickAskedVer
<1>4. CASE TickVersionLine
  BY <1>4, ReadyIsQuiet DEF TickVersionLine
<1>5. CASE TickWaitVer
  <2>1. CASE timer_ticks > 0
    <3>1. state' = "WAIT_VER" /\ pc' = "idle"
      BY <1>5, <2>1 DEF TickWaitVer, Countdown
    <3>2. CASE rx_line_ready
      BY <1>5, <3>2, ReadyIsQuiet DEF TickWaitVer
    <3>3. CASE ~rx_line_ready
      BY <1>5, <3>1, <3>3 DEF TickWaitVer
    <3> QED  BY <3>2, <3>3
  <2>2. CASE timer_ticks = 0
    <3>1. Quiet  BY <1>5, <2>2 DEF TickWaitVer, TimerRunsOut
    <3>2. state' \in {"WAIT_VER", "ASK_VER", "DECIDE"}
      BY <1>5, CountdownPlaces DEF TickWaitVer
    <3>3. state' # "WAIT_LINE"  BY <3>2
    <3> QED  BY <1>5, <3>1, <3>3 DEF TickWaitVer
  <2> QED  BY <1>5, <2>1, <2>2 DEF TickWaitVer, Countdown
<1>6. CASE TickDecide
  BY <1>6, NotWaiting DEF TickDecide, Waiting
<1> QED  BY <1>1, <1>2, <1>3, <1>4, <1>5, <1>6 DEF TickVersionPhase

LEMMA ErasePhaseLink ==
  ASSUME PlaceInv, PromptInv, TickErasePhase
  PROVE  LinkStep
<1>1. state = "ERASE" /\ pc # "asked"
  BY DEF TickErasePhase, TickErase, TickErasePage, TickEraseFails,
         TickErased, Case, PlaceInv
<1>2. Quiet /\ ~rx_line_ready  BY <1>1, NotWaiting DEF Waiting
<1>3. /\ reqs' = reqs /\ UNCHANGED rxVars
      /\ state' \in {"ERASE", "TIMEOUT", "ASK_LINE"}
  BY <1>1
  DEF TickErasePhase, TickErase, TickErasePage, TickEraseFails, TickErased,
      Goto, GiveUp, outVars
<1> QED  BY <1>2, <1>3 DEF LinkStep

LEMMA RejectLink ==
  ASSUME PromptInv, rx_line_ready, NEW err, Reject(err)
  PROVE  LinkStep
BY ReadyIsQuiet DEF Reject, outVars, LinkStep

LEMMA LinePhaseLink ==
  ASSUME PlaceInv, PromptInv, TickLinePhase, TimerRunsOut => Quiet
  PROVE  LinkStep
<1> USE DEF Goto, Case, outVars, LinkStep
<1>1. CASE TickAskLine
  <2>1. Asked' = LineRequest(requested_line)
    BY <1>1 DEF TickAskLine, Asked
  <2> QED  BY <1>1, <2>1, NotWaiting DEF TickAskLine, Waiting
<1>2. CASE TickAskedLine
  <2>1. Asked' = Asked  BY <1>2 DEF TickAskedLine, Asked
  <2> QED  BY <1>2, <2>1 DEF TickAskedLine
<1>3. CASE TickTerminator
  BY <1>3, ReadyIsQuiet DEF TickTerminator
<1>4. CASE TickBadLine  BY <1>4, RejectLink DEF TickBadLine
<1>5. CASE TickRecord  BY <1>5 DEF TickRecord
<1>6. CASE TickProgramWord  BY <1>6 DEF TickProgramWord, NextWord
<1>7. CASE TickProgramFails
  BY <1>7, RejectLink DEF TickProgramFails, PlaceInv
<1>8. CASE TickProgramWeak
  BY <1>8, RejectLink DEF TickProgramWeak, ReadBackDiffers, PlaceInv
<1>9. CASE TickProgrammed
  BY <1>9, ReadyIsQuiet DEF TickProgrammed, PlaceInv
<1>10. CASE TickWaitLine
  <2>1. CASE timer_ticks > 0
    BY <1>10, <2>1 DEF TickWaitLine, Countdown
  <2>2. CASE timer_ticks = 0
    <3>1. Quiet  BY <1>10, <2>2 DEF TickWaitLine, TimerRunsOut
    <3>2. state' \in {"ASK_LINE", "TIMEOUT"}
      BY <1>10, <2>2 DEF TickWaitLine, Countdown, GiveUp
    <3>3. state' # "WAIT_LINE"  BY <3>2
    <3> QED  BY <1>10, <3>1, <3>3 DEF TickWaitLine
  <2> QED  BY <1>10, <2>1, <2>2 DEF TickWaitLine, Countdown
<1> QED
  BY <1>1, <1>2, <1>3, <1>4, <1>5, <1>6, <1>7, <1>8, <1>9, <1>10
  DEF TickLinePhase

LEMMA FinalPhaseLink ==
  ASSUME PlaceInv, PromptInv, TickFinalPhase
  PROVE  LinkStep
<1>1. state \in {"MARK_DONE", "BOOT", "TIMEOUT"} /\ pc # "asked"
  BY DEF TickFinalPhase, TickMark, TickMarkFails, TickMarked, TickBoot,
         TickTimeout, Case, PlaceInv
<1>2. Quiet /\ ~rx_line_ready  BY <1>1, NotWaiting DEF Waiting
<1>3. /\ reqs' = reqs /\ UNCHANGED rxVars
      /\ state' \in {"MARK_DONE", "BOOT", "TIMEOUT"}
  BY <1>1
  DEF TickFinalPhase, TickMark, TickMarkFails, TickMarked, TickBoot,
      TickTimeout, Goto, outVars
<1> QED  BY <1>2, <1>3 DEF LinkStep

LEMMA TickLink ==
  ASSUME PlaceInv, PromptInv, Tick, TimerRunsOut => Quiet
  PROVE  LinkStep
<1>1. CASE TickDrainAck \/ TickDrainErr \/ TickDrained
  BY <1>1 DEF TickDrainAck, TickDrainErr, TickDrained, outVars, LinkStep
<1> QED
  BY <1>1, VersionPhaseLink, ErasePhaseLink, LinePhaseLink, FinalPhaseLink
  DEF Tick

-----------------------------------------------------------------------------
(* The other steps.                                                        *)

LEMMA IsrLink ==
  ASSUME TypeOK, PromptInv, Isr
  PROVE  PromptInv'
<1>1. /\ wire # <<>> /\ wire \in Seq(Byte) /\ wire' = Tail(wire)
      /\ FeedByte(Head(wire)) /\ rx_buf \in Seq(Byte)
  BY DEF Isr, TypeOK, EngineTypeOK
<1>2. Waiting /\ reqs = <<>> /\ ~rx_line_ready
  BY <1>1 DEF PromptInv, Quiet
<1>3. /\ UNCHANGED <<state, pc, requested_line, reqs>>
      /\ Waiting' /\ Carried' = Carried
  BY <1>1, <1>2 DEF FeedByte, outVars, Waiting, Carried, Asked
<1>4. /\ Head(wire).of \in Carried /\ OnlyOf(wire', Carried)
      /\ NewlineLast(wire') /\ (Head(wire) = NL => wire' = <<>>)
  BY <1>1, OnlyOfTail DEF PromptInv
<1>5. rx_line_ready' => Head(wire) = NL
  BY <1>1, <1>2 DEF FeedByte, rxVars
<1>6. rx_buf' \in {rx_buf, <<>>, Append(rx_buf, Head(wire))}
  BY <1>1 DEF FeedByte, rxVars
<1>7. ASSUME OnlyOf(rx_buf, Carried)
      PROVE  OnlyOf(rx_buf', Carried)
  <2>1. Head(wire) \in Byte  BY <1>1
  <2>2. OnlyOf(Append(rx_buf, Head(wire)), Carried)
    BY <1>1, <1>4, <1>7, <2>1, OnlyOfAppend
  <2> QED  BY <1>6, <1>7, <2>2, EmptyOnlyOf
<1> QED
  BY <1>2, <1>3, <1>4, <1>5, <1>7 DEF PromptInv, Quiet

(* The application takes the only request.                                 *)
LEMMA TakeLink ==
  ASSUME TypeOK, PromptInv, TakeRequest,
         OnlyOf(wire', Carried), NewlineLast(wire')
  PROVE  PromptInv'
<1>1. reqs = <<Asked>> /\ reqs' = <<>> /\ Waiting /\ ~rx_line_ready
  BY DEF TakeRequest, PromptInv, Quiet
<1>2. UNCHANGED <<state, pc, requested_line, rxVars>>
  BY DEF TakeRequest
<1> QED
  BY <1>1, <1>2 DEF PromptInv, Waiting, Carried, Asked, OnlyOf, rxVars

LEMMA AnswerLink ==
  ASSUME TypeOK, PromptInv, Answer
  PROVE  PromptInv'
<1>1. TakeRequest  BY DEF Answer
<1>2. reqs = <<Asked>> /\ Asked \in Request
  BY <1>1 DEF TakeRequest, PromptInv, TypeOK, EngineTypeOK
<1>3. PICK m \in Answers(Asked) : wire' = Body(m) \o Eol
  BY <1>2 DEF Answer
<1>4. m \in Message /\ {m, CR.of, NL.of} \subseteq Carried
  BY <1>2, AnswersAreMessages DEF Carried
<1> QED  BY <1>1, <1>3, <1>4, FrameOnlyOf, TakeLink

LEMMA PromptStep ==
  ASSUME TypeOK, PlaceInv, PromptInv, [PromptNext]_vars
  PROVE  PromptInv'
<1>1. CASE MainLoop /\ (TimerRunsOut => Quiet)
  BY <1>1, TickLink, LinkStepKeeps DEF MainLoop, linkVars
<1>2. CASE Isr  BY <1>2, IsrLink
<1>3. CASE AppAnswer \/ EarlyAnswer
  BY <1>3, AnswerLink DEF AppAnswer, EarlyAnswer
<1>4. CASE AppSilent
  <2>1. TakeRequest /\ wire' = <<>>
    BY <1>4 DEF AppSilent, TakeRequest
  <2> QED  BY <2>1, EmptyOnlyOf, TakeLink
<1>5. CASE Garble
  <2>1. Junk \in Message /\ Overlong \in Message  BY DEF Message
  <2>2. {Junk, Overlong, CR.of, NL.of} \subseteq Carried  BY DEF Carried
  <2>3. OnlyOf(wire', Carried) /\ NewlineLast(wire')
    BY <1>5, <2>1, <2>2, FrameOnlyOf, EmptyOnlyOf DEF Garble
  <2> QED  BY <1>5, <2>3, TakeLink DEF Garble
<1>6. CASE LoseByte
  <2>1. /\ wire # <<>> /\ wire \in Seq(Byte) /\ wire' = Tail(wire)
        /\ UNCHANGED engineVars
    BY <1>6 DEF LoseByte, TypeOK
  <2>2. OnlyOf(wire', Carried) /\ NewlineLast(wire')
    BY <2>1, OnlyOfTail DEF PromptInv
  <2>3. Waiting /\ reqs = <<>> /\ ~rx_line_ready
    BY <2>1 DEF PromptInv, Quiet
  <2> QED
    BY <2>1, <2>2, <2>3
    DEF PromptInv, engineVars, rxVars, outVars, Waiting, Carried, Asked,
        OnlyOf
<1>7. CASE Reset /\ Quiet
  <2>1. /\ reqs' = <<>> /\ wire' = <<>> /\ rx_buf' = <<>>
        /\ ~rx_line_ready'
    BY <1>7 DEF Reset, Quiet, RestartContext
  <2> QED  BY <2>1, EmptyOnlyOf DEF PromptInv, Quiet
<1>8. CASE UNCHANGED vars
  BY <1>8
  DEF vars, engineVars, linkVars, rxVars, outVars, PromptInv, Waiting, Quiet,
      Carried, Asked, OnlyOf, NewlineLast
<1> QED
  BY <1>1, <1>2, <1>3, <1>4, <1>5, <1>6, <1>7, <1>8 DEF PromptNext

-----------------------------------------------------------------------------
(* The line in hand.                                                       *)

(* An S0 header is no S3 record: a download of a file that starts with one *)
(* never gets past line 1.                                                 *)
HeaderInv == HasHeader => requested_line <= 1

(* Line k of the file.  With a header only line 1 matters.                 *)
LEMMA FileLine ==
  ASSUME NEW k \in DOMAIN File, HasHeader => k <= 1
  PROVE  /\ k \in Nat /\ File[k] \in Message
         /\ HasHeader => File[k] = Junk
         /\ ~HasHeader =>
              \/ k \in 1 .. Lines /\ File[k] = Record(k)
              \/ k = Lines + 1 /\ File[k] = Terminator
<1> DEFINE Records == [n \in 1 .. Lines |-> Record(n)]
<1>1. Lines \in Nat  BY LinesNat
<1>2. Records \in Seq(Message) /\ Len(Records) = Lines
  BY <1>1 DEF Message
<1>3. \A n \in 1 .. Lines : Records[n] = Record(n)  OBVIOUS
<1>4. File[k] \in Message  BY FileIsMessages
<1> HIDE DEF Records
<1>5. CASE HasHeader
  <2>1. File = (<<Junk>> \o Records) \o <<Terminator>>
    BY <1>5 DEF File, Records
  <2>2. <<Junk>> \o Records \in Seq(Message)
        /\ Len(<<Junk>> \o Records) = Lines + 1
    BY <1>1, <1>2 DEF Message
  <2>3. k = 1  BY <1>1, <1>5, <2>1, <2>2
  <2>4. File[k] = Junk  BY <1>1, <1>2, <2>1, <2>2, <2>3
  <2> QED  BY <1>4, <1>5, <2>3, <2>4
<1>6. CASE ~HasHeader
  <2>1. File = (<<>> \o Records) \o <<Terminator>>
    BY <1>6 DEF File, Records
  <2>2. <<>> \o Records = Records  BY <1>2
  <2>3. k \in 1 .. Lines + 1  BY <1>1, <1>2, <2>1, <2>2
  <2>4. CASE k = Lines + 1
    <3>1. File[k] = Terminator  BY <1>1, <1>2, <2>1, <2>2, <2>4
    <3> QED  BY <1>1, <1>4, <1>6, <2>4, <3>1
  <2>5. CASE k # Lines + 1
    <3>1. k \in 1 .. Lines  BY <1>1, <2>3, <2>5
    <3>2. File[k] = Record(k)  BY <1>1, <1>2, <1>3, <2>1, <2>2, <3>1
    <3> QED  BY <1>4, <1>6, <3>1, <3>2
  <2> QED  BY <2>4, <2>5
<1> QED  BY <1>5, <1>6

(* The number in the request is the line the engine means.                 *)
LEMMA NumberSent ==
  ASSUME NumbersFit, CountInv, requested_line \in Nat
  PROVE  LineRequest(requested_line) = [kind |-> "L?", n |-> requested_line]
<1>1. requested_line < 65536
  BY LinesNat DEF NumbersFit, CountInv
<1>2. requested_line % 65536 = requested_line  BY <1>1
<1> QED  BY <1>2 DEF LineRequest

(* A line in rx_buf that parse_s3 or check_terminator accepts is the one   *)
(* asked for.                                                              *)
LEMMA LineInHand ==
  ASSUME NumbersFit, TypeOK, PromptInv, CountInv, HeaderInv,
         state = "WAIT_LINE"
  PROVE  /\ Line.kind = "rec" =>
              /\ ~HasHeader /\ requested_line \in 1 .. Lines
              /\ Line = Record(requested_line)
              /\ Words = Image[requested_line]
         /\ Line.kind = "term" => requested_line = Lines + 1
<1>1. rx_buf \in Seq(Byte) /\ requested_line \in Nat
  BY DEF TypeOK, EngineTypeOK
<1>2. Asked = [kind |-> "L?", n |-> requested_line]
  BY <1>1, NumberSent DEF Asked
<1>3. Answers(Asked) = {File[n] : n \in {requested_line} \cap DOMAIN File}
  BY <1>2 DEF Answers
<1>4. OnlyOf(rx_buf, Carried)  BY DEF PromptInv
<1>5. ASSUME Line.kind \in {"rec", "term"}
      PROVE  requested_line \in DOMAIN File /\ Line = File[requested_line]
  <2>1. rx_buf # <<>>  BY <1>5 DEF Line, LineIn, Junk
  <2>2. 1 \in DOMAIN rx_buf  BY <1>1, <2>1
  <2>3. Line \in {rx_buf[1].of, Junk}  BY <2>1 DEF Line, LineIn
  <2>4. Line = rx_buf[1].of  BY <1>5, <2>3 DEF Junk
  <2>5. Line \in Carried  BY <1>4, <2>2, <2>4 DEF OnlyOf
  <2>6. Line \notin {Junk, Overlong, CR.of, NL.of}
    BY <1>5 DEF Junk, Overlong, CR, NL
  <2> QED  BY <1>3, <2>5, <2>6 DEF Carried
<1>6. ASSUME Line.kind \in {"rec", "term"}
      PROVE  ~HasHeader /\
             (\/ /\ requested_line \in 1 .. Lines
                 /\ Line = Record(requested_line)
              \/ requested_line = Lines + 1 /\ Line = Terminator)
  <2>1. requested_line \in DOMAIN File /\ Line = File[requested_line]
    BY <1>5, <1>6
  <2>2. Line # Junk  BY <1>6 DEF Junk
  <2> QED  BY <2>1, <2>2, FileLine DEF HeaderInv
<1>7. \A n : Record(n).kind = "rec" /\ Record(n).arg[1] = n
  BY DEF Record
<1>8. Terminator.kind = "term"  BY DEF Terminator
<1> QED  BY <1>6, <1>7, <1>8 DEF Words

-----------------------------------------------------------------------------
(* The image.                                                              *)

PromptIInv ==
  /\ IInv /\ OrderInv /\ PromptInv
  /\ HeaderInv /\ CountInv /\ ImageInv

(* What a tick must keep, and promise the sender.                          *)
LineStep == HeaderInv' /\ CountInv' /\ ImageInv' /\ TransferStep

LEMMA PromptTypes ==
  ASSUME PromptIInv
  PROVE  /\ TypeOK /\ PlaceInv
         /\ flash \in [Addr -> Value] /\ rx_buf \in Seq(Byte)
         /\ requested_line \in Nat /\ off \in Nat
BY DEF PromptIInv, IInv, RegionInv, TypeOK, EngineTypeOK, FlashTypeOK

(* The record being programmed is the requested one.                       *)
LEMMA RequestedInHand ==
  ASSUME NumbersFit, PromptIInv, pc = "prog"
  PROVE  /\ state = "WAIT_LINE" /\ ~HasHeader
         /\ requested_line \in 1 .. Lines
         /\ Line = Record(requested_line)
         /\ Words = Image[requested_line]
         /\ Words \in Seq(Addr \ {DoneAddr})
<1>1. state = "WAIT_LINE" /\ Line.kind = "rec"
  BY PromptTypes DEF PlaceInv
<1>2. /\ requested_line \in 1 .. Lines /\ ~HasHeader
      /\ Line = Record(requested_line) /\ Words = Image[requested_line]
  BY <1>1, PromptTypes, LineInHand DEF PromptIInv
<1> QED  BY <1>1, <1>2, ImageInRegion

(* Steps within the transfer that leave the region alone and end in no     *)
(* record, or give up.                                                     *)
LEMMA SameLine ==
  ASSUME NumbersFit, PromptIInv,
         state \in {"ASK_LINE", "WAIT_LINE"}, pc # "app",
         state' \in {"ASK_LINE", "WAIT_LINE", "TIMEOUT"},
         pc' \notin {"prog", "app"},
         UNCHANGED <<requested_line, flash, told>>
  PROVE  LineStep
<1>1. ImageInv'
  BY KeepAcked, NotProgramming DEF PromptIInv, ImageInv
<1>2. HeaderInv' /\ CountInv'
  BY DEF PromptIInv, HeaderInv, CountInv
<1>3. TransferStep
  <2>1. CASE state' = "TIMEOUT"
    <3>1. Phase = "transfer"  BY DEF Phase
    <3> QED  BY <2>1, <3>1, SameStored, Fails
  <2>2. CASE state' # "TIMEOUT"  BY <2>2, MoreStored, InTransfer
  <2> QED  BY <2>1, <2>2
<1> QED  BY <1>1, <1>2, <1>3 DEF LineStep

LEMMA SameLineRejected ==
  ASSUME NumbersFit, PromptIInv, state = "WAIT_LINE", pc # "app",
         NEW err, Reject(err), flash' = flash
  PROVE  LineStep
<1>1. /\ state' \in {"ASK_LINE", "TIMEOUT"} /\ pc' = "idle"
      /\ UNCHANGED <<requested_line, told>>
  BY DEF Reject, Goto, GiveUp, NextRequest, outVars
<1> QED  BY <1>1, SameLine

(* The terminator is taken after the last record.                          *)
LEMMA TerminatorLine ==
  ASSUME NumbersFit, PromptIInv, TickTerminator
  PROVE  LineStep
<1>1. /\ state = "WAIT_LINE" /\ pc = "switch"
      /\ state' = "MARK_DONE" /\ pc' = "idle"
      /\ UNCHANGED <<requested_line, flash, told>> /\ told # "DONE"
  BY NotYetDone DEF TickTerminator, Case, Goto, hwVars, outVars, PromptIInv
<1>2. requested_line = Lines + 1
  BY LineInHand, PromptTypes DEF TickTerminator, Case, PromptIInv
<1>3. \A n \in 1 .. Lines : n < requested_line  BY <1>2, LinesNat
<1>4. Whole
  BY <1>1, <1>3, WholeIsAllLines
  DEF PromptIInv, ImageInv, AckedLinesInFlash
<1>5. ImageInv'
  BY <1>1, <1>4, NotProgramming
  DEF ImageInv, AckedLinesInFlash, DoneInv, Whole
<1>6. HeaderInv' /\ CountInv'
  BY <1>1, <1>2, LinesNat DEF PromptIInv, HeaderInv, CountInv
<1>7. TransferStep  BY <1>1, MoreStored, InTransfer
<1> QED  BY <1>5, <1>6, <1>7 DEF LineStep

LEMMA RecordLine ==
  ASSUME NumbersFit, PromptIInv, TickRecord
  PROVE  LineStep
<1>1. /\ state = "WAIT_LINE" /\ state' = state
      /\ pc = "switch" /\ pc' = "prog" /\ off' = 0
      /\ UNCHANGED <<requested_line, flash, told, rx_buf>>
  BY DEF TickRecord, Case, hwVars, outVars, rxVars
<1>2. /\ requested_line \in 1 .. Lines
      /\ Words = Image[requested_line]
  BY <1>1, LineInHand, PromptTypes DEF TickRecord, PromptIInv
<1>3. AckedLinesInFlash' /\ DoneInv'  BY <1>1, KeepAcked DEF PromptIInv
<1>4. ProgInv'
  <2>1. Words' = Image[requested_line]
    BY <1>1, <1>2 DEF Words, Line
  <2>2. \A i \in DOMAIN Image[requested_line] : ~(i <= 0)
    BY <1>2, ImageInRegion
  <2> QED  BY <1>1, <2>1, <2>2 DEF ProgInv
<1>5. HeaderInv' /\ CountInv'
  BY <1>1 DEF PromptIInv, HeaderInv, CountInv
<1>6. TransferStep  BY <1>1, MoreStored, InTransfer
<1> QED  BY <1>3, <1>4, <1>5, <1>6 DEF LineStep, ImageInv

LEMMA ProgramWordLine ==
  ASSUME NumbersFit, PromptIInv, TickProgramWord
  PROVE  LineStep
<1> DEFINE k == requested_line
           w == Words[off + 1]
<1>1. /\ pc = "prog" /\ pc' = pc /\ off' = off + 1
      /\ off < Len(Words) /\ Program(w, "new")
      /\ UNCHANGED <<state, requested_line, told, rx_buf>>
  BY DEF TickProgramWord, NextWord, rxVars, outVars
<1>2. /\ state = "WAIT_LINE" /\ k \in 1 .. Lines
      /\ Line = Record(k) /\ Words = Image[k]
      /\ Image[k] \in Seq(Addr \ {DoneAddr})
  BY <1>1, RequestedInHand
<1>3. off + 1 \in DOMAIN Image[k] /\ w = Image[k][off + 1]
  BY <1>1, <1>2, PromptTypes
<1>4. /\ w \in Addr
      /\ \A a \in Addr : flash'[a] = IF a = w THEN "new" ELSE flash[a]
  BY <1>1, <1>2, <1>3, PromptTypes DEF Program
<1> HIDE DEF w
<1>5. \A a \in Addr : flash[a] = "new" => flash'[a] = "new"  BY <1>4
<1>6. AckedLinesInFlash' /\ DoneInv'
  BY <1>1, <1>2, <1>5, KeepAcked DEF PromptIInv
<1>7. ProgInv'
  <2>1. Line' = Line /\ Words' = Words  BY <1>1 DEF Line, Words
  <2>2. ASSUME NEW i \in DOMAIN Words, i <= off + 1
        PROVE  flash'[Words[i]] = "new"
    <3>1. Words[i] \in Addr /\ i \in Nat /\ off \in Nat
      BY <1>2, PromptTypes
    <3>2. CASE i <= off
      BY <1>1, <1>5, <3>1, <3>2 DEF PromptIInv, ImageInv, ProgInv
    <3>3. CASE i = off + 1  BY <1>2, <1>3, <1>4, <3>3
    <3> QED  BY <2>2, <3>1, <3>2, <3>3
  <2> QED  BY <1>1, <1>2, <2>1, <2>2 DEF ProgInv
<1>8. HeaderInv' /\ CountInv'
  BY <1>1 DEF PromptIInv, HeaderInv, CountInv
<1>9. TransferStep  BY <1>1, <1>2, <1>5, MoreStored, InTransfer
<1> QED  BY <1>6, <1>7, <1>8, <1>9 DEF LineStep, ImageInv

(* A word for which an error is reported, or that did not take, spoils at  *)
(* most the record that is being programmed, which is not acknowledged     *)
(* yet, whatever the word holds now.                                       *)
LEMMA ProgramErrorLine ==
  ASSUME NumbersFit, RecordsApart, PromptIInv, pc = "prog",
         off < Len(Words), NEW v, Program(Words[off + 1], v),
         NEW err, Reject(err)
  PROVE  LineStep
<1> DEFINE k == requested_line
           w == Words[off + 1]
<1>1. /\ pc' = "idle" /\ state' \in {"ASK_LINE", "TIMEOUT"}
      /\ UNCHANGED <<requested_line, told>>
  BY DEF Reject, NextRequest, Goto, GiveUp, outVars
<1>2. /\ state = "WAIT_LINE" /\ k \in 1 .. Lines /\ Words = Image[k]
      /\ Image[k] \in Seq(Addr \ {DoneAddr})
  BY RequestedInHand
<1>3. w \in AddrsOf(k)
  <2>1. off + 1 \in DOMAIN Image[k]  BY <1>2, PromptTypes
  <2> QED  BY <1>2, <2>1 DEF AddrsOf
<1>4. \A a \in Addr : a # w => flash'[a] = flash[a]
  BY PromptTypes DEF Program
<1> HIDE DEF w
<1>5. \A n \in 1 .. Lines : n # k => w \notin AddrsOf(n)
  BY <1>2, <1>3 DEF RecordsApart
<1>6. \A n \in 1 .. Lines : n # k =>
        \A a \in AddrsOf(n) : flash'[a] = flash[a]
  BY <1>4, <1>5, ImageInRegion
<1>7. AckedLinesInFlash'
  <2> SUFFICES ASSUME NEW n \in 1 .. Lines, n < k, NEW a \in AddrsOf(n)
               PROVE  flash'[a] = "new"
    BY <1>1 DEF AckedLinesInFlash
  <2>1. n # k  BY <1>2, LinesNat
  <2>2. flash[a] = "new"
    BY <1>2 DEF PromptIInv, ImageInv, AckedLinesInFlash
  <2> QED  BY <1>6, <2>1, <2>2
<1>8. DoneInv'
  BY <1>1, <1>2, NotYetDone DEF PromptIInv, DoneInv
<1>9. HeaderInv' /\ CountInv'
  BY <1>1, <1>2 DEF PromptIInv, HeaderInv, CountInv
<1>10. Sender!AckedStay
  <2>1. Acked = k - 1  BY <1>2, LinesNat DEF Acked
  <2>2. \A n \in 1 .. Acked : n # k  BY <1>2, <2>1, LinesNat
  <2> QED  BY <1>6, <2>2 DEF Stored, Sender!AckedStay
<1>11. TransferStep
  <2>1. CASE state' = "TIMEOUT"
    <3>1. Phase = "transfer"  BY <1>2 DEF Phase
    <3> QED  BY <1>1, <1>10, <2>1, <3>1, Fails
  <2>2. CASE state' = "ASK_LINE"  BY <1>1, <1>2, <1>10, <2>2, InTransfer
  <2> QED  BY <1>1, <2>1, <2>2
<1> QED
  BY <1>1, <1>7, <1>8, <1>9, <1>11, NotProgramming DEF LineStep, ImageInv

(* The record is stored to its last word before the next one is asked for. *)
LEMMA ProgrammedLine ==
  ASSUME NumbersFit, PromptIInv, TickProgrammed
  PROVE  LineStep
<1> DEFINE k == requested_line
<1>1. /\ pc = "prog" /\ off >= Len(Words)
      /\ state' = "ASK_LINE" /\ pc' = "idle"
      /\ requested_line' = k + 1 /\ UNCHANGED <<flash, told>>
  BY DEF TickProgrammed, NextRequest, Goto, hwVars, outVars
<1>2. /\ state = "WAIT_LINE" /\ ~HasHeader
      /\ k \in 1 .. Lines /\ Words = Image[k]
      /\ Image[k] \in Seq(Addr \ {DoneAddr})
  BY <1>1, RequestedInHand
<1>3. \A i \in DOMAIN Image[k] : i <= off
  BY <1>1, <1>2, PromptTypes
<1>4. \A a \in AddrsOf(k) : flash[a] = "new"
  BY <1>1, <1>2, <1>3 DEF PromptIInv, ImageInv, ProgInv, AddrsOf
<1>5. AckedLinesInFlash'
  <2> SUFFICES ASSUME NEW n \in 1 .. Lines, n < k + 1
               PROVE  \A a \in AddrsOf(n) : flash[a] = "new"
    BY <1>1 DEF AckedLinesInFlash
  <2>1. n < k \/ n = k  BY <1>2, LinesNat
  <2> QED
    BY <1>2, <1>4, <2>1 DEF PromptIInv, ImageInv, AckedLinesInFlash
<1>6. DoneInv'
  BY <1>1, <1>2, NotYetDone DEF PromptIInv, DoneInv
<1>7. HeaderInv' /\ CountInv'
  BY <1>1, <1>2, LinesNat DEF HeaderInv, CountInv
<1>8. TransferStep
  <2>1. Phase = "transfer" /\ Phase' = "transfer"
    BY <1>1, <1>2 DEF Phase
  <2>2. Acked = k - 1 /\ Acked' = k
    BY <1>1, <1>2, LinesNat DEF Acked
  <2>3. Acked + 1 \in Stored /\ Acked' = Acked + 1
    <3>1. k \in Stored  BY <1>2, <1>4 DEF Stored
    <3> QED  BY <1>2, <2>2, <3>1, LinesNat
  <2> QED
    BY <1>1, <2>1, <2>3, SameStored
    DEF TransferStep, Sender!TransferNext, Sender!Acknowledge
<1> QED
  BY <1>1, <1>5, <1>6, <1>7, <1>8, NotProgramming DEF LineStep, ImageInv

LEMMA LinePhaseKeeps ==
  ASSUME NumbersFit, RecordsApart, PromptIInv, TickLinePhase
  PROVE  LineStep
<1> USE DEF Case, Goto, hwVars, outVars
<1>0. PlaceInv  BY PromptTypes
<1>1. CASE TickAskLine  BY <1>1, SameLine DEF TickAskLine
<1>2. CASE TickAskedLine  BY <1>2, SameLine DEF TickAskedLine
<1>3. CASE TickTerminator  BY <1>3, TerminatorLine
<1>4. CASE TickBadLine  BY <1>4, SameLineRejected DEF TickBadLine
<1>5. CASE TickRecord  BY <1>5, RecordLine
<1>6. CASE TickProgramWord  BY <1>6, ProgramWordLine
<1>7. CASE TickProgramFails
  BY <1>7, ProgramErrorLine DEF TickProgramFails, ReportsError
<1>8. CASE TickProgramWeak
  BY <1>8, ProgramErrorLine DEF TickProgramWeak, ReadBackDiffers
<1>9. CASE TickProgrammed  BY <1>9, ProgrammedLine
<1>10. CASE TickWaitLine
  <2>1. state' \in {"WAIT_LINE", "ASK_LINE", "TIMEOUT"} /\ pc' = "idle"
    BY <1>10, CountdownPlaces DEF TickWaitLine, GiveUp
  <2> QED  BY <1>10, <2>1, SameLine DEF TickWaitLine
<1> QED
  BY <1>1, <1>2, <1>3, <1>4, <1>5, <1>6, <1>7, <1>8, <1>9, <1>10
  DEF TickLinePhase

-----------------------------------------------------------------------------
(* The other steps.                                                        *)

LEMMA VersionPhasePlaces ==
  ASSUME PhaseInv, TickVersionPhase
  PROVE  /\ requested_line = 0 /\ requested_line' = 0
         /\ state' \in {"INIT", "ASK_VER", "WAIT_VER", "DECIDE", "ERASE",
                        "BOOT"}
<1> USE DEF Goto, Case, PhaseInv
<1>1. CASE TickInit  BY <1>1 DEF TickInit
<1>2. CASE TickAskVer  BY <1>2 DEF TickAskVer
<1>3. CASE TickAskedVer  BY <1>3 DEF TickAskedVer
<1>4. CASE TickVersionLine  BY <1>4 DEF TickVersionLine
<1>5. CASE TickWaitVer  BY <1>5, CountdownPlaces DEF TickWaitVer
<1>6. CASE TickDecide  BY <1>6 DEF TickDecide
<1> QED  BY <1>1, <1>2, <1>3, <1>4, <1>5, <1>6 DEF TickVersionPhase

LEMMA VersionPhaseKeeps ==
  ASSUME PromptIInv, TickVersionPhase
  PROVE  LineStep
<1>1. PhaseInv /\ ImageInv /\ CountInv  BY DEF PromptIInv, OrderInv
<1>2. HeaderInv'  BY <1>1, VersionPhasePlaces DEF HeaderInv
<1> QED
  BY <1>1, <1>2, VersionPhaseImage, VersionPhaseTransfer DEF LineStep

LEMMA ErasePhaseKeeps ==
  ASSUME PromptIInv, TickErasePhase
  PROVE  LineStep
<1>1. PhaseInv /\ ImageInv /\ CountInv /\ IInv /\ PlaceInv /\ HeaderInv
  BY DEF PromptIInv, OrderInv, IInv, RegionInv
<1>2. HeaderInv'
  BY <1>1
  DEF TickErasePhase, TickErase, TickErasePage, TickEraseFails, TickErased,
      HeaderInv
<1> QED
  BY <1>1, <1>2, ErasePhaseImage, ErasePhaseTransfer DEF LineStep

LEMMA FinalPhaseKeeps ==
  ASSUME PromptIInv, TickFinalPhase
  PROVE  LineStep
<1>1. TypeOK /\ PlaceInv /\ ImageInv /\ CountInv /\ HeaderInv
  BY PromptTypes DEF PromptIInv
<1>2. HeaderInv'
  BY <1>1
  DEF TickFinalPhase, TickMark, TickMarkFails, TickMarked, TickBoot,
      TickTimeout, HeaderInv
<1> QED
  BY <1>1, <1>2, FinalPhaseImage, FinalPhaseTransfer DEF LineStep

(* Steps that touch neither the region nor the line being programmed.      *)
LEMMA ElsewhereKeeps ==
  ASSUME PromptIInv, UNCHANGED <<state, requested_line, flash>>,
         pc' = pc \/ (pc \notin {"prog", "app"} /\ pc' \notin {"prog", "app"}),
         told' = told \/ told' # "DONE",
         pc' = "prog" => UNCHANGED <<off, rx_buf>>
  PROVE  LineStep
<1>1. ImageInv'  BY ImageFrame DEF PromptIInv
<1>2. HeaderInv' /\ CountInv'
  BY DEF PromptIInv, HeaderInv, CountInv
<1>3. Phase' = Phase /\ Acked' = Acked  BY DEF Phase, Acked
<1> QED
  BY <1>1, <1>2, <1>3, SameStored, Stutter DEF LineStep

LEMMA PromptIsSettled ==
  /\ [PromptNext]_vars => [SettledNext]_vars
  /\ [SettledNext]_vars => [Next]_vars
BY DEF PromptNext, SettledNext, Next

LEMMA PromptLineStep ==
  ASSUME NumbersFit, RecordsApart, PromptIInv, [PromptNext]_vars
  PROVE  LineStep
<1>1. CASE MainLoop
  <2>1. CASE TickDrainAck \/ TickDrainErr \/ TickDrained
    BY <2>1, ElsewhereKeeps
    DEF TickDrainAck, TickDrainErr, TickDrained, hwVars, outVars
  <2> QED
    BY <1>1, <2>1, VersionPhaseKeeps, ErasePhaseKeeps, LinePhaseKeeps,
       FinalPhaseKeeps
    DEF MainLoop, Tick
<1>2. CASE Isr
  <2>1. UNCHANGED <<state, pc, off, flash, requested_line, told>>
    BY <1>2 DEF Isr, FeedByte, hwVars, outVars
  <2>2. pc = "prog" => rx_buf' = rx_buf
    BY <1>2, FeedByteKeepsReadyLine
    DEF Isr, PromptIInv, IInv, RegionInv, PlaceInv
  <2> QED  BY <2>1, <2>2, ElsewhereKeeps
<1>3. CASE AppAnswer \/ AppSilent \/ EarlyAnswer \/ Garble
  BY <1>3, ElsewhereKeeps
  DEF AppAnswer, AppSilent, EarlyAnswer, Garble, Answer, TakeRequest,
      rxVars, hwVars
<1>4. CASE LoseByte \/ UNCHANGED vars
  BY <1>4, ElsewhereKeeps
  DEF LoseByte, vars, engineVars, rxVars, hwVars, outVars
<1>5. CASE Reset /\ Quiet
  <2>1. /\ state' = "INIT" /\ pc' = "idle" /\ requested_line' = 0
        /\ flash' = flash /\ told' = "none"
    BY <1>5 DEF Reset, RestartContext
  <2>2. Phase' = "deciding" /\ Acked' = 0  BY <2>1 DEF Phase, Acked
  <2>3. TransferStep
    BY <2>1, <2>2, SameStored
    DEF TransferStep, Sender!TransferNext, Sender!Restart
  <2>4. HeaderInv' /\ CountInv'
    BY <2>1, LinesNat DEF HeaderInv, CountInv
  <2> QED
    BY <2>1, <2>3, <2>4, OutsideTransfer DEF LineStep
<1> QED  BY <1>1, <1>2, <1>3, <1>4, <1>5 DEF PromptNext

LEMMA PromptInitially ==
  Init => PromptIInv /\ BootInv /\ Sender!TransferInit
<1> SUFFICES ASSUME Init
             PROVE  PromptIInv /\ BootInv /\ Sender!TransferInit
  OBVIOUS
<1>1. IInv
  BY InitTyped
  DEF Init, InitContext, IInv, ReadyInv, RegionInv, PlaceInv, EraseInv,
      TransferInv
<1>2. OrderInv
  BY EmptyDue
  DEF Init, InitContext, OrderInv, ArrivingInv, RequestsDue, PhaseInv
<1>3. ImageInv
  BY DEF Init, InitContext, ImageInv, AckedLinesInFlash, ProgInv, DoneInv
<1>4. PromptInv
  BY EmptyOnlyOf DEF Init, InitContext, PromptInv, Quiet
<1>5. HeaderInv /\ CountInv
  BY LinesNat DEF Init, InitContext, HeaderInv, CountInv
<1>6. BootInv  BY DEF Init, InitContext, BootInv, AppInv, OriginInv
<1>7. Sender!TransferInit
  BY DEF Init, InitContext, Sender!TransferInit, Phase, Acked, Stored
<1> QED  BY <1>1, <1>2, <1>3, <1>4, <1>5, <1>6, <1>7 DEF PromptIInv

LEMMA PromptInvariant ==
  ASSUME NumbersFit, RecordsApart
  PROVE  PromptSpec => [](PromptIInv /\ BootInv)
<1>1. PromptIInv /\ BootInv /\ [PromptNext]_vars => (PromptIInv /\ BootInv)'
  <2> SUFFICES ASSUME PromptIInv, BootInv, [PromptNext]_vars
               PROVE  PromptIInv' /\ BootInv'
    OBVIOUS
  <2>1. [SettledNext]_vars /\ [Next]_vars  BY PromptIsSettled
  <2>2. IInv'
    BY <2>1, StepTyped, ReadyStep, RegionStep DEF PromptIInv, IInv
  <2>3. OrderInv'  BY <2>1, OrderStep DEF PromptIInv
  <2>4. PromptInv'  BY PromptTypes, PromptStep DEF PromptIInv
  <2>5. LineStep  BY PromptLineStep
  <2>6. BootInv'  BY <2>1, BootStep DEF PromptIInv
  <2> QED
    BY <2>2, <2>3, <2>4, <2>5, <2>6 DEF LineStep, PromptIInv
<1> QED  BY <1>1, PromptInitially, PTL DEF PromptSpec

-----------------------------------------------------------------------------
(* With a prompt application every record acknowledged with OK is in       *)
(* flash on any controller, whatever is lost or garbled and whatever words *)
(* fail (parse_s3, ST_WAIT_LINE).                                          *)
THEOREM PromptAckedIsInFlash ==
  ASSUME NumbersFit, RecordsApart
  PROVE  PromptSpec => []AckedLinesInFlash
<1>1. PromptIInv => AckedLinesInFlash  BY DEF PromptIInv, ImageInv
<1> QED  BY <1>1, PromptInvariant, PTL

(* DONE is then said of a whole image only (check_terminator,              *)
(* ST_MARK_DONE).                                                          *)
THEOREM PromptDoneIsWhole ==
  ASSUME NumbersFit, RecordsApart
  PROVE  PromptSpec => []DoneMeansWhole
<1>1. PromptIInv => DoneMeansWhole
  BY DEF PromptIInv, ImageInv, DoneInv, DoneMeansWhole
<1> QED  BY <1>1, PromptInvariant, PTL

(* Each power-up then boots what it found in the region, untouched, or the *)
(* whole new image (ST_DECIDE and ST_MARK_DONE before ST_BOOT, ST_TIMEOUT  *)
(* otherwise).                                                             *)
THEOREM PromptOneImageBooted ==
  ASSUME NumbersFit, RecordsApart
  PROVE  PromptSpec => []BootsOneImage
<1>1. BootInv => BootsOneImage
  BY DEF BootInv, AppInv, OriginInv, BootsOneImage
<1> QED  BY <1>1, PromptInvariant, PTL

(* And armbl_tick implements ImageTransfer: a word that fails and spoils   *)
(* one that was there before is never a word of an acknowledged record     *)
(* (ST_ASK_LINE to ST_BOOT).                                               *)
THEOREM PromptTransferImplemented ==
  ASSUME NumbersFit, RecordsApart
  PROVE  PromptSpec => TransferInOrder
<1>1. PromptIInv /\ [PromptNext]_vars
        => [Sender!TransferNext]_(Sender!transferVars)
  BY PromptLineStep DEF LineStep, TransferStep
<1> QED
  BY <1>1, PromptInitially, PromptInvariant, PTL
  DEF PromptSpec, TransferInOrder, Sender!TransferSpec

=============================================================================
