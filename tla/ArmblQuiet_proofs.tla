-------------------------- MODULE ArmblQuiet_proofs --------------------------
(***************************************************************************)
(* Without faults an upgrade with a prompt application does not end in     *)
(* TIMEOUT, for every region, image, controller, timeout and retry count:  *)
(* the engine does not use up its retries by itself.                       *)
(***************************************************************************)
EXTENDS ArmblPrompt_proofs

(* A file without the S0 header, which the engine only ever answers with   *)
(* ERR, and an application that takes at least one request at a time.      *)
Served == ~HasHeader /\ MaxReqs >= 1

(* The firmware file has one value for each word.  An STM32 would refuse   *)
(* a word that is written twice.                                           *)
EachWordOnce ==
  \A m, n \in 1 .. Lines : \A i \in DOMAIN Image[m], j \in DOMAIN Image[n] :
    Image[m][i] = Image[n][j] => m = n /\ i = j

LEMMA OnceIsApart == EachWordOnce => RecordsApart
BY DEF EachWordOnce, RecordsApart, AddrsOf

FaultFree == noise_left = MaxNoise /\ faults_left = MaxFaults

-----------------------------------------------------------------------------
(* The invariant.                                                          *)

Expected == File[requested_line]

Frame == Body(Expected) \o Eol

(* Of the expected line, rx_buf holds what is not to come any more.        *)
Arrived ==
  LET j == Len(Frame) - Len(wire) IN
  /\ Len(wire) <= Len(Frame)
  /\ \A i \in DOMAIN wire : wire[i] = Frame[j + i]
  /\ Len(rx_buf) = IF j < BodyLen THEN j ELSE BodyLen
  /\ \A i \in DOMAIN rx_buf : rx_buf[i] = Body(Expected)[i]
  /\ rx_line_ready <=> wire = <<>>
  /\ ~rx_overflow

(* A line asked for comes, and comes as it was sent.                       *)
ExactInv ==
  /\ state = "ASK_LINE" /\ pc = "asked" => reqs = <<Asked>>
  /\ state = "WAIT_LINE" =>
       IF reqs # <<>> THEN rx_buf = <<>> /\ ~rx_line_ready /\ ~rx_overflow
       ELSE Arrived

(* From the requested record on, no word was programmed but those of the   *)
(* record in hand.                                                         *)
UntouchedInv ==
  state \in {"ASK_LINE", "WAIT_LINE"} =>
    \A n \in 1 .. Lines : \A i \in DOMAIN Image[n] :
      flash[Image[n][i]] # "erased" /\ n >= requested_line =>
        n = requested_line /\ pc = "prog" /\ i <= off

QuietInv ==
  /\ faults_left <= MaxFaults
  /\ noise_left = MaxNoise => ExactInv
  /\ FaultFree => UntouchedInv /\ state # "TIMEOUT"

-----------------------------------------------------------------------------
(* The expected line.                                                      *)

LEMMA ExpectedLine ==
  ASSUME Served, NumbersFit, PromptIInv,
         state \in {"ASK_LINE", "WAIT_LINE"}
  PROVE  /\ Expected \in Message /\ Expected # Overlong
         /\ Expected.kind \in {"rec", "term"}
         /\ Asked.kind = "L?" /\ Asked \in Request
         /\ Answers(Asked) = {Expected}
<1>1. requested_line \in 1 .. Lines + 1
  BY PromptTypes, LinesNat DEF PromptIInv, CountInv
<1>2. requested_line \in DOMAIN File
  <2> DEFINE Records == [n \in 1 .. Lines |-> Record(n)]
  <2>1. Records \in Seq(Message) /\ Len(Records) = Lines
    BY LinesNat DEF Message
  <2>2. File = (<<>> \o Records) \o <<Terminator>>  BY DEF File, Served
  <2> HIDE DEF Records
  <2>3. <<>> \o Records = Records  BY <2>1
  <2>4. DOMAIN File = 1 .. Lines + 1  BY <2>1, <2>2, <2>3, LinesNat
  <2> QED  BY <1>1, <2>4
<1>3. /\ Expected \in Message
      /\ Expected = Record(requested_line) \/ Expected = Terminator
  BY <1>2, FileLine DEF Served, Expected
<1>4. Expected # Overlong /\ Expected.kind \in {"rec", "term"}
  BY <1>3 DEF Record, Terminator, Overlong
<1>5. Asked = [kind |-> "L?", n |-> requested_line]
  BY NumberSent, PromptTypes DEF PromptIInv, Asked
<1>6. Answers(Asked) = {Expected}
  BY <1>2, <1>5 DEF Answers, Expected
<1>7. Asked \in Request  BY <1>5, PromptTypes DEF Request
<1> QED  BY <1>3, <1>4, <1>5, <1>6, <1>7

LEMMA FrameShape ==
  ASSUME NEW m \in Message, m # Overlong
  PROVE  LET f == Body(m) \o Eol IN
         /\ Body(m) \in Seq(Byte) /\ Len(Body(m)) = BodyLen
         /\ \A i \in 1 .. BodyLen :
              /\ Body(m)[i] \in Byte \ {CR, NL}
              /\ f[i] = Body(m)[i]
         /\ f \in Seq(Byte)
         /\ \/ Len(f) = BodyLen + 1
            \/ Len(f) = BodyLen + 2 /\ f[BodyLen + 1] = CR
         /\ f[Len(f)] = NL
<1> DEFINE b == Body(m)
           f == b \o Eol
<1>1. BodyLen \in Nat \ {0} /\ BodySize(m) = BodyLen
  BY EngineAssumption DEF EngineAssumption, BodySize
<1>2. b \in Seq(Byte) /\ Len(b) = BodyLen  BY <1>1 DEF Body, Byte
<1>3. \A i \in 1 .. BodyLen : b[i].at = i /\ b[i] \in Byte
  BY <1>1 DEF Body, Byte
<1>4. NL.at = 0 /\ CR.at = 0 /\ CR \in Byte /\ NL \in Byte
  BY DEF NL, CR, Byte
<1>5. \A i \in 1 .. BodyLen : b[i] \in Byte \ {CR, NL}
  BY <1>1, <1>3, <1>4
<1> HIDE DEF b
<1>6. CASE Eol = <<NL>>
  BY <1>1, <1>2, <1>4, <1>5, <1>6 DEF b
<1>7. CASE Eol = <<CR, NL>>
  BY <1>1, <1>2, <1>4, <1>5, <1>7 DEF b
<1> QED  BY <1>6, <1>7, UpgradeAssumption DEF UpgradeAssumption

(* When it is ready it is what the parsers find.                           *)
LEMMA ExpectedInHand ==
  ASSUME Served, NumbersFit, PromptIInv, ExactInv,
         state = "WAIT_LINE", rx_line_ready
  PROVE  Line = Expected
<1>1. reqs = <<>> /\ wire = <<>>  BY ReadyIsQuiet DEF PromptIInv, Quiet
<1>2. Arrived  BY <1>1 DEF ExactInv
<1>3. Expected \in Message /\ Expected # Overlong  BY ExpectedLine
<1> DEFINE b == Body(Expected)
<1>4. /\ b \in Seq(Byte) /\ Len(b) = BodyLen
      /\ Len(Frame) >= BodyLen /\ Len(Frame) \in Nat
      /\ BodyLen \in Nat \ {0}
  BY <1>3, FrameShape, EngineAssumption DEF Frame, EngineAssumption
<1>5. Len(wire) = 0  BY <1>1
<1>6. Len(rx_buf) = BodyLen /\ \A i \in DOMAIN rx_buf : rx_buf[i] = b[i]
  BY <1>2, <1>4, <1>5 DEF Arrived
<1>7. rx_buf \in Seq(Byte)  BY PromptTypes
<1> HIDE DEF b
<1>8. rx_buf = b  BY <1>4, <1>6, <1>7, SeqEqual
<1>9. b[1].of = Expected /\ b # <<>>
  <2>1. BodySize(Expected) = BodyLen  BY <1>3 DEF BodySize
  <2>2. 1 \in 1 .. BodyLen  BY <1>4
  <2>3. b[1].of = Expected  BY <2>1, <2>2 DEF b, Body
  <2> QED  BY <1>4, <2>3
<1> QED  BY <1>8, <1>9 DEF Line, LineIn, b

-----------------------------------------------------------------------------
(* A line asked for comes as it was sent.                                  *)

LEMMA ExactFrame ==
  ASSUME ExactInv, UNCHANGED <<state, requested_line, reqs, wire, rxVars>>,
         pc' # "asked"
  PROVE  ExactInv'
BY DEF ExactInv, Arrived, Frame, Expected, rxVars

(* Steps to a state in which no line is waited for.                        *)
LEMMA NoneExpected ==
  ASSUME state' # "WAIT_LINE", pc' # "asked" \/ state' # "ASK_LINE"
  PROVE  ExactInv'
BY DEF ExactInv

LEMMA RejectExact ==
  ASSUME NEW err, Reject(err)
  PROVE  ExactInv'
BY NoneExpected DEF Reject, Goto, GiveUp

(* The timer does not run out on a line that comes.                        *)
LEMMA NoTimeout ==
  ASSUME Served, NumbersFit, PromptIInv, ExactInv, TickWaitLine,
         TimerRunsOut => Quiet
  PROVE  timer_ticks > 0
<1> SUFFICES ASSUME ~(timer_ticks > 0) PROVE FALSE
  OBVIOUS
<1>1. /\ state = "WAIT_LINE" /\ pc = "switch" /\ ~rx_line_ready
      /\ timer_ticks = 0
  BY DEF TickWaitLine, Case, Countdown
<1>2. Quiet  BY <1>1 DEF TimerRunsOut
<1> QED  BY <1>1, <1>2 DEF Quiet, ExactInv, Arrived

LEMMA LinePhaseExact ==
  ASSUME Served, NumbersFit, PromptIInv, ExactInv, TickLinePhase,
         wire' = wire, TimerRunsOut => Quiet
  PROVE  ExactInv'
<1> USE DEF Case, Goto, outVars
<1>1. CASE TickAskLine
  <2>1. /\ state = "ASK_LINE" /\ state' = state /\ Asked' = Asked
        /\ pc = "switch" /\ Send(LineRequest(requested_line))
    BY <1>1 DEF TickAskLine, Asked
  <2>2. reqs = <<>>  BY <2>1, NotWaiting DEF PromptIInv, Waiting, Quiet
  <2>3. Len(reqs) < MaxReqs /\ MaxReqs \in Nat
    BY <2>2, Bounds DEF Served
  <2>4. Append(reqs, Asked) = <<Asked>>  BY <2>2
  <2>5. reqs' = <<Asked'>>  BY <2>1, <2>3, <2>4 DEF Send, Asked
  <2> QED  BY <2>1, <2>5 DEF ExactInv
<1>2. CASE TickAskedLine
  <2>1. /\ reqs = <<Asked>> /\ reqs' = reqs
        /\ state' = "WAIT_LINE" /\ ClearRx
    BY <1>2 DEF TickAskedLine, ExactInv
  <2>2. reqs' # <<>>  BY <2>1
  <2> QED  BY <2>1, <2>2 DEF ExactInv, ClearRx
<1>3. CASE TickTerminator  BY <1>3, NoneExpected DEF TickTerminator
<1>4. CASE TickBadLine  BY <1>4, RejectExact DEF TickBadLine
<1>5. CASE TickRecord  BY <1>5, ExactFrame DEF TickRecord
<1>6. CASE TickProgramWord
  BY <1>6, ExactFrame DEF TickProgramWord, NextWord
<1>7. CASE TickProgramFails  BY <1>7, RejectExact DEF TickProgramFails
<1>8. CASE TickProgramWeak
  BY <1>8, RejectExact DEF TickProgramWeak, ReadBackDiffers
<1>9. CASE TickProgrammed  BY <1>9, NoneExpected DEF TickProgrammed
<1>10. CASE TickWaitLine
  <2>1. timer_ticks > 0  BY <1>10, NoTimeout
  <2>2. state' = state /\ pc' = "idle"
    BY <1>10, <2>1 DEF TickWaitLine, Countdown
  <2> QED  BY <1>10, <2>2, ExactFrame DEF TickWaitLine
<1> QED
  BY <1>1, <1>2, <1>3, <1>4, <1>5, <1>6, <1>7, <1>8, <1>9, <1>10
  DEF TickLinePhase

LEMMA FinalPhasePlaces ==
  ASSUME PlaceInv, TickFinalPhase
  PROVE  state' \in {"MARK_DONE", "BOOT", "TIMEOUT"}
BY DEF TickFinalPhase, TickMark, TickMarkFails, TickMarked, TickBoot,
       TickTimeout, Case, Goto, PlaceInv

LEMMA TickExact ==
  ASSUME Served, NumbersFit, PromptIInv, ExactInv, Tick,
         wire' = wire, TimerRunsOut => Quiet
  PROVE  ExactInv'
<1>1. CASE TickDrainAck \/ TickDrainErr \/ TickDrained
  BY <1>1, ExactFrame DEF TickDrainAck, TickDrainErr, TickDrained, outVars
<1>2. CASE TickVersionPhase
  BY <1>2, VersionPhasePlaces, NoneExpected DEF PromptIInv, OrderInv
<1>3. CASE TickErasePhase
  BY <1>3, NoneExpected, PromptTypes
  DEF TickErasePhase, TickErase, TickErasePage, TickEraseFails, TickErased,
      Case, Goto, GiveUp, PlaceInv
<1>4. CASE TickFinalPhase
  BY <1>4, FinalPhasePlaces, NoneExpected, PromptTypes
<1> QED  BY <1>1, <1>2, <1>3, <1>4, LinePhaseExact DEF Tick

(* The receiver takes the next byte of the line.                           *)
LEMMA IsrExact ==
  ASSUME Served, NumbersFit, PromptIInv, ExactInv, Isr
  PROVE  ExactInv'
<1>1. /\ wire # <<>> /\ FeedByte(Head(wire)) /\ wire' = Tail(wire)
      /\ UNCHANGED <<state, pc, requested_line, reqs>>
  BY DEF Isr, FeedByte, outVars
<1>2. Asked' = Asked /\ Expected' = Expected /\ Frame' = Frame
  BY <1>1 DEF Asked, Expected, Frame
<1>3. reqs = <<>> /\ ~rx_line_ready
  BY <1>1 DEF PromptIInv, PromptInv, Quiet
<1>4. ASSUME state = "WAIT_LINE"
      PROVE  Arrived'
  <2> DEFINE b == Body(Expected)
             h == Head(wire)
  <2>1. Expected \in Message /\ Expected # Overlong  BY <1>4, ExpectedLine
  <2>2. /\ b \in Seq(Byte) /\ Len(b) = BodyLen
        /\ \A i \in 1 .. BodyLen :
             b[i] \in Byte \ {CR, NL} /\ Frame[i] = b[i]
        /\ Frame \in Seq(Byte)
        /\ \/ Len(Frame) = BodyLen + 1
           \/ Len(Frame) = BodyLen + 2 /\ Frame[BodyLen + 1] = CR
        /\ Frame[Len(Frame)] = NL
    BY <2>1, FrameShape DEF Frame
  <2>3. /\ BodyLen \in Nat /\ BodyLen > 0
        /\ LINE_MAX \in Nat /\ LINE_MAX >= BodyLen
        /\ CR # NL
    BY EngineAssumption DEF EngineAssumption, CR, NL
  <2>4. Arrived  BY <1>3, <1>4 DEF ExactInv
  <2>5. wire \in Seq(Byte) /\ rx_buf \in Seq(Byte)
    BY PromptTypes DEF TypeOK
  <2> HIDE DEF b, h
  (* n tokens in all, l of them to come, j of them before.                 *)
  <2>6. PICK n \in Nat : n = Len(Frame)  BY <2>2
  <2>7. PICK l \in Nat : l = Len(wire) /\ l >= 1 /\ l <= n
    BY <1>1, <2>4, <2>5, <2>6 DEF Arrived
  <2>8. PICK j \in Nat : j = n - l /\ j = Len(Frame) - Len(wire)
    BY <2>6, <2>7
  <2>9. /\ j < BodyLen => l # 1
        /\ j >= BodyLen /\ l # 1 => j = BodyLen /\ n = BodyLen + 2
        /\ l = 1 => j + 1 = n
    BY <2>2, <2>3, <2>6, <2>7, <2>8
  <2>10. /\ \A i \in DOMAIN wire : wire[i] = Frame[j + i]
         /\ Len(rx_buf) = IF j < BodyLen THEN j ELSE BodyLen
         /\ \A i \in DOMAIN rx_buf : rx_buf[i] = b[i]
         /\ ~rx_overflow
    BY <2>4, <2>8 DEF Arrived, b
  <2>11. h = Frame[j + 1]
    <3>1. h = wire[1] /\ 1 \in DOMAIN wire  BY <1>1, <2>5 DEF h
    <3> QED  BY <2>10, <3>1
  <2>12. /\ wire' \in Seq(Byte) /\ Len(wire') = l - 1
         /\ \A i \in DOMAIN wire' : i \in Nat /\ i + 1 \in DOMAIN wire
                                     /\ wire'[i] = wire[i + 1]
    BY <1>1, <2>5, <2>7
  <2>13. wire' = <<>> <=> l = 1
    <3>1. \A q \in Seq(Byte) : q = <<>> <=> Len(q) = 0  BY EmptySeq
    <3> QED  BY <2>7, <2>12, <3>1
  <2>14. /\ Len(wire') <= n /\ n - Len(wire') = j + 1
         /\ \A i \in DOMAIN wire' : wire'[i] = Frame[j + 1 + i]
    <3>1. Len(wire') <= n /\ n - Len(wire') = j + 1
      BY <2>7, <2>8, <2>12
    <3>2. \A i \in DOMAIN wire' : wire'[i] = Frame[j + (i + 1)]
      BY <2>10, <2>12
    <3>3. \A i \in Nat : j + (i + 1) = j + 1 + i  OBVIOUS
    <3> QED  BY <2>12, <3>1, <3>2, <3>3
  <2>15. ASSUME /\ Len(rx_buf') = IF j + 1 < BodyLen THEN j + 1 ELSE BodyLen
                /\ \A i \in DOMAIN rx_buf' : rx_buf'[i] = b[i]
                /\ rx_line_ready' <=> l = 1
                /\ ~rx_overflow'
         PROVE  Arrived'
    BY <1>2, <2>6, <2>13, <2>14, <2>15 DEF Arrived, b
  <2>16. CASE j < BodyLen
    <3>1. h = b[j + 1] /\ h # CR /\ h # NL  BY <2>2, <2>3, <2>11, <2>16
    <3>2. Len(rx_buf) = j /\ j < LINE_MAX  BY <2>3, <2>10, <2>16
    <3>3. /\ rx_buf' = Append(rx_buf, h)
          /\ UNCHANGED <<rx_overflow, rx_line_ready>>
      BY <1>1, <1>3, <2>3, <3>1, <3>2
      DEF FeedByte, Stripped, Holding, Full, h
    <3>4. /\ Len(rx_buf') = j + 1
          /\ \A i \in DOMAIN rx_buf' : rx_buf'[i] = b[i]
      BY <2>5, <2>10, <2>16, <3>1, <3>2, <3>3
    <3>5. j + 1 = IF j + 1 < BodyLen THEN j + 1 ELSE BodyLen
      BY <2>3, <2>16
    <3> QED  BY <1>3, <2>9, <2>10, <2>15, <2>16, <3>3, <3>4, <3>5
  <2>17. CASE j >= BodyLen /\ l # 1
    <3>1. h = CR  BY <2>2, <2>6, <2>9, <2>11, <2>17
    <3>2. UNCHANGED rxVars  BY <1>1, <2>3, <3>1 DEF FeedByte, Stripped, h
    <3>3. Len(rx_buf) = IF j + 1 < BodyLen THEN j + 1 ELSE BodyLen
      BY <2>3, <2>10, <2>17
    <3> QED  BY <1>3, <2>10, <2>15, <2>17, <3>2, <3>3 DEF rxVars
  <2>18. CASE j >= BodyLen /\ l = 1
    <3>1. h = NL  BY <2>2, <2>6, <2>9, <2>11, <2>18
    <3>2. Len(rx_buf) = IF j + 1 < BodyLen THEN j + 1 ELSE BodyLen
      BY <2>3, <2>10, <2>18
    <3>3. rx_buf # <<>>  BY <2>3, <2>10, <2>18
    <3>4. rx_line_ready' /\ UNCHANGED <<rx_buf, rx_overflow>>
      BY <1>1, <2>3, <2>10, <3>1, <3>3 DEF FeedByte, Stripped, h
    <3> QED  BY <2>10, <2>15, <2>18, <3>2, <3>4
  <2> QED  BY <2>3, <2>16, <2>17, <2>18
<1>5. reqs' = <<>>  BY <1>1, <1>3
<1>6. state = "ASK_LINE" /\ pc = "asked" => reqs = <<Asked>>
  BY DEF ExactInv
<1> QED  BY <1>1, <1>2, <1>4, <1>5, <1>6 DEF ExactInv

(* The application answers the one request there is.                       *)
LEMMA AnswerExact ==
  ASSUME Served, NumbersFit, PromptIInv, ExactInv, AppAnswer
  PROVE  ExactInv'
<1>1. /\ reqs # <<>> /\ reqs' = Tail(reqs) /\ pc # "asked"
      /\ UNCHANGED <<state, pc, requested_line, rxVars>>
  BY DEF AppAnswer, Answer, TakeRequest
<1>2. reqs = <<Asked>> /\ Head(reqs) = Asked /\ reqs' = <<>>
  BY <1>1 DEF PromptIInv, PromptInv
<1>3. ASSUME state = "WAIT_LINE"
      PROVE  Arrived'
  <2>1. wire' = Frame
    BY <1>2, <1>3, ExpectedLine DEF AppAnswer, Answer, Frame
  <2>2. Expected' = Expected /\ Frame' = Frame
    BY <1>1 DEF Expected, Frame
  <2>3. /\ Frame \in Seq(Byte) /\ BodyLen \in Nat \ {0}
        /\ Len(Frame) >= BodyLen
    BY <1>3, ExpectedLine, FrameShape, EngineAssumption
    DEF Frame, EngineAssumption
  <2>4. Frame # <<>>  BY <2>3
  <2>5. rx_buf' = <<>> /\ ~rx_line_ready' /\ ~rx_overflow'
    BY <1>1, <1>3 DEF ExactInv, rxVars
  <2>6. /\ Len(Frame) - Len(Frame) = 0
        /\ \A i \in DOMAIN Frame : Frame[i] = Frame[0 + i]
        /\ 0 = IF 0 < BodyLen THEN 0 ELSE BodyLen
    BY <2>3
  <2> HIDE DEF Frame
  <2>7. Len(rx_buf') = 0 /\ DOMAIN rx_buf' = {}  BY <2>5
  <2> QED
    BY <2>1, <2>2, <2>3, <2>4, <2>5, <2>6, <2>7 DEF Arrived
<1> QED  BY <1>1, <1>2, <1>3 DEF ExactInv

LEMMA ExactStep ==
  ASSUME Served, NumbersFit, PromptIInv, QuietInv, [PromptNext]_vars,
         noise_left' = MaxNoise
  PROVE  ExactInv'
<1>1. noise_left \in 0 .. MaxNoise /\ MaxNoise \in Nat
  BY PromptTypes, Bounds DEF TypeOK
<1>2. ~Noise  BY <1>1 DEF Noise
<1>3. noise_left = MaxNoise => ExactInv  BY DEF QuietInv
<1>4. CASE MainLoop /\ (TimerRunsOut => Quiet)
  BY <1>3, <1>4, TickExact DEF MainLoop, linkVars
<1>5. CASE Isr  BY <1>3, <1>5, IsrExact DEF Isr
<1>6. CASE AppAnswer  BY <1>3, <1>6, AnswerExact DEF AppAnswer
<1>7. CASE AppSilent
  <2>1. /\ reqs # <<>> /\ UNCHANGED <<state, pc, requested_line, noise_left>>
        /\ Head(reqs).kind = "V?" \/ Answers(Head(reqs)) = {}
    BY <1>7 DEF AppSilent, TakeRequest
  <2>2. reqs = <<Asked>> /\ Head(reqs) = Asked
    BY <2>1 DEF PromptIInv, PromptInv
  <2>3. state \notin {"ASK_LINE", "WAIT_LINE"}
    BY <2>1, <2>2, ExpectedLine
  <2> QED  BY <2>1, <2>3, NoneExpected
<1>8. CASE Reset /\ Quiet
  BY <1>8, NoneExpected DEF Reset, RestartContext
<1>9. CASE UNCHANGED vars
  <2>1. UNCHANGED <<state, pc, requested_line, reqs, wire, rxVars, noise_left>>
    BY <1>9 DEF vars, engineVars, linkVars, outVars
  <2> QED
    BY <1>3, <2>1
    DEF ExactInv, Arrived, Frame, Expected, Asked, rxVars
<1> QED
  BY <1>2, <1>4, <1>5, <1>6, <1>7, <1>8, <1>9
  DEF PromptNext, EarlyAnswer, Garble, LoseByte

-----------------------------------------------------------------------------
(* Nothing is refused.                                                     *)

(* Faults are only used up.                                                *)
LEMMA TickFaults ==
  ASSUME Tick
  PROVE  faults_left' \in {faults_left, faults_left - 1}
<1> USE DEF hwVars, Reject, NextWord
<1>1. CASE TickDrainAck \/ TickDrainErr \/ TickDrained
  BY <1>1 DEF TickDrainAck, TickDrainErr, TickDrained
<1>2. CASE TickVersionPhase
  BY <1>2 DEF TickVersionPhase, TickInit, TickAskVer, TickAskedVer,
              TickVersionLine, TickWaitVer, TickDecide
<1>3. CASE TickErasePhase
  BY <1>3 DEF TickErasePhase, TickErase, TickErasePage, TickEraseFails,
              TickErased
<1>4. CASE TickLinePhase
  BY <1>4 DEF TickLinePhase, TickAskLine, TickAskedLine, TickTerminator,
              TickBadLine, TickRecord, TickProgramWord, TickProgramFails,
              TickProgramWeak, ReadBackDiffers, TickProgrammed, TickWaitLine,
              ReportsError
<1>5. CASE TickFinalPhase
  BY <1>5 DEF TickFinalPhase, TickMark, TickMarkFails, TickMarked, TickBoot,
              TickTimeout, ReportsError
<1> QED  BY <1>1, <1>2, <1>3, <1>4, <1>5 DEF Tick

LEMMA FaultsUsedUp ==
  ASSUME PromptIInv, QuietInv, [PromptNext]_vars
  PROVE  /\ faults_left' <= MaxFaults
         /\ FaultFree' => FaultFree /\ faults_left' = faults_left
<1>1. /\ faults_left \in Nat /\ faults_left <= MaxFaults /\ MaxFaults \in Nat
      /\ noise_left \in 0 .. MaxNoise /\ MaxNoise \in Nat
  BY PromptTypes, Bounds DEF TypeOK, EngineTypeOK, QuietInv
<1>2. /\ faults_left' \in {faults_left, faults_left - 1}
      /\ noise_left' \in {noise_left, noise_left - 1}
  <2>1. CASE MainLoop  BY <2>1, TickFaults DEF MainLoop, linkVars
  <2>2. CASE Isr  BY <2>2 DEF Isr, FeedByte, hwVars
  <2>3. CASE AppAnswer \/ AppSilent \/ EarlyAnswer \/ Garble
    BY <2>3
    DEF AppAnswer, AppSilent, EarlyAnswer, Garble, Answer, TakeRequest,
        Noise, hwVars
  <2>4. CASE LoseByte \/ Reset \/ UNCHANGED vars
    BY <2>4
    DEF LoseByte, Reset, Noise, vars, engineVars, linkVars, hwVars
  <2> QED  BY <2>1, <2>2, <2>3, <2>4 DEF PromptNext
<1> QED  BY <1>1, <1>2 DEF FaultFree

LEMMA UntouchedFrame ==
  ASSUME UntouchedInv, UNCHANGED <<requested_line, flash>>,
         \/ state' \notin {"ASK_LINE", "WAIT_LINE"}
         \/ state \in {"ASK_LINE", "WAIT_LINE"} /\ pc # "prog"
         \/ state \in {"ASK_LINE", "WAIT_LINE"} /\ UNCHANGED <<pc, off>>
  PROVE  UntouchedInv'
BY DEF UntouchedInv

(* The controller does not refuse the next word of the record in hand.     *)
LEMMA NextWordAccepted ==
  ASSUME NumbersFit, PromptIInv, UntouchedInv, pc = "prog", off < Len(Words)
  PROVE  ~MayRefuse(Words[off + 1], "new")
<1>1. /\ state = "WAIT_LINE" /\ requested_line \in 1 .. Lines
      /\ Words = Image[requested_line]
      /\ Words \in Seq(Addr \ {DoneAddr}) /\ off \in Nat
  BY RequestedInHand, PromptTypes
<1>2. off + 1 \in DOMAIN Words /\ ~(off + 1 <= off)  BY <1>1
<1>3. flash[Words[off + 1]] = "erased"
  BY <1>1, <1>2 DEF UntouchedInv
<1>4. unlocked
  BY <1>1 DEF PromptIInv, IInv, RegionInv, TransferInv, Clean
<1> QED  BY <1>3, <1>4 DEF MayRefuse

(* The step programs the record in hand and no other word.                 *)
LEMMA ProgramWordUntouched ==
  ASSUME NumbersFit, EachWordOnce, PromptIInv, UntouchedInv, TickProgramWord
  PROVE  UntouchedInv'
<1> DEFINE k == requested_line
           w == Words[off + 1]
<1>1. /\ pc = "prog" /\ pc' = pc /\ off' = off + 1
      /\ off < Len(Words) /\ Program(w, "new")
      /\ UNCHANGED <<state, requested_line>>
  BY DEF TickProgramWord, NextWord
<1>2. /\ state = "WAIT_LINE" /\ k \in 1 .. Lines /\ Words = Image[k]
      /\ Image[k] \in Seq(Addr \ {DoneAddr})
  BY <1>1, RequestedInHand
<1>3. off + 1 \in DOMAIN Image[k] /\ w = Image[k][off + 1]
  BY <1>1, <1>2, PromptTypes
<1>4. \A a \in Addr : a # w => flash'[a] = flash[a]
  BY <1>1, <1>2, <1>3, PromptTypes DEF Program
<1> HIDE DEF w
<1> SUFFICES ASSUME NEW n \in 1 .. Lines, NEW i \in DOMAIN Image[n],
                    flash'[Image[n][i]] # "erased", n >= k
             PROVE  n = k /\ i <= off + 1
  BY <1>1 DEF UntouchedInv
<1>5. Image[n] \in Seq(Addr \ {DoneAddr})  BY ImageInRegion
<1>6. Image[n][i] \in Addr /\ i \in Nat /\ off \in Nat
  BY <1>5, PromptTypes
<1>7. CASE Image[n][i] = w
  <2>1. n = k /\ i = off + 1  BY <1>2, <1>3, <1>7 DEF EachWordOnce
  <2> QED  BY <1>6, <2>1
<1>8. CASE Image[n][i] # w
  <2>1. flash[Image[n][i]] # "erased"  BY <1>4, <1>6, <1>8
  <2>2. n = k /\ i <= off  BY <1>2, <2>1 DEF UntouchedInv
  <2> QED  BY <1>6, <2>2
<1> QED  BY <1>7, <1>8

LEMMA ProgrammedUntouched ==
  ASSUME NumbersFit, PromptIInv, UntouchedInv, TickProgrammed
  PROVE  UntouchedInv'
<1>1. /\ pc = "prog" /\ requested_line' = requested_line + 1
      /\ flash' = flash
  BY DEF TickProgrammed, NextRequest, hwVars
<1>2. state = "WAIT_LINE" /\ requested_line \in 1 .. Lines
  BY <1>1, RequestedInHand
<1> SUFFICES ASSUME NEW n \in 1 .. Lines, NEW i \in DOMAIN Image[n],
                    flash[Image[n][i]] # "erased", n >= requested_line + 1
             PROVE  FALSE
  BY <1>1 DEF UntouchedInv
<1>3. n >= requested_line /\ n # requested_line  BY <1>2, LinesNat
<1> QED  BY <1>2, <1>3 DEF UntouchedInv

LEMMA LinePhaseUntouched ==
  ASSUME Served, NumbersFit, EachWordOnce, PromptIInv, ExactInv,
         UntouchedInv, TickLinePhase, TimerRunsOut => Quiet,
         faults_left' = faults_left
  PROVE  UntouchedInv' /\ state' # "TIMEOUT"
<1> USE DEF Case, Goto, hwVars
<1>0. faults_left \in Nat /\ PlaceInv
  BY PromptTypes DEF TypeOK, EngineTypeOK
<1>1. CASE TickAskLine  BY <1>1, UntouchedFrame DEF TickAskLine
<1>2. CASE TickAskedLine  BY <1>2, UntouchedFrame DEF TickAskedLine
<1>3. CASE TickTerminator  BY <1>3, UntouchedFrame DEF TickTerminator
<1>4. CASE TickBadLine
  <2>1. Line = Expected  BY <1>4, ExpectedInHand DEF TickBadLine
  <2> QED  BY <1>4, <2>1, ExpectedLine DEF TickBadLine
<1>5. CASE TickRecord  BY <1>5, UntouchedFrame DEF TickRecord
<1>6. CASE TickProgramWord
  BY <1>0, <1>6, ProgramWordUntouched
  DEF TickProgramWord, NextWord, PlaceInv
<1>7. CASE TickProgramFails
  <2>1. ~MayRefuse(Words[off + 1], "new")
    BY <1>7, NextWordAccepted DEF TickProgramFails
  <2> QED  BY <1>0, <1>7, <2>1 DEF TickProgramFails, ReportsError
<1>8. CASE TickProgramWeak  BY <1>0, <1>8 DEF TickProgramWeak
<1>9. CASE TickProgrammed  BY <1>9, ProgrammedUntouched DEF TickProgrammed
<1>10. CASE TickWaitLine
  <2>1. timer_ticks > 0  BY <1>10, NoTimeout
  <2>2. state' = "WAIT_LINE"  BY <1>10, <2>1 DEF TickWaitLine, Countdown
  <2> QED  BY <1>10, <2>2, UntouchedFrame DEF TickWaitLine
<1> QED
  BY <1>1, <1>2, <1>3, <1>4, <1>5, <1>6, <1>7, <1>8, <1>9, <1>10
  DEF TickLinePhase

(* When the page loop ends, every word is erased.                          *)
LEMMA AllErased ==
  ASSUME PromptIInv, pc = "erase", off > LastPage
  PROVE  \A a \in Addr : flash[a] = "erased"
<1>1. PageOf \in [Addr -> 0 .. NPages - 1] /\ NPages \in Nat /\ off \in Nat
  BY FlashAssumption, PromptTypes DEF FlashAssumption
<1>2. \A a \in Addr : PageOf[a] < off  BY <1>1 DEF LastPage
<1> QED  BY <1>2 DEF PromptIInv, IInv, RegionInv, EraseInv

LEMMA ErasePhaseUntouched ==
  ASSUME PromptIInv, TickErasePhase, faults_left' = faults_left
  PROVE  UntouchedInv' /\ state' # "TIMEOUT"
<1>0. faults_left \in Nat /\ PlaceInv
  BY PromptTypes DEF TypeOK, EngineTypeOK
<1>1. CASE TickErase \/ TickErasePage
  BY <1>0, <1>1
  DEF TickErase, TickErasePage, Case, PlaceInv, UntouchedInv
<1>2. CASE TickEraseFails  BY <1>0, <1>2 DEF TickEraseFails
<1>3. CASE TickErased
  <2>1. /\ pc = "erase" /\ off > LastPage /\ flash' = flash
        /\ state' = "ASK_LINE"
    BY <1>3 DEF TickErased, Goto
  <2>2. \A a \in Addr : flash[a] = "erased"  BY <2>1, AllErased
  <2> QED  BY <2>1, <2>2, ImageInRegion DEF UntouchedInv
<1> QED  BY <1>1, <1>2, <1>3 DEF TickErasePhase

LEMMA FinalPhaseUntouched ==
  ASSUME PromptIInv, TickFinalPhase, faults_left' = faults_left,
         state # "TIMEOUT"
  PROVE  UntouchedInv' /\ state' # "TIMEOUT"
<1>0. faults_left \in Nat /\ PlaceInv
  BY PromptTypes DEF TypeOK, EngineTypeOK
<1>1. state' \in {"MARK_DONE", "BOOT", "TIMEOUT"}
  BY <1>0, FinalPhasePlaces
<1>2. CASE TickMarkFails
  <2>1. ~MayRefuse(DoneAddr, "set")
    BY <1>2
    DEF TickMarkFails, Case, PromptIInv, IInv, RegionInv, TransferInv,
        Clean, MayRefuse
  <2> QED  BY <1>0, <1>2, <2>1 DEF TickMarkFails, ReportsError
<1>3. CASE TickMark \/ TickMarked \/ TickBoot
  BY <1>1, <1>3 DEF TickMark, TickMarked, TickBoot, Case, Goto, UntouchedInv
<1>4. CASE TickTimeout  BY <1>4 DEF TickTimeout, Case
<1> QED  BY <1>2, <1>3, <1>4 DEF TickFinalPhase

LEMMA UntouchedStep ==
  ASSUME Served, NumbersFit, EachWordOnce, PromptIInv, QuietInv,
         [PromptNext]_vars, FaultFree'
  PROVE  UntouchedInv' /\ state' # "TIMEOUT"
<1>1. /\ FaultFree /\ faults_left' = faults_left
      /\ UntouchedInv /\ state # "TIMEOUT" /\ ExactInv
  BY FaultsUsedUp DEF QuietInv, FaultFree
<1>2. ASSUME UNCHANGED <<state, requested_line, flash>>,
             pc # "prog" \/ UNCHANGED <<pc, off>>
      PROVE  UntouchedInv' /\ state' # "TIMEOUT"
  BY <1>1, <1>2 DEF UntouchedInv
<1>3. CASE MainLoop /\ (TimerRunsOut => Quiet)
  <2>1. CASE TickDrainAck \/ TickDrainErr \/ TickDrained
    BY <1>2, <2>1 DEF TickDrainAck, TickDrainErr, TickDrained, hwVars
  <2>2. CASE TickVersionPhase
    BY <2>2, VersionPhasePlaces DEF PromptIInv, OrderInv, UntouchedInv
  <2> QED
    BY <1>1, <1>3, <2>1, <2>2, ErasePhaseUntouched, LinePhaseUntouched,
       FinalPhaseUntouched
    DEF MainLoop, Tick
<1>4. CASE Isr  BY <1>2, <1>4 DEF Isr, FeedByte, hwVars
<1>5. CASE AppAnswer \/ AppSilent \/ EarlyAnswer \/ Garble
  BY <1>2, <1>5
  DEF AppAnswer, AppSilent, EarlyAnswer, Garble, Answer, TakeRequest, hwVars
<1>6. CASE LoseByte \/ UNCHANGED vars
  BY <1>2, <1>6 DEF LoseByte, vars, engineVars, hwVars
<1>7. CASE Reset /\ Quiet
  BY <1>7 DEF Reset, RestartContext, UntouchedInv
<1> QED  BY <1>3, <1>4, <1>5, <1>6, <1>7 DEF PromptNext

-----------------------------------------------------------------------------
(* With a prompt application an upgrade fails only if a fault happened:    *)
(* neither the clear_rx after a line nor the drain of OK and ERR nor a     *)
(* reset costs the engine a retry (ST_ASK_LINE, ST_WAIT_LINE, parse_s3,    *)
(* ST_MARK_DONE).                                                          *)
THEOREM QuietEndsWell ==
  ASSUME Served, NumbersFit, EachWordOnce
  PROVE  PromptSpec => []QuietSessionEndsWell
<1>1. Init => QuietInv
  BY Bounds DEF Init, InitContext, QuietInv, ExactInv, UntouchedInv
<1>2. PromptIInv /\ QuietInv /\ [PromptNext]_vars => QuietInv'
  BY ExactStep, FaultsUsedUp, UntouchedStep DEF QuietInv
<1>3. PromptIInv /\ QuietInv => QuietSessionEndsWell
  <2> SUFFICES ASSUME PromptIInv, QuietInv, state = "TIMEOUT"
               PROVE  noise_left < MaxNoise \/ faults_left < MaxFaults
    BY DEF QuietSessionEndsWell
  <2>1. noise_left # MaxNoise \/ faults_left # MaxFaults
    BY DEF QuietInv, FaultFree
  <2>2. /\ noise_left \in 0 .. MaxNoise /\ MaxNoise \in Nat
        /\ faults_left \in Nat /\ faults_left <= MaxFaults
        /\ MaxFaults \in Nat
    BY PromptTypes, Bounds DEF TypeOK, EngineTypeOK, QuietInv
  <2> QED  BY <2>1, <2>2
<1>4. PromptSpec => []PromptIInv
  BY OnceIsApart, PromptInvariant, PTL
<1> QED  BY <1>1, <1>2, <1>3, <1>4, PTL DEF PromptSpec

=============================================================================
