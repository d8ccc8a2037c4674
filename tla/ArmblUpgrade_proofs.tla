------------------------ MODULE ArmblUpgrade_proofs -------------------------
(***************************************************************************)
(* Proofs about ArmblUpgrade, for every region, image, line length,        *)
(* timeout, retry count and bound.                                         *)
(***************************************************************************)
EXTENDS ArmblUpgrade, TLAPS, SequenceTheorems

-----------------------------------------------------------------------------
(* Messages and bytes.                                                     *)

(* Every line of the firmware file is a message (L? n is answered by one). *)
LEMMA FileIsMessages == \A n \in DOMAIN File : File[n] \in Message
<1> DEFINE Header == IF HasHeader THEN <<Junk>> ELSE <<>>
           Records == [n \in 1 .. Lines |-> Record(n)]
<1>1. Lines \in Nat  BY EngineAssumption DEF EngineAssumption, Lines
<1>2. /\ Junk \in Message /\ Terminator \in Message
      /\ \A n \in 1 .. Lines : Record(n) \in Message
  BY DEF Message
<1>3. Header \in Seq(Message)  BY <1>2
<1>4. Records \in Seq(Message)  BY <1>1, <1>2
<1>5. <<Terminator>> \in Seq(Message)  BY <1>2
<1>6. File = (Header \o Records) \o <<Terminator>>  BY DEF File
<1> HIDE DEF Header, Records
<1>7. Header \o Records \in Seq(Message)
  BY <1>3, <1>4, ConcatProperties
<1>8. File \in Seq(Message)  BY <1>5, <1>6, <1>7, ConcatProperties
<1> QED  BY <1>8

(* The answers to a request are messages, and each arrives as bytes.       *)
LEMMA AnswersAreMessages ==
  ASSUME NEW r \in Request, NEW m \in Answers(r)
  PROVE  m \in Message
BY FileIsMessages DEF Answers, Message

LEMMA FrameIsBytes ==
  ASSUME NEW m \in Message
  PROVE  Body(m) \o Eol \in Seq(Byte)
<1>1. BodySize(m) \in Nat
  BY EngineAssumption DEF EngineAssumption, BodySize
<1>2. Body(m) \in Seq(Byte)  BY <1>1 DEF Body, Byte
<1>3. CR \in Byte /\ NL \in Byte  BY DEF Byte
<1>4. <<NL>> \in Seq(Byte) /\ <<CR, NL>> \in Seq(Byte)  BY <1>3
<1>5. Eol = <<NL>> \/ Eol = <<CR, NL>>
  BY UpgradeAssumption DEF UpgradeAssumption
<1>6. Eol \in Seq(Byte)  BY <1>4, <1>5
<1> QED  BY <1>2, <1>6, ConcatProperties

(* What the parsers find in rx_buf: a version line reports one of Versions *)
(* and an S3 record is one of the image's.                                 *)
LEMMA LineParsed ==
  ASSUME NEW buf \in Seq(Byte)
  PROVE  /\ LineIn(buf).kind = "ver" => LineIn(buf).arg \in Versions
         /\ LineIn(buf).kind = "rec" =>
              \E n \in 1 .. Lines : LineIn(buf) = Record(n)
<1>1. CASE buf = <<>>  BY <1>1 DEF LineIn, Junk
<1>2. CASE buf # <<>>
  <2>1. buf[1] \in Byte  BY <1>2
  <2>2. /\ buf[1].of.kind = "ver" => buf[1].of.arg \in Versions
        /\ buf[1].of.kind = "rec" => \E n \in 1 .. Lines : buf[1].of = Record(n)
    BY <2>1 DEF Byte, CR, NL, Message, Version, Record, Terminator, Junk,
                Overlong
  <2>3. LineIn(buf) \in {buf[1].of, Junk}  BY <1>2 DEF LineIn
  <2> QED  BY <2>2, <2>3 DEF Junk
<1> QED  BY <1>1, <1>2

-----------------------------------------------------------------------------
(* Type correctness.                                                       *)

(* The constants the types need, without the rest of the assumptions.      *)
LEMMA LineMax == LINE_MAX \in Nat
BY EngineAssumption DEF EngineAssumption

LEMMA Bounds ==
  /\ MaxReqs \in Nat
  /\ version_timeout_ticks \in Nat /\ version_retries \in Nat
  /\ line_timeout_ticks \in Nat /\ line_retries \in Nat
  /\ HasLock \in BOOLEAN
  /\ JunkReasons \subseteq {"len", "addr", "hex", "csum"}
  /\ MaxNoise \in Nat /\ MaxFaults \in Nat /\ MaxResets \in Nat
  /\ InitFlash \subseteq [Addr -> Value]
BY FlashAssumption, EngineAssumption, UpgradeAssumption
DEF FlashAssumption, EngineAssumption, UpgradeAssumption

LEMMA DefaultTyped ==
  ASSUME NEW v \in Nat, NEW d \in Nat
  PROVE  OrDefault(v, d) \in Nat
BY DEF OrDefault

LEMMA ClearRxTyped ==
  ASSUME ClearRx
  PROVE  /\ rx_buf' \in Seq(Byte) /\ Len(rx_buf') <= LINE_MAX
         /\ rx_overflow' \in BOOLEAN /\ rx_line_ready' \in BOOLEAN
<1>1. rx_buf' = <<>>  BY DEF ClearRx
<1>2. rx_buf' \in Seq(Byte) /\ Len(rx_buf') <= LINE_MAX  BY <1>1, LineMax
<1>3. rx_overflow' \in BOOLEAN /\ rx_line_ready' \in BOOLEAN
  BY DEF ClearRx
<1> QED  BY <1>2, <1>3

LEMMA SendTyped ==
  ASSUME reqs \in Seq(Request), Len(reqs) <= MaxReqs,
         NEW r \in Request, Send(r)
  PROVE  reqs' \in Seq(Request) /\ Len(reqs') <= MaxReqs
BY Bounds DEF Send

LEMMA CountdownTyped ==
  ASSUME timer_ticks \in Nat, retry_left \in Nat,
         NEW wait \in States, NEW ask \in States, NEW giveUp \in States,
         Countdown(wait, ask, giveUp)
  PROVE  /\ timer_ticks' \in Nat /\ retry_left' \in Nat
         /\ state' \in States /\ pc' = "idle"
BY DEF Countdown, Goto, RetryUsed

LEMMA RequestTyped ==
  /\ VersionRequest \in Request
  /\ \A n \in Nat : LineRequest(n) \in Request
<1>1. VersionRequest \in Request  BY DEF VersionRequest, Request
<1>2. \A n \in Nat : n % 65536 \in Nat  BY SMT
<1>3. \A n \in Nat : LineRequest(n) \in Request
  BY <1>2, SMT DEF LineRequest, Request
<1> QED  BY <1>1, <1>3

LEMMA InitTyped == Init => TypeOK
<1> SUFFICES ASSUME Init PROVE TypeOK
  OBVIOUS
<1>1. /\ rx_buf \in Seq(Byte) /\ Len(rx_buf) <= LINE_MAX
      /\ wire \in Seq(Byte)
      /\ reqs \in Seq(Request)
  BY LineMax DEF Init, InitContext
<1>2. Len(reqs) <= MaxReqs  BY Bounds DEF Init
<1>3. FlashTypeOK /\ found \in [Addr -> Value]
  BY Bounds DEF Init, InitContext, FlashTypeOK
<1>4. app_version \in (0 .. 255) \X (0 .. 255)  BY DEF Init, InitContext
<1>5. /\ faults_left \in Nat
      /\ noise_left \in 0 .. MaxNoise /\ resets_left \in 0 .. MaxResets
  BY Bounds DEF Init
<1> QED
  BY <1>1, <1>2, <1>3, <1>4, <1>5
  DEF Init, InitContext, TypeOK, EngineTypeOK, States

LEMMA FeedByteTyped ==
  ASSUME EngineTypeOK, NEW b \in Byte, FeedByte(b)
  PROVE  EngineTypeOK'
<1>1. rx_buf' \in {rx_buf, <<>>} \/ (~Full /\ rx_buf' = Append(rx_buf, b))
  BY DEF FeedByte, rxVars
<1>2. rx_buf' \in Seq(Byte) /\ Len(rx_buf') <= LINE_MAX
  <2>1. rx_buf \in Seq(Byte) /\ Len(rx_buf) <= LINE_MAX
    BY DEF EngineTypeOK
  <2>2. CASE rx_buf' = rx_buf  BY <2>1, <2>2
  <2>3. CASE rx_buf' = <<>>  BY <2>3, LineMax
  <2>4. CASE ~Full /\ rx_buf' = Append(rx_buf, b)
    <3>1. Append(rx_buf, b) \in Seq(Byte)  BY <2>1
    <3>2. Len(Append(rx_buf, b)) = Len(rx_buf) + 1  BY <2>1
    <3>3. Len(rx_buf) + 1 <= LINE_MAX  BY <2>1, <2>4, LineMax DEF Full
    <3> QED  BY <2>4, <3>1, <3>2, <3>3
  <2> QED  BY <1>1, <2>2, <2>3, <2>4
<1>3. /\ rx_overflow' \in BOOLEAN /\ rx_line_ready' \in BOOLEAN
      /\ pending_err' \in {"none", "len", "addr", "hex", "csum", "flash"}
  BY DEF EngineTypeOK, FeedByte, rxVars
<1> QED
  BY <1>2, <1>3
  DEF FeedByte, EngineTypeOK, FlashTypeOK, verVars, hwVars, outVars

LEMMA VersionPhaseTyped ==
  ASSUME EngineTypeOK, TickVersionPhase
  PROVE  EngineTypeOK'
<1> USE DEF EngineTypeOK, FlashTypeOK, Goto, Case,
            rxVars, verVars, hwVars, outVars
<1>1. CASE TickInit
  BY <1>1, Bounds, DefaultTyped DEF TickInit, States
<1>2. CASE TickAskVer  BY <1>2, RequestTyped, SendTyped DEF TickAskVer
<1>3. CASE TickAskedVer
  BY <1>3, Bounds, DefaultTyped, ClearRxTyped DEF TickAskedVer, States
<1>4. CASE TickVersionLine
  <2>1. Line.arg \in (0 .. 255) \X (0 .. 255)
    BY <1>4, LineParsed, EngineAssumption
    DEF TickVersionLine, Line, EngineAssumption
  <2> QED  BY <1>4, <2>1, ClearRxTyped DEF TickVersionLine, States
<1>5. CASE TickWaitVer
  <2>1. /\ timer_ticks' \in Nat /\ retry_left' \in Nat
        /\ state' \in States /\ pc' = "idle"
    BY <1>5, CountdownTyped DEF TickWaitVer, States
  <2>2. /\ rx_buf' \in Seq(Byte) /\ Len(rx_buf') <= LINE_MAX
        /\ rx_overflow' \in BOOLEAN /\ rx_line_ready' \in BOOLEAN
    BY <1>5, ClearRxTyped DEF TickWaitVer
  <2> QED  BY <1>5, <2>1, <2>2 DEF TickWaitVer
<1>6. CASE TickDecide  BY <1>6 DEF TickDecide, States
<1> QED  BY <1>1, <1>2, <1>3, <1>4, <1>5, <1>6 DEF TickVersionPhase

LEMMA ErasePhaseTyped ==
  ASSUME EngineTypeOK, TickErasePhase
  PROVE  EngineTypeOK'
<1> USE DEF EngineTypeOK, FlashTypeOK, Goto, Case,
            rxVars, verVars, hwVars, outVars
<1>1. CASE TickErase  BY <1>1 DEF TickErase
<1>2. CASE TickErasePage
  <2>1. flash' \in [Addr -> Value]
    BY <1>2 DEF TickErasePage, ErasePage, Value
  <2> QED  BY <1>2, <2>1 DEF TickErasePage
<1>3. CASE TickEraseFails  BY <1>3, Bounds DEF TickEraseFails, GiveUp, States
<1>4. CASE TickErased
  BY <1>4, Bounds, DefaultTyped DEF TickErased, UnlockedAfterErase, States
<1> QED  BY <1>1, <1>2, <1>3, <1>4 DEF TickErasePhase

LEMMA ProgramTyped ==
  ASSUME flash \in [Addr -> Value], NEW a, NEW v \in Value, Program(a, v)
  PROVE  flash' \in [Addr -> Value]
BY DEF Program

LEMMA ReportsErrorTyped ==
  ASSUME flash \in [Addr -> Value], faults_left \in Nat,
         NEW a, NEW v \in Value, ReportsError(a, v)
  PROVE  flash' \in [Addr -> Value] /\ faults_left' \in Nat
<1>1. faults_left' \in Nat  BY DEF ReportsError
<1>2. PICK x \in ContentsAfterError(a, v) : Program(a, x)
  BY DEF ReportsError
<1>3. CASE a \in Addr
  <2>1. x \in Value  BY <1>3 DEF ContentsAfterError, Value
  <2> QED  BY <1>1, <1>2, <2>1, ProgramTyped
<1>4. CASE a \notin Addr  BY <1>1, <1>2, <1>4 DEF Program
<1> QED  BY <1>3, <1>4

LEMMA RejectTyped ==
  ASSUME EngineTypeOK,
         NEW err \in {"len", "addr", "hex", "csum", "flash"}, Reject(err),
         flash' \in [Addr -> Value], faults_left' \in Nat
  PROVE  EngineTypeOK'
<1>1. /\ retry_left' \in Nat
      /\ pending_err' \in {"none", "len", "addr", "hex", "csum", "flash"}
      /\ state' \in States /\ pc' = "idle"
  BY DEF EngineTypeOK, Reject, Goto, GiveUp, States
<1>2. /\ rx_buf' \in Seq(Byte) /\ Len(rx_buf') <= LINE_MAX
      /\ rx_overflow' \in BOOLEAN /\ rx_line_ready' \in BOOLEAN
  BY ClearRxTyped DEF Reject
<1> QED
  BY <1>1, <1>2
  DEF Reject, NextRequest, EngineTypeOK, FlashTypeOK, verVars, outVars

LEMMA LinePhaseTyped ==
  ASSUME EngineTypeOK, TickLinePhase
  PROVE  EngineTypeOK'
<1> USE DEF EngineTypeOK, FlashTypeOK, Goto, Case,
            rxVars, verVars, hwVars, outVars
<1>0. "new" \in Value /\ "bad" \in Value  BY DEF Value
<1>1. CASE TickAskLine
  BY <1>1, RequestTyped, SendTyped DEF TickAskLine
<1>2. CASE TickAskedLine
  BY <1>2, Bounds, DefaultTyped, ClearRxTyped DEF TickAskedLine, States
<1>3. CASE TickTerminator
  BY <1>3, ClearRxTyped DEF TickTerminator, States
<1>4. CASE TickBadLine
  <2>1. PICK err \in JunkReasons : Reject(err)  BY <1>4 DEF TickBadLine
  <2>2. err \in {"len", "addr", "hex", "csum", "flash"}  BY Bounds
  <2> QED  BY <1>4, <2>1, <2>2, RejectTyped DEF TickBadLine
<1>5. CASE TickRecord  BY <1>5 DEF TickRecord
<1>6. CASE TickProgramWord
  <2>1. flash' \in [Addr -> Value]
    BY <1>0, <1>6, ProgramTyped DEF TickProgramWord
  <2> QED  BY <1>6, <2>1 DEF TickProgramWord, NextWord
<1>7. CASE TickProgramFails
  <2>1. flash' \in [Addr -> Value] /\ faults_left' \in Nat
    BY <1>0, <1>7, ReportsErrorTyped DEF TickProgramFails
  <2> QED  BY <1>7, <2>1, RejectTyped DEF TickProgramFails
<1>8. CASE TickProgramWeak
  <2>1. flash' \in [Addr -> Value]
    BY <1>0, <1>8, ProgramTyped DEF TickProgramWeak
  <2>2. faults_left' \in Nat  BY <1>8 DEF TickProgramWeak
  <2> QED
    BY <1>8, <2>1, <2>2, RejectTyped DEF TickProgramWeak, ReadBackDiffers
<1>9. CASE TickProgrammed
  BY <1>9, Bounds, DefaultTyped, ClearRxTyped
  DEF TickProgrammed, NextRequest, States
<1>10. CASE TickWaitLine
  <2>1. /\ timer_ticks' \in Nat /\ retry_left' \in Nat
        /\ state' \in States /\ pc' = "idle"
    BY <1>10, CountdownTyped DEF TickWaitLine, GiveUp, States
  <2> QED  BY <1>10, <2>1 DEF TickWaitLine
<1> QED
  BY <1>1, <1>2, <1>3, <1>4, <1>5, <1>6, <1>7, <1>8, <1>9, <1>10
  DEF TickLinePhase

LEMMA FinalPhaseTyped ==
  ASSUME EngineTypeOK, TickFinalPhase
  PROVE  EngineTypeOK'
<1> USE DEF EngineTypeOK, FlashTypeOK, Goto, Case,
            rxVars, verVars, hwVars, outVars
<1>1. CASE TickMark
  <2>1. flash' \in [Addr -> Value]
    BY <1>1, ProgramTyped DEF TickMark, Value
  <2>2. faults_left' \in Nat  BY <1>1 DEF TickMark
  <2> QED  BY <1>1, <2>1, <2>2 DEF TickMark
<1>2. CASE TickMarkFails
  <2>1. flash' \in [Addr -> Value] /\ faults_left' \in Nat
    BY <1>2, ReportsErrorTyped DEF TickMarkFails, Value
  <2> QED  BY <1>2, <2>1 DEF TickMarkFails, States
<1>3. CASE TickMarked  BY <1>3 DEF TickMarked, States
<1>4. CASE TickBoot  BY <1>4 DEF TickBoot
<1>5. CASE TickTimeout  BY <1>5 DEF TickTimeout, States
<1> QED  BY <1>1, <1>2, <1>3, <1>4, <1>5 DEF TickFinalPhase

LEMMA TickTyped ==
  ASSUME EngineTypeOK, Tick
  PROVE  EngineTypeOK'
<1> USE DEF EngineTypeOK, FlashTypeOK, rxVars, verVars, hwVars, outVars
<1>1. CASE TickDrainAck  BY <1>1 DEF TickDrainAck
<1>2. CASE TickDrainErr  BY <1>2 DEF TickDrainErr
<1>3. CASE TickDrained  BY <1>3 DEF TickDrained
<1> HIDE DEF EngineTypeOK
<1> QED
  BY <1>1, <1>2, <1>3, VersionPhaseTyped, ErasePhaseTyped, LinePhaseTyped,
     FinalPhaseTyped
  DEF Tick

LEMMA StepTyped ==
  ASSUME TypeOK, [Next]_vars
  PROVE  TypeOK'
<1> USE DEF TypeOK
<1>0. /\ EngineTypeOK /\ wire \in Seq(Byte) /\ found \in [Addr -> Value]
      /\ flash \in [Addr -> Value]
      /\ noise_left \in 0 .. MaxNoise /\ resets_left \in 0 .. MaxResets
  BY DEF EngineTypeOK, FlashTypeOK
<1>1. CASE MainLoop  BY <1>0, <1>1, TickTyped DEF MainLoop, linkVars
<1>2. CASE Isr
  <2>1. Head(wire) \in Byte /\ Tail(wire) \in Seq(Byte)
    BY <1>0, <1>2 DEF Isr
  <2> QED  BY <1>0, <1>2, <2>1, FeedByteTyped DEF Isr
<1>3. ASSUME TakeRequest
      PROVE  EngineTypeOK' /\ resets_left' = resets_left /\ found' = found
  <2>1. reqs \in Seq(Request) /\ reqs # <<>> /\ Len(reqs) <= MaxReqs
    BY <1>0, <1>3 DEF EngineTypeOK, TakeRequest
  <2>2. Tail(reqs) \in Seq(Request) /\ Len(Tail(reqs)) = Len(reqs) - 1
    BY <2>1
  <2>3. Len(Tail(reqs)) <= MaxReqs  BY <2>1, <2>2, Bounds
  <2> QED
    BY <1>0, <1>3, <2>2, <2>3
    DEF TakeRequest, EngineTypeOK, FlashTypeOK, rxVars, verVars, hwVars
<1>3a. ASSUME Answer
      PROVE  /\ EngineTypeOK' /\ resets_left' = resets_left
             /\ found' = found /\ wire' \in Seq(Byte)
  <2>1. Head(reqs) \in Request
    BY <1>0, <1>3a DEF EngineTypeOK, Answer, TakeRequest
  <2>2. wire' \in Seq(Byte)
    BY <1>3a, <2>1, AnswersAreMessages, FrameIsBytes DEF Answer
  <2> QED  BY <1>3, <1>3a, <2>2 DEF Answer
<1>4. CASE AppAnswer  BY <1>0, <1>3a, <1>4 DEF AppAnswer
<1>5. CASE AppSilent  BY <1>0, <1>3, <1>5 DEF AppSilent
<1>6. ASSUME Noise
      PROVE  noise_left' \in 0 .. MaxNoise
  BY <1>0, <1>6, Bounds DEF Noise
<1>7. CASE Garble
  <2>1. Junk \in Message /\ Overlong \in Message  BY DEF Message
  <2>2. /\ Body(Junk) \o Eol \in Seq(Byte)
        /\ Body(Overlong) \o Eol \in Seq(Byte)
        /\ <<>> \in Seq(Byte)
    BY <2>1, FrameIsBytes
  <2>3. wire' \in Seq(Byte)  BY <1>7, <2>2 DEF Garble
  <2> QED  BY <1>0, <1>3, <1>6, <1>7, <2>3 DEF Garble
<1>6a. CASE EarlyAnswer  BY <1>3a, <1>6, <1>6a DEF EarlyAnswer
<1>8. ASSUME UNCHANGED engineVars
      PROVE  EngineTypeOK'
  BY <1>0, <1>8
  DEF EngineTypeOK, FlashTypeOK, engineVars, rxVars, verVars, hwVars, outVars
<1>9. CASE LoseByte
  <2>1. Tail(wire) \in Seq(Byte)  BY <1>0, <1>9 DEF LoseByte
  <2> QED  BY <1>0, <1>6, <1>8, <1>9, <2>1 DEF LoseByte
<1>10. CASE StrayNewline
  <2>1. NL \in Byte  BY DEF Byte
  <2>2. <<NL>> \in Seq(Byte) /\ Tail(wire) \in Seq(Byte)
    BY <1>0, <1>10, <2>1 DEF StrayNewline
  <2>3. <<NL>> \o Tail(wire) \in Seq(Byte)  BY <2>2, ConcatProperties
  <2> QED  BY <1>0, <1>6, <1>8, <1>10, <2>3 DEF StrayNewline
<1>10a. CASE UnrelatedLine
  <2>1. Junk \in Message  BY DEF Message
  <2>2. wire' \in Seq(Byte)  BY <1>10a, <2>1, FrameIsBytes DEF UnrelatedLine
  <2> QED  BY <1>0, <1>8, <1>10a, <2>2 DEF UnrelatedLine
<1>11. CASE Reset
  <2>1. rx_buf' \in Seq(Byte) /\ Len(rx_buf') <= LINE_MAX
    BY <1>11, LineMax DEF Reset, RestartContext
  <2>2. FlashTypeOK'
    BY <1>0, <1>11, Bounds
    DEF Reset, RestartContext, EngineTypeOK, FlashTypeOK
  <2>3. app_version' \in (0 .. 255) \X (0 .. 255)
    BY <1>11 DEF Reset, RestartContext
  <2>4. resets_left' \in 0 .. MaxResets  BY <1>0, <1>11, Bounds DEF Reset
  <2> QED
    BY <1>0, <1>11, <2>1, <2>2, <2>3, <2>4
    DEF Reset, RestartContext, EngineTypeOK, States
<1>12. CASE UNCHANGED vars
  BY <1>0, <1>8, <1>12 DEF vars, linkVars
<1> QED
  BY <1>1, <1>2, <1>4, <1>5, <1>6a, <1>7, <1>9, <1>10, <1>10a, <1>11,
     <1>12
  DEF Next

(* The variables keep their types, the receive buffer its bound and the    *)
(* queue of requests its own, however ticks, interrupts, transmission      *)
(* faults and resets interleave.                                           *)
THEOREM Typing == Spec => []TypeOK
BY InitTyped, StepTyped, PTL DEF Spec

-----------------------------------------------------------------------------
(* The receive buffer.                                                     *)

(* A complete line is never empty and never coexists with an overflow, so  *)
(* neither newline branch of armbl_feed_byte touches it.                   *)
ReadyInv == rx_line_ready => rx_buf # <<>> /\ ~rx_overflow

LEMMA FeedByteKeepsReadyLine ==
  ASSUME ReadyInv, NEW b, FeedByte(b)
  PROVE  /\ ReadyInv'
         /\ rx_line_ready => rx_buf' = rx_buf /\ rx_line_ready'
BY DEF FeedByte, ReadyInv, Holding, Stripped, rxVars

LEMMA TickClearsOrKeeps ==
  ASSUME Tick
  PROVE  ClearRx \/ UNCHANGED rxVars
<1> USE DEF Reject, NextWord
<1>1. CASE TickDrainAck \/ TickDrainErr \/ TickDrained
  BY <1>1 DEF TickDrainAck, TickDrainErr, TickDrained
<1>2. CASE TickVersionPhase
  BY <1>2 DEF TickVersionPhase, TickInit, TickAskVer, TickAskedVer,
              TickVersionLine, TickWaitVer, TickDecide
<1>3. CASE TickErasePhase
  BY <1>3 DEF TickErasePhase, TickErase, TickErasePage, TickEraseFails,
              TickErased
<1>4. CASE TickLinePhase
  BY <1>4 DEF TickLinePhase, TickAskLine, TickAskedLine, TickTerminator,
              TickBadLine, TickRecord, TickProgramWord, TickProgramFails,
              TickProgramWeak, ReadBackDiffers, TickProgrammed, TickWaitLine
<1>5. CASE TickFinalPhase
  BY <1>5 DEF TickFinalPhase, TickMark, TickMarkFails, TickMarked, TickBoot,
              TickTimeout
<1> QED  BY <1>1, <1>2, <1>3, <1>4, <1>5 DEF Tick

LEMMA ReadyStep ==
  ASSUME ReadyInv, [Next]_vars
  PROVE  /\ ReadyInv'
         /\ rx_line_ready /\ rx_line_ready' => rx_buf' = rx_buf
<1>1. CASE MainLoop
  <2>1. ClearRx \/ UNCHANGED rxVars
    BY <1>1, TickClearsOrKeeps DEF MainLoop
  <2> QED  BY <2>1 DEF ClearRx, rxVars, ReadyInv
<1>2. CASE Isr  BY <1>2, FeedByteKeepsReadyLine DEF Isr
<1>3. CASE AppAnswer \/ AppSilent \/ EarlyAnswer \/ Garble
  BY <1>3 DEF AppAnswer, AppSilent, EarlyAnswer, Garble, Answer, TakeRequest, rxVars, ReadyInv
<1>4. CASE LoseByte \/ StrayNewline \/ UnrelatedLine \/ UNCHANGED vars
  BY <1>4
  DEF LoseByte, StrayNewline, UnrelatedLine, vars, engineVars, rxVars, ReadyInv
<1>5. CASE Reset  BY <1>5 DEF Reset, RestartContext, ReadyInv
<1> QED  BY <1>1, <1>2, <1>3, <1>4, <1>5 DEF Next

(* A line that waits for armbl_tick, or that armbl_tick is parsing and     *)
(* programming, is not changed by armbl_feed_byte in the interrupt.        *)
THEOREM LineFrozen == Spec => ReadyLineFrozen
<1>1. Init => ReadyInv  BY DEF Init, InitContext, ReadyInv
<1>2. ReadyInv /\ [Next]_vars => ReadyInv'  BY ReadyStep
<1>3. ReadyInv /\ [Next]_vars
        => [rx_line_ready /\ rx_line_ready' => rx_buf' = rx_buf]_vars
  BY ReadyStep
<1> QED  BY <1>1, <1>2, <1>3, PTL DEF Spec, ReadyLineFrozen

-----------------------------------------------------------------------------
(* The region.                                                             *)

Clean ==
  /\ unlocked
  /\ flash[DoneAddr] = "erased"
  /\ \A a \in Addr : flash[a] \in {"erased", "new", "bad"}

(* The state is the one the point reached inside armbl_tick belongs to.    *)
PlaceInv ==
  /\ pc = "erase" => state = "ERASE"
  /\ pc = "asked" => state \in {"ASK_VER", "ASK_LINE"}
  /\ pc = "prog" => state = "WAIT_LINE" /\ rx_line_ready /\ Line.kind = "rec"
  /\ pc = "marked" => state = "MARK_DONE"

(* The page loop has erased the pages before off.                          *)
EraseInv ==
  pc = "erase" =>
    unlocked /\ \A a \in Addr : PageOf[a] < off => flash[a] = "erased"

TransferInv ==
  state \in {"ASK_LINE", "WAIT_LINE", "MARK_DONE"} /\ pc # "marked" => Clean

RegionInv == PlaceInv /\ EraseInv /\ TransferInv

(* Steps that leave the place, the line, the region and its lock alone.    *)
LEMMA RegionFrame ==
  ASSUME RegionInv,
         UNCHANGED <<state, pc, off, flash, unlocked, rx_buf, rx_line_ready>>
  PROVE  RegionInv'
BY DEF RegionInv, PlaceInv, EraseInv, TransferInv, Clean, Line

(* Steps that end a tick in a state outside the transfer.                  *)
LEMMA LeaveTransfer ==
  ASSUME pc' = "idle", state' \notin {"ASK_LINE", "WAIT_LINE", "MARK_DONE"}
  PROVE  RegionInv'
BY DEF RegionInv, PlaceInv, EraseInv, TransferInv

(* Steps that end a tick within the transfer.                              *)
LEMMA StayInTransfer ==
  ASSUME RegionInv, pc # "marked",
         state \in {"ASK_LINE", "WAIT_LINE", "MARK_DONE"},
         pc' = "idle", UNCHANGED <<flash, unlocked>>
  PROVE  RegionInv'
BY DEF RegionInv, PlaceInv, EraseInv, TransferInv, Clean

LEMMA CountdownPlaces ==
  ASSUME NEW wait, NEW ask, NEW giveUp, Countdown(wait, ask, giveUp)
  PROVE  pc' = "idle" /\ state' \in {wait, ask, giveUp}
BY DEF Countdown, Goto

LEMMA VersionPhaseRegion ==
  ASSUME RegionInv, TickVersionPhase
  PROVE  RegionInv'
<1> USE DEF Goto, Case
<1>1. CASE TickInit  BY <1>1, LeaveTransfer DEF TickInit
<1>2. CASE TickAskVer
  BY <1>2 DEF TickAskVer, RegionInv, PlaceInv, EraseInv, TransferInv
<1>3. CASE TickAskedVer  BY <1>3, LeaveTransfer DEF TickAskedVer
<1>4. CASE TickVersionLine  BY <1>4, LeaveTransfer DEF TickVersionLine
<1>5. CASE TickWaitVer
  BY <1>5, CountdownPlaces, LeaveTransfer DEF TickWaitVer
<1>6. CASE TickDecide  BY <1>6, LeaveTransfer DEF TickDecide
<1> QED  BY <1>1, <1>2, <1>3, <1>4, <1>5, <1>6 DEF TickVersionPhase

LEMMA ErasePhaseRegion ==
  ASSUME TypeOK, RegionInv, TickErasePhase
  PROVE  RegionInv'
<1>0. /\ flash \in [Addr -> Value] /\ off \in Nat
      /\ DoneAddr \in Addr /\ PageOf \in [Addr -> 0 .. NPages - 1]
      /\ NPages \in Nat
  BY FlashAssumption
  DEF TypeOK, EngineTypeOK, FlashTypeOK, FlashAssumption
<1>1. CASE TickErase
  BY <1>0, <1>1
  DEF TickErase, Case, RegionInv, PlaceInv, EraseInv, TransferInv
<1>2. CASE TickErasePage
  <2>1. /\ pc = "erase" /\ pc' = "erase" /\ state = "ERASE"
        /\ state' = "ERASE" /\ unlocked /\ unlocked' /\ off' = off + 1
    BY <1>2 DEF TickErasePage, RegionInv, PlaceInv, EraseInv
  <2>2. ASSUME NEW a \in Addr, PageOf[a] < off + 1
        PROVE  flash'[a] = "erased"
    <3>1. CASE PageOf[a] = off
      BY <1>2, <3>1 DEF TickErasePage, ErasePage
    <3>2. CASE PageOf[a] < off
      BY <1>2, <2>1, <3>2
      DEF TickErasePage, ErasePage, RegionInv, EraseInv
    <3> QED  BY <1>0, <2>2, <3>1, <3>2
  <2> QED
    BY <2>1, <2>2 DEF RegionInv, PlaceInv, EraseInv, TransferInv
<1>3. CASE TickEraseFails
  BY <1>3, LeaveTransfer DEF TickEraseFails, Goto, GiveUp
<1>4. CASE TickErased
  <2>1. \A a \in Addr : PageOf[a] < off
    BY <1>0, <1>4 DEF TickErased, LastPage
  <2>2. Clean
    BY <1>0, <1>4, <2>1 DEF TickErased, RegionInv, EraseInv, Clean
  <2> QED
    BY <1>4, <2>2
    DEF TickErased, UnlockedAfterErase, Goto, RegionInv, PlaceInv,
        EraseInv, TransferInv, Clean
<1> QED  BY <1>1, <1>2, <1>3, <1>4 DEF TickErasePhase

(* The words of a record lie in the region and spare the sentinel.         *)
LEMMA WordsInRegion ==
  ASSUME TypeOK, Line.kind = "rec", off < Len(Words)
  PROVE  Words[off + 1] \in Addr \ {DoneAddr}
<1>1. rx_buf \in Seq(Byte) /\ off \in Nat
  BY DEF TypeOK, EngineTypeOK
<1>2. PICK n \in 1 .. Lines : Line = Record(n)
  BY <1>1, LineParsed DEF Line
<1>3. Words = Image[n]  BY <1>2 DEF Words, Record
<1>4. Image \in Seq(Seq(Addr \ {DoneAddr}))
  BY EngineAssumption DEF EngineAssumption
<1>5. Image[n] \in Seq(Addr \ {DoneAddr})  BY <1>2, <1>4 DEF Lines
<1>6. off + 1 \in 1 .. Len(Image[n])  BY <1>1, <1>3, <1>5
<1> QED  BY <1>3, <1>5, <1>6

LEMMA RejectRegion ==
  ASSUME RegionInv, pc # "marked", state = "WAIT_LINE", NEW err, Reject(err),
         Clean => Clean'
  PROVE  RegionInv'
BY DEF Reject, Goto, RegionInv, PlaceInv, EraseInv, TransferInv

LEMMA LinePhaseRegion ==
  ASSUME TypeOK, RegionInv, TickLinePhase
  PROVE  RegionInv'
<1> USE DEF Goto, Case
<1>0. flash \in [Addr -> Value]  BY DEF TypeOK, EngineTypeOK, FlashTypeOK
<1>1. CASE TickAskLine
  BY <1>1
  DEF TickAskLine, hwVars, RegionInv, PlaceInv, EraseInv, TransferInv, Clean
<1>2. CASE TickAskedLine
  BY <1>2, StayInTransfer DEF TickAskedLine, hwVars
<1>3. CASE TickTerminator
  BY <1>3, StayInTransfer DEF TickTerminator, hwVars
<1>4. CASE TickBadLine
  BY <1>4, RejectRegion DEF TickBadLine, Reject, Clean
<1>5. CASE TickRecord
  BY <1>5
  DEF TickRecord, hwVars, rxVars, Line, RegionInv, PlaceInv, EraseInv,
      TransferInv, Clean
<1>6. ASSUME pc = "prog", off < Len(Words),
             NEW v, Clean => v \in {"erased", "new", "bad"},
             Program(Words[off + 1], v),
             unlocked' = unlocked
      PROVE  Clean => Clean'
  <2>1. Words[off + 1] \in Addr \ {DoneAddr}
    BY <1>6, WordsInRegion DEF RegionInv, PlaceInv
  <2> QED  BY <1>0, <1>6, <2>1 DEF Program, Clean
<1>7. CASE TickProgramWord
  <2>1. pc = "prog" /\ pc' = "prog" /\ state = "WAIT_LINE" /\ state' = state
    BY <1>7 DEF TickProgramWord, NextWord, RegionInv, PlaceInv
  <2>2. Clean'
    BY <1>6, <1>7, <2>1
    DEF TickProgramWord, NextWord, RegionInv, TransferInv
  <2> QED
    BY <1>7, <2>1, <2>2
    DEF TickProgramWord, NextWord, rxVars, Line, RegionInv, PlaceInv,
        EraseInv, TransferInv
<1>8. CASE TickProgramFails
  <2>1. PICK x \in ContentsAfterError(Words[off + 1], "new") :
          Program(Words[off + 1], x)
    BY <1>8 DEF TickProgramFails, ReportsError
  <2>2. pc = "prog" /\ off < Len(Words) /\ unlocked' = unlocked
    BY <1>8 DEF TickProgramFails, Reject
  <2>3. Words[off + 1] \in Addr
    BY <2>2, WordsInRegion DEF RegionInv, PlaceInv
  <2>4. Clean => x \in {"erased", "new", "bad"}
    BY <2>3 DEF ContentsAfterError, Clean
  <2>5. Clean => Clean'  BY <1>6, <2>1, <2>2, <2>4
  <2> QED
    BY <1>8, <2>5, RejectRegion DEF TickProgramFails, RegionInv, PlaceInv
<1>9. CASE TickProgramWeak
  <2>1. Clean => Clean'
    BY <1>6, <1>9 DEF TickProgramWeak, ReadBackDiffers, Reject
  <2> QED
    BY <1>9, <2>1, RejectRegion
    DEF TickProgramWeak, ReadBackDiffers, RegionInv, PlaceInv
<1>10. CASE TickProgrammed
  BY <1>10, StayInTransfer
  DEF TickProgrammed, hwVars, RegionInv, PlaceInv
<1>11. CASE TickWaitLine
  BY <1>11, CountdownPlaces, StayInTransfer DEF TickWaitLine, hwVars
<1> QED
  BY <1>1, <1>2, <1>3, <1>4, <1>5, <1>7, <1>8, <1>9, <1>10, <1>11
  DEF TickLinePhase

LEMMA FinalPhaseRegion ==
  ASSUME RegionInv, TickFinalPhase
  PROVE  RegionInv'
<1> USE DEF Goto, Case
<1>1. CASE TickMark
  BY <1>1 DEF TickMark, RegionInv, PlaceInv, EraseInv, TransferInv
<1>2. CASE TickMarkFails  BY <1>2, LeaveTransfer DEF TickMarkFails
<1>3. CASE TickMarked  BY <1>3, LeaveTransfer DEF TickMarked
<1>4. CASE TickBoot
  BY <1>4 DEF TickBoot, RegionInv, PlaceInv, EraseInv, TransferInv
<1>5. CASE TickTimeout  BY <1>5, LeaveTransfer DEF TickTimeout
<1> QED  BY <1>1, <1>2, <1>3, <1>4, <1>5 DEF TickFinalPhase

LEMMA RegionStep ==
  ASSUME TypeOK, ReadyInv, RegionInv, [Next]_vars
  PROVE  RegionInv'
<1>1. CASE MainLoop
  <2>1. CASE TickDrainAck \/ TickDrainErr \/ TickDrained
    BY <2>1
    DEF TickDrainAck, TickDrainErr, TickDrained, rxVars, hwVars, Line,
        RegionInv, PlaceInv, EraseInv, TransferInv, Clean
  <2> QED
    BY <1>1, <2>1, VersionPhaseRegion, ErasePhaseRegion, LinePhaseRegion,
       FinalPhaseRegion
    DEF MainLoop, Tick
<1>2. CASE Isr
  <2>1. UNCHANGED <<state, pc, off, flash, unlocked>>
    BY <1>2 DEF Isr, FeedByte, hwVars
  <2>2. rx_line_ready => rx_buf' = rx_buf /\ rx_line_ready'
    BY <1>2, FeedByteKeepsReadyLine DEF Isr
  <2> QED
    BY <2>1, <2>2
    DEF Line, RegionInv, PlaceInv, EraseInv, TransferInv, Clean
<1>3. CASE AppAnswer \/ AppSilent \/ EarlyAnswer \/ Garble
  BY <1>3, RegionFrame
  DEF AppAnswer, AppSilent, EarlyAnswer, Garble, Answer, TakeRequest, rxVars, hwVars
<1>4. CASE LoseByte \/ StrayNewline \/ UnrelatedLine \/ UNCHANGED vars
  BY <1>4, RegionFrame
  DEF LoseByte, StrayNewline, UnrelatedLine, vars, engineVars, rxVars, hwVars
<1>5. CASE Reset  BY <1>5, LeaveTransfer DEF Reset, RestartContext
<1> QED  BY <1>1, <1>2, <1>3, <1>4, <1>5 DEF Next

IInv == TypeOK /\ ReadyInv /\ RegionInv

LEMMA Invariance == Spec => []IInv
<1>1. Init => IInv
  BY InitTyped
  DEF Init, InitContext, IInv, ReadyInv, RegionInv, PlaceInv, EraseInv,
      TransferInv
<1>2. IInv /\ [Next]_vars => IInv'
  BY StepTyped, ReadyStep, RegionStep DEF IInv
<1> QED  BY <1>1, <1>2, PTL DEF Spec

(* Until the sentinel is written, an upgrade in progress has nothing of    *)
(* the old image and no sentinel in flash, wherever it was interrupted.    *)
THEOREM FreshRegion == Spec => []NothingOldSurvives
<1>1. IInv => NothingOldSurvives
  BY DEF IInv, RegionInv, TransferInv, Clean, NothingOldSurvives
<1> QED  BY <1>1, Invariance, PTL

(* No write of the engine meets a locked controller, and none is refused   *)
(* that is the first of this upgrade to its word: neither a word of a      *)
(* record nor the sentinel (hooks_flash_erase before parse_s3 and before   *)
(* ST_MARK_DONE).                                                          *)
THEOREM RefusedIfWritten == Spec => []RefusedOnlyIfWritten
<1>1. ASSUME IInv, pc = "prog", off < Len(Words)
      PROVE  /\ unlocked
             /\ MayRefuse(Words[off + 1], "new") =>
                  flash[Words[off + 1]] \in {"new", "bad"}
  <2>1. Words[off + 1] \in Addr
    BY <1>1, WordsInRegion DEF IInv, RegionInv, PlaceInv
  <2>2. Clean  BY <1>1 DEF IInv, RegionInv, PlaceInv, TransferInv
  <2> QED  BY <2>1, <2>2 DEF Clean, MayRefuse
<1>2. ASSUME IInv, pc = "switch", state = "MARK_DONE"
      PROVE  ~MayRefuse(DoneAddr, "set")
  BY <1>2 DEF IInv, RegionInv, TransferInv, Clean, MayRefuse
<1>3. IInv => RefusedOnlyIfWritten  BY <1>1, <1>2 DEF RefusedOnlyIfWritten
<1> QED  BY <1>3, Invariance, PTL

=============================================================================
