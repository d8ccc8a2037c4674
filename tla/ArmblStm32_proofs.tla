-------------------------- MODULE ArmblStm32_proofs --------------------------
(***************************************************************************)
(* Proofs about ArmblUpgrade on a controller that reports an error for a   *)
(* word it already holds, unless the word is transparent (STM32F0,         *)
(* STM32F1), when resets find the line quiet.                              *)
(*                                                                         *)
(* Records carry no line number, and with answers late or lost the line in *)
(* rx_buf may be an earlier one, sent again.  The controller tells: such a *)
(* record was acknowledged, so its words are in flash, the first of them   *)
(* that is not transparent is refused, and the record is never taken for   *)
(* the requested one.                                                      *)
(***************************************************************************)
EXTENDS ArmblUpgrade_proofs

(* A record sent twice is accepted twice when it has no words, or when     *)
(* each of its words is made of the halves 0x0000 and 0xFFFF.              *)
EachRecordTells ==
  \A n \in 1 .. Lines :
    \E i \in DOMAIN Image[n] : Image[n][i] \notin Transparent

-----------------------------------------------------------------------------
(* The invariant.                                                          *)

(* A line that may be under way when line k is the last one asked for.     *)
Due(m, k) ==
  /\ \A n \in 1 .. Lines : m = Record(n) => n <= k
  /\ m = Terminator => k > Lines

AllDue(bytes, k) == \A i \in DOMAIN bytes : Due(bytes[i].of, k)

RequestsDue(queue, k) ==
  \A i \in DOMAIN queue : queue[i].kind = "L?" => queue[i].n <= k

(* Nothing arrives before it was asked for.                                *)
ArrivingInv ==
  /\ RequestsDue(reqs, requested_line)
  /\ AllDue(wire, requested_line)
  /\ AllDue(rx_buf, requested_line)

PhaseInv ==
  state \in {"INIT", "ASK_VER", "WAIT_VER", "DECIDE", "ERASE"} =>
    requested_line = 0

(* The words the loop has passed are in flash, and a record that is not    *)
(* the requested one has passed with transparent words only.               *)
ProgInv ==
  pc = "prog" =>
    /\ \A i \in DOMAIN Words : i <= off => flash[Words[i]] = "new"
    /\ \/ Line = Record(requested_line)
       \/ \A i \in DOMAIN Words : i <= off => Words[i] \in Transparent

DoneInv ==
  /\ state = "MARK_DONE" => Whole
  /\ told = "DONE" => state = "BOOT" /\ Whole

OrderInv == ArrivingInv /\ PhaseInv
ImageInv == AckedLinesInFlash /\ ProgInv /\ DoneInv

-----------------------------------------------------------------------------
(* What is due.                                                            *)

LEMMA LinesNat == Lines \in Nat
BY EngineAssumption DEF EngineAssumption, Lines

LEMMA DueLater ==
  ASSUME NEW k \in Nat, NEW l \in Nat, k <= l, NEW m, Due(m, k)
  PROVE  Due(m, l)
BY LinesNat DEF Due

LEMMA AllDueLater ==
  ASSUME NEW k \in Nat, NEW l \in Nat, k <= l, NEW s, AllDue(s, k)
  PROVE  AllDue(s, l)
BY DueLater DEF AllDue

LEMMA EmptyDue == \A k : AllDue(<<>>, k)
BY DEF AllDue

LEMMA AllDueTail ==
  ASSUME NEW k, NEW s \in Seq(Byte), s # <<>>, AllDue(s, k)
  PROVE  Due(Head(s).of, k) /\ AllDue(Tail(s), k)
<1>1. Head(s) = s[1] /\ 1 \in DOMAIN s  OBVIOUS
<1>2. ASSUME NEW i \in DOMAIN Tail(s)
      PROVE  Due(Tail(s)[i].of, k)
  <2>1. Tail(s)[i] = s[i + 1] /\ i + 1 \in DOMAIN s  OBVIOUS
  <2> QED  BY <2>1 DEF AllDue
<1> QED  BY <1>1, <1>2 DEF AllDue

LEMMA AllDueConcat ==
  ASSUME NEW k, NEW s \in Seq(Byte), NEW t \in Seq(Byte),
         AllDue(s, k), AllDue(t, k)
  PROVE  AllDue(s \o t, k)
<1> SUFFICES ASSUME NEW i \in DOMAIN (s \o t)
             PROVE  Due((s \o t)[i].of, k)
  BY DEF AllDue
<1>1. CASE i \in DOMAIN s
  <2>1. (s \o t)[i] = s[i]  BY <1>1
  <2> QED  BY <1>1, <2>1 DEF AllDue
<1>2. CASE i \notin DOMAIN s
  <2>1. (s \o t)[i] = t[i - Len(s)] /\ i - Len(s) \in DOMAIN t  BY <1>2
  <2> QED  BY <2>1 DEF AllDue
<1> QED  BY <1>1, <1>2

LEMMA EndsDue ==
  ASSUME NEW k
  PROVE  Due(CR.of, k) /\ Due(NL.of, k)
BY DEF Due, CR, NL, Record, Terminator

LEMMA FrameDue ==
  ASSUME NEW k, NEW m \in Message, Due(m, k)
  PROVE  AllDue(Body(m) \o Eol, k)
<1>1. BodySize(m) \in Nat
  BY EngineAssumption DEF EngineAssumption, BodySize
<1>2. Body(m) \in Seq(Byte)  BY <1>1 DEF Body, Byte
<1>3. AllDue(Body(m), k)  BY <1>1 DEF AllDue, Body
<1>4. CR \in Byte /\ NL \in Byte  BY DEF Byte
<1>5. CASE Eol = <<NL>>
  <2>1. Eol \in Seq(Byte)  BY <1>4, <1>5
  <2>2. AllDue(Eol, k)  BY <1>5, EndsDue DEF AllDue
  <2> QED  BY <1>2, <1>3, <2>1, <2>2, AllDueConcat
<1>6. CASE Eol = <<CR, NL>>
  <2>1. Eol \in Seq(Byte)  BY <1>4, <1>6
  <2>2. AllDue(Eol, k)  BY <1>6, EndsDue DEF AllDue
  <2> QED  BY <1>2, <1>3, <2>1, <2>2, AllDueConcat
<1> QED  BY <1>5, <1>6, UpgradeAssumption DEF UpgradeAssumption

(* Neither a version line nor noise is a line of the file.                 *)
LEMMA OthersDue ==
  ASSUME NEW k
  PROVE  /\ Due(Junk, k) /\ Due(Overlong, k)
         /\ \A v \in Versions : Due(Version(v), k)
BY DEF Due, Junk, Overlong, Version, Record, Terminator

LEMMA LastOf ==
  ASSUME NEW s \in Seq(Message), NEW m
  PROVE  (s \o <<m>>)[Len(s) + 1] = m
OBVIOUS

(* Line k of the file is due once it was asked for: a header only moves    *)
(* the records back.                                                       *)
LEMMA FileDue ==
  ASSUME NEW k \in DOMAIN File
  PROVE  k \in Nat /\ Due(File[k], k)
<1> DEFINE Records == [n \in 1 .. Lines |-> Record(n)]
<1>0. Lines \in Nat  BY LinesNat
<1>1. Records \in Seq(Message) /\ Len(Records) = Lines
  BY <1>0 DEF Message
<1>2. \A n \in 1 .. Lines : Records[n] = Record(n)  OBVIOUS
<1>3. ASSUME NEW n \in 1 .. Lines, NEW l \in Nat, n <= l
      PROVE  Due(Record(n), l)
  <2>1. \A i : Record(i).arg[1] = i  BY DEF Record
  <2>2. \A i : Record(i) = Record(n) => i = n  BY <2>1
  <2>3. Record(n) # Terminator  BY DEF Record, Terminator
  <2> QED  BY <1>3, <2>2, <2>3 DEF Due
<1>4. ASSUME NEW l \in Nat, l > Lines
      PROVE  Due(Terminator, l)
  BY <1>0, <1>4 DEF Due
<1> HIDE DEF Records
<1>5. CASE HasHeader
  <2>1. File = (<<Junk>> \o Records) \o <<Terminator>>
    BY <1>5 DEF File, Records
  <2>2. <<Junk>> \o Records \in Seq(Message)
        /\ Len(<<Junk>> \o Records) = Lines + 1
    BY <1>0, <1>1 DEF Message
  <2>3. k \in 1 .. Lines + 2  BY <1>0, <2>1, <2>2
  <2>4. CASE k = 1
    <3>1. File[k] = Junk  BY <1>0, <1>1, <2>1, <2>2, <2>4
    <3> QED  BY <2>3, <3>1, OthersDue
  <2>5. CASE k = Lines + 2
    <3>1. k = Len(<<Junk>> \o Records) + 1  BY <1>0, <2>2, <2>5
    <3>2. File[k] = Terminator  BY <2>1, <2>2, <3>1, LastOf, Zenon
    <3> QED  BY <1>0, <1>4, <2>5, <3>2
  <2>6. CASE k # 1 /\ k # Lines + 2
    <3>1. k - 1 \in 1 .. Lines  BY <1>0, <2>3, <2>6
    <3>2. File[k] = (<<Junk>> \o Records)[k]  BY <1>0, <2>1, <2>2, <2>3, <2>6
    <3>3. (<<Junk>> \o Records)[k] = Records[k - 1]  BY <1>0, <1>1, <3>1
    <3>4. File[k] = Record(k - 1)  BY <1>2, <3>1, <3>2, <3>3
    <3> QED  BY <1>0, <1>3, <2>3, <3>1, <3>4
  <2> QED  BY <2>4, <2>5, <2>6
<1>6. CASE ~HasHeader
  <2>1. File = (<<>> \o Records) \o <<Terminator>>
    BY <1>6 DEF File, Records
  <2>2. <<>> \o Records = Records  BY <1>1
  <2>3. k \in 1 .. Lines + 1  BY <1>0, <1>1, <2>1, <2>2
  <2>4. CASE k = Lines + 1
    <3>1. File[k] = Terminator  BY <1>0, <1>1, <2>1, <2>2, <2>4
    <3> QED  BY <1>0, <1>4, <2>4, <3>1
  <2>5. CASE k # Lines + 1
    <3>1. k \in 1 .. Lines  BY <1>0, <2>3, <2>5
    <3>2. File[k] = Record(k)  BY <1>0, <1>1, <1>2, <2>1, <2>2, <3>1
    <3> QED  BY <1>0, <1>3, <3>1, <3>2
  <2> QED  BY <2>4, <2>5
<1> QED  BY <1>5, <1>6

LEMMA AnswerDue ==
  ASSUME NEW k \in Nat, NEW r \in Request, r.kind = "L?" => r.n <= k,
         NEW m \in Answers(r)
  PROVE  Due(m, k)
<1>1. CASE r.kind = "V?"
  BY <1>1, OthersDue DEF Answers
<1>2. CASE r.kind # "V?"
  <2>1. r.kind = "L?" /\ r.n <= k  BY <1>2 DEF Request
  <2>2. r.n \in DOMAIN File /\ m = File[r.n]  BY <1>2 DEF Answers
  <2> QED  BY <2>1, <2>2, FileDue, DueLater
<1> QED  BY <1>1, <1>2

(* So a record or a terminator in rx_buf was asked for.                    *)
LEMMA LineDue ==
  ASSUME NEW k \in Nat, NEW buf \in Seq(Byte), AllDue(buf, k)
  PROVE  Due(LineIn(buf), k)
<1>1. CASE buf = <<>>  BY <1>1, OthersDue DEF LineIn
<1>2. CASE buf # <<>>
  <2>1. Due(buf[1].of, k)  BY <1>2 DEF AllDue
  <2>2. LineIn(buf) \in {buf[1].of, Junk}  BY <1>2 DEF LineIn
  <2> QED  BY <2>1, <2>2, OthersDue
<1> QED  BY <1>1, <1>2

LEMMA LineTerminator ==
  ASSUME NEW buf \in Seq(Byte), LineIn(buf).kind = "term"
  PROVE  LineIn(buf) = Terminator
<1>1. CASE buf = <<>>  BY <1>1 DEF LineIn, Junk
<1>2. CASE buf # <<>>
  <2>1. buf[1] \in Byte  BY <1>2
  <2>2. buf[1].of.kind = "term" => buf[1].of = Terminator
    BY <2>1
    DEF Byte, CR, NL, Message, Version, Record, Terminator, Junk, Overlong
  <2>3. LineIn(buf) \in {buf[1].of, Junk}  BY <1>2 DEF LineIn
  <2> QED  BY <2>2, <2>3 DEF Junk
<1> QED  BY <1>1, <1>2

-----------------------------------------------------------------------------
(* Nothing arrives before it was asked for.                                *)

(* What a tick does to the line counter and to the queue.                  *)
TickOrder ==
  /\ PhaseInv'
  /\ requested_line' \in {requested_line, requested_line + 1}
  /\ \/ reqs' = reqs
     \/ Send(VersionRequest)
     \/ Send(LineRequest(requested_line))

LEMMA VersionPhaseOrder ==
  ASSUME PhaseInv, TickVersionPhase
  PROVE  TickOrder
<1> USE DEF PhaseInv, TickOrder, Case, Goto, outVars
<1>1. CASE TickInit  BY <1>1 DEF TickInit
<1>2. CASE TickAskVer  BY <1>2 DEF TickAskVer
<1>3. CASE TickAskedVer  BY <1>3 DEF TickAskedVer
<1>4. CASE TickVersionLine  BY <1>4 DEF TickVersionLine
<1>5. CASE TickWaitVer
  BY <1>5, CountdownPlaces DEF TickWaitVer
<1>6. CASE TickDecide  BY <1>6 DEF TickDecide
<1> QED  BY <1>1, <1>2, <1>3, <1>4, <1>5, <1>6 DEF TickVersionPhase

LEMMA ErasePhaseOrder ==
  ASSUME PlaceInv, PhaseInv, TickErasePhase
  PROVE  TickOrder
<1> USE DEF PhaseInv, TickOrder, Case, Goto, outVars
<1>1. CASE TickErase  BY <1>1 DEF TickErase
<1>2. CASE TickErasePage  BY <1>2 DEF TickErasePage
<1>3. CASE TickEraseFails  BY <1>3 DEF TickEraseFails, GiveUp
<1>4. CASE TickErased  BY <1>4 DEF TickErased, PlaceInv
<1> QED  BY <1>1, <1>2, <1>3, <1>4 DEF TickErasePhase

LEMMA RejectOrder ==
  ASSUME NEW err, Reject(err)
  PROVE  TickOrder
BY DEF Reject, Goto, GiveUp, NextRequest, PhaseInv, TickOrder, outVars

LEMMA LinePhaseOrder ==
  ASSUME PlaceInv, PhaseInv, TickLinePhase
  PROVE  TickOrder
<1> USE DEF PhaseInv, TickOrder, Case, Goto, outVars
<1>1. CASE TickAskLine  BY <1>1 DEF TickAskLine
<1>2. CASE TickAskedLine  BY <1>2 DEF TickAskedLine
<1>3. CASE TickTerminator  BY <1>3 DEF TickTerminator
<1>4. CASE TickBadLine  BY <1>4, RejectOrder DEF TickBadLine
<1>5. CASE TickRecord  BY <1>5 DEF TickRecord
<1>6. CASE TickProgramWord  BY <1>6 DEF TickProgramWord, NextWord
<1>7. CASE TickProgramFails  BY <1>7, RejectOrder DEF TickProgramFails
<1>8. CASE TickProgramWeak
  BY <1>8, RejectOrder DEF TickProgramWeak, ReadBackDiffers
<1>9. CASE TickProgrammed  BY <1>9 DEF TickProgrammed, NextRequest
<1>10. CASE TickWaitLine
  BY <1>10, CountdownPlaces DEF TickWaitLine, GiveUp
<1> QED
  BY <1>1, <1>2, <1>3, <1>4, <1>5, <1>6, <1>7, <1>8, <1>9, <1>10
  DEF TickLinePhase

LEMMA FinalPhaseOrder ==
  ASSUME PhaseInv, TickFinalPhase
  PROVE  TickOrder
<1> USE DEF PhaseInv, TickOrder, Case, Goto, outVars
<1>1. CASE TickMark  BY <1>1 DEF TickMark
<1>2. CASE TickMarkFails  BY <1>2 DEF TickMarkFails
<1>3. CASE TickMarked  BY <1>3 DEF TickMarked
<1>4. CASE TickBoot  BY <1>4 DEF TickBoot
<1>5. CASE TickTimeout  BY <1>5 DEF TickTimeout
<1> QED  BY <1>1, <1>2, <1>3, <1>4, <1>5 DEF TickFinalPhase

LEMMA TickKeepsOrder ==
  ASSUME PlaceInv, PhaseInv, Tick
  PROVE  TickOrder
<1>1. CASE TickDrainAck \/ TickDrainErr \/ TickDrained
  BY <1>1
  DEF TickDrainAck, TickDrainErr, TickDrained, PhaseInv, TickOrder, outVars
<1> QED
  BY <1>1, VersionPhaseOrder, ErasePhaseOrder, LinePhaseOrder,
     FinalPhaseOrder
  DEF Tick

LEMMA SendDue ==
  ASSUME NEW k \in Nat, reqs \in Seq(Request), RequestsDue(reqs, k),
         NEW r \in Request, r.kind = "L?" => r.n <= k, Send(r)
  PROVE  RequestsDue(reqs', k)
<1>1. reqs' = reqs \/ reqs' = Append(reqs, r)  BY DEF Send
<1>2. CASE reqs' = reqs  BY <1>2
<1>3. CASE reqs' = Append(reqs, r)
  <2>1. ASSUME NEW i \in DOMAIN reqs', reqs'[i].kind = "L?"
        PROVE  reqs'[i].n <= k
    <3>1. (i \in DOMAIN reqs /\ reqs'[i] = reqs[i]) \/ reqs'[i] = r
      BY <1>3
    <3> QED  BY <2>1, <3>1 DEF RequestsDue
  <2> QED  BY <2>1 DEF RequestsDue
<1> QED  BY <1>1, <1>2, <1>3

LEMMA RequestsDueLater ==
  ASSUME NEW k \in Nat, NEW l \in Nat, k <= l,
         NEW q \in Seq(Request), RequestsDue(q, k)
  PROVE  RequestsDue(q, l)
<1>1. \A r \in Request : r.n \in Nat  BY DEF Request
<1>2. \A i \in DOMAIN q : q[i] \in Request  OBVIOUS
<1> QED  BY <1>1, <1>2 DEF RequestsDue

(* The number in a request wraps at 16 bits, which only makes it smaller.  *)
LEMMA RequestNotAhead ==
  ASSUME NEW k \in Nat
  PROVE  LineRequest(k).n <= k
<1>1. k % 65536 <= k  BY SMT
<1> QED  BY <1>1 DEF LineRequest

LEMMA FeedByteDue ==
  ASSUME TypeOK, NEW k, NEW b \in Byte, Due(b.of, k), AllDue(rx_buf, k),
         FeedByte(b)
  PROVE  AllDue(rx_buf', k)
<1>1. rx_buf' \in {rx_buf, <<>>} \/ rx_buf' = Append(rx_buf, b)
  BY DEF FeedByte, rxVars
<1>2. CASE rx_buf' \in {rx_buf, <<>>}  BY <1>2, EmptyDue
<1>3. CASE rx_buf' = Append(rx_buf, b)
  <2>1. rx_buf \in Seq(Byte)  BY DEF TypeOK, EngineTypeOK
  <2>2. rx_buf' = rx_buf \o <<b>>  BY <1>3, <2>1
  <2>3. AllDue(<<b>>, k) /\ <<b>> \in Seq(Byte)  BY DEF AllDue
  <2> QED  BY <2>1, <2>2, <2>3, AllDueConcat
<1> QED  BY <1>1, <1>2, <1>3

LEMMA MainLoopOrder ==
  ASSUME IInv, OrderInv, MainLoop
  PROVE  OrderInv'
<1> DEFINE k == requested_line
           l == requested_line'
<1>1. /\ k \in Nat
      /\ reqs \in Seq(Request)
      /\ RequestsDue(reqs, k) /\ AllDue(wire, k) /\ AllDue(rx_buf, k)
  BY DEF IInv, TypeOK, EngineTypeOK, OrderInv, ArrivingInv
<1>2. TickOrder
  BY TickKeepsOrder DEF MainLoop, IInv, RegionInv, OrderInv
<1>3. l \in Nat /\ k <= l  BY <1>1, <1>2 DEF TickOrder
<1>4. RequestsDue(reqs', l)
  <2>1. RequestsDue(reqs', k)
    <3>1. CASE reqs' = reqs  BY <1>1, <3>1
    <3>2. CASE Send(VersionRequest)
      <4>1. VersionRequest.kind # "L?"  BY DEF VersionRequest
      <4> QED  BY <1>1, <3>2, <4>1, SendDue, RequestTyped
    <3>3. CASE Send(LineRequest(requested_line))
      <4>1. LineRequest(k).n <= k  BY <1>1, RequestNotAhead
      <4> QED  BY <1>1, <3>3, <4>1, SendDue, RequestTyped
    <3> QED  BY <1>2, <3>1, <3>2, <3>3 DEF TickOrder
  <2>2. reqs' \in Seq(Request)
    BY TickTyped DEF IInv, TypeOK, MainLoop, EngineTypeOK
  <2> QED  BY <1>1, <1>3, <2>1, <2>2, RequestsDueLater
<1>5. AllDue(wire', l)
  BY <1>1, <1>3, AllDueLater DEF MainLoop, linkVars
<1>6. AllDue(rx_buf', l)
  <2>1. rx_buf' \in {rx_buf, <<>>}
    BY TickClearsOrKeeps DEF MainLoop, ClearRx, rxVars
  <2> QED  BY <1>1, <1>3, <2>1, AllDueLater, EmptyDue
<1> QED  BY <1>2, <1>4, <1>5, <1>6 DEF TickOrder, OrderInv, ArrivingInv

LEMMA OrderStep ==
  ASSUME IInv, OrderInv, [SettledNext]_vars
  PROVE  OrderInv'
<1> DEFINE k == requested_line
<1>1. /\ k \in Nat
      /\ reqs \in Seq(Request) /\ wire \in Seq(Byte) /\ rx_buf \in Seq(Byte)
      /\ RequestsDue(reqs, k) /\ AllDue(wire, k) /\ AllDue(rx_buf, k)
  BY DEF IInv, TypeOK, EngineTypeOK, OrderInv, ArrivingInv
<1>2. ASSUME UNCHANGED <<state, requested_line>>,
             RequestsDue(reqs', k), AllDue(wire', k), AllDue(rx_buf', k)
      PROVE  OrderInv'
  BY <1>2 DEF OrderInv, ArrivingInv, PhaseInv
<1>3. CASE MainLoop  BY <1>3, MainLoopOrder
<1>4. CASE Isr
  <2>1. Due(Head(wire).of, k) /\ AllDue(wire', k)
    BY <1>1, <1>4, AllDueTail DEF Isr
  <2>2. Head(wire) \in Byte  BY <1>1, <1>4 DEF Isr
  <2>3. AllDue(rx_buf', k)
    BY <1>1, <1>4, <2>1, <2>2, FeedByteDue DEF Isr, IInv
  <2>4. UNCHANGED <<state, requested_line, reqs>>
    BY <1>4 DEF Isr, FeedByte, outVars
  <2> QED  BY <1>1, <1>2, <2>1, <2>3, <2>4
<1>5. ASSUME TakeRequest
      PROVE  /\ UNCHANGED <<state, requested_line, rx_buf>>
             /\ RequestsDue(reqs', k)
             /\ Head(reqs) \in Request
             /\ Head(reqs).kind = "L?" => Head(reqs).n <= k
  <2>1. UNCHANGED <<state, requested_line, rx_buf>> /\ reqs # <<>>
        /\ reqs' = Tail(reqs)
    BY <1>5 DEF TakeRequest, rxVars
  <2>2. Head(reqs) = reqs[1] /\ 1 \in DOMAIN reqs /\ Head(reqs) \in Request
    BY <1>1, <2>1
  <2>3. ASSUME NEW i \in DOMAIN Tail(reqs)
        PROVE  i + 1 \in DOMAIN reqs /\ Tail(reqs)[i] = reqs[i + 1]
    BY <1>1, <2>1
  <2> QED  BY <1>1, <2>1, <2>2, <2>3 DEF RequestsDue
<1>6. ASSUME Answer
      PROVE  OrderInv'
  <2>1. TakeRequest  BY <1>6 DEF Answer
  <2>2. PICK m \in Answers(Head(reqs)) : wire' = Body(m) \o Eol
    BY <1>6 DEF Answer
  <2>3. Due(m, k)  BY <1>1, <1>5, <2>1, AnswerDue
  <2>4. m \in Message  BY <1>5, <2>1, AnswersAreMessages
  <2>5. AllDue(wire', k)  BY <2>2, <2>3, <2>4, FrameDue
  <2> QED  BY <1>1, <1>2, <1>5, <2>1, <2>5
<1>7. CASE AppAnswer \/ EarlyAnswer
  BY <1>6, <1>7 DEF AppAnswer, EarlyAnswer
<1>8. CASE AppSilent
  <2>1. TakeRequest /\ wire' = wire  BY <1>8 DEF AppSilent
  <2> QED  BY <1>1, <1>2, <1>5, <2>1
<1>9. CASE Garble
  <2>1. Junk \in Message /\ Overlong \in Message  BY DEF Message
  <2>2. TakeRequest /\ wire' \in {<<>>, Body(Junk) \o Eol, Body(Overlong) \o Eol}
    BY <1>9 DEF Garble
  <2>3. AllDue(wire', k)  BY <2>1, <2>2, EmptyDue, FrameDue, OthersDue
  <2> QED  BY <1>1, <1>2, <1>5, <2>2, <2>3
<1>10. CASE LoseByte
  <2>1. AllDue(wire', k)  BY <1>1, <1>10, AllDueTail DEF LoseByte
  <2>2. UNCHANGED <<state, requested_line, reqs, rx_buf>>
    BY <1>10 DEF LoseByte, engineVars, rxVars, outVars
  <2> QED  BY <1>1, <1>2, <2>1, <2>2
<1>11. CASE StrayNewline
  <2>1. wire # <<>> /\ wire' = <<NL>> \o Tail(wire)
    BY <1>11 DEF StrayNewline
  <2>2. AllDue(Tail(wire), k) /\ Tail(wire) \in Seq(Byte)
    BY <1>1, <2>1, AllDueTail
  <2>3. <<NL>> \in Seq(Byte)  BY DEF Byte
  <2>4. AllDue(<<NL>>, k)  BY EndsDue DEF AllDue
  <2>5. AllDue(wire', k)  BY <2>1, <2>2, <2>3, <2>4, AllDueConcat
  <2>6. UNCHANGED <<state, requested_line, reqs, rx_buf>>
    BY <1>11 DEF StrayNewline, engineVars, rxVars, outVars
  <2> QED  BY <1>1, <1>2, <2>5, <2>6
<1>12. CASE Reset /\ Quiet
  <2>1. /\ state' = "INIT" /\ requested_line' = 0
        /\ reqs' = <<>> /\ wire' = <<>> /\ rx_buf' = <<>>
    BY <1>12 DEF Reset, Quiet, RestartContext
  <2> QED
    BY <2>1, EmptyDue DEF OrderInv, ArrivingInv, PhaseInv, RequestsDue
<1>13. CASE UNCHANGED vars
  <2>1. UNCHANGED <<state, requested_line, reqs, wire, rx_buf>>
    BY <1>13 DEF vars, engineVars, linkVars, rxVars, outVars
  <2> QED  BY <1>1, <1>2, <2>1
<1> QED
  BY <1>3, <1>4, <1>7, <1>8, <1>9, <1>10, <1>11, <1>12, <1>13
  DEF SettledNext

-----------------------------------------------------------------------------
(* The image in flash.                                                     *)

LEMMA ImageInRegion ==
  \A n \in 1 .. Lines :
    /\ Image[n] \in Seq(Addr \ {DoneAddr})
    /\ AddrsOf(n) \subseteq Addr \ {DoneAddr}
<1> SUFFICES ASSUME NEW n \in 1 .. Lines
             PROVE  /\ Image[n] \in Seq(Addr \ {DoneAddr})
                    /\ AddrsOf(n) \subseteq Addr \ {DoneAddr}
  OBVIOUS
<1>1. Image \in Seq(Seq(Addr \ {DoneAddr}))
  BY EngineAssumption DEF EngineAssumption
<1>2. Image[n] \in Seq(Addr \ {DoneAddr})  BY <1>1 DEF Lines
<1>3. \A i \in DOMAIN Image[n] : Image[n][i] \in Addr \ {DoneAddr}
  BY <1>2
<1> QED  BY <1>2, <1>3 DEF AddrsOf

LEMMA WholeIsAllLines ==
  ASSUME \A n \in 1 .. Lines : \A a \in AddrsOf(n) : flash[a] = "new"
  PROVE  Whole
BY DEF Whole, ImageAddrs

(* Steps that leave the transfer or stay outside it.                       *)
LEMMA OutsideTransfer ==
  ASSUME pc' # "prog", told' # "DONE",
         state' \notin {"ASK_LINE", "WAIT_LINE", "MARK_DONE"}
  PROVE  ImageInv'
BY DEF ImageInv, AckedLinesInFlash, ProgInv, DoneInv

LEMMA NotYetDone ==
  ASSUME ImageInv, state # "BOOT"
  PROVE  told # "DONE"
BY DEF ImageInv, DoneInv

(* Steps that change neither the region nor the line being programmed.     *)
LEMMA ImageFrame ==
  ASSUME ImageInv, UNCHANGED <<state, requested_line, flash>>,
         told' = told \/ told' # "DONE",
         pc' = "prog" => UNCHANGED <<pc, off, rx_buf>>
  PROVE  ImageInv'
<1>1. AckedLinesInFlash'  BY DEF ImageInv, AckedLinesInFlash
<1>2. ProgInv'  BY DEF ImageInv, ProgInv, Words, Line
<1>3. DoneInv'  BY DEF ImageInv, DoneInv, Whole
<1> QED  BY <1>1, <1>2, <1>3 DEF ImageInv

(* Steps within the transfer that damage no word of the image.             *)
LEMMA KeepAcked ==
  ASSUME ImageInv, state \in {"ASK_LINE", "WAIT_LINE"},
         state' \in {"ASK_LINE", "WAIT_LINE", "TIMEOUT"},
         requested_line' = requested_line, told' = told,
         \A a \in Addr : flash[a] = "new" => flash'[a] = "new"
  PROVE  AckedLinesInFlash' /\ DoneInv'
<1>1. AckedLinesInFlash'
  BY ImageInRegion DEF ImageInv, AckedLinesInFlash
<1>2. DoneInv'  BY NotYetDone DEF DoneInv
<1> QED  BY <1>1, <1>2

LEMMA NotProgramming ==
  ASSUME pc' # "prog"
  PROVE  ProgInv'
BY DEF ProgInv

LEMMA VersionPhaseImage ==
  ASSUME ImageInv, TickVersionPhase
  PROVE  ImageInv'
<1> USE DEF Goto, Case, outVars
<1>1. CASE TickInit  BY <1>1, NotYetDone, OutsideTransfer DEF TickInit
<1>2. CASE TickAskVer  BY <1>2, NotYetDone, OutsideTransfer DEF TickAskVer
<1>3. CASE TickAskedVer
  BY <1>3, NotYetDone, OutsideTransfer DEF TickAskedVer
<1>4. CASE TickVersionLine
  BY <1>4, NotYetDone, OutsideTransfer DEF TickVersionLine
<1>5. CASE TickWaitVer
  BY <1>5, CountdownPlaces, NotYetDone, OutsideTransfer DEF TickWaitVer
<1>6. CASE TickDecide  BY <1>6, NotYetDone, OutsideTransfer DEF TickDecide
<1> QED  BY <1>1, <1>2, <1>3, <1>4, <1>5, <1>6 DEF TickVersionPhase

LEMMA ErasePhaseImage ==
  ASSUME PlaceInv, ImageInv, TickErasePhase
  PROVE  ImageInv'
<1> USE DEF Goto, Case, outVars
<1>0. state = "ERASE" /\ told # "DONE"
  BY NotYetDone
  DEF TickErasePhase, TickErase, TickErasePage, TickEraseFails, TickErased,
      PlaceInv
<1>1. CASE TickErase  BY <1>0, <1>1, OutsideTransfer DEF TickErase
<1>2. CASE TickErasePage  BY <1>0, <1>2, OutsideTransfer DEF TickErasePage
<1>3. CASE TickEraseFails
  BY <1>0, <1>3, OutsideTransfer DEF TickEraseFails, GiveUp
<1>4. CASE TickErased
  <2>1. /\ requested_line' = 1 /\ state' = "ASK_LINE" /\ pc' = "idle"
        /\ told' = told
    BY <1>4 DEF TickErased
  <2>2. AckedLinesInFlash'
    <3>1. \A n \in 1 .. Lines : ~(n < 1)  OBVIOUS
    <3> QED  BY <2>1, <3>1 DEF AckedLinesInFlash
  <2> QED  BY <1>0, <2>1, <2>2, NotProgramming DEF ImageInv, DoneInv
<1> QED  BY <1>1, <1>2, <1>3, <1>4 DEF TickErasePhase

(* The record being programmed is one asked for, now or before.            *)
LEMMA RecordInHand ==
  ASSUME IInv, OrderInv, pc = "prog"
  PROVE  \E n \in 1 .. Lines :
           n <= requested_line /\ Line = Record(n) /\ Words = Image[n]
<1>1. rx_buf \in Seq(Byte) /\ requested_line \in Nat
  BY DEF IInv, TypeOK, EngineTypeOK
<1>2. Line.kind = "rec"  BY DEF IInv, RegionInv, PlaceInv
<1>3. PICK n \in 1 .. Lines : Line = Record(n)
  BY <1>1, <1>2, LineParsed DEF Line
<1>4. Due(Line, requested_line)
  BY <1>1, LineDue DEF OrderInv, ArrivingInv, Line
<1>5. n <= requested_line  BY <1>3, <1>4 DEF Due
<1>6. Words = Image[n]  BY <1>3 DEF Words, Record
<1> QED  BY <1>3, <1>5, <1>6

(* Of a duplicate of an acknowledged record, only transparent words are    *)
(* accepted.                                                               *)
LEMMA AcceptedIsRequested ==
  ASSUME ~Rewrite, IInv, OrderInv, ImageInv, pc = "prog",
         off < Len(Words), MayProgram(Words[off + 1], "new")
  PROVE  Line = Record(requested_line) \/ Words[off + 1] \in Transparent
<1>1. PICK n \in 1 .. Lines :
        n <= requested_line /\ Line = Record(n) /\ Words = Image[n]
  BY RecordInHand
<1>2. off \in Nat /\ requested_line \in Nat /\ n \in Nat
  BY DEF IInv, TypeOK, EngineTypeOK
<1>3. CASE n = requested_line  BY <1>1, <1>3
<1>4. CASE n < requested_line
  <2>1. Image[n] \in Seq(Addr \ {DoneAddr})  BY ImageInRegion
  <2>2. off + 1 \in DOMAIN Image[n]  BY <1>1, <1>2, <2>1
  <2>3. Words[off + 1] \in AddrsOf(n)  BY <1>1, <2>2 DEF AddrsOf
  <2>4. state = "WAIT_LINE"  BY DEF IInv, RegionInv, PlaceInv
  <2>5. flash[Words[off + 1]] = "new"
    BY <1>4, <2>3, <2>4 DEF ImageInv, AckedLinesInFlash
  <2> QED  BY <2>5 DEF MayProgram, Repeats
<1> QED  BY <1>1, <1>2, <1>3, <1>4

(* A word of the image that is in flash stays there, whatever the          *)
(* controller reports when it is programmed again.                         *)
LEMMA ErrorKeepsNew ==
  ASSUME ~Rewrite, flash \in [Addr -> Value], NEW a, NEW v,
         flash[a] = "new" => v = "new", ReportsError(a, v)
  PROVE  \A b \in Addr : flash[b] = "new" => flash'[b] = "new"
<1>1. PICK x \in ContentsAfterError(a, v) : Program(a, x)
  BY DEF ReportsError
<1>2. flash[a] = "new" => x = "new"
  BY DEF ContentsAfterError, Inert
<1> QED  BY <1>1, <1>2 DEF Program

LEMMA RejectImage ==
  ASSUME ImageInv, state = "WAIT_LINE", NEW err, Reject(err),
         \A a \in Addr : flash[a] = "new" => flash'[a] = "new"
  PROVE  ImageInv'
<1>1. /\ state' \in {"ASK_LINE", "WAIT_LINE", "TIMEOUT"} /\ pc' = "idle"
      /\ requested_line' = requested_line /\ told' = told
  BY DEF Reject, Goto, GiveUp, NextRequest, outVars
<1> QED  BY <1>1, KeepAcked, NotProgramming DEF ImageInv

LEMMA LinePhaseImage ==
  ASSUME ~Rewrite, EachRecordTells, IInv, OrderInv, ImageInv, TickLinePhase
  PROVE  ImageInv'
<1> USE DEF Goto, Case
<1>0. /\ requested_line \in Nat /\ off \in Nat
      /\ flash \in [Addr -> Value] /\ rx_buf \in Seq(Byte)
      /\ PlaceInv
  BY DEF IInv, TypeOK, EngineTypeOK, FlashTypeOK, RegionInv
<1>1. CASE TickAskLine
  BY <1>1, KeepAcked, NotProgramming DEF TickAskLine, hwVars, ImageInv
<1>2. CASE TickAskedLine
  BY <1>2, KeepAcked, NotProgramming
  DEF TickAskedLine, hwVars, outVars, ImageInv
<1>3. CASE TickTerminator
  <2>1. Due(Line, requested_line)
    BY <1>0, LineDue DEF OrderInv, ArrivingInv, Line
  <2>2. Line = Terminator
    BY <1>0, <1>3, LineTerminator DEF TickTerminator, Line
  <2>3. requested_line > Lines  BY <2>1, <2>2 DEF Due
  <2>4. \A n \in 1 .. Lines : n < requested_line
    BY <1>0, <2>3, LinesNat
  <2>5. Whole
    BY <1>3, <2>4, WholeIsAllLines
    DEF TickTerminator, ImageInv, AckedLinesInFlash
  <2>6. /\ state' = "MARK_DONE" /\ pc' = "idle" /\ flash' = flash
        /\ told' = told /\ told # "DONE"
    BY <1>3, NotYetDone DEF TickTerminator, hwVars, outVars
  <2> QED
    BY <2>5, <2>6, NotProgramming
    DEF ImageInv, AckedLinesInFlash, DoneInv, Whole
<1>4. CASE TickBadLine  BY <1>4, RejectImage DEF TickBadLine
<1>5. CASE TickRecord
  <2>1. /\ state \in {"ASK_LINE", "WAIT_LINE"} /\ state' = state
        /\ requested_line' = requested_line /\ told' = told
        /\ flash' = flash /\ off' = 0
    BY <1>5 DEF TickRecord, hwVars, outVars
  <2>2. AckedLinesInFlash' /\ DoneInv'  BY <2>1, KeepAcked
  <2>3. ProgInv'
    <3>1. PICK n \in 1 .. Lines : Line = Record(n)
      BY <1>0, <1>5, LineParsed DEF TickRecord, Line
    <3>2. Line' = Line  BY <1>5 DEF TickRecord, rxVars, Line
    <3>3. Words' = Image[n]  BY <3>1, <3>2 DEF Words, Record
    <3>4. \A i \in DOMAIN Image[n] : ~(i <= 0)  BY ImageInRegion
    <3> QED  BY <2>1, <3>3, <3>4 DEF ProgInv
  <2> QED  BY <2>2, <2>3 DEF ImageInv
<1>6. CASE TickProgramWord
  <2>1. Line = Record(requested_line) \/ Words[off + 1] \in Transparent
    BY <1>6, AcceptedIsRequested DEF TickProgramWord
  <2>2. PICK n \in 1 .. Lines : Words = Image[n]
    BY <1>6, RecordInHand DEF TickProgramWord
  <2>3. Image[n] \in Seq(Addr \ {DoneAddr})  BY ImageInRegion
  <2>4. \A b \in Addr : flash[b] = "new" => flash'[b] = "new"
    BY <1>0, <1>6 DEF TickProgramWord, Program
  <2>5. /\ pc = "prog" /\ state = "WAIT_LINE" /\ state' = state
        /\ requested_line' = requested_line /\ told' = told
        /\ off' = off + 1 /\ rx_buf' = rx_buf
        /\ off < Len(Words) /\ Program(Words[off + 1], "new")
    BY <1>0, <1>6
    DEF TickProgramWord, NextWord, PlaceInv, rxVars, outVars
  <2>6. AckedLinesInFlash' /\ DoneInv'  BY <2>4, <2>5, KeepAcked
  <2>7. Line' = Line /\ Words' = Words  BY <2>5 DEF Line, Words
  <2>8. ASSUME NEW i \in DOMAIN Words, i <= off + 1
        PROVE  flash'[Words[i]] = "new"
    <3>1. Words[i] \in Addr /\ i \in Nat  BY <2>2, <2>3
    <3>2. CASE i <= off
      BY <2>4, <2>5, <3>1, <3>2 DEF ImageInv, ProgInv
    <3>3. CASE i = off + 1  BY <1>0, <2>5, <3>1, <3>3 DEF Program
    <3> QED  BY <1>0, <2>8, <3>1, <3>2, <3>3
  <2>9. \/ Line = Record(requested_line)
        \/ \A i \in DOMAIN Words : i <= off + 1 => Words[i] \in Transparent
    <3>1. \A i \in DOMAIN Words : i <= off + 1 => i <= off \/ i = off + 1
      BY <1>0, <2>2, <2>3
    <3> QED  BY <2>1, <2>5, <3>1 DEF ImageInv, ProgInv
  <2>10. ProgInv'  BY <2>5, <2>7, <2>8, <2>9 DEF ProgInv
  <2> QED  BY <2>6, <2>10 DEF ImageInv
<1>7. CASE TickProgramFails
  <2>1. \A b \in Addr : flash[b] = "new" => flash'[b] = "new"
    BY <1>0, <1>7, ErrorKeepsNew DEF TickProgramFails
  <2> QED  BY <1>0, <1>7, <2>1, RejectImage DEF TickProgramFails, PlaceInv
<1>8. CASE TickProgramWeak
  <2>1. \A b \in Addr : flash[b] = "new" => flash'[b] = "new"
    BY <1>0, <1>8 DEF TickProgramWeak, MayProgram, Inert, Program
  <2> QED
    BY <1>0, <1>8, <2>1, RejectImage
    DEF TickProgramWeak, ReadBackDiffers, PlaceInv
<1>9. CASE TickProgrammed
  <2>1. /\ pc = "prog" /\ off >= Len(Words) /\ state = "WAIT_LINE"
        /\ state' = "ASK_LINE" /\ pc' = "idle" /\ flash' = flash
        /\ told' = told /\ requested_line' = requested_line + 1
    BY <1>0, <1>9
    DEF TickProgrammed, NextRequest, PlaceInv, hwVars, outVars
  <2>2. PICK n \in 1 .. Lines : Line = Record(n) /\ Words = Image[n]
    BY <2>1, RecordInHand
  <2>3. Image[n] \in Seq(Addr \ {DoneAddr})  BY ImageInRegion
  <2>4. \A i \in DOMAIN Words : i <= off  BY <1>0, <2>1, <2>2, <2>3
  <2>5. \E i \in DOMAIN Words : Words[i] \notin Transparent
    BY <2>2 DEF EachRecordTells
  <2>6. n = requested_line
    <3>1. \A i : Record(i).arg[1] = i  BY DEF Record
    <3>2. Record(n) = Record(requested_line)
      BY <2>1, <2>2, <2>4, <2>5 DEF ImageInv, ProgInv
    <3> QED  BY <3>1, <3>2
  <2>7. \A a \in AddrsOf(n) : flash[a] = "new"
    BY <2>1, <2>2, <2>4 DEF ImageInv, ProgInv, AddrsOf
  <2>8. ASSUME NEW m \in 1 .. Lines, m < requested_line + 1
        PROVE  \A a \in AddrsOf(m) : flash[a] = "new"
    <3>1. m < requested_line \/ m = n  BY <1>0, <2>6, <2>8
    <3> QED  BY <2>1, <2>7, <3>1 DEF ImageInv, AckedLinesInFlash
  <2>9. AckedLinesInFlash'  BY <2>1, <2>8 DEF AckedLinesInFlash
  <2>10. DoneInv'  BY <2>1, NotYetDone DEF DoneInv
  <2> QED  BY <2>1, <2>9, <2>10, NotProgramming DEF ImageInv
<1>10. CASE TickWaitLine
  <2>1. state' \in {"WAIT_LINE", "ASK_LINE", "TIMEOUT"} /\ pc' = "idle"
    BY <1>10, CountdownPlaces DEF TickWaitLine, GiveUp
  <2> QED
    BY <1>10, <2>1, KeepAcked, NotProgramming
    DEF TickWaitLine, hwVars, outVars, ImageInv
<1> QED
  BY <1>1, <1>2, <1>3, <1>4, <1>5, <1>6, <1>7, <1>8, <1>9, <1>10
  DEF TickLinePhase

LEMMA FinalPhaseImage ==
  ASSUME TypeOK, PlaceInv, ImageInv, TickFinalPhase
  PROVE  ImageInv'
<1> USE DEF Goto, Case, outVars
<1>1. CASE TickMark
  <2>1. ImageAddrs \subseteq Addr \ {DoneAddr}
    BY ImageInRegion DEF ImageAddrs
  <2>2. \A a \in ImageAddrs : flash'[a] = flash[a]
    BY <1>1, <2>1 DEF TickMark, Program, TypeOK, EngineTypeOK, FlashTypeOK
  <2>3. Whole'  BY <1>1, <2>2 DEF TickMark, ImageInv, DoneInv, Whole
  <2> QED
    BY <1>1, <2>3, NotYetDone
    DEF TickMark, ImageInv, AckedLinesInFlash, ProgInv, DoneInv
<1>2. CASE TickMarkFails
  BY <1>2, NotYetDone, OutsideTransfer DEF TickMarkFails
<1>3. CASE TickMarked
  BY <1>3
  DEF TickMarked, PlaceInv, hwVars, ImageInv, AckedLinesInFlash, ProgInv,
      DoneInv, Whole
<1>4. CASE TickBoot
  BY <1>4, ImageFrame DEF TickBoot, hwVars
<1>5. CASE TickTimeout
  BY <1>5, NotYetDone, OutsideTransfer DEF TickTimeout
<1> QED  BY <1>1, <1>2, <1>3, <1>4, <1>5 DEF TickFinalPhase

LEMMA ImageStep ==
  ASSUME ~Rewrite, EachRecordTells, IInv, OrderInv, ImageInv,
         [SettledNext]_vars
  PROVE  ImageInv'
<1>1. CASE MainLoop
  <2>1. CASE TickDrainAck \/ TickDrainErr \/ TickDrained
    BY <2>1, ImageFrame
    DEF TickDrainAck, TickDrainErr, TickDrained, hwVars, outVars
  <2> QED
    BY <1>1, <2>1, VersionPhaseImage, ErasePhaseImage, LinePhaseImage,
       FinalPhaseImage
    DEF MainLoop, Tick, IInv, RegionInv
<1>2. CASE Isr
  <2>1. UNCHANGED <<state, pc, off, flash, requested_line, told>>
    BY <1>2 DEF Isr, FeedByte, hwVars, outVars
  <2>2. pc = "prog" => rx_buf' = rx_buf
    BY <1>2, FeedByteKeepsReadyLine
    DEF Isr, IInv, RegionInv, PlaceInv
  <2> QED  BY <2>1, <2>2, ImageFrame
<1>3. CASE AppAnswer \/ AppSilent \/ EarlyAnswer \/ Garble
  BY <1>3, ImageFrame
  DEF AppAnswer, AppSilent, EarlyAnswer, Garble, Answer, TakeRequest,
      rxVars, hwVars
<1>4. CASE LoseByte \/ StrayNewline \/ UNCHANGED vars
  BY <1>4, ImageFrame
  DEF LoseByte, StrayNewline, vars, engineVars, rxVars, hwVars, outVars
<1>5. CASE Reset /\ Quiet
  BY <1>5, OutsideTransfer DEF Reset, RestartContext
<1> QED  BY <1>1, <1>2, <1>3, <1>4, <1>5 DEF SettledNext

-----------------------------------------------------------------------------
LEMMA SettledInvariance ==
  ASSUME ~Rewrite, EachRecordTells
  PROVE  SettledSpec => [](IInv /\ OrderInv /\ ImageInv)
<1>1. Init => IInv
  BY InitTyped
  DEF Init, InitContext, IInv, ReadyInv, RegionInv, PlaceInv, EraseInv,
      TransferInv
<1>2. Init => OrderInv
  BY EmptyDue
  DEF Init, InitContext, OrderInv, ArrivingInv, RequestsDue, PhaseInv
<1>3. Init => ImageInv
  BY DEF Init, InitContext, ImageInv, AckedLinesInFlash, ProgInv, DoneInv
<1>4. [SettledNext]_vars => [Next]_vars  BY DEF SettledNext, Next
<1>5. IInv /\ [Next]_vars => IInv'
  BY StepTyped, ReadyStep, RegionStep DEF IInv
<1>6. IInv /\ OrderInv /\ ImageInv /\ [SettledNext]_vars
        => (IInv /\ OrderInv /\ ImageInv)'
  BY <1>4, <1>5, OrderStep, ImageStep
<1> QED  BY <1>1, <1>2, <1>3, <1>6, PTL DEF SettledSpec

(* On a controller that refuses a word it holds, every record acknowledged *)
(* with OK is in flash, whatever answers are late, lost, repeated or       *)
(* garbled and whatever words fail, if each record has a word that is not  *)
(* transparent (parse_s3, ST_WAIT_LINE).                                   *)
THEOREM AckedIsInFlash ==
  ASSUME ~Rewrite, EachRecordTells
  PROVE  SettledSpec => []AckedLinesInFlash
<1>1. ImageInv => AckedLinesInFlash  BY DEF ImageInv
<1> QED  BY <1>1, SettledInvariance, PTL

(* On such a controller DONE is said of a whole image only: the terminator *)
(* is not accepted before every record was (check_terminator, ST_MARK_DONE *)
(* and ST_WAIT_LINE).                                                      *)
THEOREM DoneIsWhole ==
  ASSUME ~Rewrite, EachRecordTells
  PROVE  SettledSpec => []DoneMeansWhole
<1>1. ImageInv => DoneMeansWhole
  BY DEF ImageInv, DoneInv, DoneMeansWhole
<1> QED  BY <1>1, SettledInvariance, PTL

-----------------------------------------------------------------------------
(* What is booted.                                                         *)

(* Up to the erase the region is as this power-up found it; ST_BOOT is     *)
(* reached from ST_DECIDE or from ST_MARK_DONE.                            *)
OriginInv ==
  /\ state \in {"INIT", "ASK_VER", "WAIT_VER", "DECIDE"} => flash = found
  /\ state = "ERASE" /\ pc # "erase" => flash = found
  /\ state = "BOOT" => flash = found \/ Whole

AppInv == pc = "app" => state = "BOOT"

BootInv == AppInv /\ OriginInv

LEMMA OriginFrame ==
  ASSUME UNCHANGED <<state, pc, flash, found>>
  PROVE  /\ AppInv => AppInv'
         /\ OriginInv => OriginInv'
BY DEF AppInv, OriginInv, Whole

(* Steps to the states from which ST_BOOT is not reached directly.         *)
LEMMA OriginOutside ==
  ASSUME pc' # "app",
         \/ state' \in {"ASK_LINE", "WAIT_LINE", "MARK_DONE", "TIMEOUT"}
         \/ state' = "ERASE" /\ pc' = "erase"
  PROVE  AppInv' /\ OriginInv'
BY DEF AppInv, OriginInv

LEMMA VersionPhaseOrigin ==
  ASSUME TickVersionPhase, found' = found
  PROVE  AppInv' /\ (OriginInv => OriginInv')
<1> USE DEF Goto, Case, hwVars, AppInv, OriginInv
<1>1. CASE TickInit  BY <1>1 DEF TickInit
<1>2. CASE TickAskVer  BY <1>2 DEF TickAskVer
<1>3. CASE TickAskedVer  BY <1>3 DEF TickAskedVer
<1>4. CASE TickVersionLine  BY <1>4 DEF TickVersionLine
<1>5. CASE TickWaitVer  BY <1>5, CountdownPlaces DEF TickWaitVer
<1>6. CASE TickDecide  BY <1>6 DEF TickDecide
<1> QED  BY <1>1, <1>2, <1>3, <1>4, <1>5, <1>6 DEF TickVersionPhase

LEMMA ErasePhaseOrigin ==
  ASSUME PlaceInv, TickErasePhase
  PROVE  AppInv' /\ OriginInv'
<1> USE DEF Goto, Case
<1>1. CASE TickErase  BY <1>1, OriginOutside DEF TickErase
<1>2. CASE TickErasePage
  BY <1>2, OriginOutside DEF TickErasePage, PlaceInv
<1>3. CASE TickEraseFails
  BY <1>3, OriginOutside DEF TickEraseFails, GiveUp
<1>4. CASE TickErased  BY <1>4, OriginOutside DEF TickErased
<1> QED  BY <1>1, <1>2, <1>3, <1>4 DEF TickErasePhase

LEMMA RejectOrigin ==
  ASSUME NEW err, Reject(err)
  PROVE  AppInv' /\ OriginInv'
BY OriginOutside DEF Reject, Goto, GiveUp

LEMMA LinePhaseOrigin ==
  ASSUME PlaceInv, TickLinePhase
  PROVE  AppInv' /\ OriginInv'
<1> USE DEF Goto, Case
<1>1. CASE TickAskLine  BY <1>1, OriginOutside DEF TickAskLine
<1>2. CASE TickAskedLine  BY <1>2, OriginOutside DEF TickAskedLine
<1>3. CASE TickTerminator  BY <1>3, OriginOutside DEF TickTerminator
<1>4. CASE TickBadLine  BY <1>4, RejectOrigin DEF TickBadLine
<1>5. CASE TickRecord  BY <1>5, OriginOutside DEF TickRecord
<1>6. CASE TickProgramWord
  BY <1>6, OriginOutside DEF TickProgramWord, NextWord, PlaceInv
<1>7. CASE TickProgramFails  BY <1>7, RejectOrigin DEF TickProgramFails
<1>8. CASE TickProgramWeak
  BY <1>8, RejectOrigin DEF TickProgramWeak, ReadBackDiffers
<1>9. CASE TickProgrammed  BY <1>9, OriginOutside DEF TickProgrammed
<1>10. CASE TickWaitLine
  BY <1>10, CountdownPlaces, OriginOutside DEF TickWaitLine, GiveUp
<1> QED
  BY <1>1, <1>2, <1>3, <1>4, <1>5, <1>6, <1>7, <1>8, <1>9, <1>10
  DEF TickLinePhase

LEMMA FinalPhaseOrigin ==
  ASSUME PlaceInv, ImageInv, TickFinalPhase, found' = found
  PROVE  AppInv' /\ (OriginInv => OriginInv')
<1> USE DEF Goto, Case
<1>1. CASE TickMark  BY <1>1, OriginOutside DEF TickMark
<1>2. CASE TickMarkFails  BY <1>2, OriginOutside DEF TickMarkFails
<1>3. CASE TickMarked
  BY <1>3
  DEF TickMarked, PlaceInv, hwVars, ImageInv, DoneInv, Whole, AppInv,
      OriginInv
<1>4. CASE TickBoot
  BY <1>4 DEF TickBoot, hwVars, AppInv, OriginInv, Whole
<1>5. CASE TickTimeout  BY <1>5, OriginOutside DEF TickTimeout
<1> QED  BY <1>1, <1>2, <1>3, <1>4, <1>5 DEF TickFinalPhase

LEMMA BootStep ==
  ASSUME IInv, ImageInv, BootInv, [SettledNext]_vars
  PROVE  BootInv'
<1>1. CASE MainLoop
  <2>1. PlaceInv /\ found' = found
    BY <1>1 DEF IInv, RegionInv, MainLoop, linkVars
  <2>2. CASE TickDrainAck \/ TickDrainErr \/ TickDrained
    BY <2>1, <2>2
    DEF TickDrainAck, TickDrainErr, TickDrained, hwVars, BootInv, AppInv,
        OriginInv, Whole
  <2> QED
    BY <1>1, <2>1, <2>2, VersionPhaseOrigin, ErasePhaseOrigin,
       LinePhaseOrigin, FinalPhaseOrigin
    DEF MainLoop, Tick, BootInv
<1>2. CASE Isr
  BY <1>2, OriginFrame DEF Isr, FeedByte, hwVars, BootInv
<1>3. CASE AppAnswer \/ AppSilent \/ EarlyAnswer \/ Garble
  BY <1>3, OriginFrame
  DEF AppAnswer, AppSilent, EarlyAnswer, Garble, Answer, TakeRequest,
      hwVars, BootInv
<1>4. CASE LoseByte \/ StrayNewline \/ UNCHANGED vars
  BY <1>4, OriginFrame
  DEF LoseByte, StrayNewline, vars, linkVars, engineVars, hwVars, BootInv
<1>5. CASE Reset /\ Quiet
  BY <1>5 DEF Reset, RestartContext, BootInv, AppInv, OriginInv
<1> QED  BY <1>1, <1>2, <1>3, <1>4, <1>5 DEF SettledNext

(* Each power-up of such a controller boots what it found in the region,   *)
(* untouched, or the whole new image, whatever fails on the way (ST_DECIDE *)
(* and ST_MARK_DONE before ST_BOOT, ST_TIMEOUT otherwise).                 *)
THEOREM OneImageBooted ==
  ASSUME ~Rewrite, EachRecordTells
  PROVE  SettledSpec => []BootsOneImage
<1>1. Init => BootInv
  BY DEF Init, InitContext, BootInv, AppInv, OriginInv
<1>2. IInv /\ ImageInv /\ BootInv /\ [SettledNext]_vars => BootInv'
  BY BootStep
<1>3. BootInv => BootsOneImage
  BY DEF BootInv, AppInv, OriginInv, BootsOneImage
<1> QED  BY <1>1, <1>2, <1>3, SettledInvariance, PTL DEF SettledSpec

=============================================================================
