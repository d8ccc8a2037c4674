---------------------------- MODULE RxIsr_proofs ----------------------------
(***************************************************************************)
(* Proofs about RxIsr, for every buffer size and all lines.  The first     *)
(* ones hold for every order the compiler gives the stores of clear_rx and *)
(* however many bytes an interrupt hands over; what a parsed line consists *)
(* of needs the order of the source, and that it is one line needs an      *)
(* interrupt that hands over one byte (STM32F0, STM32F1).                  *)
(***************************************************************************)
EXTENDS RxIsr, TLAPS

(* A line waiting for the tick excludes an overlong line being dropped:    *)
(* FeedChar sets rx_overflow only without the one, FeedNewline sets        *)
(* rx_line_ready only without the other, and clear_rx sets neither.        *)
OneOrTheOther == ~(rx_line_ready /\ rx_overflow)

ParseInv == pc = "parse" => rx_line_ready /\ rx_buf = parsing

RxInv == OneOrTheOther /\ ParseInv

-----------------------------------------------------------------------------
(* The interrupt never touches a line that waits for the tick.             *)
LEMMA FeedKeepsReadyLine ==
  ASSUME OneOrTheOther, NEW b, FeedChar(b) \/ FeedNewline
  PROVE  /\ OneOrTheOther'
         /\ rx_line_ready => rx_line_ready' /\ rx_buf' = rx_buf
<1>1. CASE FeedChar(b)
  BY <1>1 DEF FeedChar, Holding, bufVars, OneOrTheOther
<1>2. CASE FeedNewline
  BY <1>2 DEF FeedNewline, bufVars, OneOrTheOther
<1> QED  BY <1>1, <1>2

LEMMA InterruptStep ==
  ASSUME RxInv, IsrChar \/ IsrNewline
  PROVE  RxInv'
<1>1. /\ OneOrTheOther'
      /\ rx_line_ready => rx_line_ready' /\ rx_buf' = rx_buf
  BY FeedKeepsReadyLine DEF RxInv, IsrChar, IsrNewline
<1>2. pc' = pc /\ parsing' = parsing
  BY DEF IsrChar, IsrNewline, tickVars
<1> QED  BY <1>1, <1>2 DEF RxInv, ParseInv

(* The tick enters "parse" with a ready line only, and stores nothing      *)
(* there; elsewhere it only ever clears the flags.                         *)
LEMMA TickStep ==
  ASSUME RxInv, Tick
  PROVE  RxInv'
<1> USE DEF RxInv, OneOrTheOther, ParseInv
<1>1. CASE TestPending \/ SendErr \/ ClearPending \/ ClearReason
  BY <1>1 DEF TestPending, SendErr, ClearPending, ClearReason, bufVars
<1>2. CASE ClearField  BY <1>2 DEF ClearField
<1>3. CASE Cleared  BY <1>3 DEF Cleared, bufVars
<1>4. CASE Ask  BY <1>4 DEF Ask, StartClear, bufVars
<1>5. CASE NoLine  BY <1>5 DEF NoLine, bufVars
<1>6. CASE TakeLine  BY <1>6 DEF TakeLine, bufVars
<1>7. CASE Parsed  BY <1>7 DEF Parsed, StartClear, bufVars
<1>8. CASE SetPending \/ SetReason
  BY <1>8 DEF SetPending, SetReason, bufVars
<1> QED
  BY <1>1, <1>2, <1>3, <1>4, <1>5, <1>6, <1>7, <1>8 DEF Tick

LEMMA RxInvariance == Spec => []RxInv
<1>1. Init => RxInv  BY DEF Init, RxInv, OneOrTheOther, ParseInv
<1>2. RxInv /\ [Next]_vars => RxInv'
  <2>1. CASE UNCHANGED vars
    BY <2>1 DEF vars, bufVars, tickVars, RxInv, OneOrTheOther, ParseInv
  <2> QED  BY <2>1, InterruptStep, TickStep DEF Next
<1> QED  BY <1>1, <1>2, PTL DEF Spec

-----------------------------------------------------------------------------
(* What check_terminator and parse_s3 read is what was in rx_buf when      *)
(* armbl_tick found rx_line_ready, in whatever order clear_rx stores its   *)
(* fields and however many bytes arrive at once.                           *)
THEOREM ParsingIsStable == Spec => []ParseStable
<1>1. RxInv => ParseStable  BY DEF RxInv, ParseInv, ParseStable
<1> QED  BY <1>1, RxInvariance, PTL

-----------------------------------------------------------------------------
(* Types.                                                                  *)

(* What a byte appended to rx_buf makes of it.                             *)
LEMMA Appended ==
  ASSUME RxTypeOK, NEW b \in Nat \X Nat
  PROVE  /\ Append(rx_buf, b) \in Seq(Nat \X Nat)
         /\ Len(Append(rx_buf, b)) = Len(rx_buf) + 1
         /\ Append(rx_buf, b) # <<>>
         /\ Append(rx_buf, b)[Len(rx_buf) + 1] = b
         /\ \A i \in 1 .. Len(rx_buf) : Append(rx_buf, b)[i] = rx_buf[i]
<1>1. rx_buf \in Seq(Nat \X Nat)  BY DEF RxTypeOK
<1>2. Append(rx_buf, b) \in Seq(Nat \X Nat) /\ Len(rx_buf) \in Nat
  BY <1>1
<1>3. Len(Append(rx_buf, b)) = Len(rx_buf) + 1  BY <1>1
<1>4. Append(rx_buf, b) # <<>>
  <2>1. Len(<<>>) = 0 /\ Len(rx_buf) + 1 # 0  BY <1>2
  <2> HIDE DEF RxTypeOK
  <2> QED  BY <1>3, <2>1, Zenon
<1> QED  BY <1>1, <1>2, <1>3, <1>4

(* The stores that remain after one of clear_rx's.                         *)
LEMMA AfterStore ==
  ASSUME RxTypeOK, clearing # <<>>
  PROVE  /\ Len(clearing) \in Nat \ {0}
         /\ Head(clearing) = clearing[1]
         /\ Tail(clearing) \in Seq(Fields)
         /\ Len(Tail(clearing)) = Len(clearing) - 1
         /\ \A i \in 1 .. Len(clearing) - 1 :
              Tail(clearing)[i] = clearing[i + 1]
<1>1. clearing \in Seq(Fields)  BY DEF RxTypeOK
<1> QED  BY <1>1

LEMMA RxTyped == RxTypeOK /\ [Next]_vars => RxTypeOK'
<1> SUFFICES ASSUME RxTypeOK, [Next]_vars  PROVE RxTypeOK'
  OBVIOUS
<1> USE RxAssumption DEF RxTypeOK, Reasons
<1>1. CASE IsrChar
  <2>1. fed' \in 0 .. Burst  BY <1>1 DEF IsrChar, Arrive
  <2>2. <<line, at>> \in Nat \X Nat /\ Len(rx_buf) \in Nat
    OBVIOUS
  <2>3. rx_buf' \in Seq(Nat \X Nat) /\ Len(rx_buf') <= LINE_MAX
    <3>1. CASE UNCHANGED rx_buf  BY <3>1
    <3>2. CASE ~Full /\ rx_buf' = Append(rx_buf, <<line, at>>)
      BY <3>2, <2>2, Appended DEF Full
    <3> QED  BY <1>1, <3>1, <3>2 DEF IsrChar, FeedChar, bufVars
  <2>4. rx_overflow' \in BOOLEAN /\ rx_line_ready' \in BOOLEAN
    BY <1>1 DEF IsrChar, FeedChar, bufVars
  <2>5. UNCHANGED <<errVars, owed, line, size, tickVars, sent>> /\ at' = at + 1
    BY <1>1 DEF IsrChar, FeedChar
  <2> QED
    BY <2>1, <2>3, <2>4, <2>5 DEF errVars, tickVars
<1>2. CASE IsrNewline
  <2>1. fed' \in 0 .. Burst  BY <1>2 DEF IsrNewline, Arrive
  <2>2. rx_buf' \in Seq(Nat \X Nat) /\ Len(rx_buf') <= LINE_MAX
    <3>1. UNCHANGED rx_buf \/ rx_buf' = <<>>
      BY <1>2 DEF IsrNewline, FeedNewline, bufVars
    <3>2. <<>> \in Seq(Nat \X Nat) /\ Len(<<>>) <= LINE_MAX  OBVIOUS
    <3> QED  BY <3>1, <3>2
  <2>3. /\ rx_overflow' \in BOOLEAN /\ rx_line_ready' \in BOOLEAN
        /\ pending_err' \in BOOLEAN /\ owed' \in BOOLEAN
        /\ pending_err_reason' \in {"none", "len", "csum"}
    BY <1>2 DEF IsrNewline, FeedNewline, bufVars, errVars
  <2> QED  BY <1>2, <2>1, <2>2, <2>3 DEF IsrNewline, tickVars
<1>3. CASE TestPending
  BY <1>3 DEF TestPending, bufVars, errVars, lineVars
<1>12. CASE ClearPending
  BY <1>12 DEF ClearPending, bufVars, lineVars
<1>13. CASE ClearReason
  <2>1. pending_err_reason' \in {"none", "len", "csum"}
    BY <1>13 DEF ClearReason
  <2> QED  BY <1>13, <2>1 DEF ClearReason, bufVars, lineVars
<1>11. CASE SendErr
  <2>1. sent' \in {"none", "len", "csum", "?"}  BY <1>11 DEF SendErr
  <2> QED  BY <1>11, <2>1 DEF SendErr, bufVars, errVars, lineVars
<1>4. CASE ClearField
  <2>1. clearing' \in Seq(Fields)  BY <1>4, AfterStore DEF ClearField
  <2>2. rx_buf' \in Seq(Nat \X Nat) /\ Len(rx_buf') <= LINE_MAX
    BY <1>4 DEF ClearField
  <2> QED  BY <1>4, <2>1, <2>2 DEF ClearField, errVars, lineVars
<1>5. CASE Cleared  BY <1>5 DEF Cleared, bufVars, errVars
<1>6. CASE Ask  BY <1>6 DEF Ask, StartClear, bufVars, errVars, lineVars
<1>7. CASE NoLine \/ TakeLine
  BY <1>7 DEF NoLine, TakeLine, bufVars, errVars, lineVars
<1>8. CASE Parsed  BY <1>8 DEF Parsed, StartClear, bufVars, errVars, lineVars
<1>9. CASE SetPending \/ SetReason
  BY <1>9 DEF SetPending, SetReason, bufVars, lineVars
<1>10. CASE UNCHANGED vars
  BY <1>10 DEF vars, bufVars, errVars, tickVars, lineVars
<1> QED
  BY <1>1, <1>2, <1>3, <1>4, <1>5, <1>6, <1>7, <1>8, <1>9, <1>10,
     <1>11, <1>12, <1>13
  DEF Next, Tick

(* Every shared field keeps its type and rx_buf its bound, in whatever     *)
(* order clear_rx stores and however many bytes arrive within it.          *)
THEOREM RxTyping == Spec => []RxTypeOK
<1>1. Init => RxTypeOK
  <2> SUFFICES ASSUME Init  PROVE RxTypeOK
    OBVIOUS
  <2>1. <<>> \in Seq(Nat \X Nat) /\ Len(<<>>) = 0 /\ <<>> \in Seq(Fields)
    OBVIOUS
  <2>2. 0 \in 0 .. Burst /\ 0 <= LINE_MAX  BY RxAssumption
  <2> QED  BY <2>1, <2>2 DEF Init, RxTypeOK, Reasons
<1> QED  BY <1>1, RxTyped, PTL DEF Spec

-----------------------------------------------------------------------------
(* What a parsed line consists of.                                         *)

SourceOrder == ClearOrders = { <<"len", "ready", "overflow">> }

(* The stores clear_rx has still to make.                                  *)
Remaining ==
  pc = "clear" =>
    /\ Len(clearing) \in 0 .. 3
    /\ Len(clearing) = 3 =>
         clearing[1] = "len" /\ clearing[2] = "ready" /\ clearing[3] = "overflow"
    /\ Len(clearing) = 2 => clearing[1] = "ready" /\ clearing[2] = "overflow"
    /\ Len(clearing) = 1 => clearing[1] = "overflow"

(* rx_len is cleared and rx_line_ready is not yet.                         *)
Between == pc = "clear" /\ Len(clearing) = 2

ReadyHasBytes == rx_line_ready /\ ~Between => rx_buf # <<>>

LEMMA RemainingKept ==
  ASSUME SourceOrder, RxTypeOK, Remaining, [Next]_vars
  PROVE  Remaining'
<1> USE DEF Remaining
<1>1. CASE ClearField
  <2>1. clearing' = Tail(clearing) /\ clearing # <<>> /\ pc = "clear"
    BY <1>1 DEF ClearField
  <2>2. Len(clearing') = Len(clearing) - 1 /\ Len(clearing) \in 1 .. 3
    BY <2>1, AfterStore
  <2>3. \A i \in 1 .. Len(clearing) - 1 : clearing'[i] = clearing[i + 1]
    BY <2>1, AfterStore
  <2>4. Len(clearing') \in 0 .. 2  BY <2>2
  <2>5. Len(clearing') = 2 => clearing'[1] = "ready" /\ clearing'[2] = "overflow"
    BY <2>1, <2>2, <2>3
  <2>6. Len(clearing') = 1 => clearing'[1] = "overflow"
    BY <2>1, <2>2, <2>3
  <2> QED  BY <2>4, <2>5, <2>6
<1>2. CASE Ask \/ Parsed
  BY <1>2 DEF Ask, Parsed, StartClear, SourceOrder
<1>3. CASE TestPending \/ SendErr \/ ClearPending \/ ClearReason \/ Cleared
             \/ NoLine \/ TakeLine \/ SetPending \/ SetReason
  BY <1>3 DEF TestPending, SendErr, ClearPending, ClearReason, Cleared, NoLine,
              TakeLine, SetPending, SetReason
<1>4. CASE IsrChar \/ IsrNewline \/ UNCHANGED vars
  BY <1>4 DEF IsrChar, IsrNewline, vars, tickVars
<1> QED  BY <1>1, <1>2, <1>3, <1>4 DEF Next, Tick

LEMMA ReadyHasBytesKept ==
  ASSUME SourceOrder, RxTypeOK, RxInv, Remaining, ReadyHasBytes, [Next]_vars
  PROVE  ReadyHasBytes'
<1> USE DEF ReadyHasBytes, Between
<1>1. CASE IsrChar
  <2>1. <<line, at>> \in Nat \X Nat  BY DEF RxTypeOK
  <2> QED  BY <1>1, <2>1, Appended DEF IsrChar, FeedChar, bufVars, tickVars
<1>2. CASE IsrNewline
  <2>1. UNCHANGED <<pc, clearing>>  BY <1>2 DEF IsrNewline, tickVars
  <2>2. CASE rx_line_ready'
    <3>1. UNCHANGED rx_buf /\ (rx_line_ready \/ rx_buf # <<>>)
      BY <1>2, <2>2 DEF IsrNewline, FeedNewline, Blank, bufVars, RxInv,
                        OneOrTheOther
    <3> QED  BY <2>1, <3>1
  <2> QED  BY <2>2
<1>3. CASE ClearField
  <2>1. pc = "clear" /\ UNCHANGED pc /\ clearing # <<>>
        /\ clearing' = Tail(clearing)
    BY <1>3 DEF ClearField
  <2>2. /\ Len(clearing) \in 1 .. 3 /\ Head(clearing) = clearing[1]
        /\ Len(clearing') = Len(clearing) - 1
    BY <2>1, AfterStore DEF Remaining
  <2>3. CASE Len(clearing) = 3
    BY <2>1, <2>2, <2>3
  <2>4. CASE Len(clearing) = 2
    <3>1. clearing[1] = "ready"  BY <2>1, <2>4 DEF Remaining
    <3> QED  BY <1>3, <2>2, <3>1 DEF ClearField
  <2>5. CASE Len(clearing) = 1
    <3>1. clearing[1] = "overflow"  BY <2>1, <2>5 DEF Remaining
    <3>2. UNCHANGED rx_buf /\ (rx_line_ready' => rx_line_ready)
      BY <1>3, <2>2, <3>1 DEF ClearField
    <3> QED  BY <2>5, <3>2
  <2> QED  BY <2>2, <2>3, <2>4, <2>5
<1>4. CASE Ask \/ Parsed
  BY <1>4 DEF Ask, Parsed, StartClear, bufVars
<1>5. CASE Cleared
  BY <1>5 DEF Cleared, bufVars
<1>6. CASE TestPending \/ SendErr \/ ClearPending \/ ClearReason
             \/ NoLine \/ TakeLine \/ SetPending \/ SetReason
  BY <1>6 DEF TestPending, SendErr, ClearPending, ClearReason, NoLine,
              TakeLine, SetPending, SetReason, bufVars
<1>7. CASE UNCHANGED vars
  BY <1>7 DEF vars, bufVars, tickVars
<1> QED  BY <1>1, <1>2, <1>3, <1>4, <1>5, <1>6, <1>7 DEF Next, Tick

LEMMA ReadyHasBytesInvariance ==
  ASSUME SourceOrder
  PROVE  Spec => [](RxTypeOK /\ Remaining /\ ReadyHasBytes)
<1>1. Init => Remaining /\ ReadyHasBytes
  BY DEF Init, Remaining, ReadyHasBytes
<1>2. /\ RxTypeOK /\ RxInv /\ Remaining /\ ReadyHasBytes
      /\ [Next]_vars
      => Remaining' /\ ReadyHasBytes'
  BY RemainingKept, ReadyHasBytesKept
<1> QED  BY <1>1, <1>2, RxTyping, RxInvariance, PTL DEF Spec

(* armbl_tick is never given an empty line: with the stores of clear_rx in *)
(* the order of the source, a ready line has a byte wherever the interrupt *)
(* falls, however many bytes it hands over.                                *)
THEOREM ParsesSomething ==
  ASSUME SourceOrder  PROVE Spec => []NeverParsesNothing
<1>1. RxInv /\ ReadyHasBytes => NeverParsesNothing
  BY DEF RxInv, ParseInv, ReadyHasBytes, Between, NeverParsesNothing
<1> QED  BY <1>1, RxInvariance, ReadyHasBytesInvariance, PTL

-----------------------------------------------------------------------------
(* A parsed line is one line.                                              *)

(* clear_rx has emptied rx_buf and is not done.                            *)
AfterLen == pc = "clear" /\ Len(clearing) <= 2

(* Bytes that were given to rx_buf since then.                             *)
FreshInv ==
  /\ AfterLen /\ rx_buf # <<>> => fed > 0
  /\ Between /\ rx_line_ready => rx_buf = <<>>

(* A byte and the one after it in its line.                                *)
Follows(b, c) == c[1] = b[1] /\ c[2] = b[2] + 1

Contiguous(buf) == \A i \in 1 .. Len(buf) - 1 : Follows(buf[i], buf[i + 1])

(* The byte that arrives next continues rx_buf, unless it will be dropped. *)
OpenInv ==
  rx_buf # <<>> /\ ~rx_line_ready =>
    \/ Follows(rx_buf[Len(rx_buf)], <<line, at>>)
    \/ rx_overflow /\ Len(rx_buf) = LINE_MAX /\ ~AfterLen

SpliceInv == FreshInv /\ OpenInv /\ Contiguous(rx_buf)

OneByte == Burst <= 1

(* Within clear_rx, once rx_buf is empty, the one byte that can arrive     *)
(* finds it empty.                                                         *)
LEMMA FirstByte ==
  ASSUME OneByte, RxTypeOK, FreshInv, AfterLen, Arrive
  PROVE  rx_buf = <<>> /\ fed' = fed + 1 /\ fed \in Nat
BY RxAssumption DEF OneByte, RxTypeOK, FreshInv, AfterLen, Arrive

LEMMA BetweenIsAfterLen == Between => AfterLen
<1>1. \A n : n = 2 => n <= 2  OBVIOUS
<1> QED  BY <1>1 DEF Between, AfterLen

LEMMA EmptyIsContiguous == Contiguous(<<>>)
BY DEF Contiguous

LEMMA SpliceChar ==
  ASSUME OneByte, RxTypeOK, SpliceInv, IsrChar
  PROVE  SpliceInv'
<1> DEFINE b == <<line, at>>
<1>1. /\ UNCHANGED <<pc, clearing, line>> /\ at' = at + 1 /\ Arrive
      /\ FeedChar(b)
  BY DEF IsrChar, tickVars
<1>2. b \in Nat \X Nat /\ at \in Nat  BY DEF RxTypeOK
<1>3. CASE UNCHANGED bufVars /\ rx_line_ready
  <2>1. FreshInv'
    <3>1. CASE AfterLen
      BY <1>1, <1>3, <3>1, FirstByte
      DEF SpliceInv, FreshInv, AfterLen, Between, bufVars
    <3> QED
      BY <1>1, <1>3, <3>1 DEF SpliceInv, FreshInv, AfterLen, Between, bufVars
  <2> QED  BY <1>3, <2>1 DEF SpliceInv, OpenInv, bufVars
<1>4. CASE ~Holding /\ Full /\ rx_overflow' /\ UNCHANGED <<rx_buf, rx_line_ready>>
  <2>1. ~AfterLen
    <3> SUFFICES ASSUME AfterLen  PROVE FALSE
      OBVIOUS
    <3>1. rx_buf = <<>>  BY <1>1, FirstByte DEF SpliceInv
    <3>2. Len(rx_buf) = 0 /\ LINE_MAX \in Nat \ {0}  BY <3>1, RxAssumption
    <3> QED  BY <1>4, <3>2 DEF Full
  <2>2. Len(rx_buf) = LINE_MAX
    BY <1>4, RxAssumption DEF Full, RxTypeOK
  <2>3. ~AfterLen' /\ ~Between'
    <3>1. ~Between  BY <2>1, BetweenIsAfterLen
    <3> QED  BY <1>1, <2>1, <3>1 DEF AfterLen, Between
  <2> QED
    BY <1>4, <2>2, <2>3 DEF SpliceInv, FreshInv, OpenInv
<1>5. CASE /\ ~Holding /\ ~Full /\ rx_buf' = Append(rx_buf, b)
           /\ UNCHANGED <<rx_overflow, rx_line_ready>>
  <2> DEFINE n == Len(rx_buf)
  <2>1. /\ n \in Nat /\ Len(rx_buf') = n + 1 /\ rx_buf'[n + 1] = b
        /\ \A i \in 1 .. n : rx_buf'[i] = rx_buf[i]
    BY <1>2, <1>5, Appended DEF RxTypeOK
  <2>2. OpenInv'
    <3>1. b[1] = line /\ b[2] = at  OBVIOUS
    <3>2. Follows(b, <<line', at'>>)  BY <1>1, <3>1 DEF Follows
    <3> QED  BY <2>1, <3>2 DEF OpenInv
  <2>3. n > 0 => Follows(rx_buf[n], b)
    <3>1. n > 0 => rx_buf # <<>>  OBVIOUS
    <3>2. Len(rx_buf) # LINE_MAX  BY <1>5, RxAssumption DEF Full, RxTypeOK
    <3> QED  BY <1>5, <3>1, <3>2 DEF SpliceInv, OpenInv, Holding
  <2>4. Contiguous(rx_buf)'
    <3> SUFFICES ASSUME NEW i \in 1 .. Len(rx_buf') - 1
                 PROVE  Follows(rx_buf'[i], rx_buf'[i + 1])
      BY DEF Contiguous
    <3>1. CASE i = n  BY <2>1, <2>3, <3>1
    <3>2. CASE i # n
      <4>1. i \in 1 .. n - 1 /\ i \in 1 .. n /\ i + 1 \in 1 .. n
        BY <2>1, <3>2
      <4> QED  BY <2>1, <4>1 DEF SpliceInv, Contiguous
    <3> QED  BY <3>1, <3>2
  <2>5. FreshInv'
    <3>1. AfterLen' => fed' > 0
      <4>1. AfterLen' = AfterLen  BY <1>1 DEF AfterLen
      <4> QED  BY <1>1, <4>1, FirstByte DEF SpliceInv
    <3>2. ~rx_line_ready'  BY <1>5 DEF Holding
    <3> QED  BY <3>1, <3>2 DEF FreshInv
  <2> QED  BY <2>2, <2>4, <2>5 DEF SpliceInv
<1> QED  BY <1>1, <1>3, <1>4, <1>5 DEF FeedChar, Holding

LEMMA SpliceNewline ==
  ASSUME OneByte, RxTypeOK, SpliceInv, IsrNewline
  PROVE  SpliceInv'
<1>1. UNCHANGED <<pc, clearing>> /\ Arrive /\ FeedNewline
  BY DEF IsrNewline, tickVars
<1>2. UNCHANGED rx_buf \/ rx_buf' = <<>>
  BY <1>1 DEF FeedNewline, bufVars
<1>3. Contiguous(rx_buf)'
  BY <1>2, EmptyIsContiguous DEF SpliceInv, Contiguous
<1>4. rx_buf' = <<>> \/ rx_line_ready'
  BY <1>1 DEF FeedNewline, Blank, bufVars
<1>5. CASE AfterLen
  <2>1. rx_buf = <<>> /\ fed' > 0  BY <1>1, <1>5, FirstByte DEF SpliceInv
  <2>2. rx_buf' = <<>>  BY <1>2, <2>1
  <2> QED  BY <1>3, <2>2 DEF SpliceInv, FreshInv, OpenInv
<1>6. CASE ~AfterLen
  <2>1. ~AfterLen' /\ ~Between'
    <3>1. ~Between  BY <1>6, BetweenIsAfterLen
    <3> QED  BY <1>1, <1>6, <3>1 DEF AfterLen, Between
  <2> QED  BY <1>3, <1>4, <2>1 DEF SpliceInv, FreshInv, OpenInv
<1> QED  BY <1>5, <1>6

(* A store of clear_rx: the first empties rx_buf; the second finds it      *)
(* empty if a line was ready; before the third no byte was dropped.        *)
LEMMA SpliceClear ==
  ASSUME RxTypeOK, Remaining, SpliceInv, ClearField
  PROVE  SpliceInv'
<1>1. /\ pc = "clear" /\ UNCHANGED <<pc, line, at, fed>> /\ clearing # <<>>
      /\ clearing' = Tail(clearing)
  BY DEF ClearField, lineVars
<1>2. /\ Len(clearing) \in 1 .. 3 /\ Head(clearing) = clearing[1]
      /\ Len(clearing') = Len(clearing) - 1
  BY <1>1, AfterStore DEF Remaining
<1>3. CASE Len(clearing) = 3
  <2>1. rx_buf' = <<>>
    BY <1>1, <1>2, <1>3 DEF ClearField, Remaining
  <2> QED
    BY <2>1, EmptyIsContiguous DEF SpliceInv, FreshInv, OpenInv, Contiguous
<1>4. CASE Len(clearing) \in 1 .. 2
  <2>1. AfterLen  BY <1>1, <1>4 DEF AfterLen
  <2>2. clearing[1] # "len"  BY <1>1, <1>4 DEF Remaining
  <2>3. UNCHANGED rx_buf  BY <1>2, <2>2 DEF ClearField
  <2>4. ~Between'  BY <1>2, <1>4 DEF Between
  <2>5. FreshInv'
    BY <1>1, <2>1, <2>3, <2>4 DEF SpliceInv, FreshInv
  <2>6. OpenInv'
    <3>1. CASE rx_line_ready /\ ~rx_line_ready'
      <4>1. clearing[1] = "ready"
        BY <1>2, <3>1 DEF ClearField
      <4>2. Between
        BY <1>1, <1>4, <4>1 DEF Remaining, Between
      <4> QED  BY <2>3, <3>1, <4>2 DEF SpliceInv, FreshInv, OpenInv
    <3>2. CASE ~rx_line_ready
      <4>1. rx_buf # <<>> => Follows(rx_buf[Len(rx_buf)], <<line, at>>)
        BY <2>1, <3>2 DEF SpliceInv, OpenInv
      <4> QED  BY <1>1, <2>3, <4>1 DEF OpenInv
    <3> QED  BY <3>1, <3>2 DEF OpenInv
  <2> QED  BY <2>3, <2>5, <2>6 DEF SpliceInv, Contiguous
<1> QED  BY <1>2, <1>3, <1>4

LEMMA SpliceOther ==
  ASSUME SourceOrder, SpliceInv,
         UNCHANGED <<bufVars, line, at>>,
         pc' # "clear" \/ (pc # "clear" /\ clearing' \in ClearOrders)
                      \/ UNCHANGED vars
  PROVE  SpliceInv'
<1>1. CASE UNCHANGED vars
  BY <1>1 DEF vars, bufVars, tickVars, lineVars, SpliceInv, FreshInv, OpenInv,
              Contiguous, AfterLen, Between
<1>2. CASE pc' # "clear" \/ (pc # "clear" /\ clearing' \in ClearOrders)
  <2>1. ~AfterLen' /\ ~Between'
    BY <1>2 DEF AfterLen, Between, SourceOrder
  <2> QED
    BY <2>1 DEF bufVars, SpliceInv, FreshInv, OpenInv, Contiguous
<1> QED  BY <1>1, <1>2

LEMMA SpliceStep ==
  ASSUME SourceOrder, OneByte, RxTypeOK, Remaining, SpliceInv, [Next]_vars
  PROVE  SpliceInv'
<1>1. CASE IsrChar  BY <1>1, SpliceChar
<1>2. CASE IsrNewline  BY <1>2, SpliceNewline
<1>3. CASE ClearField  BY <1>3, SpliceClear
<1>4. CASE Ask \/ Parsed
  BY <1>4, SpliceOther DEF Ask, Parsed, StartClear, lineVars
<1>5. CASE TestPending \/ SendErr \/ ClearPending \/ ClearReason \/ Cleared
             \/ NoLine \/ TakeLine \/ SetPending \/ SetReason
  BY <1>5, SpliceOther
  DEF TestPending, SendErr, ClearPending, ClearReason, Cleared, NoLine,
      TakeLine, SetPending, SetReason, lineVars
<1>6. CASE UNCHANGED vars
  BY <1>6, SpliceOther DEF vars, lineVars
<1> QED  BY <1>1, <1>2, <1>3, <1>4, <1>5, <1>6 DEF Next, Tick

(* A line armbl_tick parses is the end of one line that was sent, if an    *)
(* interrupt hands over one byte and clear_rx stores in the order of the   *)
(* source: rx_len first, so that nothing is left of the old line when the  *)
(* flag that kept its successor out is cleared.                            *)
THEOREM NoSplice ==
  ASSUME SourceOrder, OneByte  PROVE Spec => []ParsedFromOneLine
<1>1. Init => SpliceInv
  BY EmptyIsContiguous
  DEF Init, SpliceInv, FreshInv, OpenInv, AfterLen, Between, Contiguous
<1>2. RxTypeOK /\ Remaining /\ SpliceInv /\ [Next]_vars => SpliceInv'
  BY SpliceStep
<1>3. SpliceInv => ParsedFromOneLine
  BY DEF SpliceInv, Contiguous, Follows, ParsedFromOneLine
<1> QED
  BY <1>1, <1>2, <1>3, ReadyHasBytesInvariance, PTL DEF Spec

=============================================================================
