-------------------------- MODULE WireLines_proofs ---------------------------
(***************************************************************************)
(* The lines of the wire, for every address width, region, flash, line     *)
(* length and set of messages: that no byte outside the region is          *)
(* programmed, what is read back from a request and from a version line,   *)
(* that stale bytes do not matter, that damage is caught and that a record *)
(* that is accepted is stored.                                             *)
(*                                                                         *)
(* The sums, numbers and addresses of a line are folds over sequences of   *)
(* any length.  UpTo is the induction they are reasoned about with.        *)
(***************************************************************************)
EXTENDS WireLines, FiniteSetTheorems, SequenceTheorems, TLAPS

-----------------------------------------------------------------------------
(* The region.                                                             *)

(* The last address of an accepted record may have wrapped around; but its *)
(* first word is then no flash, and is refused before the second.          *)
ProgramInv ==
  /\ DOMAIN flash = FLASH_BASE .. FLASH_END
  /\ pc = "prog" =>
       /\ Len(record.data) \in 0 .. LINE_MAX
       /\ InRegion(record.addr, Len(record.data))
       /\ off \in Nat /\ off % 4 = 0
       /\ off > 0 => InFlash(record.addr)

(* What the assumption on the constants says of each of them.              *)
LEMMA Sizes ==
  /\ AddrBytes \in Nat \ {0} /\ Space \in Nat /\ LINE_MAX \in Nat
  /\ app_start_addr \in Nat /\ app_end_addr \in Nat
  /\ FLASH_BASE \in Nat /\ FLASH_END \in Nat
  /\ FLASH_END + LINE_MAX < Space
  /\ app_end_addr % 4 = 3 /\ app_end_addr <= FLASH_END
BY WireAssumption DEF WireAssumption

(* The digits are those of a byte.                                         *)
LEMMA NibbleTyped ==
  ASSUME NEW c, IsHex(c)
  PROVE  hex_nibble(c) \in 0 .. 15
<1>1. \A s : ToSet(s) = {s[i] : i \in DOMAIN s}  BY DEF ToSet
<1>2. DOMAIN Hex = 1 .. 16 /\ DOMAIN LowerHex = 1 .. 16
  BY DEF Hex, LowerHex, Dec
<1>3. PICK i \in 1 .. 16 : c = Hex[i] \/ c = LowerHex[i]
  BY <1>1, <1>2 DEF IsHex
<1>4. i - 1 \in 0 .. 15 /\ c \in {Hex[(i - 1) + 1], LowerHex[(i - 1) + 1]}
  BY <1>3
<1>5. \E v \in 0 .. 15 : c \in {Hex[v + 1], LowerHex[v + 1]}  BY <1>4
<1> QED  BY <1>5 DEF hex_nibble

(* How long the data of a record is that passes the checks of parse_s3.    *)
LEMMA AcceptedLength ==
  ASSUME NEW buf, NEW len, Refusal(buf, len) = "none"
  PROVE  /\ Len(Decoded(buf).data) \in 0 .. LINE_MAX
         /\ InRegion(Decoded(buf).addr, Len(Decoded(buf).data))
<1> DEFINE n == Count(buf) - 1
           S == {Payload(buf, k) : k \in 1 .. n}
<1>1. /\ IsByte(buf, 3) /\ ~(Count(buf) < AddrBytes + 1)
      /\ ~(Count(buf) > LINE_MAX \div 2)
      /\ InRegion(Decoded(buf).addr, Len(Decoded(buf).data))
  BY DEF Refusal
<1>2. Count(buf) \in Nat
  <2>1. /\ hex_nibble(At(buf, 3)) \in 0 .. 15
        /\ hex_nibble(At(buf, 3 + 1)) \in 0 .. 15
    BY <1>1, NibbleTyped DEF IsByte
  <2> HIDE DEF hex_nibble
  <2> QED  BY <2>1 DEF Count, hex_byte
<1>3. n \in Nat /\ n >= AddrBytes /\ n <= LINE_MAX
  BY <1>1, <1>2, Sizes
<1>4. Payloads(buf, n) \in Seq(S) /\ Len(Payloads(buf, n)) = n
  BY <1>3 DEF Payloads
<1>5. Decoded(buf).data = SubSeq(Payloads(buf, n), AddrBytes + 1, n)
  BY DEF Decoded
<1> HIDE DEF n, S
<1>6. Len(Decoded(buf).data) = n - AddrBytes
  BY <1>3, <1>4, <1>5, Sizes
<1> QED  BY <1>1, <1>3, <1>6, Sizes

(* A word that is programmed lies in the region: its address does not wrap *)
(* around.                                                                 *)
LEMMA WordInRegion ==
  ASSUME ProgramInv, pc = "prog", off < Len(record.data), InFlash(Place)
  PROVE  /\ Place \in Nat
         /\ Place .. Place + 3 \subseteq app_start_addr .. app_end_addr
         /\ InFlash(record.addr) /\ Place = record.addr + off
<1> DEFINE a == record.addr
           n == Len(record.data)
           s == app_start_addr
           e == app_end_addr
<1>1. /\ a \in s .. Space - 1 /\ (a + n - 1) % Space <= e /\ a % 4 = 0
      /\ n \in 0 .. LINE_MAX /\ off \in Nat /\ off % 4 = 0 /\ off < n
      /\ off > 0 => InFlash(a)
  BY DEF ProgramInv, InRegion
<1>2. a \in Nat /\ a < Space /\ n \in Nat /\ n >= 1  BY <1>1, Sizes
<1>3. off = 0 => Place = a
  BY <1>2, Sizes DEF Place
<1>4. InFlash(a)  BY <1>1, <1>3
<1>5. FLASH_BASE <= a /\ a + 3 <= FLASH_END  BY <1>4 DEF InFlash
<1>6. /\ s \in Nat /\ e \in Nat /\ e % 4 = 3
      /\ Space \in Nat /\ LINE_MAX \in Nat /\ FLASH_END \in Nat
      /\ FLASH_END + LINE_MAX < Space
  BY Sizes
<1>7. a \in Nat /\ s <= a  BY <1>1, <1>6
<1>8. Place = (a + off) % Space  BY DEF Place
<1> HIDE DEF a, n, s, e
<1>9. a + n - 1 \in 0 .. Space - 1 /\ a + off \in 0 .. Space - 1
  BY <1>1, <1>2, <1>5, <1>6, <1>7
<1>10. \A x \in 0 .. Space - 1 : x % Space = x  BY <1>6
<1>11. Place = a + off /\ a + off <= e
  <2>1. Place = a + off /\ a + n - 1 <= e
    BY <1>1, <1>8, <1>9, <1>10
  <2> QED  BY <1>1, <1>2, <1>6, <2>1
<1>12. a + off + 3 <= e
  <2>1. (a + off) % 4 = 0  BY <1>1, <1>7
  <2> QED  BY <1>1, <1>6, <1>7, <1>11, <2>1
<1>13. Place \in Nat /\ \A x \in Place .. Place + 3 : x \in s .. e
  BY <1>1, <1>6, <1>7, <1>11, <1>12
<1> QED  BY <1>4, <1>11, <1>13 DEF a, s, e

(* ProgramInv is inductive.                                                *)
LEMMA ProgramInvHolds ==
  ASSUME ProgramInv, [WireNext]_wireVars
  PROVE  ProgramInv'
<1>1. ASSUME UNCHANGED flash, pc' # "prog" PROVE ProgramInv'
  BY <1>1 DEF ProgramInv
<1>2. CASE AskVersion \/ AskLine
  BY <1>1, <1>2 DEF AskVersion, AskLine
<1>3. CASE Receive \/ ReceiveDamaged
  BY <1>1, <1>3 DEF Receive, ReceiveDamaged, Store
<1>4. CASE ParseVersion \/ ParseTerminator \/ ParseRefuses
  BY <1>1, <1>4 DEF ParseVersion, ParseTerminator, ParseRefuses, Consume
<1>5. CASE ParseAccepts
  <2>1. /\ flash' = flash /\ record' = Decoded(rx_buf) /\ off' = 0
        /\ Refusal(rx_buf, rx_len) = "none"
    BY <1>5 DEF ParseAccepts
  <2>2. /\ Len(record'.data) \in 0 .. LINE_MAX
        /\ InRegion(record'.addr, Len(record'.data))
    BY <2>1, AcceptedLength
  <2> QED  BY <2>1, <2>2 DEF ProgramInv, InRegion
<1>6. CASE ProgramWord
  <2>1. /\ pc = "prog" /\ pc' = "prog" /\ record' = record /\ off' = off + 4
        /\ off < Len(record.data) /\ InFlash(Place)
        /\ DOMAIN flash' = DOMAIN flash
    BY <1>6 DEF ProgramWord
  <2>2. InFlash(record.addr)  BY <2>1, WordInRegion
  <2>3. off + 4 \in Nat /\ (off + 4) % 4 = 0
    BY <2>1 DEF ProgramInv
  <2> QED  BY <2>1, <2>2, <2>3 DEF ProgramInv, InRegion, InFlash
<1>7. CASE ProgramFails \/ Programmed
  BY <1>1, <1>7 DEF ProgramFails, Programmed, Consume
<1>8. CASE UNCHANGED wireVars
  BY <1>8 DEF wireVars, ProgramInv, InRegion, InFlash
<1> QED
  BY <1>2, <1>3, <1>4, <1>5, <1>6, <1>7, <1>8 DEF WireNext

(* Whatever lines arrive, parse_s3 programs no byte outside the region,    *)
(* although its range check wraps around with the last address.            *)
THEOREM WritesInRegion == WireSpec => RegionOnly
<1> DEFINE Kept == \A b \in FLASH_BASE .. FLASH_END :
                     b \notin app_start_addr .. app_end_addr =>
                       flash'[b] = flash[b]
<1>1. WireInit => ProgramInv  BY DEF WireInit, ProgramInv
<1>2. ProgramInv /\ [WireNext]_wireVars => ProgramInv'
  BY ProgramInvHolds
<1>3. ASSUME ProgramInv, [WireNext]_wireVars PROVE [Kept]_wireVars
  <2>1. CASE ProgramWord
    <3>1. /\ Place \in Nat
          /\ Place .. Place + 3 \subseteq app_start_addr .. app_end_addr
      BY <1>3, <2>1, WordInRegion DEF ProgramWord
    <3> QED  BY <1>3, <2>1, <3>1 DEF ProgramWord, ProgramInv
  <2>2. CASE ~ProgramWord
    <3>1. flash' = flash
      BY <1>3, <2>2
      DEF WireNext, AskVersion, AskLine, Receive, ReceiveDamaged, Store,
          ParseVersion, ParseTerminator, ParseRefuses, ParseAccepts,
          ProgramFails, Programmed, wireVars
    <3> QED  BY <3>1
  <2> QED  BY <2>1, <2>2
<1> QED  BY <1>1, <1>2, <1>3, PTL DEF WireSpec, RegionOnly

-----------------------------------------------------------------------------
(* Folds.                                                                  *)

(* Induction on the numbers up to n, with a set for the predicate: were k  *)
(* not in it, adding one to its members below k would map 0 .. k into      *)
(* 1 .. k without two of them meeting.                                     *)
LEMMA UpTo ==
  ASSUME NEW n \in Nat, NEW T, 0 \in T,
         \A k \in 0 .. n : k \in T /\ k < n => k + 1 \in T
  PROVE  \A k \in 0 .. n : k \in T
<1> SUFFICES ASSUME NEW k \in 0 .. n, k \notin T  PROVE FALSE  OBVIOUS
<1> DEFINE h == [x \in 0 .. k |-> IF x \in T THEN x + 1 ELSE x]
<1>1. h \in [0 .. k -> 1 .. k]  OBVIOUS
<1>2. \A x, y \in 0 .. k : h[x] = h[y] => x = y  OBVIOUS
<1> HIDE DEF h
<1>3. /\ IsFiniteSet(0 .. k) /\ Cardinality(0 .. k) = k + 1
      /\ IsFiniteSet(1 .. k) /\ Cardinality(1 .. k) = k
  BY FS_Interval
<1>4. Cardinality(1 .. k) < Cardinality(0 .. k)  BY <1>3
<1>5. \E x, y \in 0 .. k : x # y /\ h[x] = h[y]
  BY <1>1, <1>3, <1>4, FS_PigeonHole
<1> QED  BY <1>2, <1>5

(* The greatest of a set of numbers up to m that has m.                    *)
LEMMA MaxTop ==
  ASSUME NEW m \in Nat, NEW S \in SUBSET (1 .. m), m \in S
  PROVE  Max(S) = m
<1>1. \A x \in S : (\A y \in S : x >= y) <=> x = m  OBVIOUS
<1> QED  BY <1>1 DEF Max

(* A set of places that is not empty has a last one.                       *)
LEMMA HasMax ==
  ASSUME NEW n \in Nat, NEW S \in SUBSET (1 .. n), S # {}
  PROVE  Max(S) \in S
<1> DEFINE T == {m \in 0 .. n :
                  \A U \in SUBSET (1 .. m) : U # {} => Max(U) \in U}
<1>1. 0 \in T
  <2>1. \A U \in SUBSET (1 .. 0) : U = {}  OBVIOUS
  <2>2. 0 \in 0 .. n  OBVIOUS
  <2> QED  BY <2>1, <2>2
<1>2. ASSUME NEW m \in 0 .. n, m \in T, m < n  PROVE m + 1 \in T
  <2>1. ASSUME NEW U \in SUBSET (1 .. m + 1), U # {}  PROVE Max(U) \in U
    <3>1. CASE m + 1 \in U  BY <3>1, MaxTop
    <3>2. CASE m + 1 \notin U
      <4>1. U \in SUBSET (1 .. m)  BY <3>2
      <4> QED  BY <1>2, <2>1, <4>1
    <3> QED  BY <3>1, <3>2
  <2> QED  BY <1>2, <2>1
<1>3. \A m \in 0 .. n : m \in T /\ m < n => m + 1 \in T  BY <1>2
<1>4. n \in T
  <2> HIDE DEF T
  <2>1. \A m \in 0 .. n : m \in T  BY <1>1, <1>3, UpTo
  <2> QED  BY <2>1
<1> QED  BY <1>4

(* It is what FoldLeft recurs on, its step given by table t; r is how far  *)
(* it is after each place of s.                                            *)
FoldsBy(it, base, n, s, t) ==
  \A S \in SUBSET (1 .. n) :
    it[S] = IF S = {} THEN base ELSE t[<<it[S \ {Max(S)}], s[Max(S)]>>]

StepsBy(it, V, base, E, n, s, t) ==
  /\ it[{}] = base
  /\ \A S \in SUBSET (1 .. n) :
       S # {} /\ it[S \ {Max(S)}] \in V /\ s[Max(S)] \in E =>
         it[S] = t[<<it[S \ {Max(S)}], s[Max(S)]>>]

Runs(r, it, base, n, s, t) ==
  /\ r[0] = base /\ r[n] = it[1 .. n]
  /\ \A k \in 1 .. n : r[k] = t[<<r[k - 1], s[k]>>]

(* The recursion has a solution.                                           *)
LEMMA FoldExists ==
  ASSUME NEW V, NEW base \in V, NEW E, NEW n \in Nat,
         NEW s \in [1 .. n -> E], NEW t \in [V \X E -> V]
  PROVE  \E it \in [SUBSET (1 .. n) -> V] : FoldsBy(it, base, n, s, t)
<1> DEFINE Solves(it, m) == FoldsBy(it, base, m, s, t)
           T == {m \in 0 .. n :
                  \E it \in [SUBSET (1 .. m) -> V] : Solves(it, m)}
<1>1. 0 \in T
  <2> DEFINE it == [S \in SUBSET (1 .. 0) |-> base]
  <2>1. it \in [SUBSET (1 .. 0) -> V] /\ Solves(it, 0)  BY DEF FoldsBy
  <2>2. 0 \in 0 .. n  OBVIOUS
  <2> HIDE DEF it, Solves
  <2> QED  BY <2>1, <2>2
<1>2. ASSUME NEW m \in 0 .. n, m \in T, m < n  PROVE m + 1 \in T
  <2>1. PICK it \in [SUBSET (1 .. m) -> V] : Solves(it, m)  BY <1>2
  <2> DEFINE jt == [S \in SUBSET (1 .. m + 1) |->
                      IF m + 1 \in S THEN t[<<it[S \ {m + 1}], s[m + 1]>>]
                      ELSE it[S]]
  <2>2. \A S \in SUBSET (1 .. m + 1) :
          /\ S \ {m + 1} \in SUBSET (1 .. m)
          /\ m + 1 \notin S => S \in SUBSET (1 .. m)
    OBVIOUS
  <2>3. s[m + 1] \in E  BY <1>2
  <2>4. jt \in [SUBSET (1 .. m + 1) -> V]  BY <2>2, <2>3
  <2>5. ASSUME NEW S \in SUBSET (1 .. m + 1)
        PROVE  jt[S] = IF S = {} THEN base
                       ELSE t[<<jt[S \ {Max(S)}], s[Max(S)]>>]
    <3>1. CASE m + 1 \in S
      <4>1. Max(S) = m + 1  BY <3>1, MaxTop
      <4>2. jt[S \ {m + 1}] = it[S \ {m + 1}]  BY <2>2
      <4> QED  BY <3>1, <4>1, <4>2
    <3>2. CASE m + 1 \notin S
      <4>1. S \in SUBSET (1 .. m)  BY <2>2, <3>2
      <4>2. S \ {Max(S)} \in SUBSET (1 .. m)  BY <4>1
      <4>3. jt[S] = it[S] /\ jt[S \ {Max(S)}] = it[S \ {Max(S)}]
        BY <3>2, <4>1, <4>2
      <4> HIDE DEF jt
      <4> QED  BY <2>1, <4>1, <4>3 DEF FoldsBy
    <3> QED  BY <3>1, <3>2
  <2> HIDE DEF jt
  <2>6. Solves(jt, m + 1)  BY <2>5 DEF FoldsBy
  <2> HIDE DEF Solves
  <2> QED  BY <1>2, <2>4, <2>6
<1> HIDE DEF Solves
<1>3. n \in T
  <2>1. \A m \in 0 .. n : m \in T /\ m < n => m + 1 \in T  BY <1>2
  <2> HIDE DEF T
  <2>2. \A m \in 0 .. n : m \in T  BY <1>1, <2>1, UpTo
  <2> QED  BY <2>2
<1> QED  BY <1>3 DEF Solves

(* What such a recursion says of the places of s in turn.                  *)
LEMMA FoldRuns ==
  ASSUME NEW V, NEW base \in V, NEW E, NEW n \in Nat,
         NEW s \in [1 .. n -> E], NEW t \in [V \X E -> V],
         NEW it, StepsBy(it, V, base, E, n, s, t)
  PROVE  \E r \in [0 .. n -> V] : Runs(r, it, base, n, s, t)
<1> DEFINE r == [k \in 0 .. n |-> it[1 .. k]]
           T == {k \in 0 .. n : r[k] \in V}
<1>1. r[0] = base
  <2>1. 1 .. 0 = {}  OBVIOUS
  <2> QED  BY <2>1 DEF StepsBy
<1>2. \A k \in 1 .. n : r[k - 1] \in V => r[k] = t[<<r[k - 1], s[k]>>]
  <2> TAKE k \in 1 .. n
  <2>1. 1 .. k \in SUBSET (1 .. n) /\ k \in 1 .. k  OBVIOUS
  <2>2. Max(1 .. k) = k  BY <2>1, MaxTop
  <2>3. (1 .. k) \ {k} = 1 .. k - 1  OBVIOUS
  <2>4. r[k] = it[1 .. k] /\ r[k - 1] = it[1 .. k - 1]  OBVIOUS
  <2> HIDE DEF r
  <2> QED  BY <2>1, <2>2, <2>3, <2>4 DEF StepsBy
<1> HIDE DEF r
<1>3. \A k \in 0 .. n : k \in T
  <2>1. 0 \in T  BY <1>1
  <2>2. ASSUME NEW k \in 0 .. n, k \in T, k < n  PROVE k + 1 \in T
    <3>1. k + 1 \in 1 .. n /\ (k + 1) - 1 = k /\ s[k + 1] \in E  BY <2>2
    <3>2. r[k + 1] = t[<<r[k], s[k + 1]>>]  BY <1>2, <2>2, <3>1
    <3> QED  BY <2>2, <3>1, <3>2
  <2> HIDE DEF T
  <2> QED  BY <2>1, <2>2, UpTo
<1>4. \A k \in 1 .. n : k - 1 \in 0 .. n  OBVIOUS
<1>5. r \in [0 .. n -> V] /\ r[n] = it[1 .. n]  BY <1>3 DEF r
<1>6. \A k \in 1 .. n : r[k] = t[<<r[k - 1], s[k]>>]  BY <1>2, <1>3, <1>4
<1> QED  BY <1>1, <1>5, <1>6 DEF Runs

(* The sum of a sequence, place by place.                                  *)
LEMMA SumRuns ==
  ASSUME NEW n \in Nat, NEW s \in [1 .. n -> Int]
  PROVE  \E r \in [0 .. n -> Int] :
           /\ r[0] = 0 /\ r[n] = Sum(s)
           /\ \A k \in 1 .. n : r[k] = r[k - 1] + s[k]
<1> DEFINE t == [p \in Int \X Int |-> p[1] + p[2]]
           F(it) == [S \in SUBSET (1 .. n) |->
                       IF S = {} THEN 0 ELSE it[S \ {Max(S)}] + s[Max(S)]]
           c == CHOOSE it : it = F(it)
<1>1. Sum(s) = c[1 .. n]
  <2>1. DOMAIN s = 1 .. n  OBVIOUS
  <2> QED  BY <2>1 DEF Sum, FoldLeft, MapThenFoldSet
<1>2. t \in [Int \X Int -> Int] /\ \A v, e \in Int : t[<<v, e>>] = v + e
  OBVIOUS
<1> HIDE DEF t
<1>3. \E it : it = F(it)
  <2>1. PICK it \in [SUBSET (1 .. n) -> Int] :
           FoldsBy(it, 0, n, s, t)
    <3>1. 0 \in Int  OBVIOUS
    <3> QED  BY <1>2, <3>1, FoldExists
  <2>2. ASSUME NEW S \in SUBSET (1 .. n), S # {}
        PROVE  it[S] = it[S \ {Max(S)}] + s[Max(S)]
    <3>1. s[Max(S)] \in Int /\ it[S \ {Max(S)}] \in Int  BY <2>2, HasMax
    <3> QED  BY <1>2, <2>1, <2>2, <3>1 DEF FoldsBy
  <2>3. it = F(it)  BY <2>1, <2>2 DEF FoldsBy
  <2> QED  BY <2>3
<1>4. c = F(c)  BY <1>3
<1> HIDE DEF c
<1>5. c[{}] = 0 /\ \A S \in SUBSET (1 .. n) : S # {} =>
                     c[S] = c[S \ {Max(S)}] + s[Max(S)]
  BY <1>4
<1>6. PICK r \in [0 .. n -> Int] :
        Runs(r, c, 0, n, s, t)
  <2>1. 0 \in Int  OBVIOUS
  <2>2. ASSUME NEW S \in SUBSET (1 .. n), S # {}, c[S \ {Max(S)}] \in Int,
               s[Max(S)] \in Int
        PROVE  c[S] = t[<<c[S \ {Max(S)}], s[Max(S)]>>]
    BY <1>2, <1>5, <2>2
  <2>3. StepsBy(c, Int, 0, Int, n, s, t)  BY <1>5, <2>2 DEF StepsBy
  <2>4. /\ n \in Nat /\ s \in [1 .. n -> Int] /\ t \in [Int \X Int -> Int]
        /\ StepsBy(c, Int, 0, Int, n, s, t)
    BY <1>2, <2>3
  <2> HIDE DEF F
  <2> QED  BY ONLY <2>1, <2>4, FoldRuns
<1>7. \A k \in 1 .. n : r[k] = r[k - 1] + s[k]
  <2> TAKE k \in 1 .. n
  <2>1. r[k - 1] \in Int /\ s[k] \in Int  OBVIOUS
  <2> QED  BY <1>2, <1>6, <2>1 DEF Runs
<1> HIDE DEF t, F
<1> QED  BY <1>1, <1>6, <1>7 DEF Runs

-----------------------------------------------------------------------------
(* Bytes behind the line.                                                  *)

(* The remainder of a number is known from any quotient.                   *)
LEMMA Remainder ==
  \A x \in Int : \A q \in Int, r \in 0 .. 255 :
    x = 256 * q + r => x % 256 = r
OBVIOUS

(* (uint8_t)(0 - 1) is 255.                                                *)
LEMMA LastOfNone ==
  ASSUME NEW count, count = 0
  PROVE  (count - 1) % 256 = 255
<1> DEFINE x == count - 1
<1>1. x \in Int /\ -1 \in Int /\ 255 \in 0 .. 255 /\ x = 256 * (-1) + 255
  OBVIOUS
<1> HIDE DEF x
<1>2. x % 256 = 255  BY <1>1, Remainder
<1> QED  BY <1>2 DEF x

(* Two buffers that hold the same line, of len characters.                 *)
SameLine(b, c, len) ==
  /\ len \in 0 .. LINE_MAX
  /\ DOMAIN b = 1 .. LINE_MAX /\ DOMAIN c = 1 .. LINE_MAX
  /\ \A i \in 1 .. len : b[i] = c[i]

(* The count of a line is a byte, and its payloads lie inside a line whose *)
(* length is the one the count says.                                       *)
LEMMA ByteTyped ==
  ASSUME NEW buf, NEW i, IsByte(buf, i)
  PROVE  hex_byte(buf, i) \in 0 .. 255
<1>1. /\ hex_nibble(At(buf, i)) \in 0 .. 15
      /\ hex_nibble(At(buf, i + 1)) \in 0 .. 15
  BY NibbleTyped DEF IsByte
<1> HIDE DEF hex_nibble
<1> QED  BY <1>1 DEF hex_byte

(* Two buffers that hold the same line read as the same byte in it.        *)
LEMMA SameByte ==
  ASSUME NEW b, NEW c, NEW len, SameLine(b, c, len),
         NEW i \in Nat, i > 0, i + 1 <= len
  PROVE  /\ IsByte(b, i) = IsByte(c, i)
         /\ hex_byte(b, i) = hex_byte(c, i)
<1>1. At(b, i) = At(c, i) /\ At(b, i + 1) = At(c, i + 1)
  BY Sizes DEF SameLine, At
<1> QED  BY <1>1 DEF IsByte, hex_byte

(* They read as the same count and, when it fits the line, as the same     *)
(* bytes.                                                                  *)
LEMMA SameRecord ==
  ASSUME NEW b, NEW c, NEW len, SameLine(b, c, len), len >= 4,
         IsByte(b, 3)
  PROVE  /\ IsByte(c, 3) /\ Count(b) = Count(c) /\ Count(b) \in 0 .. 255
         /\ LengthFits(b, len) = LengthFits(c, len)
         /\ LengthFits(b, len) =>
              /\ \A k \in 1 .. Count(b) : /\ IsPayload(b, k) = IsPayload(c, k)
                                          /\ Payload(b, k) = Payload(c, k)
              /\ \A n \in 0 .. Count(b) : Payloads(b, n) = Payloads(c, n)
<1>1. len \in Nat  BY Sizes DEF SameLine
<1>2. IsByte(c, 3) /\ hex_byte(b, 3) = hex_byte(c, 3)
  <2>1. IsByte(b, 3) = IsByte(c, 3) /\ hex_byte(b, 3) = hex_byte(c, 3)
    BY <1>1, SameByte
  <2> QED  BY <2>1
<1>3. Count(b) = Count(c) /\ Count(b) \in 0 .. 255
  BY <1>2, ByteTyped DEF Count
<1>4. LengthFits(b, len) = LengthFits(c, len)  BY <1>3 DEF LengthFits
<1>5. ASSUME LengthFits(b, len), NEW k \in 1 .. Count(b)
      PROVE  /\ IsPayload(b, k) = IsPayload(c, k)
             /\ Payload(b, k) = Payload(c, k)
  <2>1. 3 + 2 * k \in Nat /\ 3 + 2 * k > 0 /\ (3 + 2 * k) + 1 <= len
    BY <1>1, <1>3, <1>5 DEF LengthFits
  <2> QED  BY <2>1, SameByte DEF IsPayload, Payload
<1>6. ASSUME LengthFits(b, len), NEW n \in 0 .. Count(b)
      PROVE  Payloads(b, n) = Payloads(c, n)
  <2>1. \A k \in 1 .. n : Payload(b, k) = Payload(c, k)
    BY <1>3, <1>5, <1>6
  <2> QED  BY <2>1 DEF Payloads
<1> QED  BY <1>2, <1>3, <1>4, <1>5, <1>6

(* A terminator whose count is zero would have 255 bytes more than any     *)
(* line.                                                                   *)
LEMMA CountsBytes ==
  ASSUME NEW b, NEW len, LINE_MAX < 514, check_terminator(b, len)
  PROVE  Count(b) # 0
<1> SUFFICES ASSUME Count(b) = 0  PROVE FALSE  OBVIOUS
<1>1. IsPayload(b, 255)
  <2>1. (Count(b) - 1) % 256 = 255  BY LastOfNone
  <2> QED  BY <2>1 DEF check_terminator
<1>2. At(b, 3 + 2 * 255 + 1) = Other  BY Sizes DEF At
<1>3. ~IsHex(Other)  BY DEF IsHex, Other, Hex, LowerHex, Dec, ToSet
<1> QED  BY <1>1, <1>2, <1>3 DEF IsPayload, IsByte

(* A terminator is told by its own characters.                             *)
LEMMA SameTerminator ==
  ASSUME NEW b, NEW c, NEW len, SameLine(b, c, len), LINE_MAX < 514,
         check_terminator(b, len)
  PROVE  check_terminator(c, len)
<1>1. len \in Nat /\ len >= 4 /\ IsByte(b, 3) /\ LengthFits(b, len)
  BY Sizes DEF SameLine, check_terminator
<1>2. /\ IsByte(c, 3) /\ Count(b) = Count(c) /\ Count(b) \in 0 .. 255
      /\ LengthFits(c, len)
      /\ \A k \in 1 .. Count(b) : /\ IsPayload(b, k) = IsPayload(c, k)
                                  /\ Payload(b, k) = Payload(c, k)
      /\ \A n \in 0 .. Count(b) : Payloads(b, n) = Payloads(c, n)
  BY <1>1, SameRecord
<1>3. Count(b) # 0  BY CountsBytes
<1> DEFINE last == (Count(b) - 1) % 256
<1>4. last \in 0 .. Count(b) /\ Count(b) \in 1 .. Count(b)  BY <1>2, <1>3
<1>5. b[1] = c[1] /\ b[2] = c[2]  BY <1>1 DEF SameLine
<1>6. /\ b[1] = "S" /\ b[2] \in {"7", "8", "9"}
      /\ \A k \in 1 .. last : IsPayload(b, k)
      /\ IsPayload(b, Count(b)) /\ SumHolds(b, last)
  BY DEF check_terminator
<1> HIDE DEF last
<1>7. /\ \A k \in 1 .. last : IsPayload(c, k)
      /\ IsPayload(c, Count(c)) /\ SumHolds(c, last)
  BY <1>2, <1>4, <1>6 DEF SumHolds
<1> QED  BY <1>1, <1>2, <1>5, <1>6, <1>7 DEF last, check_terminator

(* They are refused, or accepted, alike.                                   *)
LEMMA SameRefusal ==
  ASSUME NEW b, NEW c, NEW len, SameLine(b, c, len)
  PROVE  Refusal(b, len) = Refusal(c, len)
<1>1. CASE len < 2 + 2 + 2 * AddrBytes + 2  BY <1>1 DEF Refusal
<1> SUFFICES ASSUME ~(len < 2 + 2 + 2 * AddrBytes + 2)
             PROVE  Refusal(b, len) = Refusal(c, len)
  BY <1>1
<1>2. len \in Nat /\ len >= 4 /\ AddrBytes \in Nat /\ AddrBytes >= 1
  BY Sizes DEF SameLine
<1>3. b[1] = c[1] /\ b[2] = c[2]  BY <1>2 DEF SameLine
<1>4. IsByte(b, 3) = IsByte(c, 3)  BY <1>2, SameByte
<1>5. CASE ~IsByte(b, 3)  BY <1>3, <1>4, <1>5 DEF Refusal
<1>6. CASE IsByte(b, 3)
  <2>1. /\ Count(b) = Count(c) /\ Count(b) \in 0 .. 255
        /\ LengthFits(b, len) = LengthFits(c, len)
        /\ LengthFits(b, len) =>
              /\ \A k \in 1 .. Count(b) : /\ IsPayload(b, k) = IsPayload(c, k)
                                          /\ Payload(b, k) = Payload(c, k)
              /\ \A n \in 0 .. Count(b) : Payloads(b, n) = Payloads(c, n)
    BY <1>2, <1>6, SameRecord
  <2>2. CASE \/ ~LengthFits(b, len) \/ Count(b) < AddrBytes + 1
             \/ Count(b) > LINE_MAX \div 2
    BY <1>3, <1>4, <2>1, <2>2 DEF Refusal
  <2>3. CASE ~(\/ ~LengthFits(b, len) \/ Count(b) < AddrBytes + 1
               \/ Count(b) > LINE_MAX \div 2)
    <3>1. /\ AddrBytes \in 0 .. Count(b) /\ Count(b) - 1 \in 0 .. Count(b)
          /\ Count(b) \in 1 .. Count(b)
      BY <1>2, <2>1, <2>3
    <3>2. (\E k \in 1 .. Count(b) : ~IsPayload(b, k))
            <=> (\E k \in 1 .. Count(c) : ~IsPayload(c, k))
      BY <2>1, <2>3
    <3>3. SumHolds(b, Count(b) - 1) = SumHolds(c, Count(c) - 1)
      BY <2>1, <2>3, <3>1 DEF SumHolds
    <3>4. Decoded(b) = Decoded(c)  BY <2>1, <2>3, <3>1 DEF Decoded
    <3> QED  BY <1>3, <1>4, <2>1, <3>2, <3>3, <3>4 DEF Refusal
  <2> QED  BY <2>2, <2>3
<1> QED  BY <1>5, <1>6

(* Where the digits end in a line of len characters, from place i on.      *)
LEMMA DigitsEndIs ==
  ASSUME NEW b, NEW len \in Nat, NEW i \in 1 .. len + 1
  PROVE  /\ DigitsEnd(b, len, i) \in i - 1 .. len
         /\ \A k \in i .. DigitsEnd(b, len, i) : IsDec(b[k])
         /\ DigitsEnd(b, len, i) < len => ~IsDec(b[DigitsEnd(b, len, i) + 1])
<1> DEFINE Ends(j) == /\ \A k \in i .. j : IsDec(b[k])
                      /\ j < len => ~IsDec(b[j + 1])
           N == len + 1 - i
           T == {m \in 0 .. N : \A k \in i .. i - 1 + m : IsDec(b[k])}
<1>1. \E j \in i - 1 .. len : Ends(j)
  <2> SUFFICES ASSUME \A j \in i - 1 .. len : ~Ends(j)  PROVE FALSE
    OBVIOUS
  <2>1. 0 \in T /\ N \in Nat  OBVIOUS
  <2>2. ASSUME NEW m \in 0 .. N, m \in T, m < N  PROVE m + 1 \in T
    <3>1. /\ i - 1 + m \in i - 1 .. len /\ i - 1 + m < len
          /\ i - 1 + m + 1 = i + m
      BY <2>2
    <3>2. IsDec(b[i + m])  BY <2>2, <3>1
    <3> QED  BY <2>2, <3>2
  <2>3. N \in T
    <3>1. \A m \in 0 .. N : m \in T /\ m < N => m + 1 \in T  BY <2>2
    <3> HIDE DEF T, N
    <3>2. \A m \in 0 .. N : m \in T  BY <2>1, <3>1, UpTo
    <3> QED  BY <2>1, <3>2
  <2>4. len \in i - 1 .. len /\ Ends(len)  BY <2>3
  <2> HIDE DEF Ends
  <2> QED  BY <2>4
<1> QED  BY <1>1 DEF DigitsEnd

(* Their numbers end at the same place.                                    *)
LEMMA SameDigitsEnd ==
  ASSUME NEW b, NEW c, NEW len, SameLine(b, c, len), NEW i \in Nat, i > 0
  PROVE  DigitsEnd(b, len, i) = DigitsEnd(c, len, i)
<1>1. len \in Nat  BY Sizes DEF SameLine
<1>2. ASSUME NEW j \in i - 1 .. len
      PROVE  (/\ \A k \in i .. j : IsDec(b[k])
              /\ j < len => ~IsDec(b[j + 1]))
               <=> (/\ \A k \in i .. j : IsDec(c[k])
                    /\ j < len => ~IsDec(c[j + 1]))
  <2>1. \A k \in i .. j : b[k] = c[k]  BY <1>1 DEF SameLine
  <2>2. j < len => b[j + 1] = c[j + 1]  BY <1>1 DEF SameLine
  <2> QED  BY <2>1, <2>2
<1> QED  BY <1>2 DEF DigitsEnd

(* Their numbers are the same.                                             *)
LEMMA SameNumber ==
  ASSUME NEW b, NEW c, NEW len, SameLine(b, c, len),
         NEW i \in Nat, i > 0, NEW j \in 0 .. len
  PROVE  Number(b, i, j) = Number(c, i, j)
<1>1. SubSeq(b, i, j) = SubSeq(c, i, j)
  BY Sizes DEF SameLine
<1> QED  BY <1>1 DEF Number

(* They report the same version.                                           *)
LEMMA SameVersion ==
  ASSUME NEW b, NEW c, NEW len, SameLine(b, c, len)
  PROVE  VersionIn(b, len) = VersionIn(c, len)
<1>1. CASE len < 5  BY <1>1 DEF VersionIn
<1> SUFFICES ASSUME ~(len < 5)  PROVE VersionIn(b, len) = VersionIn(c, len)
  BY <1>1
<1>2. len \in Nat /\ b[1] = c[1] /\ b[2] = c[2]  BY Sizes DEF SameLine
<1> DEFINE major == DigitsEnd(b, len, 3)
           minor == DigitsEnd(b, len, major + 2)
<1>3. major \in 2 .. len /\ major = DigitsEnd(c, len, 3)
  <2>1. 3 \in Nat /\ 3 > 0 /\ 3 \in 1 .. len + 1  BY <1>2
  <2>2. major \in 3 - 1 .. len  BY <1>2, <2>1, DigitsEndIs
  <2>3. major = DigitsEnd(c, len, 3)  BY <2>1, SameDigitsEnd
  <2> QED  BY <2>2, <2>3
<1>4. major < len => /\ major + 2 \in 1 .. len + 1
                     /\ major + 1 \in 1 .. len
  BY <1>2, <1>3
<1> HIDE DEF major
<1>5. major < len => /\ minor \in 0 .. len
                     /\ minor = DigitsEnd(c, len, major + 2)
                     /\ b[major + 1] = c[major + 1]
  <2> SUFFICES ASSUME major < len
               PROVE  /\ minor \in 0 .. len
                      /\ minor = DigitsEnd(c, len, major + 2)
                      /\ b[major + 1] = c[major + 1]
    OBVIOUS
  <2>1. minor \in (major + 2) - 1 .. len  BY <1>2, <1>4, DigitsEndIs
  <2>2. minor = DigitsEnd(c, len, major + 2)
    BY <1>3, <1>4, SameDigitsEnd
  <2> HIDE DEF minor
  <2> QED  BY <1>3, <1>4, <2>1, <2>2 DEF SameLine
<1> HIDE DEF minor
<1>6. CASE ~(major < len)
  BY <1>2, <1>3, <1>6 DEF VersionIn, major
<1>7. CASE major < len
  <2>1. Number(b, 3, major) = Number(c, 3, major)
    BY <1>2, <1>3, <1>7, SameNumber
  <2>2. Number(b, major + 2, minor) = Number(c, major + 2, minor)
    BY <1>3, <1>4, <1>5, <1>7, SameNumber
  <2>3. minor = DigitsEnd(b, len, DigitsEnd(b, len, 3) + 2)
        /\ minor = DigitsEnd(c, len, DigitsEnd(c, len, 3) + 2)
    BY <1>3, <1>5, <1>7 DEF minor, major
  <2>4. major = DigitsEnd(b, len, 3)  BY DEF major
  <2> DEFINE Read(v, s, p, x, y, m, n) ==
               IF len < 5 \/ v # "V" \/ s # " " THEN {}
               ELSE IF /\ x >= 3 /\ x < len /\ p = " "
                       /\ y >= x + 2 /\ InByte(m) /\ InByte(n)
               THEN {<<m % 256, n % 256>>} ELSE {}
           Of(d) == Read(d[1], d[2], d[major + 1], major, minor,
                         Number(d, 3, major), Number(d, major + 2, minor))
  <2>5. VersionIn(b, len) = Of(b)
    BY <2>3, <2>4 DEF VersionIn
  <2>6. VersionIn(c, len) = Of(c)
    <3>1. minor = DigitsEnd(c, len, DigitsEnd(c, len, 3) + 2)  BY <2>3
    <3>2. major = DigitsEnd(c, len, 3)  BY <1>3
    <3> HIDE DEF major, minor
    <3> QED  BY <3>1, <3>2 DEF VersionIn
  <2>7. Of(b) = Of(c)
    <3>1. b[1] = c[1] /\ b[2] = c[2] /\ b[major + 1] = c[major + 1]
      BY <1>2, <1>5, <1>7
    <3> HIDE DEF Read
    <3> QED  BY <2>1, <2>2, <3>1
  <2> HIDE DEF Of
  <2> QED  BY <2>5, <2>6, <2>7
<1> QED  BY <1>6, <1>7

-----------------------------------------------------------------------------
(* Decimal numbers.                                                        *)

(* The digits of a number as a table.                                      *)
DecDigits == {Dec[d + 1] : d \in 0 .. 9}

(* The value of a decimal digit.                                           *)
LEMMA DigitOf ==
  /\ \A d \in 0 .. 9 : Dec[d + 1] \in DecDigits /\ Digit(Dec[d + 1]) = d
  /\ \A c \in DecDigits : Digit(c) \in 0 .. 9
  /\ \A c : IsDec(c) <=> c \in DecDigits
<1>1. \A d, e \in 0 .. 9 : Dec[d + 1] = Dec[e + 1] => d = e  BY DEF Dec
<1>2. ASSUME NEW d \in 0 .. 9  PROVE Digit(Dec[d + 1]) = d
  BY <1>1 DEF Digit
<1>3. \A c : IsDec(c) <=> c \in DecDigits
  BY DEF IsDec, ToSet, DecDigits, Dec
<1> QED  BY <1>2, <1>3 DEF DecDigits

Read(s) == FoldLeft(LAMBDA v, c : 10 * v + Digit(c), 0, s)

ReadsOn(r, n, s) ==
  /\ r[0] = 0 /\ r[n] = Read(s)
  /\ \A k \in 1 .. n : r[k] = 10 * r[k - 1] + Digit(s[k])

(* A number that is read digit by digit.                                   *)
LEMMA ReadRuns ==
  ASSUME NEW n \in Nat, NEW s \in [1 .. n -> DecDigits]
  PROVE  \E r \in [0 .. n -> Int] : ReadsOn(r, n, s)
<1> DEFINE t == [p \in Int \X DecDigits |-> 10 * p[1] + Digit(p[2])]
           F(it) == [S \in SUBSET (1 .. n) |->
                       IF S = {} THEN 0
                       ELSE 10 * it[S \ {Max(S)}] + Digit(s[Max(S)])]
           c == CHOOSE it : it = F(it)
<1>1. Read(s) = c[1 .. n]
  <2>1. DOMAIN s = 1 .. n  OBVIOUS
  <2> QED  BY <2>1 DEF Read, FoldLeft, MapThenFoldSet
<1>2. /\ t \in [Int \X DecDigits -> Int]
      /\ \A v \in Int, e \in DecDigits : t[<<v, e>>] = 10 * v + Digit(e)
  <2>1. \A e \in DecDigits : Digit(e) \in Int  BY DigitOf
  <2> HIDE DEF DecDigits
  <2> QED  BY <2>1
<1> HIDE DEF t
<1>3. \E it : it = F(it)
  <2>1. PICK it \in [SUBSET (1 .. n) -> Int] : FoldsBy(it, 0, n, s, t)
    <3>1. 0 \in Int  OBVIOUS
    <3> QED  BY <1>2, <3>1, FoldExists
  <2>2. ASSUME NEW S \in SUBSET (1 .. n), S # {}
        PROVE  it[S] = 10 * it[S \ {Max(S)}] + Digit(s[Max(S)])
    <3>1. s[Max(S)] \in DecDigits /\ it[S \ {Max(S)}] \in Int
      BY <2>2, HasMax
    <3> QED  BY <1>2, <2>1, <2>2, <3>1 DEF FoldsBy
  <2>3. it = F(it)  BY <2>1, <2>2 DEF FoldsBy
  <2> QED  BY <2>3
<1>4. c = F(c)  BY <1>3
<1> HIDE DEF c
<1>5. c[{}] = 0 /\ \A S \in SUBSET (1 .. n) : S # {} =>
                     c[S] = 10 * c[S \ {Max(S)}] + Digit(s[Max(S)])
  BY <1>4
<1>6. PICK r \in [0 .. n -> Int] : Runs(r, c, 0, n, s, t)
  <2>1. 0 \in Int  OBVIOUS
  <2>2. ASSUME NEW S \in SUBSET (1 .. n), S # {}, c[S \ {Max(S)}] \in Int,
               s[Max(S)] \in DecDigits
        PROVE  c[S] = t[<<c[S \ {Max(S)}], s[Max(S)]>>]
    BY <1>2, <1>5, <2>2
  <2>3. StepsBy(c, Int, 0, DecDigits, n, s, t)
    BY <1>5, <2>2 DEF StepsBy
  <2>4. /\ n \in Nat /\ s \in [1 .. n -> DecDigits]
        /\ t \in [Int \X DecDigits -> Int]
    BY <1>2
  <2> HIDE DEF F
  <2> QED  BY <2>1, <2>3, <2>4, FoldRuns
<1>7. \A k \in 1 .. n : r[k] = 10 * r[k - 1] + Digit(s[k])
  <2> TAKE k \in 1 .. n
  <2>1. r[k - 1] \in Int /\ s[k] \in DecDigits  OBVIOUS
  <2> QED  BY <1>2, <1>6, <2>1 DEF Runs
<1> HIDE DEF t, F
<1> QED  BY <1>1, <1>6, <1>7 DEF Runs, ReadsOn

(* Of at most five digits.                                                 *)
Short(v) == v \in Nat /\ v < 100000

(* The powers of ten up to the first that is no short number.              *)
LEMMA Powers ==
  /\ 10 ^ 0 = 1 /\ 10 ^ 1 = 10 /\ 10 ^ 2 = 100 /\ 10 ^ 3 = 1000
  /\ 10 ^ 4 = 10000 /\ 10 ^ 5 = 100000
BY SMT

HasSize(v, k) == v < 10 ^ k /\ (k > 1 => v >= 10 ^ (k - 1))

(* A short number has one to five digits.                                  *)
LEMMA Sized ==
  ASSUME NEW v, Short(v)
  PROVE  /\ HasSize(v, 1) <=> v < 10
         /\ HasSize(v, 2) <=> v >= 10 /\ v < 100
         /\ HasSize(v, 3) <=> v >= 100 /\ v < 1000
         /\ HasSize(v, 4) <=> v >= 1000 /\ v < 10000
         /\ HasSize(v, 5) <=> v >= 10000
         /\ \E k \in 1 .. 5 : HasSize(v, k)
<1>1. HasSize(v, 1) <=> v < 10  BY Powers, SMT DEF HasSize
<1>2. HasSize(v, 2) <=> v >= 10 /\ v < 100
  <2>1. 2 > 1 /\ 2 - 1 = 1  BY SMT
  <2> QED  BY Powers, <2>1, SMT DEF HasSize
<1>3. HasSize(v, 3) <=> v >= 100 /\ v < 1000
  <2>1. 3 > 1 /\ 3 - 1 = 2  BY SMT
  <2> QED  BY Powers, <2>1, SMT DEF HasSize
<1>4. HasSize(v, 4) <=> v >= 1000 /\ v < 10000
  <2>1. 4 > 1 /\ 4 - 1 = 3  BY SMT
  <2> QED  BY Powers, <2>1, SMT DEF HasSize
<1>5. HasSize(v, 5) <=> v >= 10000
  <2>1. 5 > 1 /\ 5 - 1 = 4  BY SMT
  <2> QED  BY Powers, <2>1, SMT DEF HasSize, Short
<1>6. \E k \in 1 .. 5 : HasSize(v, k)
  <2>1. HasSize(v, 1) \/ HasSize(v, 2) \/ HasSize(v, 3) \/ HasSize(v, 4)
          \/ HasSize(v, 5)
    BY <1>1, <1>2, <1>3, <1>4, <1>5, SMT DEF Short
  <2> QED  BY <2>1, SMT
<1> QED  BY <1>1, <1>2, <1>3, <1>4, <1>5, <1>6, SMT

DigitAt(v, j) == (v \div 10 ^ j) % 10

(* A place of a number is a decimal digit.                                 *)
LEMMA DigitsTyped ==
  ASSUME NEW v \in Nat, NEW j \in 0 .. 4
  PROVE  DigitAt(v, j) \in 0 .. 9
<1>1. /\ DigitAt(v, 0) \in 0 .. 9 /\ DigitAt(v, 1) \in 0 .. 9
      /\ DigitAt(v, 2) \in 0 .. 9 /\ DigitAt(v, 3) \in 0 .. 9
      /\ DigitAt(v, 4) \in 0 .. 9
  BY SMT DEF DigitAt
<1>2. j = 0 \/ j = 1 \/ j = 2 \/ j = 3 \/ j = 4  BY SMT
<1> QED  BY <1>1, <1>2

(* The digits of a number give it back.                                    *)
LEMMA Horner ==
  ASSUME NEW v \in Nat
  PROVE  /\ v < 10 => DigitAt(v, 0) = v
         /\ v < 100 => 10 * DigitAt(v, 1) + DigitAt(v, 0) = v
         /\ v < 1000 =>
              10 * (10 * DigitAt(v, 2) + DigitAt(v, 1)) + DigitAt(v, 0) = v
         /\ v < 10000 =>
              10 * (10 * (10 * DigitAt(v, 3) + DigitAt(v, 2)) + DigitAt(v, 1))
                + DigitAt(v, 0) = v
         /\ v < 100000 =>
              10 * (10 * (10 * (10 * DigitAt(v, 4) + DigitAt(v, 3))
                            + DigitAt(v, 2)) + DigitAt(v, 1))
                + DigitAt(v, 0) = v
BY SMT DEF DigitAt

(* A number of up to five digits is read as it was printed.                *)
LEMMA PrintedReads ==
  ASSUME NEW v, Short(v)
  PROVE  /\ \E m \in 1 .. 5 : u16_to_dec(v) \in [1 .. m -> DecDigits]
         /\ Read(u16_to_dec(v)) = v
<1> DEFINE n == CHOOSE k \in 1 .. 5 : HasSize(v, k)
           s == [i \in 1 .. n |-> Dec[DigitAt(v, n - i) + 1]]
<1>1. v \in Nat  BY SMT DEF Short
<1>2. n \in 1 .. 5 /\ HasSize(v, n)  BY Sized, SMT
<1>3. u16_to_dec(v) = s  BY SMT DEF u16_to_dec, HasSize, DigitAt
<1> HIDE DEF n
<1>4. n = 1 \/ n = 2 \/ n = 3 \/ n = 4 \/ n = 5  BY <1>2, SMT
<1>6. \A j \in 0 .. 4 : DigitAt(v, j) \in 0 .. 9  BY <1>1, DigitsTyped, SMT
<1>7. \A i \in 1 .. n : n - i \in 0 .. 4  BY <1>2, SMT
<1>8. s \in [1 .. n -> DecDigits]
      /\ \A i \in 1 .. n : Digit(s[i]) = DigitAt(v, n - i)
  BY <1>6, <1>7, DigitOf, SMT
<1>9. PICK r \in [0 .. n -> Int] : ReadsOn(r, n, s)
  <2> HIDE DEF s
  <2>1. n \in Nat  BY <1>2, SMT
  <2> QED  BY <2>1, <1>8, ReadRuns, SMT
<1> HIDE DEF s
<1>10. /\ r[0] = 0 /\ r[n] = Read(s)
       /\ \A k \in 1 .. n : r[k] = 10 * r[k - 1] + DigitAt(v, n - k)
  BY <1>8, <1>9, SMT DEF ReadsOn
<1>11. r[n] = v
  <2>1. CASE n = 1
    <3>1. v < 10  BY <1>2, <2>1, Sized, SMT
    <3>2. r[1] = 10 * r[0] + DigitAt(v, 0)  BY <1>10, <2>1, SMT
    <3>3. DigitAt(v, 0) = v  BY <1>1, <3>1, Horner, SMT
    <3> QED  BY <1>1, <1>10, <2>1, <3>2, <3>3, SMT
  <2>2. CASE n = 2
    <3>1. v < 100  BY <1>2, <2>2, Sized, SMT
    <3>2. r[1] = 10 * r[0] + DigitAt(v, 1) /\ r[2] = 10 * r[1] + DigitAt(v, 0)
      BY <1>10, <2>2, SMT
    <3>3. r[2] = 10 * DigitAt(v, 1) + DigitAt(v, 0)
      BY <1>6, <1>10, <3>2, SMT
    <3>4. r[2] = v  BY <1>1, <1>6, <3>1, <3>3, Horner, SMT
    <3> QED  BY <2>2, <3>4
  <2>3. CASE n = 3
    <3>1. v < 1000  BY <1>2, <2>3, Sized, SMT
    <3>2. /\ r[1] = 10 * r[0] + DigitAt(v, 2)
          /\ r[2] = 10 * r[1] + DigitAt(v, 1)
          /\ r[3] = 10 * r[2] + DigitAt(v, 0)
      BY <1>10, <2>3, SMT
    <3>3. r[3] = 10 * (10 * DigitAt(v, 2) + DigitAt(v, 1)) + DigitAt(v, 0)
      BY <1>6, <1>10, <3>2, SMT
    <3>4. r[3] = v  BY <1>1, <1>6, <3>1, <3>3, Horner, SMT
    <3> QED  BY <2>3, <3>4
  <2>4. CASE n = 4
    <3>1. v < 10000  BY <1>2, <2>4, Sized, SMT
    <3>2. /\ r[1] = 10 * r[0] + DigitAt(v, 3)
          /\ r[2] = 10 * r[1] + DigitAt(v, 2)
          /\ r[3] = 10 * r[2] + DigitAt(v, 1)
          /\ r[4] = 10 * r[3] + DigitAt(v, 0)
      BY <1>10, <2>4, SMT
    <3>3. r[4] = 10 * (10 * (10 * DigitAt(v, 3) + DigitAt(v, 2))
                         + DigitAt(v, 1)) + DigitAt(v, 0)
      BY <1>6, <1>10, <3>2, SMT
    <3>4. r[4] = v  BY <1>1, <1>6, <3>1, <3>3, Horner, SMT
    <3> QED  BY <2>4, <3>4
  <2>5. CASE n = 5
    <3>1. v < 100000  BY SMT DEF Short
    <3>2. /\ r[1] = 10 * r[0] + DigitAt(v, 4)
          /\ r[2] = 10 * r[1] + DigitAt(v, 3)
          /\ r[3] = 10 * r[2] + DigitAt(v, 2)
          /\ r[4] = 10 * r[3] + DigitAt(v, 1)
          /\ r[5] = 10 * r[4] + DigitAt(v, 0)
      BY <1>10, <2>5, SMT
    <3>3. r[5] = 10 * (10 * (10 * (10 * DigitAt(v, 4) + DigitAt(v, 3))
                               + DigitAt(v, 2)) + DigitAt(v, 1))
                    + DigitAt(v, 0)
      BY <1>6, <1>10, <3>2, SMT
    <3>4. r[5] = v  BY <1>1, <1>6, <3>1, <3>3, Horner, SMT
    <3> QED  BY <2>5, <3>4
  <2> QED  BY <1>4, <2>1, <2>2, <2>3, <2>4, <2>5
<1>12. n \in 1 .. 5 /\ u16_to_dec(v) \in [1 .. n -> DecDigits]
  BY <1>2, <1>3, <1>8, SMT
<1>13. Read(u16_to_dec(v)) = v  BY <1>3, <1>10, <1>11, SMT
<1>14. \E m \in 1 .. 5 : u16_to_dec(v) \in [1 .. m -> DecDigits]
  BY <1>12, Zenon
<1> QED  BY <1>13, <1>14

(* rx_buf holds fewer than the 510 characters of 255 bytes behind the      *)
(* count (ARMBL_LINE_MAX is 128).                                          *)
ShortLines == LINE_MAX < 514

BufferInv == rx_len \in 0 .. LINE_MAX /\ DOMAIN rx_buf = 1 .. LINE_MAX

(* The buffer always holds LINE_MAX characters.                            *)
LEMMA BufferInvHolds ==
  /\ WireInit => BufferInv
  /\ BufferInv /\ [WireNext]_wireVars => BufferInv'
<1>1. WireInit => BufferInv  BY Sizes DEF WireInit, BufferInv
<1>2. ASSUME BufferInv, [WireNext]_wireVars  PROVE BufferInv'
  <2>1. ASSUME UNCHANGED rx_buf, rx_len' = rx_len \/ rx_len' = 0
        PROVE  BufferInv'
    BY <1>2, <2>1, Sizes DEF BufferInv
  <2>2. CASE AskVersion \/ AskLine  BY <2>1, <2>2 DEF AskVersion, AskLine
  <2>3. CASE Receive \/ ReceiveDamaged
    <3>1. PICK m, l : Store(m, l)  BY <2>3 DEF Receive, ReceiveDamaged
    <3> QED  BY <3>1, Sizes DEF Store, StoredLen, BufferInv
  <2>4. CASE \/ ParseVersion \/ ParseTerminator \/ ParseRefuses
             \/ ProgramFails \/ Programmed
    BY <2>1, <2>4
    DEF ParseVersion, ParseTerminator, ParseRefuses, ProgramFails,
        Programmed, Consume
  <2>5. CASE ParseAccepts \/ ProgramWord \/ UNCHANGED wireVars
    BY <2>1, <2>5 DEF ParseAccepts, ProgramWord, wireVars
  <2> QED  BY <1>2, <2>2, <2>3, <2>4, <2>5 DEF WireNext
<1> QED  BY <1>1, <1>2

(* What armbl.c makes of a line depends on nothing behind it: the parsers  *)
(* read within the length that the count has been compared with, and the   *)
(* one count they do not stop at, zero, asks for more than rx_buf holds.   *)
THEOREM StaleBytes ==
  ASSUME ShortLines
  PROVE  WireSpec => []StaleBytesIgnored
<1>1. BufferInv => StaleBytesIgnored
  <2> SUFFICES ASSUME BufferInv  PROVE StaleBytesIgnored  OBVIOUS
  <2> DEFINE clean == [i \in 1 .. LINE_MAX |->
                         IF i <= rx_len THEN rx_buf[i] ELSE Other]
  <2>1. SameLine(rx_buf, clean, rx_len) /\ SameLine(clean, rx_buf, rx_len)
    BY Sizes DEF BufferInv, SameLine
  <2> HIDE DEF clean
  <2>2. VersionIn(rx_buf, rx_len) = VersionIn(clean, rx_len)
    BY <2>1, SameVersion
  <2>3. check_terminator(rx_buf, rx_len) <=> check_terminator(clean, rx_len)
    BY <2>1, SameTerminator DEF ShortLines
  <2>4. check_terminator(rx_buf, rx_len) = check_terminator(clean, rx_len)
    BY <2>3 DEF check_terminator
  <2>5. Refusal(rx_buf, rx_len) = Refusal(clean, rx_len)
    BY <2>1, SameRefusal
  <2> QED  BY <2>2, <2>4, <2>5 DEF clean, StaleBytesIgnored
<1> QED  BY <1>1, BufferInvHolds, PTL DEF WireSpec

(* The number of a request is the line asked for, printed from 16 bits.    *)
RequestInv ==
  pc = "asked" /\ state = "WAIT_LINE" =>
    /\ requested_line \in Nat
    /\ printed = u16_to_dec(requested_line % 65536)

(* What an application reads in a request is the line asked for, modulo    *)
(* 65536, for every line the engine may be at (u16_to_dec and the cast).   *)
THEOREM RequestsRead == WireSpec => []RequestReadsBack
<1>1. WireInit => RequestInv  BY DEF WireInit, RequestInv
<1>2. ASSUME RequestInv, [WireNext]_wireVars  PROVE RequestInv'
  <2>1. CASE AskLine
    BY <2>1, MessagesAssumption DEF AskLine, RequestInv
  <2>2. CASE AskVersion  BY <2>2 DEF AskVersion, RequestInv
  <2>3. CASE Receive \/ ReceiveDamaged
    BY <2>3 DEF Receive, ReceiveDamaged, Store, RequestInv
  <2>4. CASE \/ ParseVersion \/ ParseTerminator \/ ParseRefuses
             \/ ProgramFails \/ Programmed
    BY <2>4
    DEF ParseVersion, ParseTerminator, ParseRefuses, ProgramFails,
        Programmed, Consume, RequestInv
  <2>5. CASE ParseAccepts \/ ProgramWord
    BY <1>2, <2>5 DEF ParseAccepts, ProgramWord, RequestInv
  <2>6. CASE UNCHANGED wireVars  BY <1>2, <2>6 DEF wireVars, RequestInv
  <2> QED  BY <1>2, <2>1, <2>2, <2>3, <2>4, <2>5, <2>6 DEF WireNext
<1>3. ASSUME RequestInv  PROVE RequestReadsBack
  <2> SUFFICES ASSUME pc = "asked", state = "WAIT_LINE"
               PROVE  /\ Len(printed) \in 1 .. 5
                      /\ Read(printed) = requested_line % 65536
    BY SMT
    DEF RequestReadsBack, NumberRead, Read, FoldLeft, MapThenFoldSet
  <2> DEFINE v == requested_line % 65536
  <2>1. requested_line \in Nat /\ printed = u16_to_dec(v)
    BY <1>3, SMT DEF RequestInv
  <2>2. Short(v)  BY <2>1, SMT DEF Short
  <2> HIDE DEF v
  <2>3. PICK n \in 1 .. 5 : printed \in [1 .. n -> DecDigits]
    BY <2>1, <2>2, PrintedReads
  <2>4. Len(printed) = n  BY <2>3
  <2>5. Read(printed) = v  BY <2>1, <2>2, PrintedReads
  <2> QED  BY <2>3, <2>4, <2>5, SMT DEF v
<1> QED  BY <1>1, <1>2, <1>3, PTL DEF WireSpec

-----------------------------------------------------------------------------
(* How a record is written.                                                *)

(* A sequence with two more elements, place by place.                      *)
LEMMA TwoMore ==
  ASSUME NEW S, NEW m \in Nat, NEW g \in [1 .. m -> S],
         NEW h \in Seq(S), Len(h) = 2
  PROVE  /\ g \o h \in [1 .. m + 2 -> S]
         /\ \A j \in 1 .. m : (g \o h)[j] = g[j]
         /\ (g \o h)[m + 1] = h[1] /\ (g \o h)[m + 2] = h[2]
<1>1. g \in Seq(S) /\ Len(g) = m  OBVIOUS
<1>2. g \o h \in Seq(S) /\ Len(g \o h) = m + 2
  <2>1. g \o h \in Seq(S) /\ Len(g \o h) = Len(g) + Len(h)
    BY <1>1, ConcatProperties
  <2> QED  BY <1>1, <2>1
<1>3. \A j \in 1 .. m : (g \o h)[j] = g[j]  BY <1>1, ConcatProperties
<1>4. (g \o h)[m + 1] = h[1] /\ (g \o h)[m + 2] = h[2]
  BY <1>1, ConcatProperties
<1>5. g \o h \in [1 .. m + 2 -> S]  BY <1>2, LenProperties
<1> QED  BY <1>3, <1>4, <1>5

(* The character j of a sequence of bytes.                                 *)
HexAt(bytes, j) ==
  IF j % 2 = 1 THEN Hex[(bytes[(j + 1) \div 2] \div 16) + 1]
  ELSE Hex[(bytes[j \div 2] % 16) + 1]

(* The characters bytes are written with, two for each.                    *)
LEMMA HexBytesAre ==
  ASSUME NEW n \in Nat \ {0}, NEW bytes \in [1 .. n -> Bytes]
  PROVE  HexBytes(bytes) = [j \in 1 .. 2 * n |-> HexAt(bytes, j)]
<1> DEFINE seqs == [i \in 1 .. n |-> HexByte(bytes[i])]
           F(f) == [i \in 1 .. n |-> IF i = 1 THEN seqs[i]
                                     ELSE f[i - 1] \o seqs[i]]
           G == [i \in 1 .. n |-> [j \in 1 .. 2 * i |-> HexAt(bytes, j)]]
           c == CHOOSE f : f = F(f)
           T == {k \in 0 .. n : k = 0 \/ c[k] = G[k]}
<1>1. HexBytes(bytes) = c[n]
  <2>1. DOMAIN bytes = 1 .. n /\ Len(seqs) = n  OBVIOUS
  <2>2. HexBytes(bytes) = FlattenSeq(seqs)  BY <2>1 DEF HexBytes
  <2> HIDE DEF seqs
  <2>3. Len(seqs) # 0  BY <2>1
  <2> QED  BY <2>1, <2>2, <2>3 DEF FlattenSeq
<1>2. ASSUME NEW i \in 1 .. n
      PROVE  /\ seqs[i] = <<HexAt(bytes, 2 * i - 1), HexAt(bytes, 2 * i)>>
  <2>1. /\ (2 * i - 1) % 2 = 1 /\ ((2 * i - 1) + 1) \div 2 = i
        /\ ~((2 * i) % 2 = 1) /\ (2 * i) \div 2 = i
    OBVIOUS
  <2> QED  BY <2>1 DEF HexAt, HexByte
<1> HIDE DEF seqs
<1>3. G = F(G)
  <2>1. ASSUME NEW i \in 1 .. n
        PROVE  G[i] = IF i = 1 THEN seqs[i] ELSE G[i - 1] \o seqs[i]
    <3> DEFINE H(j) == HexAt(bytes, j)
               h == [j \in 1 .. 2 * (i - 1) |-> H(j)]
    <3>1. seqs[i] = <<H(2 * i - 1), H(2 * i)>>  BY <1>2
    <3>2. CASE i = 1
      <4>1. G[i] = [j \in 1 .. 2 |-> H(j)]  BY <3>2
      <4>2. [j \in 1 .. 2 |-> H(j)] = <<H(1), H(2)>>  OBVIOUS
      <4> QED  BY <3>1, <3>2, <4>1, <4>2
    <3>3. CASE i # 1
      <4>1. G[i - 1] = h /\ G[i] = [j \in 1 .. 2 * i |-> H(j)]  BY <3>3
      <4>2. [j \in 1 .. 2 * i |-> H(j)] = h \o <<H(2 * i - 1), H(2 * i)>>
        <5> DEFINE S == {H(j) : j \in 1 .. 2 * i}
                   m == 2 * (i - 1)
        <5> HIDE DEF H
        <5>1. /\ m \in Nat /\ m + 2 = 2 * i /\ m + 1 = 2 * i - 1
              /\ h \in [1 .. m -> S]
              /\ H(m + 1) \in S /\ H(m + 2) \in S
          BY <3>3
        <5>2. \A j \in 1 .. m : h[j] = H(j)  OBVIOUS
        <5> HIDE DEF h, S, m
        <5>3. PICK e : e = <<H(m + 1), H(m + 2)>>  OBVIOUS
        <5>4. /\ h \o e \in [1 .. m + 2 -> S]
              /\ \A j \in 1 .. m : (h \o e)[j] = h[j]
              /\ (h \o e)[m + 1] = H(m + 1) /\ (h \o e)[m + 2] = H(m + 2)
          <6>1. /\ e \in Seq(S) /\ Len(e) = 2
                /\ e[1] = H(m + 1) /\ e[2] = H(m + 2)
            BY <5>1, <5>3
          <6>2. m \in Nat /\ h \in [1 .. m -> S]  BY <5>1
          <6>3. /\ h \o e \in [1 .. m + 2 -> S]
                /\ \A j \in 1 .. m : (h \o e)[j] = h[j]
                /\ (h \o e)[m + 1] = e[1] /\ (h \o e)[m + 2] = e[2]
            BY ONLY <6>1, <6>2, TwoMore
          <6> QED  BY <6>1, <6>3
        <5>5. ASSUME NEW j \in 1 .. m + 2  PROVE (h \o e)[j] = H(j)
          <6>1. j \in 1 .. m \/ j = m + 1 \/ j = m + 2  BY <5>1
          <6> QED  BY <5>2, <5>4, <6>1
        <5>6. h \o e = [j \in 1 .. m + 2 |-> H(j)]  BY <5>4, <5>5
        <5> QED  BY <5>1, <5>3, <5>6
      <4> QED  BY <3>1, <3>3, <4>1, <4>2
    <3> QED  BY <3>2, <3>3
  <2> QED  BY <2>1
<1>4. c = F(c)
  <2> HIDE DEF F, G
  <2> QED  BY <1>3
<1> HIDE DEF c
<1>5. ASSUME NEW k \in 0 .. n, k \in T, k < n  PROVE k + 1 \in T
  <2>1. k + 1 \in 1 .. n /\ (k + 1) - 1 = k  BY <1>5
  <2>2. c[k + 1] = IF k + 1 = 1 THEN seqs[k + 1] ELSE c[k] \o seqs[k + 1]
    BY <1>4, <2>1
  <2>3. G[k + 1] = IF k + 1 = 1 THEN seqs[k + 1] ELSE G[k] \o seqs[k + 1]
    BY <1>3, <2>1
  <2> HIDE DEF F, G
  <2>4. k = 0 \/ c[k] = G[k]  BY <1>5
  <2>5. c[k + 1] = G[k + 1]  BY <2>2, <2>3, <2>4
  <2> QED  BY <2>1, <2>5
<1>6. n \in T
  <2>1. 0 \in T  OBVIOUS
  <2> HIDE DEF T
  <2>2. \A k \in 0 .. n : k \in T /\ k < n => k + 1 \in T  BY <1>5
  <2>3. \A k \in 0 .. n : k \in T  BY <2>1, <2>2, UpTo
  <2> QED  BY <2>3
<1>7. c[n] = G[n]  BY <1>6
<1> QED  BY <1>1, <1>7

(* uint32_t, or as few bytes of it as the model is given.                  *)
CodeWidth == AddrBytes \in 1 .. 4

(* A hexadecimal digit is read as what it was written for.                 *)
LEMMA HexDigits ==
  ASSUME NEW x \in 0 .. 15
  PROVE  /\ IsHex(Hex[x + 1]) /\ hex_nibble(Hex[x + 1]) = x
         /\ Hex[x + 1] \in Char /\ Hex[x + 1] # "S"
<1>1. \A s : ToSet(s) = {s[i] : i \in DOMAIN s}  BY DEF ToSet
<1>2. DOMAIN Hex = 1 .. 16 /\ DOMAIN LowerHex = 1 .. 16
  BY DEF Hex, LowerHex, Dec
<1>3. Hex[x + 1] \in ToSet(Hex)  BY <1>1, <1>2
<1>4. Hex[x + 1] # "S"  BY DEF Hex, Dec
<1>5. ASSUME NEW v \in 0 .. 15,
             Hex[x + 1] = Hex[v + 1] \/ Hex[x + 1] = LowerHex[v + 1]
      PROVE  v = x
  <2>1. CASE Hex[x + 1] = Hex[v + 1]  BY <2>1, SMTT(60) DEF Hex, Dec
  <2>2. CASE Hex[x + 1] = LowerHex[v + 1]
    BY <2>2, SMTT(60) DEF Hex, LowerHex, Dec
  <2> QED  BY <1>5, <2>1, <2>2
<1>6. hex_nibble(Hex[x + 1]) = x
  <2>1. \A v \in 0 .. 15 : Hex[x + 1] \in {Hex[v + 1], LowerHex[v + 1]}
                             <=> v = x
    BY <1>5
  <2> QED  BY <2>1 DEF hex_nibble
<1> QED  BY <1>3, <1>4, <1>6 DEF IsHex, Char

(* Two digits of the same value differ in their case only.                 *)
LEMMA SameNibble ==
  ASSUME NEW c, IsHex(c)
  PROVE  Upper(c) = Hex[hex_nibble(c) + 1]
BY DEF Upper

(* Two sequences one after the other, place by place.                      *)
LEMMA Joins ==
  ASSUME NEW S, NEW g \in Seq(S), NEW h \in Seq(S), NEW f, f = g \o h
  PROVE  /\ f \in Seq(S) /\ Len(f) = Len(g) + Len(h)
         /\ \A i \in 1 .. Len(g) + Len(h) :
              f[i] = IF i <= Len(g) THEN g[i] ELSE h[i - Len(g)]
BY ConcatProperties

(* An address has AddrBytes bytes.                                         *)
LEMMA BytesOfTyped ==
  ASSUME CodeWidth, NEW addr \in Nat
  PROVE  /\ BytesOf(addr) \in Seq(Bytes) /\ Len(BytesOf(addr)) = AddrBytes
<1>1. \A e \in 0 .. 3 : (addr \div 256 ^ e) % 256 \in Bytes
  <2>1. /\ (addr \div 256 ^ 0) % 256 \in Bytes
        /\ (addr \div 256 ^ 1) % 256 \in Bytes
        /\ (addr \div 256 ^ 2) % 256 \in Bytes
        /\ (addr \div 256 ^ 3) % 256 \in Bytes
    BY SMT DEF Bytes
  <2>2. \A e \in 0 .. 3 : e = 0 \/ e = 1 \/ e = 2 \/ e = 3  OBVIOUS
  <2> QED  BY <2>1, <2>2, Zenon
<1>2. \A i \in 1 .. AddrBytes : AddrBytes - i \in 0 .. 3
  BY DEF CodeWidth
<1>3. \A i \in 1 .. AddrBytes :
        (addr \div 256 ^ (AddrBytes - i)) % 256 \in Bytes
  BY <1>1, <1>2
<1>4. BytesOf(addr) \in [1 .. AddrBytes -> Bytes]  BY <1>3 DEF BytesOf
<1>5. AddrBytes \in Nat  BY DEF CodeWidth
<1> QED  BY <1>4, <1>5

RecordBytes(addr, data) ==
  LET body == <<AddrBytes + Len(data) + 1>> \o BytesOf(addr) \o data
  IN  body \o <<Complement(Sum(body))>>

(* What the bytes of a record are, its checksum the last.                  *)
LEMMA RecordBytesAre ==
  ASSUME CodeWidth, NEW addr \in Nat, NEW data \in Seq(Bytes),
         NEW n \in Nat, n = AddrBytes + Len(data) + 2, n <= 256
  PROVE  /\ RecordBytes(addr, data) \in [1 .. n -> Bytes]
         /\ RecordBytes(addr, data)[1] = n - 1
         /\ \A i \in 1 .. AddrBytes :
              RecordBytes(addr, data)[1 + i] = BytesOf(addr)[i]
         /\ \A i \in 1 .. Len(data) :
              RecordBytes(addr, data)[1 + AddrBytes + i] = data[i]
         /\ \E body \in [1 .. n - 1 -> Bytes] :
              /\ \A i \in 1 .. n - 1 : RecordBytes(addr, data)[i] = body[i]
              /\ RecordBytes(addr, data)[n] = Complement(Sum(body))
<1> DEFINE a == BytesOf(addr)
           k == Len(data)
<1>1. a \in Seq(Bytes) /\ Len(a) = AddrBytes  BY BytesOfTyped
<1>2. /\ AddrBytes \in Nat /\ k \in Nat /\ AddrBytes + k + 1 \in Bytes
      /\ n - 1 = AddrBytes + k + 1
  <2>1. AddrBytes \in Nat /\ AddrBytes >= 1 /\ k \in Nat
    BY DEF CodeWidth
  <2> HIDE DEF k
  <2>2. n = AddrBytes + k + 2  BY DEF k
  <2> QED  BY <2>1, <2>2 DEF Bytes
<1>3. PICK c : c = <<AddrBytes + k + 1>>  OBVIOUS
<1>4. c \in Seq(Bytes) /\ Len(c) = 1 /\ c[1] = n - 1  BY <1>2, <1>3
<1> HIDE DEF a
<1>5. PICK ca : ca = c \o a  OBVIOUS
<1>6. /\ ca \in Seq(Bytes) /\ Len(ca) = Len(c) + Len(a)
      /\ \A i \in 1 .. Len(c) + Len(a) :
           ca[i] = IF i <= Len(c) THEN c[i] ELSE a[i - Len(c)]
  <2>1. a \in Seq(Bytes) /\ c \in Seq(Bytes)  BY <1>1, <1>4
  <2> QED  BY ONLY <2>1, <1>5, Joins
<1>7. PICK body : body = ca \o data  OBVIOUS
<1>8. /\ body \in Seq(Bytes) /\ Len(body) = Len(ca) + Len(data)
      /\ \A i \in 1 .. Len(ca) + Len(data) :
           body[i] = IF i <= Len(ca) THEN ca[i] ELSE data[i - Len(ca)]
  <2>1. ca \in Seq(Bytes) /\ data \in Seq(Bytes)  BY <1>6
  <2> QED  BY ONLY <2>1, <1>7, Joins
<1>9. Len(ca) = AddrBytes + 1 /\ Len(body) = n - 1 /\ n - 1 \in Nat
  BY <1>1, <1>2, <1>4, <1>6, <1>8
<1>10. body \in [1 .. n - 1 -> Bytes]  BY <1>8, <1>9, LenProperties
<1>11. Complement(Sum(body)) \in Bytes
  <2>1. body \in [1 .. n - 1 -> Int]
    <3>1. Bytes \subseteq Int  BY DEF Bytes
    <3> QED  BY <1>10, <3>1
  <2>2. PICK r \in [0 .. n - 1 -> Int] : r[n - 1] = Sum(body)
    BY <1>9, <2>1, SumRuns
  <2>3. Sum(body) \in Int  BY <1>9, <2>2
  <2>4. \A x \in Int : 255 - (x % 256) \in 0 .. 255  BY SMT
  <2> QED  BY <2>3, <2>4 DEF Complement, Bytes
<1>12. PICK s : s = <<Complement(Sum(body))>>  OBVIOUS
<1>13. s \in Seq(Bytes) /\ Len(s) = 1 /\ s[1] = Complement(Sum(body))
  BY <1>11, <1>12
<1>14. PICK rb : rb = body \o s  OBVIOUS
<1>15. /\ rb \in Seq(Bytes) /\ Len(rb) = Len(body) + Len(s)
       /\ \A i \in 1 .. Len(body) + Len(s) :
            rb[i] = IF i <= Len(body) THEN body[i] ELSE s[i - Len(body)]
  <2>1. body \in Seq(Bytes) /\ s \in Seq(Bytes)  BY <1>8, <1>13
  <2> QED  BY ONLY <2>1, <1>14, Joins
<1>16. RecordBytes(addr, data) = rb
  BY <1>3, <1>5, <1>7, <1>12, <1>14 DEF RecordBytes, a
<1>17. Len(rb) = n  BY <1>9, <1>13, <1>15
<1>18. rb \in [1 .. n -> Bytes]  BY <1>15, <1>17, LenProperties
<1>19. \A i \in 1 .. n - 1 : rb[i] = body[i]  BY <1>9, <1>13, <1>15
<1>20. rb[n] = Complement(Sum(body))
  <2>1. n - (n - 1) = 1 /\ n \in 1 .. (n - 1) + 1 /\ ~(n <= n - 1)
    BY <1>9
  <2> QED  BY <1>9, <1>13, <1>15, <2>1
<1>21. \A i \in 1 .. n - 1 :
         body[i] = IF i <= AddrBytes + 1
                   THEN IF i <= 1 THEN c[i] ELSE a[i - 1]
                   ELSE data[i - (AddrBytes + 1)]
  BY <1>1, <1>2, <1>4, <1>6, <1>8, <1>9
<1>22. rb[1] = n - 1  BY <1>2, <1>4, <1>19, <1>21
<1>23. ASSUME NEW i \in 1 .. AddrBytes  PROVE rb[1 + i] = a[i]
  <2>1. /\ 1 + i \in 1 .. n - 1 /\ 1 + i <= AddrBytes + 1 /\ ~(1 + i <= 1)
        /\ (1 + i) - 1 = i
    BY <1>2
  <2> QED  BY <1>19, <1>21, <2>1
<1>24. ASSUME NEW i \in 1 .. k  PROVE rb[1 + AddrBytes + i] = data[i]
  <2>1. /\ 1 + AddrBytes + i \in 1 .. n - 1
        /\ ~(1 + AddrBytes + i <= AddrBytes + 1)
        /\ (1 + AddrBytes + i) - (AddrBytes + 1) = i
    BY <1>2
  <2> QED  BY <1>19, <1>21, <2>1
<1> QED
  BY <1>10, <1>16, <1>18, <1>19, <1>20, <1>22, <1>23, <1>24 DEF a

(* The two characters of a byte.                                           *)
LEMMA HexAtIs ==
  ASSUME NEW n \in Nat, NEW bytes \in [1 .. n -> Bytes], NEW k \in 1 .. n
  PROVE  /\ bytes[k] \div 16 \in 0 .. 15 /\ bytes[k] % 16 \in 0 .. 15
         /\ bytes[k] = 16 * (bytes[k] \div 16) + (bytes[k] % 16)
         /\ HexAt(bytes, 2 * k - 1) = Hex[(bytes[k] \div 16) + 1]
         /\ HexAt(bytes, 2 * k) = Hex[(bytes[k] % 16) + 1]
<1>1. bytes[k] \in 0 .. 255  BY DEF Bytes
<1>2. /\ (2 * k - 1) % 2 = 1 /\ ((2 * k - 1) + 1) \div 2 = k
      /\ ~((2 * k) % 2 = 1) /\ (2 * k) \div 2 = k
  OBVIOUS
<1>3. /\ HexAt(bytes, 2 * k - 1) = Hex[(bytes[k] \div 16) + 1]
      /\ HexAt(bytes, 2 * k) = Hex[(bytes[k] % 16) + 1]
  BY <1>2 DEF HexAt
<1>4. \A x \in 0 .. 255 : /\ x \div 16 \in 0 .. 15 /\ x % 16 \in 0 .. 15
                          /\ x = 16 * (x \div 16) + (x % 16)
  BY SMT
<1> QED  BY <1>1, <1>3, <1>4

(* A character of a line of bytes is the first or the second of a byte.    *)
LEMMA Halves ==
  ASSUME NEW n \in Nat, NEW j \in 1 .. 2 * n
  PROVE  \E k \in 1 .. n : j = 2 * k - 1 \/ j = 2 * k
<1>1. (j + 1) \div 2 \in 1 .. n
      /\ (j = 2 * ((j + 1) \div 2) - 1 \/ j = 2 * ((j + 1) \div 2))
  BY SMT
<1> QED  BY <1>1

(* A byte is written with upper-case digits.                               *)
LEMMA HexAtTyped ==
  ASSUME NEW n \in Nat, NEW bytes \in [1 .. n -> Bytes],
         NEW j \in 1 .. 2 * n
  PROVE  /\ HexAt(bytes, j) \in Char /\ HexAt(bytes, j) # "S"
         /\ IsHex(HexAt(bytes, j))
         /\ HexAt(bytes, j) = Hex[hex_nibble(HexAt(bytes, j)) + 1]
<1>1. PICK k \in 1 .. n : j = 2 * k - 1 \/ j = 2 * k  BY Halves
<1>2. PICK x \in 0 .. 15 : HexAt(bytes, j) = Hex[x + 1]
  <2>1. bytes[k] \div 16 \in 0 .. 15 /\ bytes[k] % 16 \in 0 .. 15
    BY HexAtIs
  <2>2. CASE j = 2 * k - 1
    <3>1. HexAt(bytes, j) = Hex[(bytes[k] \div 16) + 1]  BY <2>2, HexAtIs
    <3> QED  BY <2>1, <3>1
  <2>3. CASE j = 2 * k
    <3>1. HexAt(bytes, j) = Hex[(bytes[k] % 16) + 1]  BY <2>3, HexAtIs
    <3> QED  BY <2>1, <3>1
  <2> QED  BY <1>1, <2>2, <2>3
<1> QED  BY <1>2, HexDigits

(* A record character by character.                                        *)
RecordText(e, rb, n, type) ==
  /\ e \in Seq(Char) /\ Len(e) = 2 * n + 2 /\ e[1] = "S" /\ e[2] = type
  /\ \A j \in 1 .. 2 * n : e[2 + j] = HexAt(rb, j)

(* What the characters of a record are.                                    *)
LEMMA SRecordIs ==
  ASSUME CodeWidth, NEW addr \in Nat, NEW data \in Seq(Bytes),
         NEW n \in Nat, n = AddrBytes + Len(data) + 2, n <= 256,
         NEW type \in Char
  PROVE  RecordText(SRecord(type, addr, data), RecordBytes(addr, data), n,
                    type)
<1>1. PICK rb : rb = RecordBytes(addr, data)  OBVIOUS
<1>2. rb \in [1 .. n -> Bytes]  BY <1>1, RecordBytesAre
<1>3. n \in Nat \ {0}
  BY DEF CodeWidth
<1>4. PICK hx : hx = HexBytes(rb)  OBVIOUS
<1>5. hx = [j \in 1 .. 2 * n |-> HexAt(rb, j)]
  BY <1>2, <1>3, <1>4, HexBytesAre
<1>6. \A j \in 1 .. 2 * n : HexAt(rb, j) \in Char
  BY <1>2, HexAtTyped
<1>7. hx \in Seq(Char) /\ Len(hx) = 2 * n
  <2>1. 2 * n \in Nat /\ hx \in [1 .. 2 * n -> Char]  BY <1>5, <1>6
  <2> QED  BY ONLY <2>1
<1>8. PICK st : st = <<"S", type>>  OBVIOUS
<1>9. st \in Seq(Char) /\ Len(st) = 2 /\ st[1] = "S" /\ st[2] = type
  <2>1. "S" \in Char  BY DEF Char
  <2> QED  BY ONLY <1>8, <2>1, type \in Char
<1>10. PICK l : l = st \o hx  OBVIOUS
<1>11. /\ l \in Seq(Char) /\ Len(l) = Len(st) + Len(hx)
       /\ \A i \in 1 .. Len(st) + Len(hx) :
            l[i] = IF i <= Len(st) THEN st[i] ELSE hx[i - Len(st)]
  <2>1. st \in Seq(Char) /\ hx \in Seq(Char)  BY <1>7, <1>9
  <2> QED  BY ONLY <2>1, <1>10, Joins
<1>12. Len(l) = 2 * n + 2  BY <1>7, <1>9, <1>11
<1>13. l[1] = "S" /\ l[2] = type  BY <1>7, <1>9, <1>11
<1>14. ASSUME NEW j \in 1 .. 2 * n  PROVE l[2 + j] = HexAt(rb, j)
  <2>1. 2 + j \in 1 .. 2 + 2 * n /\ ~(2 + j <= 2) /\ (2 + j) - 2 = j
    OBVIOUS
  <2>2. l[2 + j] = hx[j]
    <3>1. Len(st) = 2 /\ Len(hx) = 2 * n  BY <1>7, <1>9
    <3> QED  BY ONLY <1>11, <2>1, <3>1
  <2> QED  BY <1>5, <2>2
<1>15. SRecord(type, addr, data) = l
  BY <1>1, <1>4, <1>8, <1>10 DEF SRecord, RecordBytes
<1> QED  BY <1>1, <1>11, <1>12, <1>13, <1>14, <1>15 DEF RecordText

-----------------------------------------------------------------------------
(* How a line is damaged.                                                  *)

(* What OneError makes of a line e: a character is changed, lost or added, *)
(* or only the line's beginning or its end is left.                        *)
Changed(e, l) ==
  Len(l) = Len(e) /\ \E i \in 1 .. Len(e) :
                       \A j \in 1 .. Len(e) : j # i => l[j] = e[j]
Lost(e, l) ==
  Len(l) = Len(e) - 1 /\ (Len(l) > 0 => l[1] \in {e[1], e[2]})
Added(e, l) ==
  Len(l) = Len(e) + 1 /\ (Len(e) > 0 => l[1] = e[1] \/ l[2] = e[1])
Begun(e, l) ==
  Len(l) <= Len(e) /\ \A j \in 1 .. Len(l) : l[j] = e[j]
Ended(e, l) ==
  Len(l) <= Len(e)
    /\ \A j \in 1 .. Len(l) : l[j] = e[j + (Len(e) - Len(l))]

(* A part of a sequence, place by place.                                   *)
LEMMA Part ==
  ASSUME NEW S, NEW e \in Seq(S), NEW a \in 1 .. Len(e) + 1,
         NEW b \in 0 .. Len(e), a <= b + 1, NEW s, s = SubSeq(e, a, b)
  PROVE  /\ s \in Seq(S) /\ Len(s) = b - a + 1
         /\ \A i \in 1 .. Len(s) : s[i] = e[a + i - 1]
<1>1. \A i \in a .. b : e[i] \in S  BY LenProperties
<1>2. /\ s \in Seq(S)
      /\ Len(s) = IF a <= b THEN b - a + 1 ELSE 0
      /\ \A i \in 1 .. b - a + 1 : s[i] = e[a + i - 1]
  <2>1. a \in Int /\ b \in Int  OBVIOUS
  <2> QED  BY ONLY <1>1, <2>1, s = SubSeq(e, a, b), SubSeqProperties
<1>3. Len(s) = b - a + 1  BY <1>2
<1> QED  BY <1>2, <1>3

(* The five ways in which a line is damaged at one character.              *)
LEMMA Errors ==
  ASSUME NEW S, NEW e \in Seq(S), NoiseChars \subseteq S,
         NEW l \in OneError(e)
  PROVE  /\ l \in Seq(S)
         /\ \/ Changed(e, l) \/ Lost(e, l) \/ Added(e, l)
            \/ Begun(e, l) \/ Ended(e, l)
<1> DEFINE n == Len(e)
<1>1. n \in Nat /\ DOMAIN e = 1 .. n /\ e \in [1 .. n -> S]
  BY LenProperties
<1> HIDE DEF n
<1>2. ASSUME NEW i \in 1 .. n, NEW c \in NoiseChars, l = [e EXCEPT ![i] = c]
      PROVE  l \in Seq(S) /\ Changed(e, l)
  <2>1. l \in [1 .. n -> S] /\ \A j \in 1 .. n : j # i => l[j] = e[j]
    BY <1>1, <1>2
  <2>2. l \in Seq(S) /\ Len(l) = n  BY <1>1, <2>1
  <2> QED  BY <2>1, <2>2 DEF Changed, n
<1>3. ASSUME NEW i \in 1 .. n, l = RemoveAt(e, i)
      PROVE  l \in Seq(S) /\ Lost(e, l)
  <2>1. PICK p, q : p = SubSeq(e, 1, i - 1) /\ q = SubSeq(e, i + 1, n)
    OBVIOUS
  <2>2. /\ p \in Seq(S) /\ Len(p) = i - 1
        /\ \A j \in 1 .. Len(p) : p[j] = e[1 + j - 1]
    <3>1. 1 \in 1 .. n + 1 /\ i - 1 \in 0 .. n /\ 1 <= (i - 1) + 1
          /\ (i - 1) - 1 + 1 = i - 1
      BY <1>1, <1>3
    <3> QED  BY <2>1, <3>1, Part DEF n
  <2>3. /\ q \in Seq(S) /\ Len(q) = n - i
        /\ \A j \in 1 .. Len(q) : q[j] = e[(i + 1) + j - 1]
    <3>1. PICK a : a = i + 1  OBVIOUS
    <3>2. a \in 1 .. n + 1 /\ n \in 0 .. n /\ a <= n + 1
          /\ n - a + 1 = n - i
      BY <1>1, <1>3, <3>1
    <3>3. q = SubSeq(e, a, n)  BY <2>1, <3>1
    <3>4. /\ q \in Seq(S) /\ Len(q) = n - a + 1
          /\ \A j \in 1 .. Len(q) : q[j] = e[a + j - 1]
      BY ONLY e \in Seq(S), <3>2, <3>3, Part DEF n
    <3> QED  BY <3>1, <3>2, <3>4
  <2>4. l = p \o q  BY <1>3, <2>1 DEF RemoveAt, n
  <2>5. /\ l \in Seq(S) /\ Len(l) = Len(p) + Len(q)
        /\ \A j \in 1 .. Len(p) + Len(q) :
             l[j] = IF j <= Len(p) THEN p[j] ELSE q[j - Len(p)]
    <3>1. p \in Seq(S) /\ q \in Seq(S)  BY <2>2, <2>3
    <3> QED  BY ONLY <3>1, <2>4, Joins
  <2>6. Len(l) = n - 1  BY <1>1, <1>3, <2>2, <2>3, <2>5
  <2>7. ASSUME n - 1 > 0  PROVE l[1] \in {e[1], e[2]}
    <3>1. l[1] = IF 1 <= Len(p) THEN p[1] ELSE q[1 - Len(p)]
      BY <1>1, <2>5, <2>6, <2>7
    <3>2. CASE i = 1
      <4>1. Len(p) = 0 /\ 1 \in 1 .. Len(q) /\ (1 + 1) + 1 - 1 = 2
        BY <1>1, <2>2, <2>3, <2>7, <3>2
      <4>2. q[1] = e[2]  BY <2>3, <3>2, <4>1
      <4> QED  BY <3>1, <4>1, <4>2
    <3>3. CASE i # 1
      <4>1. 1 \in 1 .. Len(p) /\ 1 + 1 - 1 = 1  BY <1>1, <2>2, <3>3
      <4> QED  BY <2>2, <3>1, <4>1
    <3> QED  BY <3>2, <3>3
  <2> QED  BY <2>5, <2>6, <2>7 DEF Lost, n
<1>4. ASSUME NEW i \in 1 .. n + 1, NEW c \in NoiseChars,
             l = InsertAt(e, i, c)
      PROVE  l \in Seq(S) /\ Added(e, l)
  <2>1. PICK p, q, o : /\ p = SubSeq(e, 1, i - 1) /\ q = SubSeq(e, i, n)
                       /\ o = <<c>>
    OBVIOUS
  <2>2. /\ p \in Seq(S) /\ Len(p) = i - 1
        /\ \A j \in 1 .. Len(p) : p[j] = e[1 + j - 1]
    <3>1. 1 \in 1 .. n + 1 /\ i - 1 \in 0 .. n /\ 1 <= (i - 1) + 1
          /\ (i - 1) - 1 + 1 = i - 1
      BY <1>1, <1>4
    <3> QED  BY <2>1, <3>1, Part DEF n
  <2>3. /\ q \in Seq(S) /\ Len(q) = n - i + 1
        /\ \A j \in 1 .. Len(q) : q[j] = e[i + j - 1]
    <3>1. i \in 1 .. n + 1 /\ n \in 0 .. n /\ i <= n + 1
      BY <1>1, <1>4
    <3> QED  BY <2>1, <3>1, Part DEF n
  <2>4. o \in Seq(S) /\ Len(o) = 1 /\ o[1] = c
    <3>1. c \in S  OBVIOUS
    <3> QED  BY ONLY <3>1, <2>1
  <2>5. PICK po : po = p \o o  OBVIOUS
  <2>6. /\ po \in Seq(S) /\ Len(po) = Len(p) + Len(o)
        /\ \A j \in 1 .. Len(p) + Len(o) :
             po[j] = IF j <= Len(p) THEN p[j] ELSE o[j - Len(p)]
    <3>1. p \in Seq(S) /\ o \in Seq(S)  BY <2>2, <2>4
    <3> QED  BY ONLY <3>1, <2>5, Joins
  <2>7. l = po \o q  BY <1>4, <2>1, <2>5 DEF InsertAt, n
  <2>8. /\ l \in Seq(S) /\ Len(l) = Len(po) + Len(q)
        /\ \A j \in 1 .. Len(po) + Len(q) :
             l[j] = IF j <= Len(po) THEN po[j] ELSE q[j - Len(po)]
    <3>1. po \in Seq(S) /\ q \in Seq(S)  BY <2>3, <2>6
    <3> QED  BY ONLY <3>1, <2>7, Joins
  <2>9. Len(po) = i /\ Len(l) = n + 1
    BY <1>1, <1>4, <2>2, <2>3, <2>4, <2>6, <2>8
  <2>10. ASSUME n > 0  PROVE l[1] = e[1] \/ l[2] = e[1]
    <3>1. CASE i = 1
      <4>1. /\ 2 \in 1 .. Len(po) + Len(q) /\ ~(2 <= Len(po))
            /\ 2 - Len(po) = 1 /\ 1 \in 1 .. Len(q) /\ 1 + 1 - 1 = 1
        BY <1>1, <2>3, <2>9, <2>10, <3>1
      <4>2. l[2] = q[1]  BY <2>8, <4>1
      <4>3. q[1] = e[1]  BY <2>3, <3>1, <4>1
      <4> QED  BY <4>2, <4>3
    <3>2. CASE i # 1
      <4>1. /\ 1 \in 1 .. Len(po) + Len(q) /\ 1 <= Len(po)
            /\ 1 \in 1 .. Len(p) + Len(o) /\ 1 <= Len(p)
            /\ 1 \in 1 .. Len(p) /\ 1 + 1 - 1 = 1
        BY <1>1, <2>2, <2>3, <2>4, <2>9, <3>2
      <4>2. l[1] = po[1] /\ po[1] = p[1]  BY <2>6, <2>8, <4>1
      <4>3. p[1] = e[1]  BY <2>2, <4>1
      <4> QED  BY <4>2, <4>3
    <3> QED  BY <3>1, <3>2
  <2> QED  BY <2>8, <2>9, <2>10 DEF Added, n
<1>5. ASSUME NEW b \in 0 .. n, l = SubSeq(e, 1, b)
      PROVE  l \in Seq(S) /\ Begun(e, l)
  <2>1. 1 \in 1 .. n + 1 /\ 1 <= b + 1  BY <1>1
  <2>2. /\ l \in Seq(S) /\ Len(l) = b - 1 + 1
        /\ \A i \in 1 .. Len(l) : l[i] = e[1 + i - 1]
    BY <1>5, <2>1, Part DEF n
  <2>3. Len(l) = b /\ \A i \in 1 .. b : 1 + i - 1 = i  BY <2>2
  <2> QED  BY <1>1, <2>2, <2>3 DEF Begun, n
<1>6. ASSUME NEW a \in 1 .. n, l = SubSeq(e, a, n)
      PROVE  l \in Seq(S) /\ Ended(e, l)
  <2>1. a \in 1 .. n + 1 /\ n \in 0 .. n /\ a <= n + 1  BY <1>1
  <2>2. /\ l \in Seq(S) /\ Len(l) = n - a + 1
        /\ \A i \in 1 .. Len(l) : l[i] = e[a + i - 1]
    BY <1>6, <2>1, Part DEF n
  <2>3. \A i \in 1 .. Len(l) : a + i - 1 = i + (n - Len(l))
    BY <1>1, <2>2
  <2> QED  BY <1>1, <2>2, <2>3 DEF Ended, n
<1>7. ASSUME l = <<>>  PROVE l \in Seq(S) /\ Begun(e, l)
  BY <1>1, <1>7 DEF Begun, n
<1> QED
  BY <1>1, <1>2, <1>3, <1>4, <1>5, <1>6, <1>7
  DEF OneError, Prefixes, Suffixes, n

-----------------------------------------------------------------------------
(* What the application writes.                                            *)

(* The provers read no blank within a character string.                    *)
Blank == " "

(* A version line: its two numbers d and e between a V and two blanks.     *)
VersionText(l, d, e) ==
  /\ l \in Seq(Char) /\ Len(l) = 3 + Len(d) + Len(e)
  /\ l[1] = "V" /\ l[2] = Blank /\ l[3 + Len(d)] = Blank
  /\ \A k \in 1 .. Len(d) : l[2 + k] = d[k]
  /\ \A k \in 1 .. Len(e) : l[3 + Len(d) + k] = e[k]

DecSeq(d) == d \in Seq(DecDigits) /\ Len(d) \in 1 .. 5

(* The decimal digits are characters.                                      *)
LEMMA DigitChars == DecDigits \subseteq Char
<1>1. \A i \in 0 .. 15 : Hex[i + 1] \in Char  BY HexDigits
<1>2. \A i \in 0 .. 9 : Hex[i + 1] = Dec[i + 1]  BY DEF Hex, Dec
<1>3. \A i \in 0 .. 9 : i \in 0 .. 15  OBVIOUS
<1> QED  BY <1>1, <1>2, <1>3 DEF DecDigits

(* The texts around the numbers of a version line.                         *)
LEMMA Texts ==
  ASSUME NEW S, NEW x \in S, NEW y \in S, NEW v, NEW b,
         v = <<x, y>>, b = <<y>>
  PROVE  /\ v \in Seq(S) /\ Len(v) = 2 /\ v[1] = x /\ v[2] = y
         /\ b \in Seq(S) /\ Len(b) = 1 /\ b[1] = y
<1>1. v \in Seq(S) /\ Len(v) = 2 /\ v[1] = x /\ v[2] = y  OBVIOUS
<1>2. b \in Seq(S) /\ Len(b) = 1 /\ b[1] = y  OBVIOUS
<1> QED  BY <1>1, <1>2

(* What the characters of a version line are.                              *)
LEMMA VersionTexts ==
  ASSUME NEW d, NEW e, DecSeq(d), DecSeq(e), NEW l,
         l = <<"V", Blank>> \o d \o <<Blank>> \o e
  PROVE  VersionText(l, d, e)
<1>1. DecDigits \subseteq Char  BY DigitChars
<1>2. PICK p, q \in 1 .. 5 : p = Len(d) /\ q = Len(e)  BY DEF DecSeq
<1>3. d \in Seq(Char) /\ e \in Seq(Char)
  <2>1. d \in Seq(DecDigits) /\ e \in Seq(DecDigits)  BY DEF DecSeq
  <2> QED  BY ONLY <1>1, <2>1
<1>4. PICK v, b : v = <<"V", Blank>> /\ b = <<Blank>>  OBVIOUS
<1>5. "V" \in Char /\ Blank \in Char  BY DEF Char, Blank
<1>6. /\ v \in Seq(Char) /\ Len(v) = 2 /\ v[1] = "V" /\ v[2] = Blank
      /\ b \in Seq(Char) /\ Len(b) = 1 /\ b[1] = Blank
  BY ONLY <1>4, <1>5, Texts
<1>7. PICK vd : vd = v \o d  OBVIOUS
<1>8. /\ vd \in Seq(Char) /\ Len(vd) = 2 + p
      /\ \A i \in 1 .. 2 + p : vd[i] = IF i <= 2 THEN v[i] ELSE d[i - 2]
  <2>1. /\ vd \in Seq(Char) /\ Len(vd) = Len(v) + Len(d)
        /\ \A i \in 1 .. Len(v) + Len(d) :
             vd[i] = IF i <= Len(v) THEN v[i] ELSE d[i - Len(v)]
    <3>1. v \in Seq(Char) /\ d \in Seq(Char)  BY <1>3, <1>6
    <3> QED  BY ONLY <3>1, <1>7, Joins
  <2> QED  BY ONLY <1>2, <1>6, <2>1
<1>9. PICK vdb : vdb = vd \o b  OBVIOUS
<1>10. /\ vdb \in Seq(Char) /\ Len(vdb) = 3 + p
       /\ \A i \in 1 .. 3 + p :
            vdb[i] = IF i <= 2 + p THEN vd[i] ELSE b[i - (2 + p)]
  <2>1. /\ vdb \in Seq(Char) /\ Len(vdb) = Len(vd) + Len(b)
        /\ \A i \in 1 .. Len(vd) + Len(b) :
             vdb[i] = IF i <= Len(vd) THEN vd[i] ELSE b[i - Len(vd)]
    <3>1. vd \in Seq(Char) /\ b \in Seq(Char)  BY <1>6, <1>8
    <3> QED  BY ONLY <3>1, <1>9, Joins
  <2>2. (2 + p) + 1 = 3 + p  BY ONLY p \in 1 .. 5
  <2> QED  BY ONLY <1>6, <1>8, <2>1, <2>2
<1>11. l = vdb \o e  BY <1>4, <1>7, <1>9
<1>12. /\ l \in Seq(Char) /\ Len(l) = 3 + p + q
       /\ \A i \in 1 .. 3 + p + q :
            l[i] = IF i <= 3 + p THEN vdb[i] ELSE e[i - (3 + p)]
  <2>1. /\ l \in Seq(Char) /\ Len(l) = Len(vdb) + Len(e)
        /\ \A i \in 1 .. Len(vdb) + Len(e) :
             l[i] = IF i <= Len(vdb) THEN vdb[i] ELSE e[i - Len(vdb)]
    <3>1. vdb \in Seq(Char) /\ e \in Seq(Char)  BY <1>3, <1>10
    <3> QED  BY ONLY <3>1, <1>11, Joins
  <2> QED  BY ONLY <1>2, <1>10, <2>1
<1>13. l[1] = "V" /\ l[2] = Blank
  <2>1. /\ 1 \in 1 .. 3 + p + q /\ 1 <= 3 + p /\ 1 \in 1 .. 3 + p
        /\ 1 <= 2 + p /\ 1 \in 1 .. 2 + p /\ 1 <= 2
        /\ 2 \in 1 .. 3 + p + q /\ 2 <= 3 + p /\ 2 \in 1 .. 3 + p
        /\ 2 <= 2 + p /\ 2 \in 1 .. 2 + p /\ 2 <= 2
    BY ONLY p \in 1 .. 5, q \in 1 .. 5
  <2> QED  BY ONLY <1>6, <1>8, <1>10, <1>12, <2>1
<1>14. l[3 + p] = Blank
  <2>1. /\ 3 + p \in 1 .. 3 + p + q /\ 3 + p <= 3 + p
        /\ 3 + p \in 1 .. 3 + p /\ ~(3 + p <= 2 + p)
        /\ (3 + p) - (2 + p) = 1
    BY ONLY p \in 1 .. 5, q \in 1 .. 5
  <2>2. l[3 + p] = b[(3 + p) - (2 + p)]  BY ONLY <1>10, <1>12, <2>1
  <2> QED  BY ONLY <1>6, <2>1, <2>2
<1>15. ASSUME NEW k \in 1 .. p  PROVE l[2 + k] = d[k]
  <2>1. /\ 2 + k \in 1 .. 3 + p + q /\ 2 + k <= 3 + p
        /\ 2 + k \in 1 .. 3 + p /\ 2 + k <= 2 + p
        /\ 2 + k \in 1 .. 2 + p /\ ~(2 + k <= 2) /\ (2 + k) - 2 = k
    BY ONLY p \in 1 .. 5, q \in 1 .. 5, k \in 1 .. p
  <2>2. l[2 + k] = d[(2 + k) - 2]  BY ONLY <1>8, <1>10, <1>12, <2>1
  <2> QED  BY ONLY <2>1, <2>2
<1>16. ASSUME NEW k \in 1 .. q  PROVE l[3 + p + k] = e[k]
  <2>1. /\ 3 + p + k \in 1 .. 3 + p + q /\ ~(3 + p + k <= 3 + p)
        /\ (3 + p + k) - (3 + p) = k
    BY ONLY p \in 1 .. 5, q \in 1 .. 5, k \in 1 .. q
  <2>2. l[3 + p + k] = e[(3 + p + k) - (3 + p)]  BY ONLY <1>12, <2>1
  <2> QED  BY ONLY <2>1, <2>2
<1> QED
  BY ONLY <1>2, <1>12, <1>13, <1>14, <1>15, <1>16 DEF VersionText

(* What the messages are.                                                  *)
IsRecord(m, data) ==
  /\ m.kind \in {"rec", "term"} /\ m.addr \in Nat /\ m.addr < Space
  /\ data = (IF m.kind = "rec" THEN m.data ELSE <<>>)
  /\ data \in Seq(Bytes) /\ AddrBytes + Len(data) + 2 \in 2 .. 256

TypeOf(m) == IF m.kind = "rec" THEN "3" ELSE "7"

(* A record or a terminator is written by SRecord.                         *)
LEMMA EncodedRecord ==
  ASSUME CodeWidth, NEW m \in Messages, m.kind \in {"rec", "term"}
  PROVE  \E data : IsRecord(m, data)
                   /\ Encode(m) = SRecord(TypeOf(m), m.addr, data)
<1>1. \A x \in 0 .. Space - 1 : x \in Nat /\ x < Space  BY Sizes
<1>2. CASE m.kind = "rec"
  <2>1. /\ m.addr \in 0 .. Space - 1 /\ m.data \in Seq(Bytes)
        /\ AddrBytes + Len(m.data) + 1 <= 255
    BY <1>2, MessagesAssumption
  <2>2. AddrBytes + Len(m.data) + 2 \in 2 .. 256
    <3>1. PICK k : k = Len(m.data)  OBVIOUS
    <3>2. k \in Nat  BY <2>1, <3>1
    <3>3. AddrBytes \in Nat /\ AddrBytes + k + 1 <= 255
      BY <2>1, <3>1, Sizes
    <3>4. AddrBytes + k + 2 \in 2 .. 256  BY ONLY <3>2, <3>3
    <3> QED  BY <3>1, <3>4
  <2>3. IsRecord(m, m.data)  BY <1>1, <1>2, <2>1, <2>2 DEF IsRecord
  <2> QED  BY <1>2, <2>3 DEF Encode, TypeOf
<1>3. CASE m.kind = "term"
  <2>1. m.addr \in 0 .. Space - 1  BY <1>3, MessagesAssumption
  <2>2. <<>> \in Seq(Bytes) /\ AddrBytes + Len(<<>>) + 2 \in 2 .. 256
    BY DEF CodeWidth
  <2>3. IsRecord(m, <<>>)  BY <1>1, <1>3, <2>1, <2>2 DEF IsRecord
  <2> QED  BY <1>3, <2>3 DEF Encode, TypeOf
<1> QED  BY <1>2, <1>3

(* A version line is written with its two numbers.                         *)
LEMMA EncodedVersion ==
  ASSUME NEW m \in Messages, m.kind = "ver"
  PROVE  \E d, e : /\ DecSeq(d) /\ DecSeq(e)
                   /\ Read(d) = m.arg[1] /\ Read(e) = m.arg[2]
                   /\ m.arg = <<m.arg[1], m.arg[2]>>
                   /\ Short(m.arg[1]) /\ Short(m.arg[2])
                   /\ VersionText(Encode(m), d, e)
<1>1. /\ m.arg = <<m.arg[1], m.arg[2]>>
      /\ \A i \in 1 .. 2 : m.arg[i] \in Nat /\ m.arg[i] < 10 ^ 5
  BY MessagesAssumption, SMT
<1>2. Short(m.arg[1]) /\ Short(m.arg[2])  BY <1>1, SMT DEF Short
<1>3. \A v : Short(v) => DecSeq(u16_to_dec(v)) /\ Read(u16_to_dec(v)) = v
  <2> TAKE v
  <2> HAVE Short(v)
  <2>1. PICK k \in 1 .. 5 : u16_to_dec(v) \in [1 .. k -> DecDigits]
    BY PrintedReads
  <2>2. DecSeq(u16_to_dec(v))  BY <2>1 DEF DecSeq
  <2> QED  BY <2>2, PrintedReads
<1>4. PICK d, e : d = u16_to_dec(m.arg[1]) /\ e = u16_to_dec(m.arg[2])
  OBVIOUS
<1>5. DecSeq(d) /\ DecSeq(e) /\ Read(d) = m.arg[1] /\ Read(e) = m.arg[2]
  BY <1>2, <1>3, <1>4
<1>6. Encode(m) = <<"V", Blank>> \o d \o <<Blank>> \o e
  BY <1>4, Zenon DEF Encode, Decimal, Blank
<1>7. VersionText(Encode(m), d, e)  BY <1>5, <1>6, VersionTexts
<1> QED  BY <1>1, <1>2, <1>5, <1>7

(* The application writes characters.                                      *)
LEMMA EncodedTyped ==
  ASSUME CodeWidth, NEW m \in Messages
  PROVE  Encode(m) \in Seq(Char)
<1>1. m.kind \in {"rec", "term", "ver", "text"}  BY MessagesAssumption
<1>2. CASE m.kind \in {"rec", "term"}
  <2>1. PICK data : IsRecord(m, data)
                    /\ Encode(m) = SRecord(TypeOf(m), m.addr, data)
    BY <1>2, EncodedRecord
  <2>2. PICK n \in 2 .. 256 : n = AddrBytes + Len(data) + 2
    BY <2>1 DEF IsRecord
  <2>3. TypeOf(m) \in Char
    BY DEF TypeOf, Char, ToSet, Hex, LowerHex, Dec
  <2>4. m.addr \in Nat /\ data \in Seq(Bytes)  BY <2>1 DEF IsRecord
  <2>5. n \in Nat /\ n <= 256  BY ONLY n \in 2 .. 256
  <2>6. SRecord(TypeOf(m), m.addr, data) \in Seq(Char)
    BY ONLY CodeWidth, <2>2, <2>3, <2>4, <2>5, SRecordIs DEF RecordText
  <2> QED  BY <2>1, <2>6
<1>3. CASE m.kind = "ver"  BY <1>3, EncodedVersion DEF VersionText
<1>4. CASE m.kind = "text"  BY <1>4, MessagesAssumption DEF Encode
<1> QED  BY <1>1, <1>2, <1>3, <1>4

(* Whatever arrives is a line of characters.                               *)
LEMMA StoredTyped ==
  ASSUME CodeWidth, Receive \/ ReceiveDamaged
  PROVE  \E m \in Messages, l \in Seq(Char) :
           /\ Store(m, l)
           /\ \/ l = Encode(m) /\ noise_left' = noise_left
              \/ /\ l \in OneError(Encode(m))
                 /\ noise_left > 0 /\ noise_left' = noise_left - 1
<1>1. CASE Receive
  BY <1>1, EncodedTyped DEF Receive
<1>2. CASE ReceiveDamaged
  <2>1. PICK m \in Messages : \E l \in OneError(Encode(m)) : Store(m, l)
    BY <1>2 DEF ReceiveDamaged
  <2>2. PICK l \in OneError(Encode(m)) : Store(m, l)  BY <2>1
  <2>3. Encode(m) \in Seq(Char) /\ NoiseChars \subseteq Char
    BY EncodedTyped, MessagesAssumption
  <2>4. l \in Seq(Char)  BY <2>3, Errors
  <2> QED  BY <1>2, <2>2, <2>4 DEF ReceiveDamaged
<1> QED  BY <1>1, <1>2

-----------------------------------------------------------------------------
(* What is read from a line.                                               *)

(* An address, byte by byte.                                              *)
LEMMA AddrRuns ==
  ASSUME NEW n \in Nat, NEW s \in [1 .. n -> Int]
  PROVE  \E r \in [0 .. n -> Int] :
           /\ r[0] = 0 /\ r[n] = AddrOf(s)
           /\ \A k \in 1 .. n : r[k] = 256 * r[k - 1] + s[k]
<1> DEFINE t == [p \in Int \X Int |-> 256 * p[1] + p[2]]
           F(it) == [S \in SUBSET (1 .. n) |->
                       IF S = {} THEN 0
                       ELSE 256 * it[S \ {Max(S)}] + s[Max(S)]]
           c == CHOOSE it : it = F(it)
<1>1. AddrOf(s) = c[1 .. n]
  <2>1. DOMAIN s = 1 .. n  OBVIOUS
  <2> QED  BY <2>1 DEF AddrOf, FoldLeft, MapThenFoldSet
<1>2. /\ t \in [Int \X Int -> Int]
      /\ \A v \in Int, e \in Int : t[<<v, e>>] = 256 * v + e
  OBVIOUS
<1> HIDE DEF t
<1>3. \E it : it = F(it)
  <2>1. PICK it \in [SUBSET (1 .. n) -> Int] : FoldsBy(it, 0, n, s, t)
    <3>1. 0 \in Int  OBVIOUS
    <3> QED  BY <1>2, <3>1, FoldExists
  <2>2. ASSUME NEW S \in SUBSET (1 .. n), S # {}
        PROVE  it[S] = 256 * it[S \ {Max(S)}] + s[Max(S)]
    <3>1. s[Max(S)] \in Int /\ it[S \ {Max(S)}] \in Int
      BY <2>2, HasMax
    <3> QED  BY <1>2, <2>1, <2>2, <3>1 DEF FoldsBy
  <2>3. it = F(it)  BY <2>1, <2>2 DEF FoldsBy
  <2> QED  BY <2>3
<1>4. c = F(c)  BY <1>3
<1> HIDE DEF c
<1>5. c[{}] = 0 /\ \A S \in SUBSET (1 .. n) : S # {} =>
                     c[S] = 256 * c[S \ {Max(S)}] + s[Max(S)]
  BY <1>4
<1>6. PICK r \in [0 .. n -> Int] : Runs(r, c, 0, n, s, t)
  <2>1. 0 \in Int  OBVIOUS
  <2>2. ASSUME NEW S \in SUBSET (1 .. n), S # {}, c[S \ {Max(S)}] \in Int,
               s[Max(S)] \in Int
        PROVE  c[S] = t[<<c[S \ {Max(S)}], s[Max(S)]>>]
    <3>1. PICK v, e : v = c[S \ {Max(S)}] /\ e = s[Max(S)]  OBVIOUS
    <3>2. c[S] = 256 * v + e  BY <1>5, <2>2, <3>1
    <3>3. v \in Int /\ e \in Int  BY <2>2, <3>1
    <3>4. t[<<v, e>>] = 256 * v + e  BY ONLY <1>2, <3>3
    <3> QED  BY <3>1, <3>2, <3>4
  <2>3. StepsBy(c, Int, 0, Int, n, s, t)
    BY <1>5, <2>2 DEF StepsBy
  <2>4. /\ n \in Nat /\ s \in [1 .. n -> Int]
        /\ t \in [Int \X Int -> Int]
    BY <1>2
  <2> HIDE DEF F
  <2> QED  BY <2>1, <2>3, <2>4, FoldRuns
<1>7. \A k \in 1 .. n : r[k] = 256 * r[k - 1] + s[k]
  <2> TAKE k \in 1 .. n
  <2>1. r[k - 1] \in Int /\ s[k] \in Int  OBVIOUS
  <2>2. r[k] = t[<<r[k - 1], s[k]>>]  BY <1>6 DEF Runs
  <2>3. PICK v, e : v = r[k - 1] /\ e = s[k]  OBVIOUS
  <2>4. v \in Int /\ e \in Int  BY <2>1, <2>3
  <2>5. t[<<v, e>>] = 256 * v + e  BY ONLY <1>2, <2>4
  <2> QED  BY <2>2, <2>3, <2>5
<1> HIDE DEF t, F
<1> QED  BY <1>1, <1>6, <1>7 DEF Runs

(* A number of a version line, which stops growing past 255.               *)
Grow(v, d) == IF v > 255 THEN v ELSE 10 * v + d

Parsed(s) ==
  FoldLeft(LAMBDA v, c : IF v > 255 THEN v ELSE 10 * v + Digit(c), 0, s)

(* Such a number, digit by digit.                                          *)
LEMMA ParsedRuns ==
  ASSUME NEW n \in Nat, NEW s \in [1 .. n -> DecDigits]
  PROVE  \E r \in [0 .. n -> Int] :
           /\ r[0] = 0 /\ r[n] = Parsed(s)
           /\ \A k \in 1 .. n : r[k] = Grow(r[k - 1], Digit(s[k]))
<1> DEFINE t == [p \in Int \X DecDigits |-> Grow(p[1], Digit(p[2]))]
           F(it) == [S \in SUBSET (1 .. n) |->
                       IF S = {} THEN 0
                       ELSE Grow(it[S \ {Max(S)}], Digit(s[Max(S)]))]
           c == CHOOSE it : it = F(it)
<1>1. Parsed(s) = c[1 .. n]
  <2>1. DOMAIN s = 1 .. n  OBVIOUS
  <2> QED  BY <2>1 DEF Parsed, Grow, FoldLeft, MapThenFoldSet
<1>2. /\ t \in [Int \X DecDigits -> Int]
      /\ \A v \in Int, e \in DecDigits : t[<<v, e>>] = Grow(v, Digit(e))
  <2>1. \A e \in DecDigits : Digit(e) \in Int  BY DigitOf
  <2>2. \A v, d \in Int : Grow(v, d) \in Int  BY DEF Grow
  <2> HIDE DEF DecDigits
  <2> QED  BY <2>1, <2>2
<1> HIDE DEF t
<1>3. \E it : it = F(it)
  <2>1. PICK it \in [SUBSET (1 .. n) -> Int] : FoldsBy(it, 0, n, s, t)
    <3>1. 0 \in Int  OBVIOUS
    <3> QED  BY <1>2, <3>1, FoldExists
  <2>2. ASSUME NEW S \in SUBSET (1 .. n), S # {}
        PROVE  it[S] = Grow(it[S \ {Max(S)}], Digit(s[Max(S)]))
    <3>1. s[Max(S)] \in DecDigits /\ it[S \ {Max(S)}] \in Int
      BY <2>2, HasMax
    <3> QED  BY <1>2, <2>1, <2>2, <3>1 DEF FoldsBy
  <2>3. it = F(it)  BY <2>1, <2>2 DEF FoldsBy
  <2> QED  BY <2>3
<1>4. c = F(c)  BY <1>3
<1> HIDE DEF c
<1>5. c[{}] = 0 /\ \A S \in SUBSET (1 .. n) : S # {} =>
                     c[S] = Grow(c[S \ {Max(S)}], Digit(s[Max(S)]))
  BY <1>4
<1>6. PICK r \in [0 .. n -> Int] : Runs(r, c, 0, n, s, t)
  <2>1. 0 \in Int  OBVIOUS
  <2>2. ASSUME NEW S \in SUBSET (1 .. n), S # {}, c[S \ {Max(S)}] \in Int,
               s[Max(S)] \in DecDigits
        PROVE  c[S] = t[<<c[S \ {Max(S)}], s[Max(S)]>>]
    <3>1. PICK v, e : v = c[S \ {Max(S)}] /\ e = s[Max(S)]  OBVIOUS
    <3>2. c[S] = Grow(v, Digit(e))  BY <1>5, <2>2, <3>1
    <3>3. v \in Int /\ e \in DecDigits  BY <2>2, <3>1
    <3>4. t[<<v, e>>] = Grow(v, Digit(e))  BY ONLY <1>2, <3>3
    <3> QED  BY <3>1, <3>2, <3>4
  <2>3. StepsBy(c, Int, 0, DecDigits, n, s, t)
    BY <1>5, <2>2 DEF StepsBy
  <2>4. /\ n \in Nat /\ s \in [1 .. n -> DecDigits]
        /\ t \in [Int \X DecDigits -> Int]
    BY <1>2
  <2> HIDE DEF F
  <2> QED  BY <2>1, <2>3, <2>4, FoldRuns
<1>7. \A k \in 1 .. n : r[k] = Grow(r[k - 1], Digit(s[k]))
  <2> TAKE k \in 1 .. n
  <2>1. r[k - 1] \in Int /\ s[k] \in DecDigits  OBVIOUS
  <2>2. r[k] = t[<<r[k - 1], s[k]>>]  BY <1>6 DEF Runs
  <2>3. PICK v, e : v = r[k - 1] /\ e = s[k]  OBVIOUS
  <2>4. v \in Int /\ e \in DecDigits  BY <2>1, <2>3
  <2>5. t[<<v, e>>] = Grow(v, Digit(e))  BY ONLY <1>2, <2>4
  <2> QED  BY <2>2, <2>3, <2>5
<1> HIDE DEF t, F
<1> QED  BY <1>1, <1>6, <1>7 DEF Runs

(* v is read from n digits of buf, the first of them at place i.           *)
ReadAt(v, buf, i, n) ==
  n \in Nat /\ \E s \in [1 .. n -> DecDigits] :
                 v = Parsed(s) /\ \A k \in 1 .. n : s[k] = buf[i + k - 1]

(* The digits a number of a line is read from.                             *)
LEMMA NumberIs ==
  ASSUME NEW buf \in Seq(Char), NEW i \in 1 .. Len(buf) + 1,
         NEW j \in 0 .. Len(buf), i <= j + 1,
         \A k \in i .. j : IsDec(buf[k]),
         NEW n, n = j - i + 1
  PROVE  ReadAt(Number(buf, i, j), buf, i, n)
<1>1. PICK s : s = SubSeq(buf, i, j)  OBVIOUS
<1>2. /\ s \in Seq(Char) /\ Len(s) = n
      /\ \A k \in 1 .. Len(s) : s[k] = buf[i + k - 1]
  BY <1>1, Part
<1>3. n \in Nat  BY LenProperties
<1>4. ASSUME NEW k \in 1 .. n  PROVE s[k] \in DecDigits
  <2>1. i + k - 1 \in i .. j  BY <1>3
  <2> QED  BY <1>2, <2>1, DigitOf
<1>5. s \in [1 .. n -> DecDigits]  BY <1>2, <1>4, LenProperties
<1>6. Number(buf, i, j) = Parsed(s)  BY <1>1 DEF Number, Parsed
<1> QED  BY <1>2, <1>3, <1>5, <1>6 DEF ReadAt

(* A number is cut to a byte.                                              *)
LEMMA NumberTyped ==
  ASSUME NEW buf \in Seq(Char), NEW i \in 1 .. Len(buf) + 1,
         NEW j \in 0 .. Len(buf), i <= j + 1,
         \A k \in i .. j : IsDec(buf[k])
  PROVE  Number(buf, i, j) % 256 \in Bytes
<1>1. PICK n : n = j - i + 1  OBVIOUS
<1>2. ReadAt(Number(buf, i, j), buf, i, n)  BY <1>1, NumberIs
<1>3. PICK s \in [1 .. n -> DecDigits] : Number(buf, i, j) = Parsed(s)
  BY <1>2 DEF ReadAt
<1>4. PICK r \in [0 .. n -> Int] : r[n] = Parsed(s)
  BY <1>2, ParsedRuns DEF ReadAt
<1>5. Parsed(s) \in Int  BY <1>2, <1>4 DEF ReadAt
<1>6. \A x \in Int : x % 256 \in 0 .. 255  OBVIOUS
<1> QED  BY <1>3, <1>5, <1>6 DEF Bytes

(* A version that is reported is two bytes.                                *)
LEMMA VersionTyped ==
  ASSUME NEW buf \in Seq(Char), NEW len \in 0 .. Len(buf),
         NEW v \in VersionIn(buf, len)
  PROVE  v \in Bytes \X Bytes
<1> DEFINE major == DigitsEnd(buf, len, 3)
           minor == DigitsEnd(buf, len, major + 2)
<1>1. /\ ~(len < 5) /\ major >= 3 /\ major < len
      /\ v = <<Number(buf, 3, major) % 256,
               Number(buf, major + 2, minor) % 256>>
  BY DEF VersionIn
<1>2. len \in Nat /\ Len(buf) \in Nat /\ len <= Len(buf)  BY LenProperties
<1>3. major \in 3 - 1 .. len /\ \A k \in 3 .. major : IsDec(buf[k])
  <2>1. 3 \in 1 .. len + 1  BY <1>1, <1>2
  <2> QED  BY <1>2, <2>1, DigitsEndIs
<1> HIDE DEF major
<1>4. minor \in major + 1 .. len
      /\ \A k \in major + 2 .. minor : IsDec(buf[k])
  <2>1. major + 2 \in 1 .. len + 1 /\ (major + 2) - 1 = major + 1
    BY <1>1, <1>2, <1>3
  <2>2. /\ DigitsEnd(buf, len, major + 2) \in (major + 2) - 1 .. len
        /\ \A k \in major + 2 .. DigitsEnd(buf, len, major + 2) :
             IsDec(buf[k])
    BY <1>2, <2>1, DigitsEndIs
  <2> QED  BY <2>1, <2>2
<1> HIDE DEF minor
<1>5. Number(buf, 3, major) % 256 \in Bytes
  <2>1. 3 \in 1 .. Len(buf) + 1 /\ major \in 0 .. Len(buf) /\ 3 <= major + 1
    BY <1>1, <1>2, <1>3
  <2> QED  BY <1>3, <2>1, NumberTyped
<1>6. Number(buf, major + 2, minor) % 256 \in Bytes
  <2>1. PICK i : i = major + 2  OBVIOUS
  <2>2. i \in 1 .. Len(buf) + 1 /\ minor \in 0 .. Len(buf) /\ i <= minor + 1
    BY <1>1, <1>2, <1>3, <1>4, <2>1
  <2>3. \A k \in i .. minor : IsDec(buf[k])  BY <1>4, <2>1
  <2>4. Number(buf, i, minor) % 256 \in Bytes  BY <2>2, <2>3, NumberTyped
  <2> QED  BY <2>1, <2>4
<1> QED  BY <1>1, <1>5, <1>6

(* What parse_s3 accepts is an address of the space and bytes.             *)
LEMMA DecodedTyped ==
  ASSUME NEW buf, NEW len, Refusal(buf, len) = "none"
  PROVE  /\ Decoded(buf).addr \in 0 .. Space - 1
         /\ Decoded(buf).data \in Seq(Bytes)
<1>1. /\ IsByte(buf, 3) /\ ~(Count(buf) < AddrBytes + 1)
      /\ \A k \in 1 .. Count(buf) : IsPayload(buf, k)
      /\ InRegion(Decoded(buf).addr, Len(Decoded(buf).data))
  BY DEF Refusal
<1>2. Count(buf) \in 0 .. 255  BY <1>1, ByteTyped DEF Count
<1>3. PICK n : n = Count(buf) - 1  OBVIOUS
<1>4. n \in Nat /\ AddrBytes \in Nat /\ AddrBytes <= n
      /\ \A k \in 1 .. n : k \in 1 .. Count(buf)
  <2>1. PICK c \in 0 .. 255 : c = Count(buf)  BY <1>2
  <2>2. AddrBytes \in Nat \ {0} /\ c >= AddrBytes + 1 /\ n = c - 1
    BY <1>1, <1>3, <2>1, Sizes
  <2> QED  BY ONLY <2>1, <2>2, c \in 0 .. 255
<1>5. \A k \in 1 .. n : Payload(buf, k) \in Bytes
  BY <1>1, <1>4, ByteTyped DEF IsPayload, Payload, Bytes
<1>6. PICK p : p = Payloads(buf, n)  OBVIOUS
<1>7. p \in Seq(Bytes) /\ Len(p) = n
  BY <1>4, <1>5, <1>6 DEF Payloads
<1>8. PICK a : a = AddrBytes + 1  OBVIOUS
<1>9. Decoded(buf).data = SubSeq(p, a, n)
  BY <1>3, <1>6, <1>8 DEF Decoded
<1>10. a \in 1 .. n + 1 /\ n \in 0 .. n /\ a <= n + 1  BY <1>4, <1>8
<1>11. SubSeq(p, a, n) \in Seq(Bytes)
  <2>1. a \in 1 .. Len(p) + 1 /\ n \in 0 .. Len(p) /\ a <= n + 1
    BY <1>7, <1>10
  <2> QED  BY ONLY <1>7, <2>1, Part
<1>12. Decoded(buf).addr \in 0 .. Space - 1
  BY <1>1, Sizes DEF InRegion
<1> QED  BY <1>9, <1>11, <1>12

(* A word is four bytes.                                                   *)
LEMMA WordTyped ==
  ASSUME NEW data \in Seq(Bytes), NEW o \in Nat
  PROVE  le_word(data, o) \in [1 .. 4 -> Bytes]
<1>1. 255 \in Bytes  BY DEF Bytes
<1>2. \A i \in 1 .. 4 : o + i <= Len(data) => data[o + i] \in Bytes
  BY LenProperties
<1> QED  BY <1>1, <1>2 DEF le_word

-----------------------------------------------------------------------------
(* Types.                                                                  *)

(* A line that is stored leaves the types.                                 *)
LEMMA StoreTyped ==
  ASSUME WireTypeOK, CodeWidth, Receive \/ ReceiveDamaged
  PROVE  WireTypeOK'
<1>1. PICK m \in Messages, l \in Seq(Char) :
        /\ Store(m, l)
        /\ \/ noise_left' = noise_left
           \/ noise_left > 0 /\ noise_left' = noise_left - 1
  <2>1. PICK m \in Messages, l \in Seq(Char) :
           /\ Store(m, l)
           /\ \/ l = Encode(m) /\ noise_left' = noise_left
              \/ /\ l \in OneError(Encode(m))
                 /\ noise_left > 0 /\ noise_left' = noise_left - 1
    BY StoredTyped
  <2> QED  BY <2>1
<1>2. /\ pc' = "ready" /\ rx_len' = Len(l) /\ Len(l) \in 1 .. LINE_MAX
      /\ rx_buf' = [i \in 1 .. LINE_MAX |->
                      IF i <= Len(l) THEN l[i] ELSE rx_buf[i]]
      /\ UNCHANGED <<state, record, off, flash, app_version, lines_left>>
  BY <1>1 DEF Store, StoredLen
<1>3. rx_buf' \in [1 .. LINE_MAX -> Char]
  <2>1. \A i \in 1 .. LINE_MAX : i <= Len(l) => l[i] \in Char
    BY LenProperties
  <2>2. \A i \in 1 .. LINE_MAX : rx_buf[i] \in Char  BY DEF WireTypeOK
  <2> QED  BY <1>2, <2>1, <2>2
<1>4. rx_len' \in 0 .. LINE_MAX  BY <1>2, Sizes
<1>5. noise_left' \in 0 .. MaxNoise
  <2>1. MaxNoise \in Nat  BY WireAssumption
  <2> QED  BY <1>1, <2>1 DEF WireTypeOK
<1>6. pc' \in {"idle", "asked", "ready", "prog"}  BY <1>2
<1> QED  BY <1>2, <1>3, <1>4, <1>5, <1>6 DEF WireTypeOK

(* A line that is consumed leaves the types.                               *)
LEMMA ConsumeTyped ==
  ASSUME WireTypeOK, NEW r, Consume(r), UNCHANGED flash,
         app_version' \in Bytes \X Bytes
  PROVE  WireTypeOK'
<1>1. /\ NoRecord.addr \in 0 .. Space - 1 /\ NoRecord.data \in Seq(Bytes)
  BY Sizes DEF NoRecord
<1>2. /\ pc' = "idle" /\ rx_len' = 0 /\ record' = NoRecord /\ off' = 0
      /\ UNCHANGED <<state, rx_buf, lines_left, noise_left>>
  BY DEF Consume
<1>3. 0 \in 0 .. LINE_MAX  BY Sizes
<1> QED  BY <1>1, <1>2, <1>3 DEF WireTypeOK

(* The types are inductive.                                                *)
LEMMA WireTypeOKHolds ==
  ASSUME CodeWidth
  PROVE  /\ WireInit => WireTypeOK
         /\ WireTypeOK /\ [WireNext]_wireVars => WireTypeOK'
<1>1. ASSUME WireInit  PROVE WireTypeOK
  <2>1. Other \in Char /\ 255 \in Bytes /\ 0 \in Bytes
    BY DEF Char, Bytes
  <2>2. NoRecord.addr \in 0 .. Space - 1 /\ NoRecord.data \in Seq(Bytes)
    BY Sizes DEF NoRecord
  <2>3. MaxLines \in 0 .. MaxLines /\ MaxNoise \in 0 .. MaxNoise
        /\ 0 \in 0 .. LINE_MAX
    BY WireAssumption, Sizes
  <2>4. rx_buf \in [1 .. LINE_MAX -> Char]
        /\ flash \in [FLASH_BASE .. FLASH_END -> Bytes]
    BY <1>1, <2>1 DEF WireInit
  <2> QED  BY <1>1, <2>1, <2>2, <2>3, <2>4 DEF WireInit, WireTypeOK
<1>2. ASSUME WireTypeOK, [WireNext]_wireVars  PROVE WireTypeOK'
  <2>1. CASE AskVersion \/ AskLine
    <3>1. lines_left' \in 0 .. MaxLines
      <4>1. lines_left > 0 /\ lines_left' = lines_left - 1
        BY <2>1 DEF AskVersion, AskLine
      <4>2. MaxLines \in Nat  BY WireAssumption
      <4> QED  BY <1>2, <4>1, <4>2 DEF WireTypeOK
    <3>2. /\ pc' = "asked" /\ state' \in {"WAIT_VER", "WAIT_LINE"}
          /\ UNCHANGED <<rx_buf, rx_len, record, off, flash, app_version,
                         noise_left>>
      BY <2>1 DEF AskVersion, AskLine
    <3> QED  BY <1>2, <3>1, <3>2 DEF WireTypeOK
  <2>2. CASE Receive \/ ReceiveDamaged  BY <1>2, <2>2, StoreTyped
  <2>3. CASE ParseVersion
    <3>1. PICK r : Consume(r) /\ UNCHANGED flash
                   /\ (app_version' \in VersionIn(rx_buf, rx_len)
                         \/ app_version' = app_version)
      BY <2>3 DEF ParseVersion
    <3>2. rx_buf \in Seq(Char) /\ Len(rx_buf) = LINE_MAX
      BY <1>2, Sizes DEF WireTypeOK
    <3>3. rx_len \in 0 .. Len(rx_buf)  BY <1>2, <3>2 DEF WireTypeOK
    <3>4. app_version' \in Bytes \X Bytes
      BY <1>2, <3>1, <3>2, <3>3, VersionTyped DEF WireTypeOK
    <3> QED  BY <1>2, <3>1, <3>4, ConsumeTyped
  <2>4. CASE ParseTerminator \/ ParseRefuses \/ ProgramFails \/ Programmed
    <3>1. PICK r : Consume(r) /\ UNCHANGED <<flash, app_version>>
      BY <2>4 DEF ParseTerminator, ParseRefuses, ProgramFails, Programmed
    <3>2. app_version' \in Bytes \X Bytes  BY <1>2, <3>1 DEF WireTypeOK
    <3> QED  BY <1>2, <3>1, <3>2, ConsumeTyped
  <2>5. CASE ParseAccepts
    <3>1. record'.addr \in 0 .. Space - 1 /\ record'.data \in Seq(Bytes)
      BY <2>5, DecodedTyped DEF ParseAccepts
    <3>2. /\ pc' = "prog" /\ off' = 0
          /\ UNCHANGED <<state, rx_buf, rx_len, flash, app_version,
                         lines_left, noise_left>>
      BY <2>5 DEF ParseAccepts
    <3> QED  BY <1>2, <3>1, <3>2 DEF WireTypeOK
  <2>6. CASE ProgramWord
    <3>1. /\ flash' = [b \in DOMAIN flash |->
                         IF b \in Place .. Place + 3
                         THEN Word[b - Place + 1] ELSE flash[b]]
          /\ off' = off + 4 /\ pc = "prog"
          /\ UNCHANGED <<pc, state, rx_buf, rx_len, record, app_version,
                         lines_left, noise_left>>
      BY <2>6 DEF ProgramWord
    <3>2. Word \in [1 .. 4 -> Bytes]
      BY <1>2, WordTyped DEF WireTypeOK, Word
    <3>3. Place \in Nat
      <4>1. record.addr \in Nat /\ off \in Nat /\ Space \in Nat \ {0}
        BY <1>2, Sizes DEF WireTypeOK
      <4> QED  BY <4>1 DEF Place
    <3> DEFINE p == Place
    <3>4. flash' \in [FLASH_BASE .. FLASH_END -> Bytes]
      <4>1. \A b \in p .. p + 3 : b - p + 1 \in 1 .. 4  BY <3>3
      <4>2. flash \in [FLASH_BASE .. FLASH_END -> Bytes]
        BY <1>2 DEF WireTypeOK
      <4> QED  BY <3>1, <3>2, <4>1, <4>2
    <3>5. off' \in Nat  BY <1>2, <3>1 DEF WireTypeOK
    <3> QED  BY <1>2, <3>1, <3>4, <3>5 DEF WireTypeOK
  <2>7. CASE UNCHANGED wireVars  BY <1>2, <2>7 DEF wireVars, WireTypeOK
  <2> QED
    BY <1>2, <2>1, <2>2, <2>3, <2>4, <2>5, <2>6, <2>7 DEF WireNext
<1> QED  BY <1>1, <1>2

(* The types hold for every message of the protocol, flash and region.     *)
THEOREM WireTyped ==
  ASSUME CodeWidth
  PROVE  WireSpec => []WireTypeOK
<1>1. (WireInit => WireTypeOK)
      /\ (WireTypeOK /\ [WireNext]_wireVars => WireTypeOK')
  BY WireTypeOKHolds
<1> QED  BY <1>1, PTL DEF WireSpec

-----------------------------------------------------------------------------
(* Version lines.                                                          *)

(* A number that stops growing past 255 is the number itself up to there.  *)
LEMMA ParsedIs ==
  ASSUME NEW n \in Nat, NEW s \in [1 .. n -> DecDigits]
  PROVE  /\ Read(s) \in Nat /\ Parsed(s) \in Int
         /\ \/ Parsed(s) = Read(s)
            \/ Parsed(s) > 255 /\ Read(s) > 255
<1>1. PICK a \in [0 .. n -> Int] : ReadsOn(a, n, s)  BY ReadRuns
<1>2. PICK b \in [0 .. n -> Int] :
        /\ b[0] = 0 /\ b[n] = Parsed(s)
        /\ \A k \in 1 .. n : b[k] = Grow(b[k - 1], Digit(s[k]))
  BY ParsedRuns
<1>3. \A k \in 1 .. n : Digit(s[k]) \in 0 .. 9  BY DigitOf
<1> DEFINE Agree(x, y) == x >= 0 /\ (y = x \/ (y > 255 /\ x > 255))
           T == {k \in 0 .. n : Agree(a[k], b[k])}
<1>4. 0 \in T
  <2>1. a[0] = 0  BY <1>1 DEF ReadsOn
  <2>2. b[0] = 0 /\ 0 \in 0 .. n  BY <1>2
  <2>3. Agree(0, 0)  OBVIOUS
  <2> HIDE DEF Agree
  <2> QED  BY <2>1, <2>2, <2>3
<1>5. ASSUME NEW k \in 0 .. n, k \in T, k < n  PROVE k + 1 \in T
  <2>1. k + 1 \in 1 .. n /\ (k + 1) - 1 = k  BY <1>5
  <2>2. PICK x, y, d : x = a[k] /\ y = b[k] /\ d = Digit(s[k + 1])
    OBVIOUS
  <2>3. x \in Int /\ y \in Int /\ d \in 0 .. 9 /\ Agree(x, y)
    BY <1>3, <1>5, <2>1, <2>2
  <2>4. a[k + 1] = 10 * x + d  BY <1>1, <2>1, <2>2 DEF ReadsOn
  <2>5. b[k + 1] = Grow(y, d)  BY <1>2, <2>1, <2>2
  <2>6. Agree(10 * x + d, Grow(y, d))  BY <2>3 DEF Grow
  <2> QED  BY <2>1, <2>4, <2>5, <2>6
<1>6. \A k \in 0 .. n : k \in T
  <2>1. \A k \in 0 .. n : k \in T /\ k < n => k + 1 \in T  BY <1>5
  <2> HIDE DEF T
  <2> QED  BY <1>4, <2>1, UpTo
<1>7. Agree(a[n], b[n]) /\ b[n] \in Int  BY <1>6
<1> QED  BY <1>1, <1>2, <1>7 DEF ReadsOn

(* A decimal digit is no blank.                                            *)
LEMMA DigitSigns == ~IsDec(Blank) /\ \A d \in DecDigits : IsDec(d)
<1>1. /\ Dec[1] # Blank /\ Dec[2] # Blank /\ Dec[3] # Blank
      /\ Dec[4] # Blank /\ Dec[5] # Blank /\ Dec[6] # Blank
      /\ Dec[7] # Blank /\ Dec[8] # Blank /\ Dec[9] # Blank
      /\ Dec[10] # Blank
  BY Zenon DEF Dec, Blank
<1>2. \A d \in 0 .. 9 : Dec[d + 1] # Blank  BY <1>1
<1>3. Blank \notin DecDigits  BY <1>2 DEF DecDigits
<1> QED  BY <1>3, DigitOf

(* buf begins with the first n characters of l.                            *)
Begins(buf, l, n) == \A i \in 1 .. n : buf[i] = l[i]

(* Their lengths, that of the line, and where the second begins.           *)
VersionSizes(d, e, p, q, n, i) ==
  p = Len(d) /\ q = Len(e) /\ n = 3 + p + q /\ i = 4 + p

(* Where the digits of the two numbers of a version line end.              *)
LEMMA VersionEnds ==
  ASSUME NEW d, NEW e, DecSeq(d), DecSeq(e), NEW l, VersionText(l, d, e),
         NEW buf, NEW p, NEW q, NEW n, NEW i,
         VersionSizes(d, e, p, q, n, i), Begins(buf, l, n)
  PROVE  /\ DigitsEnd(buf, n, 3) = 2 + p
         /\ DigitsEnd(buf, n, i) = n
<1> p = Len(d) /\ q = Len(e) /\ n = 3 + p + q /\ i = 4 + p
  BY DEF VersionSizes
<1>1. p \in 1 .. 5 /\ q \in 1 .. 5  BY DEF DecSeq
<1>2. n \in 5 .. 13 /\ n = 3 + p + q
  BY ONLY <1>1, n = 3 + p + q
<1>3. n \in Nat /\ 3 \in 1 .. n + 1 /\ 4 + p \in 1 .. n + 1
  BY ONLY <1>1, <1>2
<1>4. ASSUME NEW k \in 1 .. p  PROVE IsDec(buf[2 + k])
  <2>1. d[k] \in DecDigits
    <3>1. d \in Seq(DecDigits) /\ k \in 1 .. Len(d)  BY DEF DecSeq
    <3> QED  BY ONLY <3>1, LenProperties
  <2>2. l[2 + k] = d[k]  BY DEF VersionText
  <2>3. 2 + k \in 1 .. 3 + p + q  BY ONLY <1>1, k \in 1 .. p
  <2> QED  BY <2>1, <2>2, <2>3, DigitSigns DEF Begins
<1>5. ASSUME NEW k \in 1 .. q  PROVE IsDec(buf[3 + p + k])
  <2>1. e[k] \in DecDigits
    <3>1. e \in Seq(DecDigits) /\ k \in 1 .. Len(e)  BY DEF DecSeq
    <3> QED  BY ONLY <3>1, LenProperties
  <2>2. l[3 + p + k] = e[k]  BY DEF VersionText
  <2>3. 3 + p + k \in 1 .. 3 + p + q  BY ONLY <1>1, k \in 1 .. q
  <2> QED  BY <2>1, <2>2, <2>3, DigitSigns DEF Begins
<1>6. ~IsDec(buf[3 + p])
  <2>1. 3 + p \in 1 .. 3 + p + q  BY ONLY <1>1
  <2>2. l[3 + p] = Blank  BY DEF VersionText
  <2> QED  BY <2>1, <2>2, DigitSigns DEF Begins
<1>7. DigitsEnd(buf, n, 3) = 2 + p
  <2>1. PICK j : j = DigitsEnd(buf, n, 3)  OBVIOUS
  <2>2. /\ j \in 3 - 1 .. n /\ \A k \in 3 .. j : IsDec(buf[k])
        /\ j < n => ~IsDec(buf[j + 1])
    BY ONLY <1>3, <2>1, DigitsEndIs
  <2>3. ~(j < 2 + p)
    <3> SUFFICES ASSUME j < 2 + p  PROVE FALSE  OBVIOUS
    <3>1. j - 1 \in 1 .. p /\ 2 + (j - 1) = j + 1 /\ j < n
      BY ONLY <1>1, <1>2, <2>2, j < 2 + p
    <3> QED  BY <1>4, <2>2, <3>1
  <2>4. ~(j > 2 + p)
    <3> SUFFICES ASSUME j > 2 + p  PROVE FALSE  OBVIOUS
    <3>1. 3 + p \in 3 .. j  BY ONLY <1>1, <2>2, j > 2 + p
    <3> QED  BY <1>6, <2>2, <3>1
  <2>5. j = 2 + p  BY ONLY <1>1, <2>2, <2>3, <2>4
  <2> QED  BY <2>1, <2>5
<1>8. DigitsEnd(buf, n, i) = n
  <2>1. PICK j : i = 4 + p /\ j = DigitsEnd(buf, n, i)  OBVIOUS
  <2>2. i \in 1 .. n + 1  BY <1>3, <2>1
  <2>3. j \in i - 1 .. n /\ (j < n => ~IsDec(buf[j + 1]))
    BY ONLY <1>3, <2>1, <2>2, DigitsEndIs
  <2>4. ~(j < n)
    <3> SUFFICES ASSUME j < n  PROVE FALSE  OBVIOUS
    <3>1. PICK k : k = j - (2 + p)  OBVIOUS
    <3>2. k \in 1 .. q /\ 3 + p + k = j + 1
      BY ONLY <1>1, <1>2, <2>1, <2>3, <3>1, j < n
    <3> QED  BY <1>5, <2>3, <3>2
  <2>5. j = n  BY ONLY <1>1, <1>2, <2>1, <2>3, <2>4
  <2> QED  BY <2>1, <2>5
<1> QED  BY <1>2, <1>7, <1>8

(* What is read at a number of a line is what was printed there.           *)
LEMMA PrintedIsRead ==
  ASSUME NEW d, DecSeq(d), NEW buf \in Seq(Char),
         NEW i \in 1 .. Len(buf) + 1, NEW j \in 0 .. Len(buf),
         j = i - 1 + Len(d), \A k \in 1 .. Len(d) : buf[i + k - 1] = d[k]
  PROVE  /\ Read(d) \in Nat /\ Number(buf, i, j) \in Int
         /\ \/ Number(buf, i, j) = Read(d)
            \/ Number(buf, i, j) > 255 /\ Read(d) > 255
<1>1. PICK p \in 1 .. 5 : p = Len(d)  BY DEF DecSeq
<1>2. d \in [1 .. p -> DecDigits] /\ p \in Nat
  BY <1>1, LenProperties DEF DecSeq
<1>3. i <= j + 1 /\ j - i + 1 = p /\ i \in Nat /\ j \in Nat
  <2>1. i \in Nat  OBVIOUS
  <2>2. j = i - 1 + p  BY <1>1
  <2> QED  BY ONLY <1>2, <2>1, <2>2
<1>4. ASSUME NEW k \in i .. j  PROVE IsDec(buf[k])
  <2>1. PICK m : m = k - i + 1  OBVIOUS
  <2>2. m \in 1 .. p /\ i + m - 1 = k
    BY ONLY <1>2, <1>3, <2>1, k \in i .. j
  <2>3. buf[k] = d[m] /\ d[m] \in DecDigits  BY <1>1, <1>2, <2>2
  <2> QED  BY <2>3, DigitSigns
<1>5. ReadAt(Number(buf, i, j), buf, i, p)
  <2>1. p = j - i + 1  BY <1>3
  <2> QED  BY <1>3, <1>4, <2>1, NumberIs
<1>6. PICK s \in [1 .. p -> DecDigits] :
        /\ Number(buf, i, j) = Parsed(s)
        /\ \A k \in 1 .. p : s[k] = buf[i + k - 1]
  BY <1>5 DEF ReadAt
<1>7. s = d
  <2>1. \A k \in 1 .. p : s[k] = d[k]  BY <1>1, <1>6
  <2> QED  BY <1>2, <2>1
<1> QED  BY <1>2, <1>6, <1>7, ParsedIs

VersionOf(buf, len, major, minor) ==
  LET v == <<Number(buf, 3, major), Number(buf, major + 2, minor)>>
  IN  IF /\ major >= 3 /\ major < len /\ buf[major + 1] = Blank
         /\ minor >= major + 2
         /\ InByte(v[1]) /\ InByte(v[2])
      THEN {<<v[1] % 256, v[2] % 256>>} ELSE {}

(* VersionIn, given where its two numbers end.                             *)
LEMMA VersionSteps ==
  ASSUME NEW buf, NEW len
  PROVE  VersionIn(buf, len) =
           IF len < 5 \/ buf[1] # "V" \/ buf[2] # Blank THEN {}
           ELSE VersionOf(buf, len, DigitsEnd(buf, len, 3),
                          DigitsEnd(buf, len, DigitsEnd(buf, len, 3) + 2))
BY Zenon DEF VersionIn, VersionOf, Blank

(* A version line is read as the numbers it was written with, or not.      *)
LEMMA VersionRead ==
  ASSUME NEW d, NEW e, DecSeq(d), DecSeq(e), NEW l, VersionText(l, d, e),
         NEW buf \in Seq(Char), Len(l) <= Len(buf),
         \A i \in 1 .. Len(l) : buf[i] = l[i]
  PROVE  /\ Read(d) \in Nat /\ Read(e) \in Nat
         /\ VersionIn(buf, Len(l)) =
              IF Read(d) <= 255 /\ Read(e) <= 255
              THEN {<<Read(d), Read(e)>>} ELSE {}
<1>1. PICK p, q \in 1 .. 5 : p = Len(d) /\ q = Len(e)  BY DEF DecSeq
<1>2. PICK n \in 5 .. 13 : n = 3 + p + q  BY ONLY p \in 1 .. 5, q \in 1 .. 5
<1>3. Len(l) = n  BY <1>1, <1>2 DEF VersionText
<1>4. PICK N \in Nat : N = Len(buf)  BY LenProperties
<1>5. n <= N /\ \A i \in 1 .. n : buf[i] = l[i]  BY <1>3, <1>4
<1>6. /\ DigitsEnd(buf, n, 3) = 2 + p
      /\ DigitsEnd(buf, n, 4 + p) = n
  <2>1. PICK i : i = 4 + p  OBVIOUS
  <2>2. Begins(buf, l, n)  BY <1>5 DEF Begins
  <2>3. VersionSizes(d, e, p, q, n, i)
    BY <1>1, <1>2, <2>1 DEF VersionSizes
  <2>4. DigitsEnd(buf, n, 3) = 2 + p
    BY <2>2, <2>3, VersionEnds
  <2>5. DigitsEnd(buf, n, i) = n
    BY <2>2, <2>3, VersionEnds
  <2> QED  BY <2>1, <2>4, <2>5
<1>7. PICK major : major = 2 + p  OBVIOUS
<1>8. PICK i : i = major + 2  OBVIOUS
<1>9. major \in 3 .. 7 /\ i = 4 + p /\ i \in 5 .. 9 /\ major + 1 = 3 + p
  BY ONLY <1>7, <1>8, p \in 1 .. 5
<1>10. /\ buf[1] = "V" /\ buf[2] = Blank /\ buf[major + 1] = Blank
       /\ \A k \in 1 .. p : buf[3 + k - 1] = d[k]
       /\ \A k \in 1 .. q : buf[i + k - 1] = e[k]
  <2>1. /\ l[1] = "V" /\ l[2] = Blank /\ l[3 + p] = Blank
        /\ \A k \in 1 .. p : l[2 + k] = d[k]
        /\ \A k \in 1 .. q : l[3 + p + k] = e[k]
    BY <1>1 DEF VersionText
  <2>2. /\ 1 \in 1 .. n /\ 2 \in 1 .. n /\ 3 + p \in 1 .. n
        /\ \A k \in 1 .. p : 3 + k - 1 \in 1 .. n /\ 3 + k - 1 = 2 + k
        /\ \A k \in 1 .. q : i + k - 1 \in 1 .. n /\ i + k - 1 = 3 + p + k
    BY ONLY <1>2, <1>9, p \in 1 .. 5, q \in 1 .. 5
  <2>3. buf[1] = "V" /\ buf[2] = Blank /\ buf[major + 1] = Blank
    BY <1>5, <1>9, <2>1, <2>2
  <2>4. \A k \in 1 .. p : buf[3 + k - 1] = d[k]  BY <1>5, <2>1, <2>2
  <2>5. \A k \in 1 .. q : buf[i + k - 1] = e[k]  BY <1>5, <2>1, <2>2
  <2> QED  BY <2>3, <2>4, <2>5
<1>11. PICK x, y : x = Number(buf, 3, major) /\ y = Number(buf, i, n)
  OBVIOUS
<1>12. Read(d) \in Nat /\ x \in Int
       /\ (x = Read(d) \/ (x > 255 /\ Read(d) > 255))
  <2>1. 3 \in 1 .. N + 1 /\ major \in 0 .. N /\ major = 3 - 1 + p
    BY ONLY <1>2, <1>5, <1>7, N \in Nat, p \in 1 .. 5, q \in 1 .. 5
  <2> QED  BY <1>1, <1>4, <1>10, <1>11, <2>1, PrintedIsRead
<1>13. Read(e) \in Nat /\ y \in Int
       /\ (y = Read(e) \/ (y > 255 /\ Read(e) > 255))
  <2>1. i \in 1 .. N + 1 /\ n \in 0 .. N /\ n = i - 1 + q
    BY ONLY <1>2, <1>5, <1>9, N \in Nat, p \in 1 .. 5, q \in 1 .. 5
  <2>2. /\ DecSeq(e) /\ buf \in Seq(Char) /\ i \in 1 .. Len(buf) + 1
        /\ n \in 0 .. Len(buf) /\ n = i - 1 + Len(e)
        /\ \A k \in 1 .. Len(e) : buf[i + k - 1] = e[k]
    BY <1>1, <1>4, <1>10, <2>1
  <2>3. PICK w : w = Number(buf, i, n)  OBVIOUS
  <2>4. /\ Read(e) \in Nat /\ Number(buf, i, n) \in Int
        /\ \/ Number(buf, i, n) = Read(e)
           \/ Number(buf, i, n) > 255 /\ Read(e) > 255
    BY ONLY <2>2, PrintedIsRead
  <2> QED  BY <1>11, <2>4
<1>14. VersionIn(buf, n) = VersionOf(buf, n, major, n)
  <2>1. ~(n < 5)  BY ONLY n \in 5 .. 13
  <2>2. DigitsEnd(buf, n, 3) = major /\ DigitsEnd(buf, n, major + 2) = n
    BY <1>6, <1>7, <1>8, <1>9
  <2> QED  BY <1>10, <2>1, <2>2, VersionSteps
<1>15. VersionOf(buf, n, major, n) =
         IF InByte(x) /\ InByte(y) THEN {<<x % 256, y % 256>>} ELSE {}
  <2>1. major >= 3 /\ major < n /\ n >= major + 2
    BY ONLY <1>2, <1>7, p \in 1 .. 5, q \in 1 .. 5
  <2> QED  BY <1>8, <1>10, <1>11, <2>1 DEF VersionOf
<1>16. \A v \in Nat : v <= 255 => v % 256 = v  OBVIOUS
<1>17. /\ InByte(x) <=> Read(d) <= 255
       /\ InByte(x) => x % 256 = Read(d)
       /\ InByte(y) <=> Read(e) <= 255
       /\ InByte(y) => y % 256 = Read(e)
  <2>1. \A v \in Int : \A r \in Nat :
          v = r \/ (v > 255 /\ r > 255) =>
            /\ InByte(v) <=> r <= 255
            /\ InByte(v) => v % 256 = r
    <3> TAKE v \in Int
    <3> TAKE r \in Nat
    <3>1. CASE v = r  BY <1>16, <3>1 DEF InByte
    <3>2. CASE v > 255 /\ r > 255
      <4>1. ~(r <= 255)  BY <3>2
      <4>2. ~(v <= 255)  BY <3>2
      <4> QED  BY <4>1, <4>2 DEF InByte
    <3> QED  BY <3>1, <3>2
  <2>2. (InByte(x) <=> Read(d) <= 255) /\ (InByte(x) => x % 256 = Read(d))
    BY ONLY <1>12, <2>1
  <2>3. (InByte(y) <=> Read(e) <= 255) /\ (InByte(y) => y % 256 = Read(e))
    BY ONLY <1>13, <2>1
  <2> QED  BY ONLY <2>2, <2>3
<1>18. VersionIn(buf, n) = IF Read(d) <= 255 /\ Read(e) <= 255
                           THEN {<<Read(d), Read(e)>>} ELSE {}
  BY <1>14, <1>15, <1>17
<1> QED  BY <1>3, <1>12, <1>13, <1>18

(* The line that is in rx_buf.                                             *)
ArrivedInv ==
  pc = "ready" =>
    /\ sent.msg \in Messages
    /\ rx_len = Len(sent.line) /\ Len(sent.line) \in 1 .. LINE_MAX
    /\ sent.line \in Seq(Char)
    /\ \A i \in 1 .. rx_len : rx_buf[i] = sent.line[i]
    /\ sent.line = Encode(sent.msg) \/ sent.line \in OneError(Encode(sent.msg))
    /\ sent.flash = flash

(* The line stays in rx_buf until it is parsed.                            *)
LEMMA ArrivedInvHolds ==
  ASSUME CodeWidth
  PROVE  /\ WireInit => ArrivedInv
         /\ ArrivedInv /\ [WireNext]_wireVars => ArrivedInv'
<1>1. WireInit => ArrivedInv  BY DEF WireInit, ArrivedInv
<1>2. ASSUME ArrivedInv, [WireNext]_wireVars  PROVE ArrivedInv'
  <2>1. CASE AskVersion \/ AskLine
    BY <2>1 DEF AskVersion, AskLine, ArrivedInv
  <2>2. CASE Receive \/ ReceiveDamaged
    <3>1. PICK m \in Messages, l \in Seq(Char) :
            /\ Store(m, l)
            /\ \/ l = Encode(m) /\ noise_left' = noise_left
               \/ /\ l \in OneError(Encode(m))
                  /\ noise_left > 0 /\ noise_left' = noise_left - 1
      BY <2>2, StoredTyped
    <3>2. /\ sent' = [msg |-> m, line |-> l, flash |-> flash]
          /\ rx_len' = Len(l) /\ Len(l) \in 1 .. LINE_MAX
          /\ rx_buf' = [i \in 1 .. LINE_MAX |->
                          IF i <= Len(l) THEN l[i] ELSE rx_buf[i]]
          /\ flash' = flash
      BY <3>1 DEF Store, StoredLen
    <3>3. \A i \in 1 .. Len(l) : rx_buf'[i] = l[i]
      <4>1. \A i \in 1 .. Len(l) : i \in 1 .. LINE_MAX /\ i <= Len(l)
        BY <3>2, Sizes
      <4> QED  BY <3>2, <4>1
    <3>4. sent'.msg = m /\ sent'.line = l /\ sent'.flash = flash'  BY <3>2
    <3>5. \A i \in 1 .. rx_len' : rx_buf'[i] = sent'.line[i]
      BY <3>2, <3>3, <3>4
    <3>6. sent'.line = Encode(sent'.msg)
            \/ sent'.line \in OneError(Encode(sent'.msg))
      BY <3>1, <3>4
    <3> QED  BY <3>1, <3>2, <3>4, <3>5, <3>6 DEF ArrivedInv
  <2>3. CASE \/ ParseVersion \/ ParseTerminator \/ ParseRefuses
             \/ ProgramFails \/ Programmed
    BY <2>3
    DEF ParseVersion, ParseTerminator, ParseRefuses, ProgramFails,
        Programmed, Consume, ArrivedInv
  <2>4. CASE ParseAccepts \/ ProgramWord
    BY <2>4 DEF ParseAccepts, ProgramWord, ArrivedInv
  <2>5. CASE UNCHANGED wireVars
    BY <1>2, <2>5 DEF wireVars, ArrivedInv
  <2> QED  BY <1>2, <2>1, <2>2, <2>3, <2>4, <2>5 DEF WireNext
<1> QED  BY <1>1, <1>2

(* The outcomes of the checks of parse_s3.                                 *)
LEMMA RefusalIs ==
  ASSUME NEW buf, NEW len
  PROVE  Refusal(buf, len) \in {"len", "addr", "hex", "csum", "none"}
BY DEF Refusal

(* What parse_version_line makes of a version line that arrived as sent.   *)
LEMMA VersionParsed ==
  ASSUME WireTypeOK, ArrivedInv, pc = "ready", sent.msg.kind = "ver",
         sent.line = Encode(sent.msg)
  PROVE  VersionIn(rx_buf, rx_len) =
           IF sent.msg.arg[1] <= 255 /\ sent.msg.arg[2] <= 255
           THEN {sent.msg.arg} ELSE {}
<1>1. PICK d, e : /\ DecSeq(d) /\ DecSeq(e)
                  /\ Read(d) = sent.msg.arg[1] /\ Read(e) = sent.msg.arg[2]
                  /\ sent.msg.arg = <<sent.msg.arg[1], sent.msg.arg[2]>>
                  /\ VersionText(sent.line, d, e)
  <2>1. sent.msg \in Messages  BY DEF ArrivedInv
  <2> QED  BY <2>1, EncodedVersion
<1>2. /\ rx_len = Len(sent.line) /\ rx_len \in 1 .. LINE_MAX
      /\ \A i \in 1 .. rx_len : rx_buf[i] = sent.line[i]
  BY DEF ArrivedInv
<1>3. rx_buf \in Seq(Char) /\ Len(rx_buf) = LINE_MAX
  BY Sizes DEF WireTypeOK
<1>4. Len(sent.line) <= Len(rx_buf)
      /\ \A i \in 1 .. Len(sent.line) : rx_buf[i] = sent.line[i]
  BY <1>2, <1>3, Sizes
<1>5. VersionIn(rx_buf, Len(sent.line)) =
        IF Read(d) <= 255 /\ Read(e) <= 255
        THEN {<<Read(d), Read(e)>>} ELSE {}
  BY <1>1, <1>3, <1>4, VersionRead
<1> QED  BY <1>1, <1>2, <1>5

(* A version line that was not damaged reports the numbers it was written  *)
(* with, of up to five digits each, and is ignored when one of them does   *)
(* not fit a byte: parse_version_line's sums do not wrap around.           *)
THEOREM VersionsReadBack ==
  ASSUME CodeWidth
  PROVE  WireSpec => []VersionReadsBack
<1>1. WireInit => VersionReadsBack
  BY DEF WireInit, Nothing, VersionReadsBack
<1>2. ASSUME WireTypeOK, ArrivedInv, VersionReadsBack, [WireNext]_wireVars
      PROVE  VersionReadsBack'
  <2>1. CASE \/ AskVersion \/ AskLine \/ Receive \/ ReceiveDamaged
             \/ ParseAccepts \/ ProgramWord
    <3>1. pc' # "idle"
      BY <2>1 DEF AskVersion, AskLine, Receive, ReceiveDamaged, Store,
                  ParseAccepts, ProgramWord
    <3> QED  BY <3>1 DEF VersionReadsBack
  <2>2. CASE ParseTerminator \/ ParseRefuses \/ ProgramFails \/ Programmed
    <3>1. result' \in {"term", "flash", "ok", "len", "addr", "hex", "csum",
                       "none"}
      BY <2>2, RefusalIs
      DEF ParseTerminator, ParseRefuses, ProgramFails, Programmed, Consume
    <3>2. result' # "version" /\ result' # "ignored"  BY <3>1
    <3> QED  BY <3>2 DEF VersionReadsBack
  <2>3. CASE ParseVersion
    <3> SUFFICES ASSUME sent'.msg.kind = "ver",
                        sent'.line = Encode(sent'.msg)
                 PROVE  /\ result' = "version" => app_version' = sent'.msg.arg
                        /\ result' = "ignored" =>
                             \E i \in 1 .. 2 : sent'.msg.arg[i] > 255
      BY DEF VersionReadsBack
    <3>1. /\ sent' = sent /\ pc = "ready"
          /\ \/ app_version' \in VersionIn(rx_buf, rx_len)
                /\ result' = "version"
             \/ VersionIn(rx_buf, rx_len) = {} /\ result' = "ignored"
      BY <2>3 DEF ParseVersion, Consume
    <3>2. VersionIn(rx_buf, rx_len) =
            IF sent.msg.arg[1] <= 255 /\ sent.msg.arg[2] <= 255
            THEN {sent.msg.arg} ELSE {}
      BY <1>2, <3>1, VersionParsed
    <3>3. sent.msg.arg[1] \in Nat /\ sent.msg.arg[2] \in Nat
      <4>1. sent.msg \in Messages /\ sent.msg.kind = "ver"
        BY <1>2, <3>1 DEF ArrivedInv
      <4>2. PICK d, e : Short(sent.msg.arg[1]) /\ Short(sent.msg.arg[2])
        BY <4>1, EncodedVersion
      <4> QED  BY <4>2, SMT DEF Short
    <3>4. CASE sent.msg.arg[1] <= 255 /\ sent.msg.arg[2] <= 255
      BY <3>1, <3>2, <3>4
    <3>5. CASE ~(sent.msg.arg[1] <= 255 /\ sent.msg.arg[2] <= 255)
      <4>1. \E i \in 1 .. 2 : sent.msg.arg[i] > 255  BY <3>3, <3>5
      <4>2. result' = "ignored"  BY <3>1, <3>2, <3>5
      <4> QED  BY <3>1, <4>1, <4>2
    <3> QED  BY <3>4, <3>5
  <2>4. CASE UNCHANGED wireVars
    BY <1>2, <2>4 DEF wireVars, VersionReadsBack
  <2> QED  BY <1>2, <2>1, <2>2, <2>3, <2>4 DEF WireNext
<1>3. /\ WireInit => WireTypeOK /\ ArrivedInv
      /\ WireTypeOK /\ ArrivedInv /\ [WireNext]_wireVars
           => WireTypeOK' /\ ArrivedInv'
  BY WireTypeOKHolds, ArrivedInvHolds
<1> QED  BY <1>1, <1>2, <1>3, PTL DEF WireSpec

-----------------------------------------------------------------------------
(* One damaged character.                                                  *)

(* What every line has in common that is accepted as a record or as a      *)
(* terminator.                                                             *)
WellFormed(buf, len) ==
  /\ Count(buf) \in 1 .. 255 /\ len = 4 + 2 * Count(buf)
  /\ buf[1] = "S" /\ buf[2] \in {"3", "7", "8", "9"}
  /\ IsByte(buf, 3) /\ \A k \in 1 .. Count(buf) : IsPayload(buf, k)
  /\ SumHolds(buf, Count(buf) - 1)

(* A terminator is well formed, for its count is not zero.                 *)
LEMMA TerminatorFormed ==
  ASSUME ShortLines, NEW buf, NEW len, check_terminator(buf, len)
  PROVE  WellFormed(buf, len)
<1>1. Count(buf) # 0  BY CountsBytes DEF ShortLines
<1>2. /\ IsByte(buf, 3) /\ LengthFits(buf, len)
      /\ buf[1] = "S" /\ buf[2] \in {"7", "8", "9"}
  BY DEF check_terminator
<1>3. Count(buf) \in 0 .. 255  BY <1>2, ByteTyped DEF Count
<1>4. PICK c \in 1 .. 255 : c = Count(buf)  BY <1>1, <1>3
<1>5. (c - 1) % 256 = c - 1  OBVIOUS
<1>6. /\ \A k \in 1 .. c - 1 : IsPayload(buf, k)
      /\ IsPayload(buf, c) /\ SumHolds(buf, c - 1)
  BY <1>4, <1>5 DEF check_terminator
<1>7. \A k \in 1 .. c : IsPayload(buf, k)
  <2>1. \A k \in 1 .. c : k \in 1 .. c - 1 \/ k = c  OBVIOUS
  <2> QED  BY <1>6, <2>1
<1> QED  BY <1>2, <1>4, <1>6, <1>7 DEF WellFormed, LengthFits

(* A record that passes the checks of parse_s3 is well formed.             *)
LEMMA RecordFormed ==
  ASSUME NEW buf, NEW len, Refusal(buf, len) = "none"
  PROVE  WellFormed(buf, len) /\ buf[2] = "3"
<1>1. /\ buf[1] = "S" /\ buf[2] = "3" /\ IsByte(buf, 3)
      /\ LengthFits(buf, len) /\ ~(Count(buf) < AddrBytes + 1)
      /\ \A k \in 1 .. Count(buf) : IsPayload(buf, k)
      /\ SumHolds(buf, Count(buf) - 1)
  BY DEF Refusal
<1>2. Count(buf) \in 0 .. 255  BY <1>1, ByteTyped DEF Count
<1>3. Count(buf) \in 1 .. 255
  <2>1. PICK c \in 0 .. 255 : c = Count(buf)  BY <1>2
  <2>2. c >= AddrBytes + 1 /\ AddrBytes \in Nat  BY <1>1, <2>1, Sizes
  <2>3. c \in 1 .. 255  BY ONLY <2>2, c \in 0 .. 255
  <2> QED  BY <2>1, <2>3
<1> QED  BY <1>1, <1>3 DEF WellFormed, LengthFits

(* Sums of sequences that differ at one place at most differ by what the   *)
(* sequences differ by there.                                              *)
LEMMA SumsDiffer ==
  ASSUME NEW n \in Nat, NEW a \in [1 .. n + 1 -> Int],
         NEW p \in [1 .. n -> Int], NEW i \in Int,
         \A k \in 1 .. n : k # i => p[k] = a[k + 1]
  PROVE  /\ Sum(a) \in Int /\ Sum(p) \in Int
         /\ a[1] + Sum(p) =
              Sum(a) + (IF i \in 1 .. n THEN p[i] - a[i + 1] ELSE 0)
<1>1. PICK r \in [0 .. n + 1 -> Int] :
        /\ r[0] = 0 /\ r[n + 1] = Sum(a)
        /\ \A k \in 1 .. n + 1 : r[k] = r[k - 1] + a[k]
  <2>1. PICK m \in Nat : m = n + 1  OBVIOUS
  <2>2. a \in [1 .. m -> Int]  BY <2>1
  <2>3. \E r \in [0 .. m -> Int] :
          /\ r[0] = 0 /\ r[m] = Sum(a)
          /\ \A k \in 1 .. m : r[k] = r[k - 1] + a[k]
    BY ONLY <2>2, m \in Nat, SumRuns
  <2> QED  BY <2>1, <2>3
<1>2. PICK q \in [0 .. n -> Int] :
        /\ q[0] = 0 /\ q[n] = Sum(p)
        /\ \A k \in 1 .. n : q[k] = q[k - 1] + p[k]
  BY SumRuns
<1> DEFINE d == IF i \in 1 .. n THEN p[i] - a[i + 1] ELSE 0
           T == {k \in 0 .. n :
                  a[1] + q[k] = r[k + 1] + (IF i <= k THEN d ELSE 0)}
<1>3. d \in Int
  <2>1. \A k \in 1 .. n : k + 1 \in 1 .. n + 1  OBVIOUS
  <2> QED  BY <2>1
<1>4. i \notin 1 .. n => d = 0  OBVIOUS
<1>5. i \in 1 .. n => p[i] = a[i + 1] + d
  <2> SUFFICES ASSUME i \in 1 .. n  PROVE p[i] = a[i + 1] + d  OBVIOUS
  <2>1. i + 1 \in 1 .. n + 1  OBVIOUS
  <2>2. PICK x, y : x = p[i] /\ y = a[i + 1]  OBVIOUS
  <2>3. x \in Int /\ y \in Int /\ d = x - y  BY <2>1, <2>2
  <2>4. x = y + d  BY ONLY <2>3
  <2> QED  BY <2>2, <2>4
<1> HIDE DEF d
<1>6. 0 \in T
  <2>1. r[1] = r[0] + a[1]
    <3>1. 1 \in 1 .. n + 1 /\ 1 - 1 = 0  OBVIOUS
    <3> QED  BY <1>1, <3>1
  <2>2. r[0 + 1] = a[1] /\ a[1] \in Int  BY <1>1, <2>1
  <2>3. i <= 0 => d = 0  BY <1>4
  <2>4. a[1] + q[0] = r[0 + 1] + (IF i <= 0 THEN d ELSE 0)
    BY <1>2, <2>2, <2>3
  <2> QED  BY <2>4
<1>7. ASSUME NEW k \in 0 .. n, k \in T, k < n  PROVE k + 1 \in T
  <2>1. k + 1 \in 1 .. n /\ (k + 1) - 1 = k /\ k + 2 \in 1 .. n + 1
        /\ (k + 2) - 1 = k + 1 /\ (k + 1) + 1 = k + 2
    BY <1>7
  <2>2. q[k + 1] = q[k] + p[k + 1] /\ r[k + 2] = r[k + 1] + a[k + 2]
    BY <1>1, <1>2, <2>1
  <2>3. a[1] + q[k] = r[k + 1] + (IF i <= k THEN d ELSE 0)  BY <1>7
  <2>4. p[k + 1] = a[k + 2] + (IF i = k + 1 THEN d ELSE 0)
    <3>1. CASE i = k + 1
      <4>1. i \in 1 .. n /\ i + 1 = k + 2  BY <2>1, <3>1
      <4> QED  BY <1>5, <3>1, <4>1
    <3>2. CASE i # k + 1
      <4>1. p[k + 1] = a[k + 2]  BY <2>1, <3>2
      <4>2. a[k + 2] \in Int  BY <2>1
      <4> QED  BY <3>2, <4>1, <4>2
    <3> QED  BY <3>1, <3>2
  <2>5. /\ a[1] \in Int /\ q[k] \in Int /\ q[k + 1] \in Int
        /\ r[k + 1] \in Int /\ r[k + 2] \in Int
        /\ p[k + 1] \in Int /\ a[k + 2] \in Int
    BY <2>1
  <2>6. PICK x, y, u, v, w : /\ x = a[1] /\ y = q[k] /\ u = r[k + 1]
                             /\ v = p[k + 1] /\ w = a[k + 2]
    OBVIOUS
  <2>7. /\ x \in Int /\ y \in Int /\ u \in Int /\ v \in Int /\ w \in Int
        /\ x + y = u + (IF i <= k THEN d ELSE 0)
        /\ v = w + (IF i = k + 1 THEN d ELSE 0)
    BY ONLY <2>3, <2>4, <2>5, <2>6
  <2>8. x + (y + v) = (u + w) + (IF i <= k + 1 THEN d ELSE 0)
    BY ONLY <1>3, <2>7, i \in Int, k \in 0 .. n, n \in Nat
  <2>9. a[1] + q[k + 1] = r[k + 2] + (IF i <= k + 1 THEN d ELSE 0)
    BY ONLY <2>2, <2>6, <2>8
  <2> QED  BY <2>1, <2>9
<1>8. n \in T
  <2>1. \A k \in 0 .. n : k \in T /\ k < n => k + 1 \in T  BY <1>7
  <2> HIDE DEF T
  <2>2. \A k \in 0 .. n : k \in T  BY <1>6, <2>1, UpTo
  <2> QED  BY <2>2
<1>9. a[1] + q[n] = r[n + 1] + d
  <2>1. a[1] + q[n] = r[n + 1] + (IF i <= n THEN d ELSE 0)  BY <1>8
  <2>2. i > n => d = 0  BY <1>4
  <2>3. (IF i <= n THEN d ELSE 0) = d  BY <2>2
  <2> QED  BY <2>1, <2>3
<1> QED  BY <1>1, <1>2, <1>9 DEF d

(* A checksum tells any two bytes apart.                                   *)
LEMMA ChecksumTells ==
  ASSUME NEW x \in Int, NEW y \in Int, NEW u \in Bytes, NEW v \in Bytes,
         x = y + (u - v), Complement(x) = Complement(y)
  PROVE  u = v
<1>1. x % 256 = y % 256
  <2>1. x % 256 \in 0 .. 255 /\ y % 256 \in 0 .. 255  OBVIOUS
  <2> QED  BY <2>1 DEF Complement
<1>2. u \in 0 .. 255 /\ v \in 0 .. 255  BY DEF Bytes
<1> QED  BY ONLY <1>1, <1>2, x = y + (u - v), x \in Int, y \in Int, SMT

(* Line e writes the n bytes rb behind an S and its type.                  *)
RecordLine(e, rb, n, type) ==
  /\ n \in 3 .. 256 /\ rb \in [1 .. n -> Bytes] /\ rb[1] = n - 1
  /\ \E body \in [1 .. n - 1 -> Bytes] :
       /\ \A i \in 1 .. n - 1 : rb[i] = body[i]
       /\ rb[n] = Complement(Sum(body))
  /\ RecordText(e, rb, n, type)

(* SRecord writes such a line.                                             *)
LEMMA RecordLines ==
  ASSUME CodeWidth, NEW addr \in Nat, NEW data \in Seq(Bytes),
         NEW type \in Char, NEW n \in 2 .. 256, n = AddrBytes + Len(data) + 2
  PROVE  RecordLine(SRecord(type, addr, data), RecordBytes(addr, data), n,
                    type)
<1>1. n \in Nat /\ n <= 256  BY ONLY n \in 2 .. 256
<1>2. n \in 3 .. 256
  <2>1. PICK k \in Nat : k = Len(data)  BY LenProperties
  <2>2. AddrBytes \in 1 .. 4  BY DEF CodeWidth
  <2>3. n = AddrBytes + k + 2  BY <2>1
  <2> QED  BY ONLY <1>1, <2>2, <2>3, k \in Nat
<1>3. /\ RecordBytes(addr, data) \in [1 .. n -> Bytes]
      /\ RecordBytes(addr, data)[1] = n - 1
      /\ \E body \in [1 .. n - 1 -> Bytes] :
           /\ \A i \in 1 .. n - 1 : RecordBytes(addr, data)[i] = body[i]
           /\ RecordBytes(addr, data)[n] = Complement(Sum(body))
  BY <1>1, RecordBytesAre
<1>4. RecordText(SRecord(type, addr, data), RecordBytes(addr, data), n, type)
  BY <1>1, SRecordIs
<1> QED  BY <1>2, <1>3, <1>4 DEF RecordLine

(* The bytes that are read from buf behind the type of its record.         *)
Reads(buf, rb, n) ==
  \A k \in 1 .. n : IsByte(buf, 1 + 2 * k) /\ hex_byte(buf, 1 + 2 * k) = rb[k]

(* A byte whose two characters arrive is the one that was written.         *)
LEMMA ByteArrives ==
  ASSUME NEW e, NEW rb, NEW n, NEW type, RecordLine(e, rb, n, type),
         NEW buf, NEW k \in 1 .. n, 2 + 2 * k <= LINE_MAX,
         buf[1 + 2 * k] = e[1 + 2 * k], buf[2 + 2 * k] = e[2 + 2 * k]
  PROVE  hex_byte(buf, 1 + 2 * k) = rb[k]
<1>1. n \in 3 .. 256 /\ n \in Nat /\ rb \in [1 .. n -> Bytes]
      /\ \A j \in 1 .. 2 * n : e[2 + j] = HexAt(rb, j)
  <2>1. n \in 3 .. 256  BY DEF RecordLine
  <2> QED  BY <2>1 DEF RecordLine, RecordText
<1>2. /\ 2 * k - 1 \in 1 .. 2 * n /\ 2 * k \in 1 .. 2 * n
      /\ 2 + (2 * k - 1) = 1 + 2 * k /\ (1 + 2 * k) + 1 = 2 + 2 * k
      /\ 1 + 2 * k <= 2 * n + 2 /\ 2 + 2 * k <= 2 * n + 2
  BY ONLY <1>1, k \in 1 .. n
<1>3. /\ rb[k] \div 16 \in 0 .. 15 /\ rb[k] % 16 \in 0 .. 15
      /\ rb[k] = 16 * (rb[k] \div 16) + (rb[k] % 16)
      /\ HexAt(rb, 2 * k - 1) = Hex[(rb[k] \div 16) + 1]
      /\ HexAt(rb, 2 * k) = Hex[(rb[k] % 16) + 1]
  BY <1>1, HexAtIs
<1>4. e[1 + 2 * k] = Hex[(rb[k] \div 16) + 1]
      /\ e[2 + 2 * k] = Hex[(rb[k] % 16) + 1]
  BY <1>1, <1>2, <1>3
<1>5. At(buf, 1 + 2 * k) = buf[1 + 2 * k]
      /\ At(buf, (1 + 2 * k) + 1) = buf[2 + 2 * k]
  <2>1. 1 + 2 * k <= LINE_MAX /\ (1 + 2 * k) + 1 <= LINE_MAX
    BY ONLY <1>1, <1>2, 2 + 2 * k <= LINE_MAX, k \in 1 .. n, Sizes
  <2> QED  BY <1>2, <2>1 DEF At
<1>6. PICK x, y : x = rb[k] \div 16 /\ y = rb[k] % 16  OBVIOUS
<1>7. x \in 0 .. 15 /\ y \in 0 .. 15 /\ rb[k] = 16 * x + y
      /\ At(buf, 1 + 2 * k) = Hex[x + 1]
      /\ At(buf, (1 + 2 * k) + 1) = Hex[y + 1]
  BY <1>3, <1>4, <1>5, <1>6
<1>8. hex_nibble(Hex[x + 1]) = x /\ hex_nibble(Hex[y + 1]) = y
  BY <1>7, HexDigits
<1> QED  BY <1>7, <1>8 DEF hex_byte

(* A character is changed, and the line is well formed: no byte is.        *)
LEMMA BytesArrive ==
  ASSUME NEW e, NEW rb, NEW n, NEW type, RecordLine(e, rb, n, type),
         NEW l, Changed(e, l), Len(l) <= LINE_MAX,
         NEW buf, Begins(buf, l, Len(l)), WellFormed(buf, Len(l))
  PROVE  Reads(buf, rb, n) /\ Count(buf) = n - 1
<1>1. /\ n \in 3 .. 256 /\ n \in Nat /\ rb \in [1 .. n -> Bytes]
      /\ rb[1] = n - 1 /\ Len(e) = 2 * n + 2
  <2>1. n \in 3 .. 256  BY DEF RecordLine
  <2> QED  BY <2>1 DEF RecordLine, RecordText
<1>2. Len(l) = 2 * n + 2  BY <1>1 DEF Changed
<1>3. Count(buf) = n - 1
  <2>1. PICK c \in 1 .. 255 : c = Count(buf)  BY DEF WellFormed
  <2>2. 2 * n + 2 = 4 + 2 * c  BY <1>2, <2>1 DEF WellFormed
  <2>3. c = n - 1  BY ONLY <1>1, <2>2, c \in 1 .. 255
  <2> QED  BY <2>1, <2>3
<1>4. PICK i \in 1 .. 2 * n + 2 :
        \A j \in 1 .. 2 * n + 2 : j # i => buf[j] = e[j]
  <2>1. PICK i \in 1 .. Len(e) : \A j \in 1 .. Len(e) : j # i => l[j] = e[j]
    BY DEF Changed
  <2>2. \A j \in 1 .. 2 * n + 2 : buf[j] = l[j]  BY <1>2 DEF Begins
  <2> QED  BY <1>1, <2>1, <2>2
<1>5. PICK K : K = (i - 1) \div 2  OBVIOUS
<1>6. K \in Int /\ K <= n /\ (i = 1 + 2 * K \/ i = 2 + 2 * K)
  BY ONLY <1>1, <1>5, i \in 1 .. 2 * n + 2, SMT
<1>7. ASSUME NEW k \in 1 .. n, k # K
      PROVE  hex_byte(buf, 1 + 2 * k) = rb[k]
  <2>1. /\ 1 + 2 * k \in 1 .. 2 * n + 2 /\ 1 + 2 * k # i
        /\ 2 + 2 * k \in 1 .. 2 * n + 2 /\ 2 + 2 * k # i
    BY ONLY <1>1, <1>6, k \in 1 .. n, k # K, i \in 1 .. 2 * n + 2
  <2>2. buf[1 + 2 * k] = e[1 + 2 * k] /\ buf[2 + 2 * k] = e[2 + 2 * k]
    BY <1>4, <2>1
  <2>3. 2 + 2 * k <= LINE_MAX
    <3>1. 2 * n + 2 <= LINE_MAX  BY <1>2
    <3> QED  BY ONLY <1>1, <3>1, k \in 1 .. n, Sizes
  <2> QED  BY <2>2, <2>3, ByteArrives
<1>8. /\ IsByte(buf, 3) /\ SumHolds(buf, n - 2)
      /\ \A k \in 1 .. n - 1 : IsPayload(buf, k)
  <2>1. (n - 1) - 1 = n - 2  BY ONLY <1>1
  <2> QED  BY <1>3, <2>1 DEF WellFormed
<1>9. ASSUME NEW k \in 1 .. n - 1
      PROVE  /\ Payload(buf, k) = hex_byte(buf, 1 + 2 * (k + 1))
             /\ IsByte(buf, 1 + 2 * (k + 1))
             /\ Payload(buf, k) \in Bytes
  <2>1. 3 + 2 * k = 1 + 2 * (k + 1)  BY ONLY <1>1, k \in 1 .. n - 1
  <2>2. IsByte(buf, 3 + 2 * k)  BY <1>8 DEF IsPayload
  <2>3. hex_byte(buf, 3 + 2 * k) \in 0 .. 255  BY <2>2, ByteTyped
  <2> QED  BY <2>1, <2>2, <2>3 DEF Payload, Bytes
<1>10. ASSUME NEW k \in 1 .. n - 1, k + 1 # K
       PROVE  Payload(buf, k) = rb[k + 1]
  <2>1. k + 1 \in 1 .. n  BY ONLY <1>1, k \in 1 .. n - 1
  <2> QED  BY <1>7, <1>9, <1>10, <2>1
<1>11. PICK body \in [1 .. n - 1 -> Bytes] :
         /\ \A j \in 1 .. n - 1 : rb[j] = body[j]
         /\ rb[n] = Complement(Sum(body))
  BY DEF RecordLine
<1>12. PICK p : p = Payloads(buf, n - 2)  OBVIOUS
<1>13. PICK m \in Nat : m = n - 2  BY ONLY <1>1
<1>14. /\ p \in [1 .. m -> Int] /\ \A k \in 1 .. m : p[k] = Payload(buf, k)
       /\ \A k \in 1 .. m : k \in 1 .. n - 1 /\ k + 1 \in 1 .. n - 1
       /\ n - 1 = m + 1 /\ n - 1 \in 1 .. n - 1 /\ (n - 1) + 1 = n
       /\ 1 \in 1 .. n - 1
  <2>1. /\ \A k \in 1 .. m : k \in 1 .. n - 1 /\ k + 1 \in 1 .. n - 1
        /\ n - 1 = m + 1 /\ n - 1 \in 1 .. n - 1 /\ (n - 1) + 1 = n
        /\ 1 \in 1 .. n - 1
    BY ONLY <1>1, <1>13, m \in Nat
  <2>2. \A k \in 1 .. m : Payload(buf, k) \in Int
    <3>1. Bytes \subseteq Int  BY DEF Bytes
    <3> QED  BY <1>9, <2>1, <3>1
  <2>3. p = [k \in 1 .. m |-> Payload(buf, k)]
    BY <1>12, <1>13 DEF Payloads
  <2> QED  BY <2>1, <2>2, <2>3
<1>15. PICK I : I = K - 1  OBVIOUS
<1>16. I \in Int /\ I + 1 = K  BY ONLY <1>6, <1>15
<1>17. \A k \in 1 .. m : k # I => p[k] = body[k + 1]
  <2> SUFFICES ASSUME NEW k \in 1 .. m, k # I  PROVE p[k] = body[k + 1]
    OBVIOUS
  <2>1. k + 1 # K  BY ONLY <1>16, k \in 1 .. m, k # I
  <2>2. Payload(buf, k) = rb[k + 1]  BY <1>10, <1>14, <2>1
  <2> QED  BY <1>11, <1>14, <2>2
<1>18. /\ Sum(body) \in Int /\ Sum(p) \in Int
       /\ body[1] + Sum(p) =
            Sum(body) + (IF I \in 1 .. m THEN p[I] - body[I + 1] ELSE 0)
  <2>1. body \in [1 .. m + 1 -> Int]
    <3>1. Bytes \subseteq Int  BY DEF Bytes
    <3> QED  BY <1>14, <3>1
  <2>2. p \in [1 .. m -> Int]  BY <1>14
  <2> QED  BY ONLY <1>16, <1>17, <2>1, <2>2, m \in Nat, SumsDiffer
<1>19. Complement(body[1] + Sum(p)) = Payload(buf, n - 1)
  <2>1. Count(buf) = body[1]  BY <1>1, <1>3, <1>11, <1>14
  <2>2. Complement(Count(buf) + Sum(Payloads(buf, n - 2)))
          = Payload(buf, Count(buf))
    BY <1>8 DEF SumHolds
  <2> QED  BY <1>3, <1>12, <2>1, <2>2
<1>20. \A k \in 1 .. n - 1 : Payload(buf, k) = rb[k + 1]
  <2>1. CASE I \in 1 .. m
    <3>1. n # K  BY ONLY <1>1, <1>13, <1>16, <2>1
    <3>2. Payload(buf, n - 1) = rb[n]  BY <1>10, <1>14, <3>1
    <3>3. p[I] \in Bytes /\ body[I + 1] \in Bytes  BY <1>9, <1>14, <2>1
    <3>4. body[1] + Sum(p) = Sum(body) + (p[I] - body[I + 1])
      BY <1>18, <2>1
    <3>5. Complement(body[1] + Sum(p)) = Complement(Sum(body))
      BY <1>11, <1>19, <3>2
    <3>6. PICK x : x = body[1] + Sum(p)  OBVIOUS
    <3>7. x \in Int
      <4>1. body[1] \in Bytes /\ Bytes \subseteq Int
        <5>1. Bytes \subseteq Int  BY DEF Bytes
        <5> QED  BY <1>11, <1>14, <5>1
      <4> QED  BY <1>18, <3>6, <4>1
    <3>8. p[I] = body[I + 1]
      BY ONLY <1>18, <3>3, <3>4, <3>5, <3>6, <3>7, ChecksumTells
    <3>9. Payload(buf, I) = rb[I + 1]  BY <1>11, <1>14, <2>1, <3>8
    <3>10. \A k \in 1 .. n - 1 : k = I \/ k + 1 # K
      BY ONLY <1>1, <1>16
    <3> QED  BY <1>10, <3>9, <3>10
  <2>2. CASE I \notin 1 .. m
    <3>1. body[1] + Sum(p) = Sum(body)  BY <1>18, <2>2
    <3>2. Payload(buf, n - 1) = rb[n]  BY <1>11, <1>19, <3>1
    <3>3. \A k \in 1 .. n - 1 : k = n - 1 \/ k + 1 # K
      BY ONLY <1>1, <1>13, <1>16, <2>2, m \in Nat
    <3> QED  BY <1>10, <1>14, <3>2, <3>3
  <2> QED  BY <2>1, <2>2
<1>21. ASSUME NEW k \in 1 .. n
       PROVE  IsByte(buf, 1 + 2 * k) /\ hex_byte(buf, 1 + 2 * k) = rb[k]
  <2>1. CASE k = 1
    <3>1. 1 + 2 * k = 3  BY ONLY <2>1
    <3>2. hex_byte(buf, 3) = n - 1  BY <1>3 DEF Count
    <3> QED  BY <1>1, <1>8, <2>1, <3>1, <3>2
  <2>2. CASE k # 1
    <3>1. PICK j \in 1 .. n - 1 : k = j + 1
      <4>1. k - 1 \in 1 .. n - 1 /\ k = (k - 1) + 1
        BY ONLY <1>1, <2>2, k \in 1 .. n
      <4> QED  BY <4>1
    <3> QED  BY <1>9, <1>20, <3>1
  <2> QED  BY <2>1, <2>2
<1> QED  BY <1>3, <1>21 DEF Reads

(* Line l has w characters, as many as the count 1 needs.                  *)
Long(l, w) == w \in 6 .. 514 /\ Len(l) = w

OneOf(e, l) ==
  Changed(e, l) \/ Lost(e, l) \/ Added(e, l) \/ Begun(e, l) \/ Ended(e, l)

(* No other damage to a record leaves a well-formed line: its length would *)
(* be odd, or not what the count says, or it would not begin with an S.    *)
LEMMA RecordCaught ==
  ASSUME NEW e, NEW rb, NEW n, NEW type, RecordLine(e, rb, n, type),
         type # "S",
         NEW l, OneOf(e, l), Len(l) <= LINE_MAX,
         NEW buf, Begins(buf, l, Len(l)), WellFormed(buf, Len(l))
  PROVE  Changed(e, l)
<1>1. n \in 3 .. 256 /\ rb \in [1 .. n -> Bytes] /\ rb[1] = n - 1
      /\ Len(e) = 2 * n + 2 /\ e[1] = "S" /\ e[2] = type
      /\ \A j \in 1 .. 2 * n : e[2 + j] = HexAt(rb, j)
  BY DEF RecordLine, RecordText
<1>2. PICK c \in 1 .. 255 : c = Count(buf) /\ Len(l) = 4 + 2 * c
  BY DEF WellFormed
<1>3. PICK w : w = Len(l) /\ w = 4 + 2 * c  BY <1>2
<1>4. buf[1] = "S" /\ Begins(buf, l, w) /\ w <= LINE_MAX
  BY <1>3 DEF WellFormed
<1>5. l[1] = "S"
  <2>1. 1 \in 1 .. w  BY ONLY <1>3, c \in 1 .. 255
  <2> QED  BY <1>4, <2>1 DEF Begins
<1>6. CASE Lost(e, l)
  <2>1. w = (2 * n + 2) - 1  BY <1>1, <1>3, <1>6 DEF Lost
  <2>2. n \in Int  BY ONLY <1>1
  <2>3. (2 * n + 2) - 1 # 4 + 2 * c
    BY ONLY <2>2, c \in 1 .. 255, SMT
  <2> QED  BY <1>3, <2>1, <2>3
<1>7. CASE Added(e, l)
  <2>1. w = (2 * n + 2) + 1  BY <1>1, <1>3, <1>7 DEF Added
  <2>2. n \in Int  BY ONLY <1>1
  <2>3. (2 * n + 2) + 1 # 4 + 2 * c
    BY ONLY <2>2, c \in 1 .. 255, SMT
  <2> QED  BY <1>3, <2>1, <2>3
<1>8. CASE Begun(e, l)
  <2>1. \A j \in 1 .. w : buf[j] = e[j]
    <3>1. \A j \in 1 .. w : l[j] = e[j]  BY <1>3, <1>8 DEF Begun
    <3> QED  BY <1>4, <3>1 DEF Begins
  <2>2. buf[1 + 2 * 1] = e[1 + 2 * 1] /\ buf[2 + 2 * 1] = e[2 + 2 * 1]
    <3>1. 1 + 2 * 1 \in 1 .. w /\ 2 + 2 * 1 \in 1 .. w
      BY ONLY <1>3, c \in 1 .. 255
    <3> QED  BY <2>1, <3>1
  <2>3. 2 + 2 * 1 <= LINE_MAX /\ 1 \in 1 .. n
    <3>1. w <= LINE_MAX /\ LINE_MAX \in Nat /\ n \in 3 .. 256
      BY <1>1, <1>4, Sizes
    <3>2. w \in 6 .. 514  BY ONLY <1>3, c \in 1 .. 255
    <3> QED  BY ONLY <3>1, <3>2
  <2>4. hex_byte(buf, 1 + 2 * 1) = rb[1]  BY <2>2, <2>3, ByteArrives
  <2>5. 1 + 2 * 1 = 3  OBVIOUS
  <2>6. c = n - 1  BY <1>1, <1>2, <2>4, <2>5 DEF Count
  <2>7. w = 2 * n + 2  BY ONLY <1>1, <1>3, <2>6
  <2>8. Len(l) = Len(e) /\ 1 \in 1 .. Len(e)
    <3>1. 1 \in 1 .. 2 * n + 2  BY ONLY <1>1
    <3> QED  BY <1>1, <1>3, <2>7, <3>1
  <2> QED  BY <1>8, <2>8 DEF Begun, Changed
<1>9. CASE Ended(e, l)
  <2>1. PICK d : d = (2 * n + 2) - w  OBVIOUS
  <2>2. /\ w <= 2 * n + 2
        /\ \A j \in 1 .. w : l[j] = e[j + d]
    BY <1>1, <1>3, <1>9, <2>1 DEF Ended
  <2>3. d \in 0 .. 2 * n - 2
    BY ONLY <1>1, <1>3, <2>1, <2>2, c \in 1 .. 255
  <2>4. e[1 + d] = "S"
    <3>1. 1 \in 1 .. w  BY ONLY <1>3, c \in 1 .. 255
    <3> QED  BY <1>5, <2>2, <3>1
  <2>5. d = 0
    <3> SUFFICES ASSUME d # 0  PROVE FALSE  OBVIOUS
    <3>1. CASE d = 1
      <4>1. 1 + d = 2  BY ONLY <3>1
      <4> QED  BY <1>1, <2>4, <4>1
    <3>2. CASE d # 1
      <4>1. PICK j \in 1 .. 2 * n : 1 + d = 2 + j
        <5>1. d - 1 \in 1 .. 2 * n /\ 1 + d = 2 + (d - 1)
          BY ONLY <1>1, <2>3, <3>2, d # 0
        <5> QED  BY <5>1
      <4>2. n \in Nat  BY ONLY <1>1
      <4>3. HexAt(rb, j) # "S"  BY <1>1, <4>2, HexAtTyped
      <4> QED  BY <1>1, <2>4, <4>1, <4>3
    <3> QED  BY <3>1, <3>2
  <2>6. w = 2 * n + 2 /\ \A j \in 1 .. w : j + d = j
    BY ONLY <1>1, <1>3, <2>1, <2>5, c \in 1 .. 255
  <2>7. Len(l) = Len(e) /\ 1 \in 1 .. Len(e)
    <3>1. 1 \in 1 .. 2 * n + 2  BY ONLY <1>1
    <3> QED  BY <1>1, <1>3, <2>6, <3>1
  <2>8. \A j \in 1 .. Len(e) : l[j] = e[j]
    <3>1. \A j \in 1 .. w : l[j] = e[j]  BY <2>2, <2>6
    <3>2. Len(e) = w  BY <1>3, <2>7
    <3> QED  BY <3>1, <3>2
  <2> QED  BY <2>7, <2>8 DEF Changed
<1> QED  BY <1>6, <1>7, <1>8, <1>9 DEF OneOf

(* A blank is none of the characters a line of the protocol begins with.   *)
LEMMA BlankIs ==
  /\ Blank # "S" /\ Blank # "3" /\ Blank # "7" /\ Blank # "8" /\ Blank # "9"
BY Zenon DEF Blank

(* No decimal digit is an S.                                               *)
LEMMA NoDigitS == \A c \in DecDigits : c # "S"
<1>1. \A d \in 0 .. 9 : Dec[d + 1] # "S"  BY DEF Dec
<1> QED  BY <1>1 DEF DecDigits

(* A version line is not one character away from a record.                 *)
LEMMA VersionCaught ==
  ASSUME NEW d, NEW f, DecSeq(d), DecSeq(f), NEW e, VersionText(e, d, f),
         NEW l, OneOf(e, l), NEW w, Long(l, w),
         l[1] = "S", l[2] \in {"3", "7", "8", "9"}
  PROVE  FALSE
<1> w \in 6 .. 514 /\ Len(l) = w  BY DEF Long
<1>1. PICK p, q \in 1 .. 5 : p = Len(d) /\ q = Len(f)  BY DEF DecSeq
<1>2. PICK n \in 5 .. 13 : n = 3 + p + q
  BY ONLY p \in 1 .. 5, q \in 1 .. 5
<1>3. /\ Len(e) = n /\ e[1] = "V" /\ e[2] = Blank /\ e[3 + p] = Blank
      /\ \A k \in 1 .. p : e[2 + k] = d[k]
      /\ \A k \in 1 .. q : e[3 + p + k] = f[k]
  BY <1>1, <1>2 DEF VersionText
<1>4. /\ \A k \in 1 .. p : d[k] # "S"
      /\ \A k \in 1 .. q : f[k] # "S"
  <2>1. d \in Seq(DecDigits) /\ f \in Seq(DecDigits)  BY DEF DecSeq
  <2>2. /\ \A k \in 1 .. Len(d) : d[k] \in DecDigits
        /\ \A k \in 1 .. Len(f) : f[k] \in DecDigits
    BY ONLY <2>1, LenProperties
  <2> QED  BY <1>1, <2>2, NoDigitS
<1>5. ASSUME NEW i \in 1 .. n  PROVE e[i] # "S"
  <2>1. CASE i = 1  BY <1>3, <2>1
  <2>2. CASE i = 2  BY <1>3, <2>2, BlankIs
  <2>3. CASE i = 3 + p  BY <1>3, <2>3, BlankIs
  <2>4. CASE i \in 3 .. 2 + p
    <3>1. PICK k \in 1 .. p : i = 2 + k
      <4>1. i - 2 \in 1 .. p /\ i = 2 + (i - 2)
        BY ONLY <2>4, p \in 1 .. 5
      <4> QED  BY <4>1
    <3> QED  BY <1>3, <1>4, <3>1
  <2>5. CASE i \in 4 + p .. n
    <3>1. PICK k \in 1 .. q : i = 3 + p + k
      <4>1. i - (3 + p) \in 1 .. q /\ i = 3 + p + (i - (3 + p))
        BY ONLY <1>2, <2>5, p \in 1 .. 5, q \in 1 .. 5
      <4> QED  BY <4>1
    <3> QED  BY <1>3, <1>4, <3>1
  <2>6. i = 1 \/ i = 2 \/ i = 3 + p \/ i \in 3 .. 2 + p \/ i \in 4 + p .. n
    BY ONLY <1>2, p \in 1 .. 5, q \in 1 .. 5, i \in 1 .. n
  <2> QED  BY <2>1, <2>2, <2>3, <2>4, <2>5, <2>6
<1>6. 1 \in 1 .. n /\ 2 \in 1 .. n /\ n > 0  BY ONLY n \in 5 .. 13
<1>7. 1 \in 1 .. w /\ w > 0  BY ONLY w \in 6 .. 514
<1>8. ~Changed(e, l)
  <2> SUFFICES ASSUME Changed(e, l)  PROVE FALSE  OBVIOUS
  <2>1. PICK i \in 1 .. n : \A j \in 1 .. n : j # i => l[j] = e[j]
    BY <1>3 DEF Changed
  <2>2. CASE i = 1
    <3>1. l[2] = Blank  BY <1>3, <1>6, <2>1, <2>2
    <3> QED  BY <3>1, BlankIs
  <2>3. CASE i # 1
    <3>1. l[1] = e[1]  BY <1>6, <2>1, <2>3
    <3> QED  BY <1>5, <1>6, <3>1
  <2> QED  BY <2>2, <2>3
<1>9. ~Lost(e, l)  BY <1>5, <1>6, <1>7 DEF Lost
<1>10. ~Added(e, l)
  <2> SUFFICES ASSUME Added(e, l)  PROVE FALSE  OBVIOUS
  <2>1. l[1] = e[1] \/ l[2] = e[1]  BY <1>3, <1>6 DEF Added
  <2> QED  BY <1>3, <2>1
<1>11. ~Begun(e, l)  BY <1>5, <1>6, <1>7 DEF Begun
<1>12. ~Ended(e, l)
  <2> SUFFICES ASSUME Ended(e, l)  PROVE FALSE  OBVIOUS
  <2>1. w <= n /\ l[1] = e[1 + (n - w)]  BY <1>3, <1>7 DEF Ended
  <2>2. 1 + (n - w) \in 1 .. n  BY ONLY <2>1, n \in 5 .. 13, w \in 6 .. 514
  <2> QED  BY <1>5, <2>1, <2>2
<1> QED  BY <1>8, <1>9, <1>10, <1>11, <1>12 DEF OneOf

(* What the application sends besides is too short to become a record.     *)
ShortTexts == \A m \in Messages : m.kind = "text" => Len(m.arg) <= 4

(* A short text is too short after any damage to one character.            *)
LEMMA TextCaught ==
  ASSUME NEW e \in Seq(Char), Len(e) <= 4, NEW l, OneOf(e, l),
         NEW w, Long(l, w)
  PROVE  FALSE
<1> w \in 6 .. 514 /\ Len(l) = w  BY DEF Long
<1>1. PICK n \in Nat : n = Len(e) /\ n <= 4  BY LenProperties
<1>2. w = n \/ w = n - 1 \/ w = n + 1 \/ w <= n
  BY <1>1 DEF OneOf, Changed, Lost, Added, Begun, Ended
<1> QED  BY ONLY <1>1, <1>2, w \in 6 .. 514, n \in Nat

(* Line l is e but for its type and the case of its digits.                *)
Near(e, l) ==
  Len(l) = Len(e) /\ \A i \in 1 .. Len(l) : i = 2 \/ Upper(l[i]) = e[i]

(* A line whose bytes are read as written differs in the case of its       *)
(* digits.                                                                 *)
LEMMA NearIs ==
  ASSUME NEW e, NEW rb, NEW n, NEW type, RecordLine(e, rb, n, type),
         NEW l, NEW w, Len(l) = w, w = 2 * n + 2, w <= LINE_MAX,
         NEW buf, Begins(buf, l, w), buf[1] = "S", Reads(buf, rb, n)
  PROVE  Near(e, l)
<1>1. n \in 3 .. 256 /\ n \in Nat /\ rb \in [1 .. n -> Bytes]
      /\ Len(e) = 2 * n + 2 /\ e[1] = "S"
      /\ \A j \in 1 .. 2 * n : e[2 + j] = HexAt(rb, j)
  <2>1. n \in 3 .. 256  BY DEF RecordLine
  <2> QED  BY <2>1 DEF RecordLine, RecordText
<1>2. w \in 8 .. 514  BY ONLY <1>1, w = 2 * n + 2
<1>3. Upper("S") = "S"
  <2>1. ~IsHex("S")  BY DEF Dec, IsHex, Hex, LowerHex, ToSet
  <2> QED  BY <2>1 DEF Upper
<1>4. ASSUME NEW k \in 1 .. n
      PROVE  /\ Upper(l[1 + 2 * k]) = e[1 + 2 * k]
             /\ Upper(l[2 + 2 * k]) = e[2 + 2 * k]
  <2>1. /\ 2 * k - 1 \in 1 .. 2 * n /\ 2 * k \in 1 .. 2 * n
        /\ 2 + (2 * k - 1) = 1 + 2 * k /\ (1 + 2 * k) + 1 = 2 + 2 * k
        /\ 1 + 2 * k \in 1 .. w /\ 2 + 2 * k \in 1 .. w
    BY ONLY <1>1, <1>2, w = 2 * n + 2, k \in 1 .. n
  <2>2. 1 + 2 * k <= LINE_MAX /\ 2 + 2 * k <= LINE_MAX
    BY ONLY <1>2, <2>1, w <= LINE_MAX, Sizes, k \in 1 .. n, <1>1
  <2>3. /\ At(buf, 1 + 2 * k) = l[1 + 2 * k]
        /\ At(buf, (1 + 2 * k) + 1) = l[2 + 2 * k]
    BY <2>1, <2>2 DEF At, Begins
  <2>4. PICK c, d : c = l[1 + 2 * k] /\ d = l[2 + 2 * k]  OBVIOUS
  <2>5. IsHex(c) /\ IsHex(d) /\ 16 * hex_nibble(c) + hex_nibble(d) = rb[k]
    BY <2>3, <2>4 DEF Reads, IsByte, hex_byte
  <2>6. PICK x, y \in 0 .. 15 : x = hex_nibble(c) /\ y = hex_nibble(d)
    BY <2>5, NibbleTyped
  <2>7. /\ rb[k] \div 16 \in 0 .. 15 /\ rb[k] % 16 \in 0 .. 15
        /\ rb[k] = 16 * (rb[k] \div 16) + (rb[k] % 16)
        /\ HexAt(rb, 2 * k - 1) = Hex[(rb[k] \div 16) + 1]
        /\ HexAt(rb, 2 * k) = Hex[(rb[k] % 16) + 1]
    BY <1>1, HexAtIs
  <2>8. PICK u, v : u = rb[k] \div 16 /\ v = rb[k] % 16  OBVIOUS
  <2>9. u \in 0 .. 15 /\ v \in 0 .. 15 /\ 16 * u + v = 16 * x + y
    BY <2>5, <2>6, <2>7, <2>8
  <2>10. u = x /\ v = y
    BY ONLY <2>9, x \in 0 .. 15, y \in 0 .. 15, SMT
  <2>11. Upper(c) = Hex[x + 1] /\ Upper(d) = Hex[y + 1]
    BY <2>5, <2>6, SameNibble
  <2>12. e[1 + 2 * k] = Hex[u + 1] /\ e[2 + 2 * k] = Hex[v + 1]
    BY <1>1, <2>1, <2>7, <2>8
  <2> QED  BY <2>4, <2>10, <2>11, <2>12
<1>5. ASSUME NEW i \in 1 .. w, i # 2  PROVE Upper(l[i]) = e[i]
  <2>1. CASE i = 1
    <3>1. l[1] = "S"  BY <2>1 DEF Begins
    <3> QED  BY <1>1, <1>3, <2>1, <3>1
  <2>2. CASE i # 1
    <3>1. \E k \in 1 .. n : i = 1 + 2 * k \/ i = 2 + 2 * k
      <4>1. (i - 1) \div 2 \in 1 .. n
            /\ (i = 1 + 2 * ((i - 1) \div 2) \/ i = 2 + 2 * ((i - 1) \div 2))
        BY ONLY <1>1, <2>2, i \in 1 .. w, i # 2, w = 2 * n + 2, SMT
      <4> QED  BY <4>1
    <3> QED  BY <1>4, <3>1
  <2> QED  BY <2>1, <2>2
<1> QED  BY <1>1, <1>5 DEF Near

(* Record m was decoded from line l in buf as it was meant.                *)
Taken(m, l, buf) ==
  \E data, n : /\ IsRecord(m, data) /\ n = AddrBytes + Len(data) + 2
               /\ n \in 3 .. 256
               /\ Reads(buf, RecordBytes(m.addr, data), n)
               /\ Count(buf) = n - 1
               /\ Near(Encode(m), l)

(* A line that was damaged at one character and is accepted was a record   *)
(* or a terminator, and is still read as the bytes it was.                 *)
LEMMA Caught ==
  ASSUME CodeWidth, ShortTexts, NEW m \in Messages,
         NEW l, l = Encode(m) \/ l \in OneError(Encode(m)),
         NEW w, Len(l) = w, w <= LINE_MAX,
         NEW buf, Begins(buf, l, w), WellFormed(buf, w)
  PROVE  Taken(m, l, buf)
<1>1. PICK e : e = Encode(m)  OBVIOUS
<1>2. e \in Seq(Char)  BY <1>1, EncodedTyped
<1>3. OneOf(e, l) \/ l = e
  <2>1. NoiseChars \subseteq Char  BY MessagesAssumption
  <2>2. CASE l \in OneError(e)
    BY ONLY <1>2, <2>1, <2>2, Errors DEF OneOf
  <2> QED  BY <1>1, <2>2
<1>4. PICK c \in 1 .. 255 : w = 4 + 2 * c  BY DEF WellFormed
<1>5. w \in 6 .. 514  BY ONLY <1>4, c \in 1 .. 255
<1>6. l[1] = "S" /\ l[2] \in {"3", "7", "8", "9"} /\ buf[1] = "S"
  <2>1. 1 \in 1 .. w /\ 2 \in 1 .. w  BY ONLY <1>5
  <2> QED  BY <2>1 DEF WellFormed, Begins
<1>7. OneOf(e, l)
  <2> SUFFICES ASSUME l = e  PROVE OneOf(e, l)  BY <1>3
  <2>1. 1 \in 1 .. Len(e)  BY <1>5
  <2> QED  BY <2>1 DEF OneOf, Changed
<1>8. m.kind \in {"rec", "term", "ver", "text"}  BY MessagesAssumption
<1>9. CASE m.kind = "ver"
  <2>0. Long(l, w)  BY <1>5 DEF Long
  <2>1. PICK d, f : DecSeq(d) /\ DecSeq(f) /\ VersionText(e, d, f)
    BY <1>1, <1>9, EncodedVersion
  <2>2. FALSE
    BY <1>6, <1>7, <2>0, <2>1, VersionCaught
  <2> QED  BY <2>2
<1>10. CASE m.kind = "text"
  <2>0. Long(l, w)  BY <1>5 DEF Long
  <2>1. Len(e) <= 4  BY <1>1, <1>10 DEF Encode, ShortTexts
  <2>2. FALSE
    BY <1>2, <1>7, <2>1, <2>0, TextCaught
  <2> QED  BY <2>2
<1>11. CASE m.kind \in {"rec", "term"}
  <2>1. PICK data : IsRecord(m, data)
                    /\ Encode(m) = SRecord(TypeOf(m), m.addr, data)
    BY <1>11, EncodedRecord
  <2>2. PICK n \in 2 .. 256 : n = AddrBytes + Len(data) + 2
    BY <2>1 DEF IsRecord
  <2>3. TypeOf(m) \in Char /\ TypeOf(m) # "S"
    BY DEF TypeOf, Char, ToSet, Hex, LowerHex, Dec
  <2>4. m.addr \in Nat /\ data \in Seq(Bytes)  BY <2>1 DEF IsRecord
  <2>5. PICK rb : rb = RecordBytes(m.addr, data)  OBVIOUS
  <2>6. RecordLine(e, rb, n, TypeOf(m))
    <3>1. RecordLine(SRecord(TypeOf(m), m.addr, data),
                     RecordBytes(m.addr, data), n, TypeOf(m))
      BY <2>2, <2>3, <2>4, RecordLines
    <3> QED  BY <1>1, <2>1, <2>5, <3>1
  <2>7. Changed(e, l)  BY <1>7, <2>3, <2>6, RecordCaught
  <2>8. Reads(buf, rb, n) /\ Count(buf) = n - 1
    BY <2>6, <2>7, BytesArrive
  <2>9. n \in 3 .. 256 /\ Len(e) = 2 * n + 2
    BY <2>6 DEF RecordLine, RecordText
  <2>10. w = 2 * n + 2  BY <2>7, <2>9 DEF Changed
  <2>11. Near(e, l)  BY <1>6, <2>6, <2>8, <2>10, NearIs
  <2> QED  BY <1>1, <2>1, <2>2, <2>5, <2>8, <2>9, <2>11 DEF Taken
<1> QED  BY <1>8, <1>9, <1>10, <1>11

(* What the line in rx_buf was meant to be, once it passes the checks.     *)
LEMMA ReadyTaken ==
  ASSUME CodeWidth, ShortTexts, ArrivedInv, pc = "ready",
         WellFormed(rx_buf, rx_len)
  PROVE  Taken(sent.msg, sent.line, rx_buf)
<1>1. /\ sent.msg \in Messages
      /\ rx_len = Len(sent.line) /\ Len(sent.line) \in 1 .. LINE_MAX
      /\ \A i \in 1 .. rx_len : rx_buf[i] = sent.line[i]
      /\ \/ sent.line = Encode(sent.msg)
         \/ sent.line \in OneError(Encode(sent.msg))
  BY DEF ArrivedInv
<1>2. PICK m, l, w : m = sent.msg /\ l = sent.line /\ w = rx_len  OBVIOUS
<1>3. /\ m \in Messages /\ (l = Encode(m) \/ l \in OneError(Encode(m)))
      /\ Len(l) = w /\ w <= LINE_MAX /\ WellFormed(rx_buf, w)
      /\ \A i \in 1 .. w : rx_buf[i] = l[i]
  BY <1>1, <1>2, Sizes
<1>4. Begins(rx_buf, l, w)  BY <1>3 DEF Begins
<1>5. Taken(m, l, rx_buf)  BY <1>3, <1>4, Caught
<1> QED  BY <1>2, <1>5

(* A line that is accepted is as it was meant but for its type and the     *)
(* case of its digits, from its checks on until it is answered.            *)
AcceptedInv ==
  /\ sent.line \in Seq(Char)
  /\ pc = "prog" \/ (pc = "idle" /\ result \in {"ok", "term"}) =>
       Near(Encode(sent.msg), sent.line)

(* AcceptedInv is inductive with what is known of the line in rx_buf.      *)
LEMMA AcceptedInvHolds ==
  ASSUME CodeWidth, ShortLines, ShortTexts
  PROVE  /\ WireInit => AcceptedInv
         /\ AcceptedInv /\ ArrivedInv /\ [WireNext]_wireVars => AcceptedInv'
<1>1. ASSUME WireInit  PROVE AcceptedInv
  <2>1. sent.line = <<>> /\ result = "ignored" /\ pc = "idle"
    BY <1>1 DEF WireInit, Nothing
  <2>2. <<>> \in Seq(Char)  OBVIOUS
  <2> QED  BY <2>1, <2>2 DEF AcceptedInv
<1>2. ASSUME AcceptedInv, ArrivedInv, [WireNext]_wireVars
      PROVE  AcceptedInv'
  <2>1. CASE AskVersion \/ AskLine
    <3>1. pc' = "asked" /\ sent' = sent  BY <2>1 DEF AskVersion, AskLine
    <3> QED  BY <1>2, <3>1 DEF AcceptedInv
  <2>2. CASE Receive \/ ReceiveDamaged
    <3>1. PICK m \in Messages, l \in Seq(Char) : Store(m, l)
      BY <2>2, StoredTyped
    <3>2. sent'.line = l /\ pc' = "ready"  BY <3>1 DEF Store
    <3> QED  BY <3>2 DEF AcceptedInv
  <2>3. CASE ParseVersion \/ ParseRefuses \/ ProgramFails
    <3>1. sent' = sent /\ result' \notin {"ok", "term"} /\ pc' = "idle"
      BY <2>3, RefusalIs
      DEF ParseVersion, ParseRefuses, ProgramFails, Consume
    <3> QED  BY <1>2, <3>1 DEF AcceptedInv
  <2>4. CASE ParseTerminator \/ ParseAccepts
    <3>1. pc = "ready" /\ sent' = sent
          /\ (check_terminator(rx_buf, rx_len)
                \/ Refusal(rx_buf, rx_len) = "none")
      BY <2>4 DEF ParseTerminator, ParseAccepts, Consume
    <3>2. WellFormed(rx_buf, rx_len)
      BY <3>1, TerminatorFormed, RecordFormed
    <3>3. Near(Encode(sent.msg), sent.line)
      BY <1>2, <3>1, <3>2, ReadyTaken DEF Taken
    <3> QED  BY <1>2, <3>1, <3>3 DEF AcceptedInv
  <2>5. CASE ProgramWord
    BY <1>2, <2>5 DEF ProgramWord, AcceptedInv
  <2>6. CASE Programmed
    <3>1. pc = "prog" /\ sent' = sent  BY <2>6 DEF Programmed, Consume
    <3> QED  BY <1>2, <3>1 DEF AcceptedInv
  <2>7. CASE UNCHANGED wireVars
    BY <1>2, <2>7 DEF wireVars, AcceptedInv
  <2> QED
    BY <1>2, <2>1, <2>2, <2>3, <2>4, <2>5, <2>6, <2>7 DEF WireNext
<1> QED  BY <1>1, <1>2

(* Damage at one character is caught by the S, the count, the digits or    *)
(* the checksum of a line, for records of every length.                    *)
THEOREM ErrorsCaught ==
  ASSUME CodeWidth, ShortLines, ShortTexts
  PROVE  WireSpec => []OneErrorIsCaught
<1>1. ASSUME AcceptedInv  PROVE OneErrorIsCaught
  <2> SUFFICES ASSUME pc = "idle", result \in {"ok", "term"}
               PROVE  /\ Len(sent.line) = Len(Encode(sent.msg))
                      /\ \A i \in DOMAIN sent.line :
                           i = 2 \/ Upper(sent.line[i]) = Encode(sent.msg)[i]
    BY DEF OneErrorIsCaught
  <2>1. Near(Encode(sent.msg), sent.line) /\ sent.line \in Seq(Char)
    BY <1>1 DEF AcceptedInv
  <2>2. DOMAIN sent.line = 1 .. Len(sent.line)  BY <2>1, LenProperties
  <2> QED  BY <2>1, <2>2 DEF Near
<1>2. /\ WireInit => AcceptedInv /\ ArrivedInv
      /\ AcceptedInv /\ ArrivedInv /\ [WireNext]_wireVars
           => AcceptedInv' /\ ArrivedInv'
  BY AcceptedInvHolds, ArrivedInvHolds
<1> QED  BY <1>1, <1>2, PTL DEF WireSpec

-----------------------------------------------------------------------------
(* What is stored.                                                         *)

(* The powers of 256 up to the largest address space.                      *)
LEMMA Powers256 ==
  /\ 256 ^ 0 = 1 /\ 256 ^ 1 = 256 /\ 256 ^ 2 = 65536
  /\ 256 ^ 3 = 16777216 /\ 256 ^ 4 = 4294967296
BY SMT

(* Dropping the last byte of what is left of an address.                   *)
Dropped(a, e) ==
  a \div 256 ^ e = 256 * (a \div 256 ^ (e + 1)) + ((a \div 256 ^ e) % 256)

(* So it is for the four bytes of an address.                              *)
LEMMA ByteDropped ==
  ASSUME NEW a \in Nat, NEW e \in 0 .. 3
  PROVE  Dropped(a, e)
<1>1. CASE e = 0  BY <1>1, Powers256, SMT DEF Dropped
<1>2. CASE e = 1  BY <1>2, Powers256, SMT DEF Dropped
<1>3. CASE e = 2  BY <1>3, Powers256, SMT DEF Dropped
<1>4. CASE e = 3  BY <1>4, Powers256, SMT DEF Dropped
<1> QED  BY ONLY e \in 0 .. 3, <1>1, <1>2, <1>3, <1>4, SMT

(* The bytes of an address, put together, are the address.                 *)
LEMMA AddressRead ==
  ASSUME CodeWidth, NEW a \in Nat, a < Space
  PROVE  AddrOf(BytesOf(a)) = a
<1>1. PICK n \in 1 .. 4 : n = AddrBytes  BY DEF CodeWidth
<1>2. PICK s : s = BytesOf(a)  OBVIOUS
<1> DEFINE Left(k) == a \div 256 ^ (n - k)
<1>3. s \in [1 .. n -> Bytes] /\ \A i \in 1 .. n : s[i] = Left(i) % 256
  <2>1. s = [i \in 1 .. n |-> Left(i) % 256]  BY <1>1, <1>2 DEF BytesOf
  <2>2. s \in Seq(Bytes) /\ Len(s) = n  BY <1>1, <1>2, BytesOfTyped
  <2> HIDE DEF Left
  <2> QED  BY <2>1, <2>2, LenProperties
<1>4. Left(0) = 0 /\ Left(n) = a
  <2>1. a < 256 ^ n  BY <1>1 DEF Space
  <2>2. CASE n = 1  BY <2>1, <2>2, Powers256, SMT
  <2>3. CASE n = 2  BY <2>1, <2>3, Powers256, SMT
  <2>4. CASE n = 3  BY <2>1, <2>4, Powers256, SMT
  <2>5. CASE n = 4  BY <2>1, <2>5, Powers256, SMT
  <2> HIDE DEF Left
  <2> QED  BY ONLY n \in 1 .. 4, <2>2, <2>3, <2>4, <2>5, SMT
<1>5. ASSUME NEW k \in 1 .. n
      PROVE  Left(k) = 256 * Left(k - 1) + (Left(k) % 256)
  <2>1. PICK e \in 0 .. 3 : e = n - k /\ e + 1 = n - (k - 1)
    <3>1. n - k \in 0 .. 3 /\ (n - k) + 1 = n - (k - 1)
      BY ONLY n \in 1 .. 4, k \in 1 .. n
    <3> QED  BY <3>1
  <2>2. Dropped(a, e)  BY ONLY a \in Nat, e \in 0 .. 3, ByteDropped
  <2> QED  BY ONLY <2>1, <2>2, SMT DEF Dropped
<1> HIDE DEF Left
<1>6. PICK r \in [0 .. n -> Int] :
        /\ r[0] = 0 /\ r[n] = AddrOf(s)
        /\ \A k \in 1 .. n : r[k] = 256 * r[k - 1] + s[k]
  <2>1. s \in [1 .. n -> Int]
    <3>1. Bytes \subseteq Int  BY DEF Bytes
    <3> QED  BY <1>3, <3>1
  <2>2. n \in Nat  BY ONLY n \in 1 .. 4
  <2> QED  BY ONLY <2>1, <2>2, AddrRuns
<1> DEFINE T == {k \in 0 .. n : r[k] = Left(k)}
<1>7. 0 \in T  BY <1>4, <1>6
<1>8. ASSUME NEW k \in 0 .. n, k \in T, k < n  PROVE k + 1 \in T
  <2>1. k + 1 \in 1 .. n /\ (k + 1) - 1 = k /\ k + 1 \in 0 .. n  BY <1>8
  <2>2. r[k] = Left(k)  BY <1>8
  <2>3. r[k + 1] = 256 * r[k] + s[k + 1]  BY <1>6, <2>1
  <2>4. Left(k + 1) = 256 * Left(k) + (Left(k + 1) % 256)  BY <1>5, <2>1
  <2>5. s[k + 1] = Left(k + 1) % 256  BY <1>3, <2>1
  <2>6. r[k + 1] = Left(k + 1)  BY ONLY <2>2, <2>3, <2>4, <2>5
  <2> QED  BY <2>1, <2>6
<1>9. n \in T
  <2>1. \A k \in 0 .. n : k \in T /\ k < n => k + 1 \in T  BY <1>8
  <2>2. n \in Nat /\ n \in 0 .. n  OBVIOUS
  <2> HIDE DEF T
  <2> QED  BY <1>7, <2>1, <2>2, UpTo
<1> QED  BY <1>2, <1>4, <1>6, <1>9

(* A line that is read as the bytes of a record is decoded as the address  *)
(* and the data they were written from.                                    *)
LEMMA TakenDecoded ==
  ASSUME CodeWidth, NEW m, NEW l, NEW buf, Taken(m, l, buf)
  PROVE  \E data : /\ IsRecord(m, data)
                   /\ Decoded(buf).addr = m.addr /\ Decoded(buf).data = data
<1>1. PICK data, n : /\ IsRecord(m, data) /\ n = AddrBytes + Len(data) + 2
                     /\ n \in 3 .. 256
                     /\ Reads(buf, RecordBytes(m.addr, data), n)
                     /\ Count(buf) = n - 1
  BY DEF Taken
<1>2. m.addr \in Nat /\ m.addr < Space /\ data \in Seq(Bytes)
  BY <1>1 DEF IsRecord
<1>3. PICK rb, a, d, w : /\ rb = RecordBytes(m.addr, data)
                         /\ a = BytesOf(m.addr)
                         /\ d = Len(data) /\ w = AddrBytes
  OBVIOUS
<1>4. d \in Nat /\ w \in 1 .. 4 /\ n = w + d + 2 /\ n \in Nat /\ n <= 256
  <2>1. d \in Nat  BY <1>2, <1>3, LenProperties
  <2>2. w \in 1 .. 4  BY <1>3 DEF CodeWidth
  <2>3. n = w + d + 2  BY <1>1, <1>3
  <2> QED  BY ONLY <2>1, <2>2, <2>3, <1>1
<1>5. /\ \A i \in 1 .. w : rb[1 + i] = a[i]
      /\ \A i \in 1 .. d : rb[1 + w + i] = data[i]
  <2>1. n = AddrBytes + Len(data) + 2  BY <1>1
  <2>2. /\ \A i \in 1 .. AddrBytes :
              RecordBytes(m.addr, data)[1 + i] = BytesOf(m.addr)[i]
        /\ \A i \in 1 .. Len(data) :
              RecordBytes(m.addr, data)[1 + AddrBytes + i] = data[i]
    BY <1>2, <1>4, <2>1, RecordBytesAre
  <2> QED  BY <1>3, <2>2
<1>6. a \in [1 .. w -> Bytes] /\ data \in [1 .. d -> Bytes]
  <2>1. a \in Seq(Bytes) /\ Len(a) = w  BY <1>2, <1>3, BytesOfTyped
  <2> QED  BY <1>2, <1>3, <2>1, LenProperties
<1>7. ASSUME NEW k \in 1 .. n - 2  PROVE Payload(buf, k) = rb[1 + k]
  <2>1. 1 + k \in 1 .. n /\ 1 + 2 * (1 + k) = 3 + 2 * k
    BY ONLY <1>4, k \in 1 .. n - 2
  <2>2. hex_byte(buf, 1 + 2 * (1 + k)) = rb[1 + k]
    BY <1>1, <1>3, <2>1 DEF Reads
  <2> QED  BY <2>1, <2>2 DEF Payload
<1>8. Payloads(buf, w) = a
  <2>1. \A k \in 1 .. w : k \in 1 .. n - 2  BY ONLY <1>4
  <2>2. \A k \in 1 .. w : Payload(buf, k) = a[k]  BY <1>5, <1>7, <2>1
  <2> QED  BY <1>6, <2>2 DEF Payloads
<1>9. Decoded(buf).addr = m.addr
  <2>1. Decoded(buf).addr = AddrOf(Payloads(buf, AddrBytes))
    BY DEF Decoded
  <2> QED  BY <1>2, <1>3, <1>8, <2>1, AddressRead
<1>10. PICK p, v : p = Payloads(buf, v) /\ v = n - 2  OBVIOUS
<1>11. v = w + d /\ v \in Nat /\ (n - 1) - 1 = v  BY ONLY <1>4, <1>10
<1>12. ASSUME NEW k \in 1 .. d
       PROVE  w + k \in 1 .. v /\ Payload(buf, w + k) = data[k]
  <2>1. w + k \in 1 .. v /\ w + k \in 1 .. n - 2 /\ 1 + (w + k) = 1 + w + k
    BY ONLY <1>4, <1>11, k \in 1 .. d
  <2> QED  BY <1>5, <1>7, <2>1
<1>13. p \in Seq(Bytes) /\ Len(p) = v
       /\ \A k \in 1 .. v : p[k] = Payload(buf, k)
  <2>1. ASSUME NEW k \in 1 .. v  PROVE Payload(buf, k) \in Bytes
    <3>1. CASE k \in 1 .. w
      <4>1. k \in 1 .. n - 2  BY <1>10
      <4> QED  BY <1>5, <1>6, <1>7, <3>1, <4>1
    <3>2. CASE k \notin 1 .. w
      <4>1. PICK j \in 1 .. d : k = w + j
        <5>1. k - w \in 1 .. d /\ k = w + (k - w)
          BY ONLY <1>4, <1>11, k \in 1 .. v, <3>2
        <5> QED  BY <5>1
      <4> QED  BY <1>6, <1>12, <4>1
    <3> QED  BY <3>1, <3>2
  <2>2. p = [k \in 1 .. v |-> Payload(buf, k)]  BY <1>10 DEF Payloads
  <2>3. p \in [1 .. v -> Bytes]  BY <2>1, <2>2
  <2> QED  BY ONLY <1>11, <2>2, <2>3
<1>14. PICK s, b : s = SubSeq(p, b, v) /\ b = w + 1  OBVIOUS
<1>15. /\ s \in Seq(Bytes) /\ Len(s) = v - b + 1
       /\ \A i \in 1 .. Len(s) : s[i] = p[b + i - 1]
  <2>1. b \in 1 .. Len(p) + 1 /\ v \in 0 .. Len(p) /\ b <= v + 1
    BY ONLY <1>4, <1>11, <1>13, <1>14
  <2> QED  BY ONLY <1>13, <1>14, <2>1, Part
<1>16. Len(s) = d
  BY ONLY <1>4, <1>11, <1>14, <1>15
<1>17. ASSUME NEW i \in 1 .. d  PROVE s[i] = data[i]
  <2>1. b + i - 1 = w + i  BY ONLY <1>4, <1>14, i \in 1 .. d
  <2> QED  BY <1>12, <1>13, <1>15, <1>16, <2>1
<1>18. s = data
  <2>1. s \in [1 .. d -> Bytes]  BY <1>15, <1>16, LenProperties
  <2>2. data \in [1 .. d -> Bytes]  BY <1>6
  <2>3. \A i \in 1 .. d : s[i] = data[i]  BY <1>17
  <2>4. DOMAIN s = 1 .. d /\ DOMAIN data = 1 .. d
        /\ s = [i \in 1 .. d |-> s[i]] /\ data = [i \in 1 .. d |-> data[i]]
    BY ONLY <2>1, <2>2
  <2> QED  BY ONLY <2>3, <2>4
<1>19. Decoded(buf).data = s
  <2>1. Count(buf) - 1 = v  BY <1>1, <1>11
  <2>2. Decoded(buf).data =
          SubSeq(Payloads(buf, Count(buf) - 1), AddrBytes + 1, Count(buf) - 1)
    BY DEF Decoded
  <2> QED  BY <1>3, <1>10, <1>14, <2>1, <2>2
<1> QED  BY <1>1, <1>9, <1>18, <1>19

(* A byte whose bits are all one.                                          *)
LEMMA AllOnes ==
  ASSUME NEW x \in Bytes, \A k \in 0 .. 7 : Bit(x, k) = 1
  PROVE  x = 255
<1>1. x \in 0 .. 255  BY DEF Bytes
<1>2. /\ 2 ^ 0 = 1 /\ 2 ^ 1 = 2 /\ 2 ^ 2 = 4 /\ 2 ^ 3 = 8 /\ 2 ^ 4 = 16
      /\ 2 ^ 5 = 32 /\ 2 ^ 6 = 64 /\ 2 ^ 7 = 128
  BY SMT
<1>3. /\ Bit(x, 0) = 1 /\ Bit(x, 1) = 1 /\ Bit(x, 2) = 1 /\ Bit(x, 3) = 1
      /\ Bit(x, 4) = 1 /\ Bit(x, 5) = 1 /\ Bit(x, 6) = 1 /\ Bit(x, 7) = 1
  OBVIOUS
<1>4. /\ (x \div 1) % 2 = 1 /\ (x \div 2) % 2 = 1 /\ (x \div 4) % 2 = 1
      /\ (x \div 8) % 2 = 1 /\ (x \div 16) % 2 = 1 /\ (x \div 32) % 2 = 1
      /\ (x \div 64) % 2 = 1 /\ (x \div 128) % 2 = 1
  BY ONLY <1>2, <1>3, SMT DEF Bit
<1> QED  BY ONLY <1>1, <1>4, SMT

(* What is in flash while a record is programmed: its data up to where the *)
(* loop is, and what was there before in every other place.                *)
ProgressInv ==
  pc = "prog" =>
    /\ IsRecord(sent.msg, record.data) /\ record.addr = sent.msg.addr
    /\ sent.flash \in [FLASH_BASE .. FLASH_END -> Bytes]
    /\ \A b \in FLASH_BASE .. FLASH_END :
         LET a == record.addr IN
         flash[b] = IF b \in a .. a + Len(record.data) - 1 /\ b < a + off
                    THEN record.data[b - a + 1] ELSE sent.flash[b]

(* The bytes of a word behind the end of the data are 0xFF, which the      *)
(* flash takes only where it is 0xFF already.                              *)
LEMMA WordProgresses ==
  ASSUME WireTypeOK, ProgramInv, ProgressInv, ProgramWord
  PROVE  ProgressInv'
<1>1. /\ pc = "prog" /\ off < Len(record.data)
      /\ InFlash(Place) /\ ClearsOnly(Place, Word)
      /\ flash' = [b \in DOMAIN flash |->
                     IF b \in Place .. Place + 3 THEN Word[b - Place + 1]
                     ELSE flash[b]]
      /\ off' = off + 4
      /\ record' = record /\ sent' = sent
  BY DEF ProgramWord
<1>2. PICK p : p = Place  OBVIOUS
<1>3. p \in Nat /\ p = record.addr + off
  BY <1>1, <1>2, WordInRegion
<1>4. PICK a, n, o, F :
        a = record.addr /\ n = Len(record.data) /\ o = off
        /\ F = FLASH_BASE .. FLASH_END
  OBVIOUS
<1>5. a \in Nat /\ n \in Nat /\ o \in Nat /\ p = a + o /\ o < n
  <2>1. a \in 0 .. Space - 1 /\ n \in Nat /\ o \in Nat
    BY <1>4, LenProperties DEF WireTypeOK
  <2> QED  BY <1>1, <1>3, <1>4, <2>1, Sizes
<1>6. /\ flash \in [F -> Bytes] /\ F \subseteq Nat
      /\ \A b \in F :
           flash'[b] = IF b \in p .. p + 3 THEN Word[b - p + 1] ELSE flash[b]
      /\ \A b \in F : b \in Nat /\ b \in Int
  BY <1>1, <1>2, <1>4, Sizes DEF WireTypeOK
<1>7. \A b \in F : flash[b] = IF b \in a .. a + n - 1 /\ b < a + o
                              THEN record.data[b - a + 1] ELSE sent.flash[b]
  BY <1>1, <1>4 DEF ProgressInv
<1>8. \A i \in 1 .. 4 :
        Word[i] = IF o + i <= n THEN record.data[o + i] ELSE 255
  BY <1>4 DEF Word, le_word
<1>9. \A i \in 1 .. 4, k \in 0 .. 7 :
        Word[i] = 255 => Bit(flash[p + i - 1], k) = 1
  <2>1. \A k \in 0 .. 7 : Bit(255, k) = 1
    <3>1. /\ 2 ^ 0 = 1 /\ 2 ^ 1 = 2 /\ 2 ^ 2 = 4 /\ 2 ^ 3 = 8 /\ 2 ^ 4 = 16
          /\ 2 ^ 5 = 32 /\ 2 ^ 6 = 64 /\ 2 ^ 7 = 128
      BY SMT
    <3>2. /\ Bit(255, 0) = 1 /\ Bit(255, 1) = 1 /\ Bit(255, 2) = 1
          /\ Bit(255, 3) = 1 /\ Bit(255, 4) = 1 /\ Bit(255, 5) = 1
          /\ Bit(255, 6) = 1 /\ Bit(255, 7) = 1
      BY ONLY <3>1, SMT DEF Bit
    <3>3. \A k \in 0 .. 7 : \/ k = 0 \/ k = 1 \/ k = 2 \/ k = 3 \/ k = 4
                            \/ k = 5 \/ k = 6 \/ k = 7
      OBVIOUS
    <3> QED  BY ONLY <3>2, <3>3, Zenon
  <2>2. \A i \in 1 .. 4, k \in 0 .. 7 :
          Bit(Word[i], k) = 1 => Bit(flash[p + i - 1], k) = 1
    BY <1>1, <1>2 DEF ClearsOnly
  <2> QED  BY <2>1, <2>2
<1>10. ASSUME NEW b \in F
       PROVE  flash'[b] = IF b \in a .. a + n - 1 /\ b < a + (o + 4)
                          THEN record.data[b - a + 1] ELSE sent.flash[b]
  <2>1. CASE b \in p .. p + 3
    <3>1. PICK i \in 1 .. 4 : i = b - p + 1 /\ b = p + i - 1
                              /\ o + i = b - a + 1
      <4>1. b - p + 1 \in 1 .. 4 /\ b = p + (b - p + 1) - 1
            /\ o + (b - p + 1) = b - a + 1
        BY ONLY <1>3, <1>5, <1>6, <2>1, b \in F
      <4> QED  BY <4>1
    <3>2. flash'[b] = Word[i]  BY <1>6, <2>1, <3>1
    <3>3. CASE o + i <= n
      <4>1. b \in a .. a + n - 1 /\ b < a + (o + 4)
        BY ONLY <1>5, <1>6, <3>1, <3>3, i \in 1 .. 4, b \in F
      <4>2. Word[i] = record.data[b - a + 1]  BY <1>8, <3>1, <3>3
      <4> QED  BY <3>2, <4>1, <4>2
    <3>4. CASE ~(o + i <= n)
      <4>1. b \notin a .. a + n - 1
        BY ONLY <1>5, <1>6, <3>1, <3>4, i \in 1 .. 4, b \in F
      <4>2. Word[i] = 255  BY <1>8, <3>4
      <4>3. \A k \in 0 .. 7 : Bit(flash[b], k) = 1
        BY <1>9, <3>1, <4>2
      <4>4. flash[b] = 255
        <5>1. flash[b] \in Bytes  BY <1>6
        <5> QED  BY <4>3, <5>1, AllOnes
      <4>5. flash[b] = sent.flash[b]  BY <1>7, <4>1
      <4> QED  BY <3>2, <4>1, <4>2, <4>4, <4>5
    <3> QED  BY <3>3, <3>4
  <2>2. CASE b \notin p .. p + 3
    <3>1. flash'[b] = flash[b]  BY <1>6, <2>2
    <3>2. b < a + (o + 4) <=> b < a + o
      BY ONLY <1>3, <1>5, <1>6, <2>2, b \in F
    <3> QED  BY <1>7, <3>1, <3>2
  <2> QED  BY <2>1, <2>2
<1>11. \A b \in FLASH_BASE .. FLASH_END :
         LET c == record'.addr IN
         flash'[b] = IF b \in c .. c + Len(record'.data) - 1 /\ b < c + off'
                     THEN record'.data[b - c + 1] ELSE sent'.flash[b]
  BY <1>1, <1>4, <1>10
<1>12. IsRecord(sent'.msg, record'.data) /\ record'.addr = sent'.msg.addr
       /\ sent'.flash \in [FLASH_BASE .. FLASH_END -> Bytes]
  BY <1>1 DEF ProgressInv
<1> QED  BY <1>11, <1>12 DEF ProgressInv

(* The loop begins with the record the line was meant to be.               *)
LEMMA ProgressStarts ==
  ASSUME CodeWidth, ShortTexts, WireTypeOK, ArrivedInv, ParseAccepts
  PROVE  ProgressInv'
<1>1. /\ pc = "ready" /\ Refusal(rx_buf, rx_len) = "none"
      /\ record' = Decoded(rx_buf) /\ off' = 0
      /\ flash' = flash /\ sent' = sent
  BY DEF ParseAccepts
<1>2. WellFormed(rx_buf, rx_len)  BY <1>1, RecordFormed
<1>3. Taken(sent.msg, sent.line, rx_buf)  BY <1>1, <1>2, ReadyTaken
<1>4. PICK data : /\ IsRecord(sent.msg, data)
                  /\ record'.addr = sent.msg.addr /\ record'.data = data
  BY <1>1, <1>3, TakenDecoded
<1>5. sent.flash = flash /\ flash \in [FLASH_BASE .. FLASH_END -> Bytes]
  BY <1>1 DEF ArrivedInv, WireTypeOK
<1>6. PICK a, o : a = record'.addr /\ o = off'  OBVIOUS
<1>7. a \in Nat /\ o = 0  BY <1>1, <1>4, <1>6 DEF IsRecord
<1>8. ASSUME NEW b, b \in a .. a + Len(record'.data) - 1  PROVE ~(b < a + o)
  <2>1. b \in Int /\ b >= a
    BY <1>8
  <2> QED  BY ONLY <1>7, <2>1
<1>9. \A b \in FLASH_BASE .. FLASH_END :
        flash'[b] = IF b \in a .. a + Len(record'.data) - 1 /\ b < a + o
                    THEN record'.data[b - a + 1] ELSE sent'.flash[b]
  BY <1>1, <1>5, <1>8
<1> QED  BY <1>1, <1>4, <1>5, <1>6, <1>9 DEF ProgressInv

(* ProgressInv is inductive with what is known before the loop.            *)
LEMMA ProgressInvHolds ==
  ASSUME CodeWidth, ShortTexts
  PROVE  /\ WireInit => ProgressInv
         /\ /\ WireTypeOK /\ ArrivedInv /\ ProgramInv /\ ProgressInv
            /\ [WireNext]_wireVars
            => ProgressInv'
<1>1. WireInit => ProgressInv  BY DEF WireInit, ProgressInv
<1>2. ASSUME WireTypeOK, ArrivedInv, ProgramInv, ProgressInv,
             [WireNext]_wireVars
      PROVE  ProgressInv'
  <2>1. CASE AskVersion \/ AskLine \/ Receive \/ ReceiveDamaged
    <3>1. pc' # "prog"
      BY <2>1 DEF AskVersion, AskLine, Receive, ReceiveDamaged, Store
    <3> QED  BY <3>1 DEF ProgressInv
  <2>2. CASE \/ ParseVersion \/ ParseTerminator \/ ParseRefuses
             \/ ProgramFails \/ Programmed
    <3>1. pc' # "prog"
      BY <2>2 DEF ParseVersion, ParseTerminator, ParseRefuses, ProgramFails,
                  Programmed, Consume
    <3> QED  BY <3>1 DEF ProgressInv
  <2>3. CASE ParseAccepts  BY <1>2, <2>3, ProgressStarts
  <2>4. CASE ProgramWord  BY <1>2, <2>4, WordProgresses
  <2>5. CASE UNCHANGED wireVars
    BY <1>2, <2>5 DEF wireVars, ProgressInv
  <2> QED  BY <1>2, <2>1, <2>2, <2>3, <2>4, <2>5 DEF WireNext
<1> QED  BY <1>1, <1>2

(* When the loop is done the flash is what the record says.                *)
LEMMA ProgressEnds ==
  ASSUME WireTypeOK, ProgressInv, pc = "prog", off >= Len(record.data)
  PROVE  flash = With(sent.flash, sent.msg)
<1>1. PICK a, n, o, F, m, f :
        /\ a = record.addr /\ n = Len(record.data) /\ o = off
        /\ F = FLASH_BASE .. FLASH_END /\ m = sent.msg /\ f = sent.flash
  OBVIOUS
<1>2. /\ a \in Nat /\ n \in Nat /\ o \in Nat /\ o >= n
      /\ flash \in [F -> Bytes] /\ f \in [F -> Bytes] /\ m.addr = a
  <2>1. a \in 0 .. Space - 1 /\ n \in Nat /\ o \in Nat
    BY <1>1, LenProperties DEF WireTypeOK
  <2>2. o >= n  BY <1>1
  <2> QED  BY <1>1, <2>1, <2>2, Sizes DEF WireTypeOK, ProgressInv
<1>3. ASSUME NEW b \in F
      PROVE  flash[b] = IF /\ m.kind = "rec"
                           /\ b \in m.addr .. m.addr + Len(m.data) - 1
                        THEN m.data[b - m.addr + 1] ELSE f[b]
  <2>1. b \in a .. a + n - 1 => b < a + o
    BY ONLY <1>2
  <2>2. flash[b] = IF b \in a .. a + n - 1
                   THEN record.data[b - a + 1] ELSE f[b]
    BY <1>1, <2>1 DEF ProgressInv
  <2>3. IsRecord(m, record.data)  BY <1>1 DEF ProgressInv
  <2>4. CASE m.kind = "rec"
    <3>1. record.data = m.data  BY <2>3, <2>4 DEF IsRecord
    <3> QED  BY <1>1, <1>2, <2>2, <2>4, <3>1
  <2>5. CASE m.kind # "rec"
    <3>1. record.data = <<>>  BY <2>3, <2>5 DEF IsRecord
    <3>2. n = 0  BY <1>1, <3>1
    <3>3. b \notin a .. a + n - 1  BY ONLY <1>2, <3>2
    <3> QED  BY <2>2, <2>5, <3>3
  <2> QED  BY <2>4, <2>5
<1>4. With(f, m) = [b \in F |->
                      IF /\ m.kind = "rec"
                         /\ b \in m.addr .. m.addr + Len(m.data) - 1
                      THEN m.data[b - m.addr + 1] ELSE f[b]]
  BY <1>2 DEF With
<1>5. flash = With(f, m)  BY <1>2, <1>3, <1>4
<1> QED  BY <1>1, <1>5

(* A record that is answered OK is in flash as it was meant, down to the   *)
(* last byte, and nothing else has changed: what the region check, the     *)
(* word loop and the padding of the last word together promise.            *)
THEOREM RecordsStored ==
  ASSUME CodeWidth, ShortTexts
  PROVE  WireSpec => []AcceptedIsStored
<1>1. WireInit => AcceptedIsStored  BY DEF WireInit, AcceptedIsStored
<1>2. ASSUME WireTypeOK, ProgressInv, AcceptedIsStored, [WireNext]_wireVars
      PROVE  AcceptedIsStored'
  <2>1. CASE \/ AskVersion \/ AskLine \/ Receive \/ ReceiveDamaged
             \/ ParseAccepts \/ ProgramWord
    <3>1. pc' # "idle"
      BY <2>1 DEF AskVersion, AskLine, Receive, ReceiveDamaged, Store,
                  ParseAccepts, ProgramWord
    <3> QED  BY <3>1 DEF AcceptedIsStored
  <2>2. CASE ParseVersion \/ ParseTerminator \/ ParseRefuses \/ ProgramFails
    <3>1. result' # "ok"
      BY <2>2, RefusalIs
      DEF ParseVersion, ParseTerminator, ParseRefuses, ProgramFails, Consume
    <3> QED  BY <3>1 DEF AcceptedIsStored
  <2>3. CASE Programmed
    <3>1. /\ pc = "prog" /\ off >= Len(record.data)
          /\ flash' = flash /\ sent' = sent
      BY <2>3 DEF Programmed, Consume
    <3>2. flash = With(sent.flash, sent.msg)  BY <1>2, <3>1, ProgressEnds
    <3> QED  BY <3>1, <3>2 DEF AcceptedIsStored
  <2>4. CASE UNCHANGED wireVars
    BY <1>2, <2>4 DEF wireVars, AcceptedIsStored
  <2> QED  BY <1>2, <2>1, <2>2, <2>3, <2>4 DEF WireNext
<1> DEFINE Inv == WireTypeOK /\ ArrivedInv /\ ProgramInv /\ ProgressInv
                  /\ AcceptedIsStored
<1>3. WireInit => ProgramInv  BY DEF WireInit, ProgramInv
<1>4. WireInit => Inv
  BY <1>1, <1>3, WireTypeOKHolds, ArrivedInvHolds, ProgressInvHolds
<1>5. Inv /\ [WireNext]_wireVars => Inv'
  BY <1>2, WireTypeOKHolds, ArrivedInvHolds, ProgramInvHolds,
     ProgressInvHolds
<1> QED  BY <1>4, <1>5, PTL DEF WireSpec

=============================================================================
