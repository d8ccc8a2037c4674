----------------------------- MODULE LineFormat -----------------------------
(***************************************************************************)
(* What the characters of a line mean: the conversions of armbl.c, which   *)
(* read a line in rx_buf, and the encoders of host_check.c, which write    *)
(* one.                                                                    *)
(*                                                                         *)
(* Characters are one-character strings.  Addresses have AddrBytes bytes   *)
(* (4 in the code) and wrap around at the end of the address space.        *)
(***************************************************************************)
EXTENDS Integers, Sequences, SequencesExt

CONSTANTS
  AddrBytes,              (* Bytes of an address.                           *)
  LINE_MAX,               (* ARMBL_LINE_MAX                                 *)
  app_start_addr, app_end_addr        (* The region, both ends included.    *)

Space == 256 ^ AddrBytes

-----------------------------------------------------------------------------
(* Characters.                                                             *)

Dec == <<"0", "1", "2", "3", "4", "5", "6", "7", "8", "9">>
Hex == Dec \o <<"A", "B", "C", "D", "E", "F">>
LowerHex == Dec \o <<"a", "b", "c", "d", "e", "f">>

(* A character that is none of the protocol's.                             *)
Other == "?"

Char == ToSet(Hex) \cup ToSet(LowerHex) \cup {"S", "V", " ", Other}

IsDec(c) == c \in ToSet(Dec)
IsHex(c) == c \in ToSet(Hex) \cup ToSet(LowerHex)

Digit(c) == CHOOSE d \in 0 .. 9 : Dec[d + 1] = c

hex_nibble(c) == CHOOSE v \in 0 .. 15 : c \in {Hex[v + 1], LowerHex[v + 1]}

HexByte(b) == <<Hex[(b \div 16) + 1], Hex[(b % 16) + 1]>>

HexBytes(bytes) == FlattenSeq([i \in DOMAIN bytes |-> HexByte(bytes[i])])

(* Mutant: the digits are not reversed.                                    *)
u16_to_dec_Reversed(v) ==
  LET n == CHOOSE k \in 1 .. 5 : v < 10 ^ k /\ (k > 1 => v >= 10 ^ (k - 1))
  IN  [i \in 1 .. n |-> Dec[((v \div 10 ^ (i - 1)) % 10) + 1]]

u16_to_dec(v) ==
  LET n == CHOOSE k \in 1 .. 5 : v < 10 ^ k /\ (k > 1 => v >= 10 ^ (k - 1))
  IN  [i \in 1 .. n |-> Dec[((v \div 10 ^ (n - i)) % 10) + 1]]

Sum(bytes) == FoldLeft(LAMBDA s, b : s + b, 0, bytes)

(* uint8_t arithmetic.                                                     *)
Complement(sum) == 255 - (sum % 256)

-----------------------------------------------------------------------------
(* The application's side: srec_data, srec_terminator, a version line.     *)

AddrOf(bytes) == FoldLeft(LAMBDA a, b : 256 * a + b, 0, bytes)

BytesOf(addr) ==
  [i \in 1 .. AddrBytes |-> (addr \div 256 ^ (AddrBytes - i)) % 256]

SRecord(type, addr, data) ==
  LET body == <<AddrBytes + Len(data) + 1>> \o BytesOf(addr) \o data
  IN  <<"S", type>> \o HexBytes(body \o <<Complement(Sum(body))>>)

(* A number of a version line, of any size.                                *)
Decimal(v) == u16_to_dec(v)

Encode(m) ==
  CASE m.kind = "rec"  -> SRecord("3", m.addr, m.data)
    [] m.kind = "term" -> SRecord("7", m.addr, <<>>)
    [] m.kind = "ver"  -> <<"V", " ">> \o Decimal(m.arg[1]) \o <<" ">>
                            \o Decimal(m.arg[2])
    [] m.kind = "text" -> m.arg

-----------------------------------------------------------------------------
(* rx_buf as the parsers read it.  Behind the array lies rx_len, whose low *)
(* byte is no hexadecimal character when the parsers read that far.        *)

At(buf, i) == IF i <= LINE_MAX THEN buf[i] ELSE Other

IsByte(buf, i) == IsHex(At(buf, i)) /\ IsHex(At(buf, i + 1))

hex_byte(buf, i) == 16 * hex_nibble(At(buf, i)) + hex_nibble(At(buf, i + 1))

Count(buf) == hex_byte(buf, 3)

(* The byte k of what follows the count.                                   *)
IsPayload(buf, k) == IsByte(buf, 3 + 2 * k)
Payload(buf, k) == hex_byte(buf, 3 + 2 * k)

Payloads(buf, n) == [k \in 1 .. n |-> Payload(buf, k)]

(* Mutant: the checksum is not compared.                                   *)
SumHolds_Any(buf, n) == TRUE

SumHolds(buf, n) ==
  Complement(Count(buf) + Sum(Payloads(buf, n))) = Payload(buf, Count(buf))

(* Mutant: the length of the line is not compared with the count.          *)
LengthFits_Any(buf, len) == TRUE

LengthFits(buf, len) == 4 + 2 * Count(buf) = len

(* (uint8_t)(count - 1) is 255 when the count is zero.                     *)
check_terminator(buf, len) ==
  LET last == (Count(buf) - 1) % 256 IN
  /\ len >= 4
  /\ buf[1] = "S" /\ buf[2] \in {"7", "8", "9"}
  /\ IsByte(buf, 3)
  /\ LengthFits(buf, len)
  /\ \A k \in 1 .. last : IsPayload(buf, k)
  /\ IsPayload(buf, Count(buf))
  /\ SumHolds(buf, last)

(* Mutant: only the first byte is compared with the end of the region.     *)
InRegion_First(addr, n) ==
  /\ addr \in app_start_addr .. app_end_addr
  /\ addr % 4 = 0

(* The region check, on addresses that wrap around.                        *)
InRegion(addr, n) ==
  /\ addr \in app_start_addr .. Space - 1
  /\ (addr + n - 1) % Space <= app_end_addr
  /\ addr % 4 = 0

Decoded(buf) ==
  [addr |-> AddrOf(Payloads(buf, AddrBytes)),
   data |-> SubSeq(Payloads(buf, Count(buf) - 1), AddrBytes + 1,
                   Count(buf) - 1)]

(* The first check of parse_s3 that fails, or "none".                      *)
Refusal(buf, len) ==
  IF len < 2 + 2 + 2 * AddrBytes + 2 THEN "len"
  ELSE IF buf[1] # "S" \/ buf[2] # "3" THEN "addr"
  ELSE IF ~IsByte(buf, 3) THEN "hex"
  ELSE IF \/ ~LengthFits(buf, len) \/ Count(buf) < AddrBytes + 1
          \/ Count(buf) > LINE_MAX \div 2 THEN "len"
  ELSE IF \E k \in 1 .. Count(buf) : ~IsPayload(buf, k) THEN "hex"
  ELSE IF ~SumHolds(buf, Count(buf) - 1) THEN "csum"
  ELSE IF ~InRegion(Decoded(buf).addr, Len(Decoded(buf).data)) THEN "addr"
  ELSE "none"

(* Mutant: missing bytes are zero.                                         *)
le_word_Zero(data, o) ==
  [i \in 1 .. 4 |-> IF o + i <= Len(data) THEN data[o + i] ELSE 0]

(* The word that is programmed at data byte o: missing bytes are 0xFF.     *)
le_word(data, o) ==
  [i \in 1 .. 4 |-> IF o + i <= Len(data) THEN data[o + i] ELSE 255]

(* Where the digits from place i on end, and what they say.                *)
DigitsEnd(buf, len, i) ==
  CHOOSE j \in i - 1 .. len :
    /\ \A k \in i .. j : IsDec(buf[k])
    /\ j < len => ~IsDec(buf[j + 1])

Number(buf, i, j) ==
  FoldLeft(LAMBDA v, c : IF v > 255 THEN v ELSE 10 * v + Digit(c), 0,
           SubSeq(buf, i, j))

(* Mutant: a number that is too large is cut to eight bits.                *)
InByte_Cut(v) == TRUE

InByte(v) == v <= 255

(* The version reported in the line, or none.                              *)
VersionIn(buf, len) ==
  IF len < 5 \/ buf[1] # "V" \/ buf[2] # " " THEN {}
  ELSE LET major == DigitsEnd(buf, len, 3)
           minor == DigitsEnd(buf, len, major + 2)
           v == <<Number(buf, 3, major), Number(buf, major + 2, minor)>>
       IN  IF /\ major >= 3 /\ major < len /\ buf[major + 1] = " "
              /\ minor >= major + 2
              /\ InByte(v[1]) /\ InByte(v[2])
           THEN {<<v[1] % 256, v[2] % 256>>} ELSE {}

=============================================================================
