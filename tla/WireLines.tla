------------------------------ MODULE WireLines ------------------------------
(***************************************************************************)
(* The exchange of lines character by character, which ArmblEngine takes   *)
(* as messages.  A request is printed by u16_to_dec, an answer is written  *)
(* by the encoders of host_check.c, damaged on the way at most at one      *)
(* character, stored in rx_buf over what earlier lines left there, and     *)
(* parsed by parse_version_line, check_terminator and parse_s3, which      *)
(* programs its words one by one into the flash of host_check.c.           *)
(***************************************************************************)
EXTENDS LineFormat

CONSTANTS
  FLASH_BASE, FLASH_END,  (* The flash, both ends included.                 *)
  Messages,               (* What the application means to send.            *)
  Numbers,                (* Line numbers that are asked for.               *)
  NoiseChars,             (* What a damaged character may turn into.        *)
  MaxLines,               (* Bound: lines exchanged.                        *)
  MaxNoise                (* Bound: lines damaged.                          *)

WordAddr == {a \in FLASH_BASE .. FLASH_END : a % 4 = 0}

ASSUME WireAssumption ==
  /\ AddrBytes \in Nat \ {0} /\ Space \in Nat
  /\ LINE_MAX \in Nat
  /\ app_start_addr \in Nat /\ app_end_addr \in Nat
  /\ FLASH_BASE \in Nat /\ FLASH_END \in Nat
  /\ FLASH_BASE % 4 = 0 /\ FLASH_END % 4 = 3
  /\ FLASH_END + LINE_MAX < Space
  /\ app_start_addr % 4 = 0 /\ app_end_addr % 4 = 3
  /\ FLASH_BASE <= app_start_addr /\ app_start_addr < app_end_addr
  /\ app_end_addr <= FLASH_END
  /\ MaxLines \in Nat /\ MaxNoise \in Nat

Bytes == 0 .. 255

(* The count of a record is a byte; a number of a version line has at most *)
(* five digits here.                                                       *)
ASSUME MessagesAssumption ==
  /\ Numbers \subseteq Nat /\ NoiseChars \subseteq Char
  /\ \A m \in Messages :
       \/ /\ m.kind = "rec" /\ m.addr \in 0 .. Space - 1
          /\ m.data \in Seq(Bytes) /\ AddrBytes + Len(m.data) + 1 <= 255
       \/ m.kind = "term" /\ m.addr \in 0 .. Space - 1
       \/ /\ m.kind = "ver" /\ m.arg \in Nat \X Nat
          /\ \A i \in 1 .. 2 : m.arg[i] < 10 ^ 5
       \/ m.kind = "text" /\ m.arg \in Seq(Char)

VARIABLES
  pc,             (* "idle", "asked" (a request is out), "ready" (a line is *)
                  (* in rx_buf), "prog" (inside parse_s3's word loop)       *)
  state,          (* WAIT_VER or WAIT_LINE                                  *)
  rx_buf, rx_len,
  requested_line,
  printed,        (* The characters of the number in the request.           *)
  record,         (* What parse_s3 decoded: addr and data.                  *)
  off,            (* Data bytes programmed.                                 *)
  flash,          (* The bytes of the flash.                                *)
  app_version,
  result,         (* "term", "ok", "version", "ignored" or parse_s3's error *)
  sent,           (* What was meant, the line that arrived, the flash then. *)
  lines_left, noise_left  (* Bounds.                                        *)

wireVars == <<pc, state, rx_buf, rx_len, requested_line, printed, record,
              off, flash, app_version, result, sent, lines_left, noise_left>>

-----------------------------------------------------------------------------
(* One character of l changed, lost or added, or a stray newline that      *)
(* leaves only its beginning or its end.                                   *)
OneError(l) ==
  {[l EXCEPT ![i] = c] : i \in DOMAIN l, c \in NoiseChars}
    \cup {RemoveAt(l, i) : i \in DOMAIN l}
    \cup {InsertAt(l, i, c) : i \in 1 .. Len(l) + 1, c \in NoiseChars}
    \cup Prefixes(l) \cup Suffixes(l)

-----------------------------------------------------------------------------
(* The flash of host_check.c.                                              *)

Bit(x, k) == (x \div 2 ^ k) % 2

(* The word at a is in the flash.                                          *)
InFlash(a) == FLASH_BASE <= a /\ a + 3 <= FLASH_END

(* Programming only clears bits.                                           *)
ClearsOnly(a, word) ==
  \A i \in 1 .. 4, k \in 0 .. 7 :
    Bit(word[i], k) = 1 => Bit(flash[a + i - 1], k) = 1

-----------------------------------------------------------------------------
NoRecord == [addr |-> 0, data |-> <<>>]
Nothing == [msg |-> [kind |-> "text", arg |-> <<>>], line |-> <<>>,
            flash |-> <<>>]

WireInit ==
  /\ pc = "idle" /\ state = "WAIT_VER"
  /\ rx_buf = [i \in 1 .. LINE_MAX |-> Other] /\ rx_len = 0
  /\ requested_line = 0 /\ printed = <<>>
  /\ record = NoRecord /\ off = 0
  /\ flash = [b \in FLASH_BASE .. FLASH_END |-> 255]
  /\ app_version = <<0, 0>> /\ result = "ignored" /\ sent = Nothing
  /\ lines_left = MaxLines /\ noise_left = MaxNoise

(* A request is sent: V?, or L? with its number cut to 16 bits.            *)
AskVersion ==
  /\ pc = "idle" /\ lines_left > 0
  /\ pc' = "asked" /\ state' = "WAIT_VER"
  /\ lines_left' = lines_left - 1
  /\ UNCHANGED <<rx_buf, rx_len, requested_line, printed, record, off, flash,
                 app_version, result, sent, noise_left>>

AskLine ==
  /\ pc = "idle" /\ lines_left > 0
  /\ pc' = "asked" /\ state' = "WAIT_LINE"
  /\ lines_left' = lines_left - 1
  /\ requested_line' \in Numbers
  /\ printed' = u16_to_dec(requested_line' % 65536)
  /\ UNCHANGED <<rx_buf, rx_len, record, off, flash, app_version, result,
                 sent, noise_left>>

(* Mutant: the newline is counted as well.                                 *)
StoredLen_Newline(l) == Len(l) + 1

StoredLen(l) == Len(l)

(* Line l, meant to be m, is stored by armbl_feed_byte.                    *)
Store(m, l) ==
  /\ pc = "asked"
  /\ Len(l) \in 1 .. LINE_MAX
  /\ pc' = "ready"
  /\ rx_buf' = [i \in 1 .. LINE_MAX |-> IF i <= Len(l) THEN l[i] ELSE rx_buf[i]]
  /\ rx_len' = StoredLen(l)
  /\ requested_line' = 0 /\ printed' = <<>>
  /\ sent' = [msg |-> m, line |-> l, flash |-> flash]
  /\ UNCHANGED <<state, record, off, flash, app_version, result, lines_left>>

Receive ==
  /\ \E m \in Messages : Store(m, Encode(m))
  /\ UNCHANGED noise_left

ReceiveDamaged ==
  /\ noise_left > 0
  /\ noise_left' = noise_left - 1
  /\ \E m \in Messages : \E l \in OneError(Encode(m)) : Store(m, l)

(* The line is consumed with outcome r; clear_rx leaves its bytes.         *)
Consume(r) ==
  /\ pc' = "idle" /\ rx_len' = 0
  /\ result' = r
  /\ record' = NoRecord /\ off' = 0
  /\ UNCHANGED <<state, rx_buf, requested_line, printed, sent, lines_left,
                 noise_left>>

ParseVersion ==
  /\ pc = "ready" /\ state = "WAIT_VER"
  /\ \/ \E v \in VersionIn(rx_buf, rx_len) :
          app_version' = v /\ Consume("version")
     \/ /\ VersionIn(rx_buf, rx_len) = {}
        /\ Consume("ignored")
        /\ UNCHANGED app_version
  /\ UNCHANGED flash

ParseTerminator ==
  /\ pc = "ready" /\ state = "WAIT_LINE"
  /\ check_terminator(rx_buf, rx_len)
  /\ Consume("term")
  /\ UNCHANGED <<flash, app_version>>

ParseRefuses ==
  /\ pc = "ready" /\ state = "WAIT_LINE"
  /\ ~check_terminator(rx_buf, rx_len)
  /\ Refusal(rx_buf, rx_len) # "none"
  /\ Consume(Refusal(rx_buf, rx_len))
  /\ UNCHANGED <<flash, app_version>>

ParseAccepts ==
  /\ pc = "ready" /\ state = "WAIT_LINE"
  /\ ~check_terminator(rx_buf, rx_len)
  /\ Refusal(rx_buf, rx_len) = "none"
  /\ pc' = "prog"
  /\ record' = Decoded(rx_buf)
  /\ off' = 0
  /\ UNCHANGED <<state, rx_buf, rx_len, requested_line, printed, flash,
                 app_version, result, sent, lines_left, noise_left>>

(* The address and the value of the next word.                             *)
Place == (record.addr + off) % Space
Word == le_word(record.data, off)

ProgramWord ==
  /\ pc = "prog" /\ off < Len(record.data)
  /\ InFlash(Place) /\ ClearsOnly(Place, Word)
  /\ flash' = [b \in DOMAIN flash |->
                 IF b \in Place .. Place + 3 THEN Word[b - Place + 1]
                 ELSE flash[b]]
  /\ off' = off + 4
  /\ UNCHANGED <<pc, state, rx_buf, rx_len, requested_line, printed, record,
                 app_version, result, sent, lines_left, noise_left>>

ProgramFails ==
  /\ pc = "prog" /\ off < Len(record.data)
  /\ ~(InFlash(Place) /\ ClearsOnly(Place, Word))
  /\ Consume("flash")
  /\ UNCHANGED <<flash, app_version>>

Programmed ==
  /\ pc = "prog" /\ off >= Len(record.data)
  /\ Consume("ok")
  /\ UNCHANGED <<flash, app_version>>

WireNext ==
  AskVersion \/ AskLine \/ Receive \/ ReceiveDamaged \/ ParseVersion
    \/ ParseTerminator \/ ParseRefuses \/ ParseAccepts \/ ProgramWord
    \/ ProgramFails \/ Programmed

WireSpec == WireInit /\ [][WireNext]_wireVars

-----------------------------------------------------------------------------
(* Properties.                                                             *)

WireTypeOK ==
  /\ pc \in {"idle", "asked", "ready", "prog"}
  /\ state \in {"WAIT_VER", "WAIT_LINE"}
  /\ rx_buf \in [1 .. LINE_MAX -> Char] /\ rx_len \in 0 .. LINE_MAX
  /\ record.addr \in 0 .. Space - 1
  /\ record.data \in Seq(Bytes)
  /\ off \in Nat
  /\ flash \in [FLASH_BASE .. FLASH_END -> Bytes]
  /\ app_version \in Bytes \X Bytes
  /\ lines_left \in 0 .. MaxLines /\ noise_left \in 0 .. MaxNoise

(* What flash f is once the data of m is in it.                            *)
With(f, m) ==
  [b \in DOMAIN f |->
     IF m.kind = "rec" /\ b \in m.addr .. m.addr + Len(m.data) - 1
     THEN m.data[b - m.addr + 1] ELSE f[b]]

(* A line that is answered OK left exactly its data in flash: every byte   *)
(* in its place and, next to a last word that is not full, nothing else    *)
(* changed (srec_data against parse_s3 and le_word).                       *)
AcceptedIsStored ==
  pc = "idle" /\ result = "ok" => flash = With(sent.flash, sent.msg)

(* No line changes a byte outside the region: neither one at its edge nor  *)
(* one whose last address wraps around to a small one and so passes the    *)
(* range check of parse_s3.                                                *)
RegionOnly ==
  [][\A b \in FLASH_BASE .. FLASH_END :
       b \notin app_start_addr .. app_end_addr => flash'[b] = flash[b]]_wireVars

Upper(c) == IF IsHex(c) THEN Hex[hex_nibble(c) + 1] ELSE c

(* A line damaged at one character is not accepted as a record or as a     *)
(* terminator, unless the damage is to the case of a digit or to the one   *)
(* character the checksum does not cover, the type of the record.          *)
OneErrorIsCaught ==
  pc = "idle" /\ result \in {"ok", "term"} =>
    /\ Len(sent.line) = Len(Encode(sent.msg))
    /\ \A i \in DOMAIN sent.line :
         i = 2 \/ Upper(sent.line[i]) = Encode(sent.msg)[i]

(* What is made of a line does not depend on what earlier lines left in    *)
(* rx_buf behind it, whatever count the line gives (check_terminator reads *)
(* on as far as the count says).                                           *)
StaleBytesIgnored ==
  LET clean == [i \in 1 .. LINE_MAX |->
                  IF i <= rx_len THEN rx_buf[i] ELSE Other]
      Outcome(buf) == <<VersionIn(buf, rx_len), check_terminator(buf, rx_len),
                        Refusal(buf, rx_len)>>
  IN  pc = "ready" => Outcome(rx_buf) = Outcome(clean)

(* A version line that arrives as it was sent reports the numbers it was   *)
(* sent with, and is ignored when they do not fit eight bits: 256 0 is not *)
(* taken for the 0 0 that asks for an upgrade (parse_version_line).        *)
VersionReadsBack ==
  pc = "idle" /\ sent.msg.kind = "ver" /\ sent.line = Encode(sent.msg) =>
    /\ result = "version" => app_version = sent.msg.arg
    /\ result = "ignored" => \E i \in 1 .. 2 : sent.msg.arg[i] > 255

(* The number an application reads in a request.                           *)
NumberRead == FoldLeft(LAMBDA v, c : 10 * v + Digit(c), 0, printed)

(* The number the application reads in a request has one to five digits    *)
(* and is the lowest 16 bits of the line the engine is at (u16_to_dec and  *)
(* the cast to uint16_t).  Up to line 65535 that is the line, as           *)
(* README.md, "Wire protocol", says; after it the engine asks for line 0.  *)
RequestReadsBack ==
  pc = "asked" /\ state = "WAIT_LINE" =>
    Len(printed) \in 1 .. 5 /\ NumberRead = requested_line % 65536

=============================================================================
