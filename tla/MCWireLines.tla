----------------------------- MODULE MCWireLines -----------------------------
(***************************************************************************)
(* An address space of two bytes: a bootloader of four words, a region of  *)
(* eight and one word of flash behind it.                                  *)
(***************************************************************************)
EXTENDS WireLines

Rec(a, d) == [kind |-> "rec", addr |-> a, data |-> d]

(* Two words of the region and one that is not full, a record below it,    *)
(* one across its end, one behind its end without data, one that is not    *)
(* aligned, and one whose second word wraps around to address 0.           *)
MCMessages ==
  { Rec(16, <<0, 16, 255, 32, 129, 64, 7, 8>>), Rec(24, <<170, 3, 0, 16, 90>>),
    Rec(12, <<0, 0, 0, 0>>), Rec(44, <<1, 2, 3, 4, 5>>), Rec(48, <<>>),
    Rec(18, <<1, 2, 3, 4>>), Rec(65532, <<1, 2, 3, 4, 5, 6, 7, 8>>),
    [kind |-> "term", addr |-> 16],
    [kind |-> "ver", arg |-> <<1, 12>>], [kind |-> "ver", arg |-> <<256, 0>>],
    [kind |-> "ver", arg |-> <<255, 255>>],
    [kind |-> "text", arg |-> <<"S", "7", "0", "0">>] }

(* Numbers of two, four and five digits, the last line that sixteen bits   *)
(* can name and the one after it.                                          *)
MCNumbers == {10, 4099, 65535, 65536}

(* Digits of both cases, the types of records, and characters of neither.  *)
MCNoiseChars == {"0", "3", "7", "9", "A", "F", "f", "S", " ", Other}

=============================================================================
