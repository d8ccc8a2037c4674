----------------------------- MODULE ArmblFlash -----------------------------
(***************************************************************************)
(* The application region of the flash, as the engine reaches it through   *)
(* the hooks flash_erase, flash_write and flash_read.                      *)
(*                                                                         *)
(* The region is a set of word addresses spread over pages.  What a word   *)
(* holds is abstracted to what the properties tell apart:                  *)
(*   "erased"  all ones, what an erase leaves                              *)
(*   "old"     a word of the image that was there before the upgrade       *)
(*   "new"     the word the image being downloaded has at this address     *)
(*   "bad"     a word that was written and does not read back as written   *)
(*   "set"     memmap.done_flag_value (only meaningful at DoneAddr)        *)
(*   "zero"    0x00000000 (the value default_decide compares flash_done to)*)
(* A word is "new" when it was written and reads back right, so that a     *)
(* word of the image that is all ones is not "new" before it was sent,     *)
(* although the erased flash already reads the same.                       *)
(***************************************************************************)
EXTENDS Integers, Sequences

CONSTANTS
  NPages,       (* Pages the erase hook clears to cover the region.         *)
  Addr,         (* Word addresses of the region.                            *)
  PageOf,       (* The page of each address.                                *)
  DoneAddr,     (* memmap.done_flag_addr                                    *)
  VersionAddr,  (* memmap.version_addr                                      *)
  MajorOf,      (* Lowest byte of each word value, read at VersionAddr.     *)
  Rewrite,      (* TRUE: the controller programs a word it already holds    *)
                (* (TM4C129, the host mock); FALSE: it reports an error for *)
                (* a half-word that is not erased, unless the half-word to  *)
                (* program is 0x0000 (STM32F0, STM32F1).                    *)
  Transparent,  (* The addresses where the image has a word that even those *)
                (* controllers program again over itself: each half of it   *)
                (* is 0x0000 or 0xFFFF.                                     *)
  HasLock       (* TRUE: the controller starts locked (STM32); FALSE: it    *)
                (* has no lock (TM4C129).                                   *)

Value == {"erased", "old", "new", "bad", "set", "zero"}

ASSUME FlashAssumption ==
  /\ NPages \in Nat \ {0}
  /\ PageOf \in [Addr -> 0 .. NPages - 1]
  /\ DoneAddr \in Addr
  /\ VersionAddr \in Addr
  /\ DoneAddr # VersionAddr
  /\ MajorOf \in [Value -> 0 .. 255]
  /\ MajorOf["erased"] = 255
  /\ Rewrite \in BOOLEAN
  /\ Transparent \subseteq Addr
  /\ HasLock \in BOOLEAN

VARIABLES
  flash,        (* Contents of the region.                                  *)
  unlocked      (* The controller accepts programming.                      *)

FlashTypeOK ==
  /\ flash \in [Addr -> Value]
  /\ unlocked \in BOOLEAN

-----------------------------------------------------------------------------
(* The page loop of hooks_flash_erase.                                     *)

(* Mutant: the loop runs while addr < end_addr and leaves the last page.   *)
LastPage_Short == NPages - 2

(* The last page of the closed range [start_addr, end_addr].               *)
LastPage == NPages - 1

ErasePage(p) ==
  flash' = [a \in Addr |-> IF PageOf[a] = p THEN "erased" ELSE flash[a]]

-----------------------------------------------------------------------------
(* hooks_flash_write.                                                      *)

(* The word at a may be programmed again over itself.                      *)
Repeats(a) == Rewrite \/ a \in Transparent

(* The controller may carry out the programming of v at a, and may report  *)
(* an error without a fault of its own.  An erased word it programs, over  *)
(* v it depends on v; over other contents, on the bits they have left.     *)
MayProgram(a, v) == unlocked /\ (flash[a] = v => Repeats(a))

MayRefuse(a, v) ==
  \/ ~unlocked
  \/ flash[a] # "erased" /\ ~(flash[a] = v /\ Repeats(a))

(* No bit at a can change when v is programmed there.                      *)
Inert(a, v) == ~unlocked \/ (~Rewrite /\ flash[a] = v)

(* What a may hold after an error was reported for v.  A word is           *)
(* programmed in two halves on STM32 and may time out while it completes.  *)
ContentsAfterError(a, v) ==
  IF Inert(a, v) THEN {flash[a]} ELSE {flash[a], v, "bad"}

Program(a, v) == flash' = [flash EXCEPT ![a] = v]

=============================================================================
