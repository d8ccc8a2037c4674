----------------------------- MODULE MCUpgrade ------------------------------
(***************************************************************************)
(* A region of four words on two pages, an image of two records (one of    *)
(* two words, one of a single word that is also the version word), and     *)
(* lines of two tokens.                                                    *)
(***************************************************************************)
EXTENDS ArmblUpgrade

MCAddr == 0 .. 3
MCPageOf == [a \in MCAddr |-> a \div 2]

(* The old image is version 1, the new one version 2.                      *)
MCMajorOf ==
  [v \in Value |-> CASE v = "erased" -> 255
                     [] v = "old" -> 1
                     [] v = "new" -> 2
                     [] OTHER -> 0]

MCImage == << <<0, 1>>, <<2>> >>

(* A stale major, the current one, and the request for an upgrade.         *)
MCVersions == { <<0, 0>>, <<1, 3>>, <<2, 0>> }
MCOneVersion == { <<0, 0>> }

MCEol == <<NL>>
MCCrLf == <<CR, NL>>

(* An image with its sentinel, one without, one whose sentinel was         *)
(* overwritten with zero, and an empty region.                             *)
OldWith(done) == [a \in MCAddr |-> IF a = DoneAddr THEN done ELSE "old"]
MCInstalled == {OldWith("set")}
MCOldFlash == {OldWith("set"), OldWith("erased"), OldWith("zero")}
MCAnyFlash == MCOldFlash \cup {[a \in MCAddr |-> "erased"]}

=============================================================================
