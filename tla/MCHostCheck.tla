---------------------------- MODULE MCHostCheck -----------------------------
(***************************************************************************)
(* The firmware of host_check.c: two records of four words, and the words  *)
(* for the version and the sentinel.                                       *)
(***************************************************************************)
EXTENDS HostCheck

HostAddr == 0 .. 9
HostPageOf == [a \in HostAddr |-> IF a < 8 THEN 0 ELSE 1]
HostMajorOf == [v \in Value |-> IF v = "erased" THEN 255 ELSE 0]
HostImage == << <<0, 1, 2, 3>>, <<4, 5, 6, 7>> >>
HostVersions == { <<0, 0>> }

=============================================================================
