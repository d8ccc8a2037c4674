---------------------------- MODULE ImageTransfer ----------------------------
(***************************************************************************)
(* What an upgrade promises to whoever sent the image: its records are     *)
(* taken in order, a record that was acknowledged stays stored, DONE comes *)
(* after the last one, and only a reset takes an acknowledgement back.     *)
(* How records are asked for, lost, repeated or refused is not said here.  *)
(***************************************************************************)
EXTENDS Naturals

CONSTANT Lines    (* Records of the image.                                  *)

VARIABLES
  phase,          (* "deciding", "transfer", "announced" (DONE was sent),   *)
                  (* "stuck", "running" (the application is)                *)
  acked,          (* Records acknowledged in this power cycle.              *)
  stored          (* Records all of whose words are in flash.               *)

transferVars == <<phase, acked, stored>>

TransferInit == phase = "deciding" /\ acked = 0 /\ stored \subseteq 1 .. Lines

(* The old contents go, and whatever records they happened to hold.        *)
Clear ==
  /\ phase = "deciding"
  /\ stored' \subseteq stored
  /\ UNCHANGED <<phase, acked>>

Begin ==
  /\ phase = "deciding" /\ acked = 0
  /\ phase' = "transfer"
  /\ UNCHANGED <<acked, stored>>

(* What an acknowledgement says stays true.                                *)
AckedStay == stored \cap 1 .. acked \subseteq stored'

(* A word is programmed, well or badly.  Records may share words, so it    *)
(* can complete more than one of them; it damages none that was            *)
(* acknowledged.                                                           *)
Store ==
  /\ phase = "transfer"
  /\ AckedStay /\ stored' \subseteq 1 .. Lines
  /\ UNCHANGED <<phase, acked>>

Acknowledge ==
  /\ phase = "transfer" /\ acked + 1 \in stored
  /\ acked' = acked + 1
  /\ UNCHANGED <<phase, stored>>

Announce ==
  /\ phase = "transfer" /\ acked = Lines /\ stored = 1 .. Lines
  /\ phase' = "announced"
  /\ UNCHANGED <<acked, stored>>

GiveUp ==
  /\ phase \in {"deciding", "transfer"}
  /\ phase' = "stuck"
  /\ \/ UNCHANGED stored
     \/ phase = "transfer" /\ AckedStay /\ stored' \subseteq 1 .. Lines
  /\ UNCHANGED acked

Start ==
  /\ phase \in {"deciding", "announced"}
  /\ phase' = "running"
  /\ UNCHANGED <<acked, stored>>

Restart ==
  /\ phase' = "deciding"
  /\ acked' = 0
  /\ UNCHANGED stored

TransferNext ==
  Clear \/ Begin \/ Store \/ Acknowledge \/ Announce \/ GiveUp \/ Start
    \/ Restart

TransferSpec == TransferInit /\ [][TransferNext]_transferVars

=============================================================================
