------------------------------- MODULE MCMute -------------------------------
(* Instances of Mute for TLC. *)
EXTENDS Mute, TLC

CONSTANTS alice, bob

\* A plain member and a moderator.
Levels == [u \in Users |-> IF u = alice THEN 50 ELSE 0]
=============================================================================
