---------------------------- MODULE MCCapability ----------------------------
(* Instances of Capability for TLC. *)
EXTENDS Capability, TLC

CONSTANTS good, other, forged, late, never

\* A good token, one without the capability, a forged one with the jti of the first,
\* and two to expire after the year 9999: one that is soon too old, and one whose
\* last moment chrono does not have.
Jtis == forged :> "good" @@ good :> "good" @@ other :> "other" @@ late :> "late" @@ never :> "never"
Iats == late :> -4 @@ [t \in Tokens |-> 0]
Exps == late :> 8 @@ never :> 12 @@ [t \in Tokens |-> 2]

Symmetry == Permutations(Presentations)
=============================================================================
