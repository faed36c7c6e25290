-------------------------------- MODULE MCB2c --------------------------------
(* Instances of B2c for TLC. *)
EXTENDS B2c, TLC

CONSTANTS c1, c2, c3

\* Two creations compete for one invoice number; the third is not valid.
OneInvoice == c1 :> "2026-1" @@ c2 :> "2026-1" @@ c3 :> "2026-1"

Symmetry == Permutations(Redemptions)
=============================================================================
