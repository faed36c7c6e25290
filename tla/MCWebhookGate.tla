---------------------------- MODULE MCWebhookGate ----------------------------
(* Instances of WebhookGate for TLC. *)
EXTENDS WebhookGate, TLC

CONSTANTS r1, r2, r3

\* Two signed requests and one whose signature does not verify, with r1's nonce.  r1 is
\* a skew ahead of the clock at first: as early as it can be.
Stamps == r1 :> 4 @@ r2 :> 6 @@ r3 :> 4
NonceEach == r1 :> "n1" @@ r2 :> "n2" @@ r3 :> "n1"

Symmetry == Permutations(Deliveries)
=============================================================================
