-------------------------- MODULE MCProvisioning --------------------------
(* Small instances of Provisioning for TLC.                                *)
EXTENDS Provisioning, TLC

\* One delivery of every kind the handlers tell apart; fields they ignore are
\* fixed.  "gold" is a tier the configuration does not allow.
Delivery(event, tier) ==
  [event |-> event, license |-> "lic", tier |-> tier, complete |-> TRUE]

EveryDelivery ==
  {Delivery("activated", "kmu"), Delivery("activated", "gold"),
   [Delivery("activated", "kmu") EXCEPT !.complete = FALSE],
   Delivery("expired", "kmu"), Delivery("deactivated", "kmu"),
   Delivery("tier_changed", "kmu"), Delivery("tier_changed", "solo"),
   Delivery("tier_changed", "gold"), Delivery("unsupported", "kmu")}

\* Those that reach the accounts table, for the larger instances.
ValidDeliveries ==
  {Delivery("activated", "kmu"), Delivery("expired", "kmu"),
   Delivery("deactivated", "kmu"), Delivery("tier_changed", "solo"),
   Delivery("tier_changed", "pro")}

Symmetry == Permutations(Requests)
=============================================================================
