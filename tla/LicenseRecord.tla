---------------------------- MODULE LicenseRecord ----------------------------
(***************************************************************************)
(* What the license server is promised of a license: it is activated once, *)
(* expires or is deactivated but never returns to an earlier state, may    *)
(* change its tier, and its initial password leaves the provisioner at     *)
(* most once.  AccountState in accounts.rs names the states.               *)
(***************************************************************************)
EXTENDS Naturals

CONSTANTS Licenses, Tiers

VARIABLES
  status,    \* the lifecycle state of each license
  tier,      \* its tier, "none" before the activation
  passwords  \* how many times a password was handed out for it

vars == <<status, tier, passwords>>

Init ==
  /\ status = [l \in Licenses |-> "no_row"]
  /\ tier = [l \in Licenses |-> "none"]
  /\ passwords = [l \in Licenses |-> 0]

Activate(l, t) ==
  /\ status[l] = "no_row"
  /\ status' = [status EXCEPT ![l] = "active"]
  /\ tier' = [tier EXCEPT ![l] = t]
  /\ UNCHANGED passwords

HandOver(l) ==
  /\ status[l] # "no_row"
  /\ passwords[l] = 0
  /\ passwords' = [passwords EXCEPT ![l] = 1]
  /\ UNCHANGED <<status, tier>>

Expire(l) ==
  /\ status[l] = "active"
  /\ status' = [status EXCEPT ![l] = "read_only"]
  /\ UNCHANGED <<tier, passwords>>

Deactivate(l) ==
  /\ status[l] \in {"active", "read_only"}
  /\ status' = [status EXCEPT ![l] = "deactivated"]
  /\ UNCHANGED <<tier, passwords>>

ChangeTier(l, t) ==
  /\ status[l] # "no_row"
  /\ tier' = [tier EXCEPT ![l] = t]
  /\ UNCHANGED <<status, passwords>>

Next ==
  \E l \in Licenses :
    \/ HandOver(l) \/ Expire(l) \/ Deactivate(l)
    \/ \E t \in Tiers : Activate(l, t) \/ ChangeTier(l, t)

Spec == Init /\ [][Next]_vars
=============================================================================
