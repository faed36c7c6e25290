------------------------------ MODULE AtomicLog ------------------------------
(***************************************************************************)
(* What AuditLog::append promises its callers: the entry of each append is *)
(* added to the end of the log in one step, once, or the append fails and  *)
(* leaves no trace.                                                        *)
(***************************************************************************)
EXTENDS Sequences

CONSTANT Appenders

VARIABLES
  entries,  \* the entries of the log, oldest first
  outcome   \* of each append

vars == <<entries, outcome>>

Init ==
  /\ entries = <<>>
  /\ outcome = [a \in Appenders |-> "pending"]

Add(a) ==
  /\ outcome[a] = "pending"
  /\ entries' = Append(entries, a)
  /\ outcome' = [outcome EXCEPT ![a] = "appended"]

GiveUp(a) ==
  /\ outcome[a] = "pending"
  /\ outcome' = [outcome EXCEPT ![a] = "failed"]
  /\ UNCHANGED entries

Next == \E a \in Appenders : Add(a) \/ GiveUp(a)

Spec == Init /\ [][Next]_vars
=============================================================================
