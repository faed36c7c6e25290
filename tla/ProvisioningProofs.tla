------------------------- MODULE ProvisioningProofs -------------------------
(***************************************************************************)
(* For any number of deliveries, licenses and tiers, any set of faults and *)
(* any number of handlers in flight: the safety properties of Provisioning.*)
(* For handlers one after the other: the refinement of LicenseRecord, and  *)
(* that topics follow tiers.                                               *)
(***************************************************************************)
EXTENDS Provisioning, FiniteSetTheorems, TLAPS

----------------------------------------------------------------------------
(* The inductive invariant: what holds of a request, by the statement its  *)
(* handler awaits, and what holds of a license with an account.            *)

CreatingSteps == {"register", "audit_account", "create_room", "audit_room", "insert",
                  "audit_completed"}
LifecycleSteps == {"lock", "audit_power", "mark_expired", "disable", "audit_disabled",
                   "mark_deactivated", "update_tier", "topic", "audit_topic",
                   "audit_processed", "reload"}
Locking == {"expired", "deactivated"}

\* Where a handler stands tells which event it handles ...
EventOfStep(r) ==
  /\ pc[r] \in CreatingSteps => Event(r) = "activated" /\ delivery[r].tier \in AllowedTiers
  /\ pc[r] \in {"audit_power", "mark_expired"} => Event(r) = "expired"
  /\ pc[r] \in {"disable", "audit_disabled", "mark_deactivated"} => Event(r) = "deactivated"
  /\ pc[r] = "lock" => Event(r) \in Locking
  /\ pc[r] \in {"update_tier", "topic", "audit_topic"}
       => Event(r) = "tier_changed" /\ delivery[r].tier \in AllowedTiers
  /\ pc[r] \in {"audit_processed", "reload"} => Event(r) \in LifecycleEvents

\* ... what an activation has created ...
Progress(r) ==
  /\ pc[r] \in CreatingSteps \ {"register"} => users[r] # "absent"
  /\ pc[r] \in {"audit_room", "insert", "audit_completed"} => room[r] # "absent"

\* ... what the handler has logged ...
Logged(r) ==
  /\ pc[r] \in Running \ {"audit_received"} => "webhook.received" \in log[r]
  /\ pc[r] \in {"create_room", "audit_room", "insert", "audit_completed"}
       => "account.created" \in log[r]
  /\ pc[r] \in {"insert", "audit_completed"} => "room.created" \in log[r]
  /\ pc[r] = "mark_expired" => "power_level.updated" \in log[r]
  /\ pc[r] = "mark_deactivated" => "account.deactivated" \in log[r]

\* ... that a lifecycle handler acts on the user of the account ...
OnTarget(r) ==
  pc[r] \in LifecycleSteps => /\ Exists(License(r))
                              /\ target[r] = accounts[License(r)].user

\* ... that a password goes out for the account it belongs to only ...
Owned(r) ==
  pc[r] = "audit_completed" \/ reply[r] = "created" =>
    Exists(License(r)) /\ accounts[License(r)].user = r

\* ... that the room stays closed from the lock of an expiry on ...
Locked(r) ==
  \/ pc[r] \in {"audit_power", "mark_expired"}
  \/ pc[r] \in {"audit_processed", "reload"} /\ Event(r) = "expired"
  \/ reply[r] = "processed" /\ Event(r) = "expired"
  => Exists(License(r)) /\ room[accounts[License(r)].user] = "locked"

\* ... and that the row stays out of state active once it was marked.
Marked(r) ==
  /\ pc[r] \in {"audit_processed", "reload"} \/ reply[r] = "processed"
  /\ Event(r) \in Locking
  => Exists(License(r)) /\ accounts[License(r)].state \in {"read_only", "deactivated"}

Consistent(r) ==
  /\ EventOfStep(r) /\ Progress(r) /\ Logged(r) /\ OnTarget(r)
  /\ Owned(r) /\ Locked(r) /\ Marked(r)

\* The activation that inserted an account has nothing left to create.
Settled(l) ==
  Exists(l) => pc[accounts[l].user] \in {"audit_completed", "done"}

\* Only a handler that gave up leaves a room creation behind.
LateRoom(c) ==
  c.op = "create_room" =>
    /\ pc[c.user] = "done"
    /\ \A l \in Licenses : accounts[l].user # c.user

\* What holds of a license.
Sound(l) ==
  /\ Settled(l) /\ LockedOut(l)
  /\ Exists(l) => Backed(l) /\ Traced(l)

IInv ==
  /\ TypeOK
  /\ \A r \in Requests : Consistent(r)
  /\ \A l \in Licenses : Sound(l)
  /\ \A c \in late : LateRoom(c)

----------------------------------------------------------------------------
(* Facts about typed rows and about what a step leaves alone.              *)

LEMMA RowTyped ==
  ASSUME TypeOK, NEW l \in Licenses
  PROVE  /\ Exists(l) => /\ accounts[l].user \in Requests
                         /\ accounts[l].state \in AccountStates
                         /\ accounts[l].tier \in AllowedTiers
         /\ ~Exists(l) => /\ accounts[l].state = "no_row"
                          /\ accounts[l].user = Nobody
         /\ Exists(l) <=> accounts[l].state # "no_row"
BY DEF TypeOK, Exists, Account, NoRow, AccountStates

LEMMA LicenseTyped ==
  ASSUME TypeOK, NEW r \in Requests
  PROVE  License(r) \in Licenses /\ Event(r) \in Events /\ delivery[r] \in Deliveries
BY DeliveriesAssumption DEF TypeOK, License, Event

\* A handler that does not move stays consistent.
LEMMA OthersConsistent ==
  ASSUME IInv, Grows, NEW s \in Requests,
         pc'[s] = pc[s], reply'[s] = reply[s], target'[s] = target[s]
  PROVE  Consistent(s)'
<1> /\ Consistent(s) /\ License(s) \in Licenses
    /\ Event(s)' = Event(s) /\ License(s)' = License(s)
  BY LicenseTyped DEF IInv, Grows, Event, License
<1>1. EventOfStep(s)'
  BY DEF Consistent, EventOfStep, Grows
<1>2. Progress(s)' /\ Logged(s)'
  BY DEF Consistent, Progress, Logged, Grows
<1>3. OnTarget(s)' /\ Owned(s)' /\ Locked(s)' /\ Marked(s)'
  BY DEF Consistent, OnTarget, Owned, Locked, Marked, Grows, Exists
<1> QED
  BY <1>1, <1>2, <1>3 DEF Consistent

\* A row that no step touches keeps what it had.
LEMMA RowKept ==
  ASSUME IInv, Grows, NEW l \in Licenses, accounts'[l] = accounts[l],
         Exists(l) => pc'[accounts[l].user] \in {"audit_completed", "done"}
  PROVE  Sound(l)'
<1> /\ TypeOK /\ Sound(l) /\ (Exists(l)' <=> Exists(l))
    /\ Exists(l) => accounts[l].user \in Requests
  BY RowTyped DEF IInv, Exists
<1>1. Settled(l)'
  BY DEF Settled
<1>2. Exists(l) => Backed(l)'
  BY DEF Sound, Backed, Grows, License, Event
<1>3. LockedOut(l)'
  BY RowTyped DEF Sound, LockedOut, Grows
<1>4. Exists(l) => Traced(l)'
  <2> SUFFICES ASSUME Exists(l) PROVE Traced(l)'
    OBVIOUS
  <2>1. Traced(l)
    BY DEF Sound
  <2>2. \A r \in Requests : License(r)' = License(r) /\ log[r] \subseteq log'[r]
    BY DEF Grows, License
  <2> QED
    BY <2>1, <2>2 DEF Traced, Grows
<1> QED
  BY <1>1, <1>2, <1>3, <1>4 DEF Sound

----------------------------------------------------------------------------
(* Every step of a handler changes pc, reply, target and log of its own    *)
(* request only.                                                           *)

Local(r) ==
  /\ delivery' = delivery
  /\ pc' \in [Requests -> Running \cup {"idle", "done"}]
  /\ reply' \in [Requests -> Replies]
  /\ target' \in [Requests -> Requests \cup {Nobody}]
  /\ log' \in [Requests -> SUBSET Entries]
  /\ \A s \in Requests : log[s] \subseteq log'[s]
  /\ \A s \in Requests \ {r} :
       pc'[s] = pc[s] /\ reply'[s] = reply[s] /\ target'[s] = target[s]
  /\ pc[r] # "done"
  /\ pc[r] = "audit_completed" => pc'[r] = "done"

\* A step of the handler of r that touches neither a row nor the homeserver,
\* and at most leaves a call of its own behind.
LEMMA QuietStep ==
  ASSUME IInv, NEW r \in Requests, Local(r), UNCHANGED <<table, homeserver>>,
         Consistent(r)',
         \A c \in late' \ late : c \in Calls /\ LateRoom(c)'
  PROVE  IInv' /\ Grows
<1>1. Grows
  BY DEF Local, Grows, table, homeserver, Exists
<1>2. TypeOK'
  BY DEF IInv, TypeOK, Local, table, homeserver
<1>3. \A s \in Requests : Consistent(s)'
  BY <1>1, OthersConsistent DEF Local
<1>4. \A l \in Licenses :
        Exists(l) => pc'[accounts[l].user] \in {"audit_completed", "done"}
  BY RowTyped DEF IInv, Sound, Settled, Local
<1>5. \A l \in Licenses : Sound(l)'
  BY <1>1, <1>4, RowKept DEF table
<1>6. \A c \in late' : LateRoom(c)'
  <2> SUFFICES ASSUME NEW c \in late PROVE LateRoom(c)'
    OBVIOUS
  <2>1. LateRoom(c) /\ c.user \in Requests
    BY DEF IInv, TypeOK, Calls
  <2> QED
    BY <2>1 DEF LateRoom, Local, table
<1> QED
  BY <1>1, <1>2, <1>3, <1>5, <1>6 DEF IInv

LEMMA QuietSteps ==
  ASSUME IInv, NEW r \in Requests
  PROVE  \/ Receive(r) \/ AuditReceived(r) \/ FindForActivation(r) \/ AuditAccount(r)
         \/ AuditRoom(r) \/ AuditCompleted(r) \/ FindForLifecycle(r) \/ AuditIdempotent(r)
         \/ AuditPower(r) \/ AuditDisabled(r) \/ AuditTopic(r) \/ AuditProcessed(r)
         \/ Reload(r) \/ InternalError(r)
         => IInv' /\ Grows
<1> TypeOK /\ Consistent(r) /\ License(r) \in Licenses /\ Event(r) \in Events
  BY LicenseTyped DEF IInv
<1> USE DEF Running, CallSteps, Operations, AuditSteps, RowSteps, Entries, Replies
<1>1. ASSUME Receive(r) PROVE IInv' /\ Grows
  <2>1. UNCHANGED <<table, homeserver, late>>
    BY <1>1 DEF Receive
  <2>2. Local(r)
    BY <1>1, RowTyped DEF Receive, GoTo, Answer, Append, Local, TypeOK
  <2>3. Consistent(r)'
    BY <1>1, RowTyped DEF Receive, GoTo, Answer, Append, TypeOK, Consistent, EventOfStep,
         Progress, Logged, OnTarget, Owned, Locked, Marked, CreatingSteps, LifecycleSteps,
         LifecycleEvents, Locking, Event, License, Exists, table, homeserver, InTargetState,
         ActivationValid
  <2> QED
    BY <2>1, <2>2, <2>3, QuietStep
<1>2. ASSUME AuditReceived(r) PROVE IInv' /\ Grows
  <2>1. UNCHANGED <<table, homeserver, late>>
    BY <1>2 DEF AuditReceived
  <2>2. Local(r)
    BY <1>2, RowTyped DEF AuditReceived, GoTo, Answer, Append, Local, TypeOK
  <2>3. Consistent(r)'
    BY <1>2, RowTyped DEF AuditReceived, GoTo, Answer, Append, TypeOK, Consistent,
         EventOfStep, Progress, Logged, OnTarget, Owned, Locked, Marked, CreatingSteps,
         LifecycleSteps, LifecycleEvents, Locking, Event, License, Exists, table, homeserver,
         InTargetState, ActivationValid
  <2> QED
    BY <2>1, <2>2, <2>3, QuietStep
<1>3. ASSUME FindForActivation(r) PROVE IInv' /\ Grows
  <2>1. UNCHANGED <<table, homeserver, late>>
    BY <1>3 DEF FindForActivation
  <2>2. Local(r)
    BY <1>3, RowTyped DEF FindForActivation, GoTo, Answer, Append, Local, TypeOK
  <2>3. Consistent(r)'
    BY <1>3, RowTyped DEF FindForActivation, GoTo, Answer, Append, TypeOK, Consistent,
         EventOfStep, Progress, Logged, OnTarget, Owned, Locked, Marked, CreatingSteps,
         LifecycleSteps, LifecycleEvents, Locking, Event, License, Exists, table, homeserver,
         InTargetState, ActivationValid
  <2> QED
    BY <2>1, <2>2, <2>3, QuietStep
<1>4. ASSUME AuditAccount(r) PROVE IInv' /\ Grows
  <2>1. UNCHANGED <<table, homeserver, late>>
    BY <1>4 DEF AuditAccount
  <2>2. Local(r)
    BY <1>4, RowTyped DEF AuditAccount, GoTo, Answer, Append, Local, TypeOK
  <2>3. Consistent(r)'
    BY <1>4, RowTyped DEF AuditAccount, GoTo, Answer, Append, TypeOK, Consistent,
         EventOfStep, Progress, Logged, OnTarget, Owned, Locked, Marked, CreatingSteps,
         LifecycleSteps, LifecycleEvents, Locking, Event, License, Exists, table, homeserver,
         InTargetState, ActivationValid
  <2> QED
    BY <2>1, <2>2, <2>3, QuietStep
<1>5. ASSUME AuditRoom(r) PROVE IInv' /\ Grows
  <2>1. UNCHANGED <<table, homeserver, late>>
    BY <1>5 DEF AuditRoom
  <2>2. Local(r)
    BY <1>5, RowTyped DEF AuditRoom, GoTo, Answer, Append, Local, TypeOK
  <2>3. Consistent(r)'
    BY <1>5, RowTyped DEF AuditRoom, GoTo, Answer, Append, TypeOK, Consistent,
         EventOfStep, Progress, Logged, OnTarget, Owned, Locked, Marked, CreatingSteps,
         LifecycleSteps, LifecycleEvents, Locking, Event, License, Exists, table, homeserver,
         InTargetState, ActivationValid
  <2> QED
    BY <2>1, <2>2, <2>3, QuietStep
<1>6. ASSUME AuditCompleted(r) PROVE IInv' /\ Grows
  <2>1. UNCHANGED <<table, homeserver, late>>
    BY <1>6 DEF AuditCompleted
  <2>2. Local(r)
    BY <1>6, RowTyped DEF AuditCompleted, GoTo, Answer, Append, Local, TypeOK
  <2>3. Consistent(r)'
    BY <1>6, RowTyped DEF AuditCompleted, GoTo, Answer, Append, TypeOK, Consistent,
         EventOfStep, Progress, Logged, OnTarget, Owned, Locked, Marked, CreatingSteps,
         LifecycleSteps, LifecycleEvents, Locking, Event, License, Exists, table, homeserver,
         InTargetState, ActivationValid
  <2> QED
    BY <2>1, <2>2, <2>3, QuietStep
<1>7. ASSUME FindForLifecycle(r) PROVE IInv' /\ Grows
  <2>1. UNCHANGED <<table, homeserver, late>>
    BY <1>7 DEF FindForLifecycle
  <2>2. Local(r)
    BY <1>7, RowTyped DEF FindForLifecycle, GoTo, Answer, Append, Local, TypeOK
  <2>3. Consistent(r)'
    BY <1>7, RowTyped DEF FindForLifecycle, GoTo, Answer, Append, TypeOK, Consistent,
         EventOfStep, Progress, Logged, OnTarget, Owned, Locked, Marked, CreatingSteps,
         LifecycleSteps, LifecycleEvents, Locking, Event, License, Exists, table, homeserver,
         InTargetState, ActivationValid
  <2> QED
    BY <2>1, <2>2, <2>3, QuietStep
<1>8. ASSUME AuditIdempotent(r) PROVE IInv' /\ Grows
  <2>1. UNCHANGED <<table, homeserver, late>>
    BY <1>8 DEF AuditIdempotent
  <2>2. Local(r)
    BY <1>8, RowTyped DEF AuditIdempotent, GoTo, Answer, Append, Local, TypeOK
  <2>3. Consistent(r)'
    BY <1>8, RowTyped DEF AuditIdempotent, GoTo, Answer, Append, TypeOK, Consistent,
         EventOfStep, Progress, Logged, OnTarget, Owned, Locked, Marked, CreatingSteps,
         LifecycleSteps, LifecycleEvents, Locking, Event, License, Exists, table, homeserver,
         InTargetState, ActivationValid
  <2> QED
    BY <2>1, <2>2, <2>3, QuietStep
<1>9. ASSUME AuditPower(r) PROVE IInv' /\ Grows
  <2>1. UNCHANGED <<table, homeserver, late>>
    BY <1>9 DEF AuditPower
  <2>2. Local(r)
    BY <1>9, RowTyped DEF AuditPower, GoTo, Answer, Append, Local, TypeOK
  <2>3. Consistent(r)'
    BY <1>9, RowTyped DEF AuditPower, GoTo, Answer, Append, TypeOK, Consistent,
         EventOfStep, Progress, Logged, OnTarget, Owned, Locked, Marked, CreatingSteps,
         LifecycleSteps, LifecycleEvents, Locking, Event, License, Exists, table, homeserver,
         InTargetState, ActivationValid
  <2> QED
    BY <2>1, <2>2, <2>3, QuietStep
<1>10. ASSUME AuditDisabled(r) PROVE IInv' /\ Grows
  <2>1. UNCHANGED <<table, homeserver, late>>
    BY <1>10 DEF AuditDisabled
  <2>2. Local(r)
    BY <1>10, RowTyped DEF AuditDisabled, GoTo, Answer, Append, Local, TypeOK
  <2>3. Consistent(r)'
    BY <1>10, RowTyped DEF AuditDisabled, GoTo, Answer, Append, TypeOK, Consistent,
         EventOfStep, Progress, Logged, OnTarget, Owned, Locked, Marked, CreatingSteps,
         LifecycleSteps, LifecycleEvents, Locking, Event, License, Exists, table, homeserver,
         InTargetState, ActivationValid
  <2> QED
    BY <2>1, <2>2, <2>3, QuietStep
<1>11. ASSUME AuditTopic(r) PROVE IInv' /\ Grows
  <2>1. UNCHANGED <<table, homeserver, late>>
    BY <1>11 DEF AuditTopic
  <2>2. Local(r)
    BY <1>11, RowTyped DEF AuditTopic, GoTo, Answer, Append, Local, TypeOK
  <2>3. Consistent(r)'
    BY <1>11, RowTyped DEF AuditTopic, GoTo, Answer, Append, TypeOK, Consistent,
         EventOfStep, Progress, Logged, OnTarget, Owned, Locked, Marked, CreatingSteps,
         LifecycleSteps, LifecycleEvents, Locking, Event, License, Exists, table, homeserver,
         InTargetState, ActivationValid
  <2> QED
    BY <2>1, <2>2, <2>3, QuietStep
<1>12. ASSUME AuditProcessed(r) PROVE IInv' /\ Grows
  <2>1. UNCHANGED <<table, homeserver, late>>
    BY <1>12 DEF AuditProcessed
  <2>2. Local(r)
    BY <1>12, RowTyped DEF AuditProcessed, GoTo, Answer, Append, Local, TypeOK
  <2>3. Consistent(r)'
    BY <1>12, RowTyped DEF AuditProcessed, GoTo, Answer, Append, TypeOK, Consistent,
         EventOfStep, Progress, Logged, OnTarget, Owned, Locked, Marked, CreatingSteps,
         LifecycleSteps, LifecycleEvents, Locking, Event, License, Exists, table, homeserver,
         InTargetState, ActivationValid
  <2> QED
    BY <2>1, <2>2, <2>3, QuietStep
<1>13. ASSUME Reload(r) PROVE IInv' /\ Grows
  <2>1. UNCHANGED <<table, homeserver, late>>
    BY <1>13 DEF Reload
  <2>2. Local(r)
    BY <1>13, RowTyped DEF Reload, GoTo, Answer, Append, Local, TypeOK
  <2>3. Consistent(r)'
    BY <1>13, RowTyped DEF Reload, GoTo, Answer, Append, TypeOK, Consistent, EventOfStep,
         Progress, Logged, OnTarget, Owned, Locked, Marked, CreatingSteps, LifecycleSteps,
         LifecycleEvents, Locking, Event, License, Exists, table, homeserver, InTargetState,
         ActivationValid
  <2> QED
    BY <2>1, <2>2, <2>3, QuietStep
<1>14. ASSUME InternalError(r) PROVE IInv' /\ Grows
  <2>1. UNCHANGED <<table, homeserver, late>>
    BY <1>14 DEF InternalError
  <2>2. Local(r)
    BY <1>14, RowTyped DEF InternalError, GoTo, Answer, Append, Local, TypeOK
  <2>3. Consistent(r)'
    BY <1>14, RowTyped DEF InternalError, GoTo, Answer, Append, TypeOK, Consistent,
         EventOfStep, Progress, Logged, OnTarget, Owned, Locked, Marked, CreatingSteps,
         LifecycleSteps, LifecycleEvents, Locking, Event, License, Exists, table, homeserver,
         InTargetState, ActivationValid
  <2> QED
    BY <2>1, <2>2, <2>3, QuietStep
<1> QED BY <1>1, <1>2, <1>3, <1>4, <1>5, <1>6, <1>7, <1>8, <1>9, <1>10, <1>11, <1>12,
     <1>13, <1>14

LEMMA CallTyped ==
  ASSUME IInv, NEW r \in Requests, pc[r] \in CallSteps
  PROVE  /\ CallOf(r) \in Calls
         /\ CallOf(r).op = pc[r]
         /\ pc[r] \in {"register", "create_room"} => CallOf(r).user = r
         /\ pc[r] \in {"lock", "disable", "topic"} =>
               Exists(License(r)) /\ CallOf(r).user = accounts[License(r)].user
<1> TypeOK /\ Consistent(r) /\ License(r) \in Licenses
  BY LicenseTyped DEF IInv
<1>1. SlaForTier(delivery[r].tier) \in Slas
  BY DEF SlaForTier, Slas
<1>2. pc[r] \in {"lock", "disable", "topic"} =>
        /\ Exists(License(r)) /\ target[r] = accounts[License(r)].user
        /\ target[r] \in Requests
  BY RowTyped DEF Consistent, OnTarget, LifecycleSteps
<1> QED
  BY <1>1, <1>2 DEF CallOf, Calls, CallSteps, Operations

LEMMA FaultSteps ==
  ASSUME IInv, NEW r \in Requests
  PROVE  GatewayError(r) \/ CallIgnored(r) \/ Abort(r) => IInv' /\ Grows
<1> TypeOK /\ Consistent(r) /\ License(r) \in Licenses /\ Event(r) \in Events
  BY LicenseTyped DEF IInv
<1> USE DEF Running, CallSteps, Operations, AuditSteps, RowSteps, Entries, Replies
<1>1. ASSUME GatewayError(r) PROVE IInv' /\ Grows
  <2>1. Local(r) /\ UNCHANGED <<table, homeserver>>
    BY <1>1 DEF GatewayError, Unanswered, FatalCall, AfterCall, AfterLock, GoTo, Answer,
         Local, TypeOK
  <2>2. Consistent(r)'
    BY <1>1 DEF GatewayError, Unanswered, FatalCall, AfterCall, AfterLock, GoTo, Answer,
         TypeOK, Consistent, EventOfStep, Progress, Logged, OnTarget, Owned, Locked, Marked,
         CreatingSteps, LifecycleSteps, LifecycleEvents, Locking, Event, License, Exists,
         table, homeserver
  <2>3. ASSUME NEW c \in late' \ late PROVE c \in Calls /\ LateRoom(c)'
    <3>1. pc[r] \in CallSteps /\ c = CallOf(r) /\ c \in Calls
      BY <1>1, CallTyped DEF GatewayError, Unanswered, FatalCall
    <3>2. c.op = "create_room" =>
            c.user = r /\ pc'[r] = "done" /\ \A l \in Licenses : accounts'[l].user # r
      BY <1>1, <2>1, <3>1, CallTyped, RowTyped, NobodyAssumption DEF GatewayError,
           FatalCall, Answer, TypeOK, IInv, Sound, Settled, table
    <3> QED
      BY <3>1, <3>2 DEF LateRoom
  <2> QED
    BY <2>1, <2>2, <2>3, QuietStep
<1>2. ASSUME CallIgnored(r) PROVE IInv' /\ Grows
  <2>1. Local(r) /\ UNCHANGED <<table, homeserver>>
    BY <1>2 DEF CallIgnored, Unanswered, FatalCall, AfterCall, AfterLock, GoTo, Answer,
         Local, TypeOK
  <2>2. Consistent(r)'
    BY <1>2 DEF CallIgnored, Unanswered, FatalCall, AfterCall, AfterLock, GoTo, Answer,
         TypeOK, Consistent, EventOfStep, Progress, Logged, OnTarget, Owned, Locked, Marked,
         CreatingSteps, LifecycleSteps, LifecycleEvents, Locking, Event, License, Exists,
         table, homeserver
  <2>3. ASSUME NEW c \in late' \ late PROVE c \in Calls /\ LateRoom(c)'
    <3>1. pc[r] \in CallSteps /\ c = CallOf(r) /\ c \in Calls
      BY <1>2, CallTyped DEF CallIgnored, Unanswered, FatalCall
    <3>2. c.op = "create_room" =>
            c.user = r /\ pc'[r] = "done" /\ \A l \in Licenses : accounts'[l].user # r
      BY <1>2, <2>1, <3>1, CallTyped, RowTyped, NobodyAssumption DEF CallIgnored,
           FatalCall, Answer, TypeOK, IInv, Sound, Settled, table
    <3> QED
      BY <3>1, <3>2 DEF LateRoom
  <2> QED
    BY <2>1, <2>2, <2>3, QuietStep
<1>3. ASSUME Abort(r) PROVE IInv' /\ Grows
  <2>1. Local(r) /\ UNCHANGED <<table, homeserver>>
    BY <1>3 DEF Abort, Unanswered, FatalCall, AfterCall, AfterLock, GoTo, Answer, Local,
         TypeOK
  <2>2. Consistent(r)'
    BY <1>3 DEF Abort, Unanswered, FatalCall, AfterCall, AfterLock, GoTo, Answer, TypeOK,
         Consistent, EventOfStep, Progress, Logged, OnTarget, Owned, Locked, Marked,
         CreatingSteps, LifecycleSteps, LifecycleEvents, Locking, Event, License, Exists,
         table, homeserver
  <2>3. ASSUME NEW c \in late' \ late PROVE c \in Calls /\ LateRoom(c)'
    <3>1. pc[r] \in CallSteps /\ c = CallOf(r) /\ c \in Calls
      BY <1>3, CallTyped DEF Abort, Unanswered, FatalCall
    <3>2. c.op = "create_room" =>
            c.user = r /\ pc'[r] = "done" /\ \A l \in Licenses : accounts'[l].user # r
      BY <1>3, <2>1, <3>1, CallTyped, RowTyped, NobodyAssumption DEF Abort, FatalCall,
           Answer, TypeOK, IInv, Sound, Settled, table
    <3> QED
      BY <3>1, <3>2 DEF LateRoom
  <2> QED
    BY <2>1, <2>2, <2>3, QuietStep
<1> QED BY <1>1, <1>2, <1>3

LEMMA PerformGrows ==
  ASSUME IInv, NEW c \in Calls, Perform(c), UNCHANGED <<delivery, table>>,
         c.op = "create_room" => \A l \in Licenses : accounts[l].user # c.user,
         \A s \in Requests : log[s] \subseteq log'[s]
  PROVE  /\ Grows
         /\ users' \in [Requests -> {"absent", "enabled", "disabled"}]
         /\ room' \in [Requests -> {"absent", "open", "locked"}]
         /\ topic' \in [Requests -> Slas]
<1> TypeOK /\ c.user \in Requests /\ c.op \in Operations /\ c.sla \in Slas
  BY DEF IInv, Calls
<1>1. users' \in [Requests -> {"absent", "enabled", "disabled"}]
      /\ \A s \in Requests : users[s] # "absent" => users'[s] # "absent"
  BY DEF TypeOK, Perform, Operations
<1>2. room' \in [Requests -> {"absent", "open", "locked"}]
      /\ \A s \in Requests : room[s] # "absent" => room'[s] # "absent"
  BY DEF TypeOK, Perform, Operations
<1>3. topic' \in [Requests -> Slas]
  BY DEF TypeOK, Perform
<1>4. ASSUME NEW s \in Requests, room[s] = "locked", c.op = "create_room" => c.user # s
      PROVE  room'[s] = "locked"
  BY <1>4 DEF TypeOK, Perform, Operations
<1> QED
  BY <1>1, <1>2, <1>3, <1>4, RowTyped DEF Grows, Exists, table

\* A step that performs a call of the handler of r.
LEMMA CallStep ==
  ASSUME IInv, NEW r \in Requests, Local(r), pc[r] \in CallSteps, Perform(CallOf(r)),
         UNCHANGED <<table, late>>, Consistent(r)'
  PROVE  IInv' /\ Grows
<1> TypeOK /\ CallOf(r) \in Calls
  BY CallTyped DEF IInv
<1>1. \A l \in Licenses : Exists(l) => pc[accounts[l].user] \in {"audit_completed", "done"}
  BY DEF IInv, Sound, Settled
<1>2. CallOf(r).op = "create_room" => \A l \in Licenses : accounts[l].user # CallOf(r).user
  BY <1>1, CallTyped, RowTyped, NobodyAssumption DEF CallSteps, Operations
<1>3. Grows /\ TypeOK'
  BY <1>2, PerformGrows DEF Local, TypeOK, table
<1>4. \A s \in Requests : Consistent(s)'
  BY <1>3, OthersConsistent DEF Local
<1>5. \A l \in Licenses :
        Exists(l) => pc'[accounts[l].user] \in {"audit_completed", "done"}
  BY <1>1, RowTyped DEF Local
<1>6. \A l \in Licenses : Sound(l)'
  BY <1>3, <1>5, RowKept DEF table
<1>7. \A c \in late' : LateRoom(c)'
  <2> SUFFICES ASSUME NEW c \in late PROVE LateRoom(c)'
    OBVIOUS
  <2>1. LateRoom(c) /\ c.user \in Requests
    BY DEF IInv, TypeOK, Calls
  <2> QED
    BY <2>1 DEF LateRoom, Local, table
<1> QED
  BY <1>3, <1>4, <1>6, <1>7 DEF IInv

LEMMA CallingSteps ==
  ASSUME IInv, NEW r \in Requests
  PROVE  RegisterUser(r) \/ CreateRoom(r) \/ LockRoom(r) \/ DisableUser(r) \/ UpdateTopic(r)
         => IInv' /\ Grows
<1> TypeOK /\ Consistent(r) /\ License(r) \in Licenses /\ Event(r) \in Events
  BY LicenseTyped DEF IInv
<1> USE DEF Running, CallSteps, Operations, AuditSteps, RowSteps, Entries, Replies
<1>1. ASSUME RegisterUser(r) PROVE IInv' /\ Grows
  <2>1. Local(r) /\ pc[r] \in CallSteps
    BY <1>1 DEF RegisterUser, AfterLock, GoTo, Local, TypeOK
  <2>2. Consistent(r)'
    BY <1>1, CallTyped, RowTyped DEF RegisterUser, AfterLock, GoTo, Perform, TypeOK,
         Consistent, EventOfStep, Progress, Logged, OnTarget, Owned, Locked, Marked,
         CreatingSteps, LifecycleSteps, LifecycleEvents, Locking, Event, License, Exists, table
  <2> QED
    BY <1>1, <2>1, <2>2, CallStep DEF RegisterUser
<1>2. ASSUME CreateRoom(r) PROVE IInv' /\ Grows
  <2>1. Local(r) /\ pc[r] \in CallSteps
    BY <1>2 DEF CreateRoom, AfterLock, GoTo, Local, TypeOK
  <2>2. Consistent(r)'
    BY <1>2, CallTyped, RowTyped DEF CreateRoom, AfterLock, GoTo, Perform, TypeOK,
         Consistent, EventOfStep, Progress, Logged, OnTarget, Owned, Locked, Marked,
         CreatingSteps, LifecycleSteps, LifecycleEvents, Locking, Event, License, Exists, table
  <2> QED
    BY <1>2, <2>1, <2>2, CallStep DEF CreateRoom
<1>3. ASSUME LockRoom(r) PROVE IInv' /\ Grows
  <2>1. Local(r) /\ pc[r] \in CallSteps
    BY <1>3 DEF LockRoom, AfterLock, GoTo, Local, TypeOK
  <2>2. Consistent(r)'
    BY <1>3, CallTyped, RowTyped DEF LockRoom, AfterLock, GoTo, Perform, TypeOK,
         Consistent, EventOfStep, Progress, Logged, OnTarget, Owned, Locked, Marked,
         CreatingSteps, LifecycleSteps, LifecycleEvents, Locking, Event, License, Exists, table
  <2> QED
    BY <1>3, <2>1, <2>2, CallStep DEF LockRoom
<1>4. ASSUME DisableUser(r) PROVE IInv' /\ Grows
  <2>1. Local(r) /\ pc[r] \in CallSteps
    BY <1>4 DEF DisableUser, AfterLock, GoTo, Local, TypeOK
  <2>2. Consistent(r)'
    BY <1>4, CallTyped, RowTyped DEF DisableUser, AfterLock, GoTo, Perform, TypeOK,
         Consistent, EventOfStep, Progress, Logged, OnTarget, Owned, Locked, Marked,
         CreatingSteps, LifecycleSteps, LifecycleEvents, Locking, Event, License, Exists, table
  <2> QED
    BY <1>4, <2>1, <2>2, CallStep DEF DisableUser
<1>5. ASSUME UpdateTopic(r) PROVE IInv' /\ Grows
  <2>1. Local(r) /\ pc[r] \in CallSteps
    BY <1>5 DEF UpdateTopic, AfterLock, GoTo, Local, TypeOK
  <2>2. Consistent(r)'
    BY <1>5, CallTyped, RowTyped DEF UpdateTopic, AfterLock, GoTo, Perform, TypeOK,
         Consistent, EventOfStep, Progress, Logged, OnTarget, Owned, Locked, Marked,
         CreatingSteps, LifecycleSteps, LifecycleEvents, Locking, Event, License, Exists, table
  <2> QED
    BY <1>5, <2>1, <2>2, CallStep DEF UpdateTopic
<1> QED BY <1>1, <1>2, <1>3, <1>4, <1>5

LEMMA LateStep ==
  ASSUME IInv, NEW c \in late, LateCall(c)
  PROVE  IInv' /\ Grows
<1> TypeOK /\ c \in Calls /\ LateRoom(c) /\ c.user \in Requests
  BY DEF IInv, TypeOK, Calls
<1>1. Grows /\ TypeOK'
  BY PerformGrows DEF LateCall, LateRoom, TypeOK, table
<1>2. \A s \in Requests : Consistent(s)'
  BY <1>1, OthersConsistent DEF LateCall
<1>3. \A l \in Licenses : Sound(l)'
  BY <1>1, RowKept DEF LateCall, table, IInv, Sound, Settled
<1>4. \A d \in late' : LateRoom(d)'
  BY DEF IInv, LateRoom, LateCall, table
<1> QED
  BY <1>1, <1>2, <1>3, <1>4 DEF IInv

\* A step that writes the row of the license l of r.
LEMMA RowStep ==
  ASSUME IInv, NEW r \in Requests, NEW l \in Licenses, Local(r),
         UNCHANGED homeserver, late' = late,
         accounts' \in [Licenses -> Account \cup {NoRow}],
         \A m \in Licenses \ {l} : accounts'[m] = accounts[m],
         accounts'[l].user = r \/ accounts'[l].user = accounts[l].user,
         pc[r] # "audit_completed", Grows, Consistent(r)', Sound(l)'
  PROVE  IInv' /\ Grows
<1> TypeOK
  BY DEF IInv
<1>1. TypeOK'
  BY DEF TypeOK, Local, homeserver
<1>2. \A s \in Requests : Consistent(s)'
  BY OthersConsistent DEF Local
<1>3. ASSUME NEW m \in Licenses \ {l} PROVE Sound(m)'
  <2>1. Exists(m) => pc'[accounts[m].user] \in {"audit_completed", "done"}
    BY RowTyped DEF IInv, Sound, Settled, Local
  <2> QED
    BY <2>1, RowKept
<1>4. ASSUME NEW c \in late PROVE LateRoom(c)'
  <2>1. LateRoom(c) /\ c.user \in Requests
    BY DEF IInv, TypeOK, Calls
  <2>2. c.op = "create_room" => c.user # r
    BY <2>1 DEF LateRoom, Local
  <2> QED
    BY <2>1, <2>2 DEF LateRoom, Local
<1> QED
  BY <1>1, <1>2, <1>3, <1>4 DEF IInv

\* The UPDATE statements of accounts.rs on an existing row.
LEMMA StateUpdated ==
  ASSUME TypeOK, NEW l \in Licenses, Exists(l), NEW v \in AccountStates,
         accounts' = [accounts EXCEPT ![l].state = v]
  PROVE  /\ accounts' \in [Licenses -> Account \cup {NoRow}]
         /\ \A m \in Licenses \ {l} : accounts'[m] = accounts[m]
         /\ accounts'[l] = [state |-> v, user |-> accounts[l].user,
                          tier |-> accounts[l].tier]
         /\ Exists(l)'
<1>1. accounts[l] \in Account /\ accounts \in [Licenses -> Account \cup {NoRow}]
  BY DEF TypeOK, Exists
<1>2. accounts'[l] = [state |-> v, user |-> accounts[l].user, tier |-> accounts[l].tier]
  BY <1>1 DEF Account
<1>3. accounts'[l] \in Account
  BY <1>1, <1>2 DEF Account
<1>4. Exists(l)'
  BY <1>2 DEF Exists, NoRow, AccountStates
<1> QED
  BY <1>1, <1>2, <1>3, <1>4

LEMMA TierUpdated ==
  ASSUME TypeOK, NEW l \in Licenses, Exists(l), NEW v \in AllowedTiers,
         accounts' = [accounts EXCEPT ![l].tier = v]
  PROVE  /\ accounts' \in [Licenses -> Account \cup {NoRow}]
         /\ \A m \in Licenses \ {l} : accounts'[m] = accounts[m]
         /\ accounts'[l] = [state |-> accounts[l].state, user |-> accounts[l].user,
                          tier |-> v]
         /\ Exists(l)'
<1>1. accounts[l] \in Account /\ accounts \in [Licenses -> Account \cup {NoRow}]
  BY DEF TypeOK, Exists
<1>2. accounts'[l] = [state |-> accounts[l].state, user |-> accounts[l].user, tier |-> v]
  BY <1>1 DEF Account
<1>3. accounts'[l] \in Account
  BY <1>1, <1>2 DEF Account
<1>4. Exists(l)'
  BY <1>1, <1>2 DEF Exists, NoRow, Account, AccountStates
<1> QED
  BY <1>1, <1>2, <1>3, <1>4

LEMMA MarkExpiredStep ==
  ASSUME IInv, NEW r \in Requests, MarkExpired(r) PROVE IInv' /\ Grows
<1> PICK l \in Licenses : l = License(r)
  BY LicenseTyped DEF IInv
<1> /\ TypeOK /\ Consistent(r) /\ Sound(l)
    /\ pc[r] = "mark_expired" /\ Event(r) = "expired"
    /\ Exists(l) /\ accounts[l].user \in Requests
    /\ room[accounts[l].user] = "locked" /\ "power_level.updated" \in log[r]
  BY RowTyped DEF MarkExpired, GoTo, IInv, Consistent, EventOfStep, OnTarget,
       LifecycleSteps,
       Locked, Logged, Running, RowSteps
<1>1. Local(r) /\ UNCHANGED homeserver /\ late' = late /\ log' = log
  BY DEF MarkExpired, GoTo, Local, TypeOK, Running, AuditSteps, CallSteps, Operations
<1>2. /\ accounts' \in [Licenses -> Account \cup {NoRow}]
      /\ \A m \in Licenses \ {l} : accounts'[m] = accounts[m]
      /\ accounts'[l] = [state |-> "read_only", user |-> accounts[l].user,
                          tier |-> accounts[l].tier]
      /\ Exists(l)'
  BY StateUpdated DEF MarkExpired, AccountStates
<1>3. Grows
  BY <1>1, <1>2 DEF Local, Grows, homeserver, Exists
<1>4. Consistent(r)'
  <2>1. EventOfStep(r)' /\ Progress(r)' /\ Logged(r)'
    BY <1>1 DEF MarkExpired, GoTo, TypeOK, EventOfStep, Progress, Logged, Consistent,
         CreatingSteps, LifecycleEvents, Event, Running, CallSteps, Operations, AuditSteps, RowSteps
  <2>2. OnTarget(r)' /\ Owned(r)' /\ Locked(r)' /\ Marked(r)'
    BY <1>1, <1>2 DEF MarkExpired, GoTo, TypeOK, OnTarget, Owned, Locked, Marked,
         Consistent, LifecycleSteps, License, Event, homeserver
  <2> QED
    BY <2>1, <2>2 DEF Consistent
<1>5. Sound(l)'
  <2>1. Settled(l)'
    BY <1>1, <1>2 DEF Sound, Settled, Local
  <2>2. LockedOut(l)' /\ Backed(l)'
    BY <1>1, <1>2 DEF Sound, LockedOut, Backed, homeserver, MarkExpired, GoTo, License,
         Event
  <2>3. Traced(l)'
    BY <1>1, <1>2 DEF Sound, Traced, Local, License
  <2> QED
    BY <2>1, <2>2, <2>3 DEF Sound
<1> QED
  BY <1>1, <1>2, <1>3, <1>4, <1>5, RowStep

LEMMA MarkDeactivatedStep ==
  ASSUME IInv, NEW r \in Requests, MarkDeactivated(r) PROVE IInv' /\ Grows
<1> PICK l \in Licenses : l = License(r)
  BY LicenseTyped DEF IInv
<1> /\ TypeOK /\ Consistent(r) /\ Sound(l)
    /\ pc[r] = "mark_deactivated" /\ Event(r) = "deactivated"
    /\ Exists(l) /\ accounts[l].user \in Requests
    /\ "account.deactivated" \in log[r]
  BY RowTyped DEF MarkDeactivated, GoTo, IInv, Consistent, EventOfStep, OnTarget,
       LifecycleSteps,
       Locked, Logged, Running, RowSteps
<1>1. Local(r) /\ UNCHANGED homeserver /\ late' = late /\ log' = log
  BY DEF MarkDeactivated, GoTo, Local, TypeOK, Running, AuditSteps, CallSteps, Operations
<1>2. /\ accounts' \in [Licenses -> Account \cup {NoRow}]
      /\ \A m \in Licenses \ {l} : accounts'[m] = accounts[m]
      /\ accounts'[l] = [state |-> "deactivated", user |-> accounts[l].user,
                          tier |-> accounts[l].tier]
      /\ Exists(l)'
  BY StateUpdated DEF MarkDeactivated, AccountStates
<1>3. Grows
  BY <1>1, <1>2 DEF Local, Grows, homeserver, Exists
<1>4. Consistent(r)'
  <2>1. EventOfStep(r)' /\ Progress(r)' /\ Logged(r)'
    BY <1>1 DEF MarkDeactivated, GoTo, TypeOK, EventOfStep, Progress, Logged, Consistent,
         CreatingSteps, LifecycleEvents, Event, Running, CallSteps, Operations, AuditSteps, RowSteps
  <2>2. OnTarget(r)' /\ Owned(r)' /\ Locked(r)' /\ Marked(r)'
    BY <1>1, <1>2 DEF MarkDeactivated, GoTo, TypeOK, OnTarget, Owned, Locked, Marked,
         Consistent, LifecycleSteps, License, Event, homeserver
  <2> QED
    BY <2>1, <2>2 DEF Consistent
<1>5. Sound(l)'
  <2>1. Settled(l)'
    BY <1>1, <1>2 DEF Sound, Settled, Local
  <2>2. LockedOut(l)' /\ Backed(l)'
    BY <1>1, <1>2 DEF Sound, LockedOut, Backed, homeserver, MarkDeactivated, GoTo,
         License, Event
  <2>3. Traced(l)'
    BY <1>1, <1>2 DEF Sound, Traced, Local, License
  <2> QED
    BY <2>1, <2>2, <2>3 DEF Sound
<1> QED
  BY <1>1, <1>2, <1>3, <1>4, <1>5, RowStep

LEMMA UpdateTierStep ==
  ASSUME IInv, NEW r \in Requests, UpdateTier(r) PROVE IInv' /\ Grows
<1> PICK l \in Licenses : l = License(r)
  BY LicenseTyped DEF IInv
<1> /\ TypeOK /\ Consistent(r) /\ Sound(l)
    /\ pc[r] = "update_tier" /\ Event(r) = "tier_changed"
    /\ Exists(l) /\ accounts[l].user \in Requests
    /\ delivery[r].tier \in AllowedTiers /\ "webhook.received" \in log[r]
  BY RowTyped DEF UpdateTier, GoTo, IInv, Consistent, EventOfStep, OnTarget, LifecycleSteps,
       Locked, Logged, Running, RowSteps
<1>1. Local(r) /\ UNCHANGED homeserver /\ late' = late /\ log' = log
  BY DEF UpdateTier, GoTo, Local, TypeOK, Running, AuditSteps, CallSteps, Operations
<1>2. /\ accounts' \in [Licenses -> Account \cup {NoRow}]
      /\ \A m \in Licenses \ {l} : accounts'[m] = accounts[m]
      /\ accounts'[l] = [state |-> accounts[l].state, user |-> accounts[l].user,
                          tier |-> delivery[r].tier]
      /\ Exists(l)'
  BY TierUpdated DEF UpdateTier
<1>3. Grows
  BY <1>1, <1>2 DEF Local, Grows, homeserver, Exists
<1>4. Consistent(r)'
  <2>1. EventOfStep(r)' /\ Progress(r)' /\ Logged(r)'
    BY <1>1 DEF UpdateTier, GoTo, TypeOK, EventOfStep, Progress, Logged, Consistent,
         CreatingSteps, LifecycleEvents, Event, Running, CallSteps, Operations, AuditSteps, RowSteps
  <2>2. OnTarget(r)' /\ Owned(r)' /\ Locked(r)' /\ Marked(r)'
    BY <1>1, <1>2 DEF UpdateTier, GoTo, TypeOK, OnTarget, Owned, Locked, Marked,
         Consistent, LifecycleSteps, License, Event, homeserver
  <2> QED
    BY <2>1, <2>2 DEF Consistent
<1>5. Sound(l)'
  <2>1. Settled(l)'
    BY <1>1, <1>2 DEF Sound, Settled, Local
  <2>2. LockedOut(l)' /\ Backed(l)'
    BY <1>1, <1>2 DEF Sound, LockedOut, Backed, homeserver, UpdateTier, GoTo, License, Event
  <2>3. Traced(l)'
    BY <1>1, <1>2 DEF Sound, Traced, Local, License
  <2> QED
    BY <2>1, <2>2, <2>3 DEF Sound
<1> QED
  BY <1>1, <1>2, <1>3, <1>4, <1>5, RowStep

LEMMA InsertAccountStep ==
  ASSUME IInv, NEW r \in Requests, InsertAccount(r) PROVE IInv' /\ Grows
<1> PICK l \in Licenses : l = License(r)
  BY LicenseTyped DEF IInv
<1> /\ TypeOK /\ Consistent(r) /\ pc[r] = "insert"
    /\ Event(r) = "activated" /\ delivery[r].tier \in AllowedTiers
    /\ users[r] # "absent" /\ room[r] # "absent"
    /\ {"account.created", "room.created"} \subseteq log[r]
  BY DEF InsertAccount, GoTo, IInv, Consistent, EventOfStep, CreatingSteps, Progress, Logged
<1>1. Local(r) /\ UNCHANGED homeserver /\ late' = late /\ log' = log /\ target' = target
  BY DEF InsertAccount, GoTo, Answer, Local, TypeOK, Running, AuditSteps, RowSteps, Replies
<1>2. CASE Exists(l)
  <2>1. UNCHANGED table
    BY <1>2 DEF InsertAccount
  <2>2. Consistent(r)'
    BY <1>1, <1>2, <2>1 DEF InsertAccount, Answer, TypeOK, Consistent, EventOfStep,
         Progress, Logged,
         OnTarget, Owned, Locked, Marked, CreatingSteps, LifecycleSteps, Event, License, Exists,
         table, homeserver, Running, CallSteps, Operations, AuditSteps, RowSteps
  <2> QED
    BY <1>1, <2>1, <2>2, QuietStep
<1>3. CASE ~Exists(l)
  <2>1. /\ accounts' \in [Licenses -> Account \cup {NoRow}]
        /\ \A m \in Licenses \ {l} : accounts'[m] = accounts[m]
        /\ accounts'[l] = [state |-> "active", user |-> r, tier |-> delivery[r].tier]
        /\ Exists(l)'
    BY <1>3 DEF InsertAccount, TypeOK, Account, AccountStates, Exists, NoRow
  <2>2. Grows
    BY <1>1, <1>3, <2>1 DEF Local, Grows, homeserver, Exists
  <2>3. Consistent(r)'
    <3>1. EventOfStep(r)' /\ Progress(r)' /\ Logged(r)'
      BY <1>1, <1>3 DEF InsertAccount, GoTo, TypeOK, EventOfStep, Progress, Logged,
           Consistent,
           CreatingSteps, Event, homeserver, Running, CallSteps, Operations, AuditSteps, RowSteps
    <3>2. OnTarget(r)' /\ Owned(r)' /\ Locked(r)' /\ Marked(r)'
      BY <1>1, <1>3, <2>1 DEF InsertAccount, GoTo, TypeOK, OnTarget, Owned, Locked, Marked,
           Consistent, LifecycleSteps, License, Event
    <3> QED
      BY <3>1, <3>2 DEF Consistent
  <2>4. Sound(l)'
    <3>1. Settled(l)'
      BY <1>3, <2>1 DEF InsertAccount, GoTo, TypeOK, Settled
    <3>2. LockedOut(l)' /\ Backed(l)' /\ Traced(l)'
      BY <1>1, <2>1 DEF LockedOut, Backed, Traced, homeserver, Local, License, Event
    <3> QED
      BY <3>1, <3>2 DEF Sound
  <2> QED
    BY <1>1, <2>1, <2>2, <2>3, <2>4, RowStep
<1> QED
  BY <1>2, <1>3

----------------------------------------------------------------------------
(* The invariant holds initially and every step keeps it.                  *)

LEMMA InitInv == Init => IInv
<1> SUFFICES ASSUME Init PROVE IInv
  OBVIOUS
<1>1. TypeOK
  BY DEF Init, TypeOK, Replies, Slas, Calls
<1>2. ASSUME NEW r \in Requests PROVE Consistent(r)
  BY DEF Init, Consistent, EventOfStep, Progress, Logged, OnTarget, Owned, Locked, Marked,
       CreatingSteps, LifecycleSteps, Running, CallSteps, Operations, AuditSteps, RowSteps
<1>3. ASSUME NEW l \in Licenses PROVE Sound(l)
  BY DEF Init, Sound, Settled, LockedOut, Exists, NoRow
<1> QED
  BY <1>1, <1>2, <1>3 DEF IInv, Init

LEMMA NextInv == IInv /\ [Next]_vars => IInv' /\ Grows
<1> SUFFICES ASSUME IInv, [Next]_vars PROVE IInv' /\ Grows
  OBVIOUS
<1>1. ASSUME NEW r \in Requests,
             Receive(r) \/ AuditReceived(r) \/ Activation(r) \/ Lifecycle(r) \/ Fault(r)
      PROVE  IInv' /\ Grows
  BY <1>1, QuietSteps, FaultSteps, CallingSteps, InsertAccountStep, MarkExpiredStep,
     MarkDeactivatedStep, UpdateTierStep DEF Activation, Lifecycle, Fault
<1>2. ASSUME NEW c \in late, LateCall(c) PROVE IInv' /\ Grows
  BY <1>2, LateStep
<1>3. CASE UNCHANGED vars
  BY <1>3 DEF vars, IInv, TypeOK, Consistent, EventOfStep, Progress, Logged, OnTarget,
       Owned,
       Locked, Marked, Sound, Settled, LockedOut, Backed, Traced, LateRoom, Event,
       License, Exists, Grows
<1> QED
  BY <1>1, <1>2, <1>3 DEF Next

\* The inductive invariant holds in every reachable state.
THEOREM Invariance == Spec => []IInv
<1> QED
  BY InitInv, NextInv, PTL DEF Spec

----------------------------------------------------------------------------
(* The properties.                                                         *)

\* Every variable keeps its type: in particular a handler always has an
\* account when it calls the homeserver about one.
THEOREM TypeCorrect == Spec => []TypeOK
<1>1. IInv => TypeOK
  BY DEF IInv
<1> QED
  BY <1>1, Invariance, PTL

\* Every account has its user, its room and both audit entries.
THEOREM AccountsBacked == Spec => []AccountBacked
<1>1. IInv => AccountBacked
  BY DEF IInv, Sound, AccountBacked
<1> QED
  BY <1>1, Invariance, PTL

\* The customer of a read-only license cannot write in its support room.
THEOREM ReadOnlyIsLockedOut == Spec => []ReadOnlyLockedOut
<1>1. IInv => ReadOnlyLockedOut
  BY DEF IInv, Sound, ReadOnlyLockedOut
<1> QED
  BY <1>1, Invariance, PTL

\* What an answer "processed" claims stays true.
THEOREM ProcessedIsEnforced == Spec => []ProcessedMeansEnforced
<1>1. IInv => ProcessedMeansEnforced
  BY DEF IInv, Consistent, Locked, Marked, Locking, ProcessedMeansEnforced
<1> QED
  BY <1>1, Invariance, PTL

\* A password that leaves the provisioner opens the account of its license.
THEOREM PasswordsOpenAccounts == Spec => []PasswordOpensAccount
<1>1. ASSUME IInv, NEW r \in Requests, reply[r] = "created"
      PROVE  accounts[License(r)].user = r /\ users[r] # "absent"
  <2>1. Exists(License(r)) /\ accounts[License(r)].user = r
    BY <1>1 DEF IInv, Consistent, Owned
  <2>2. License(r) \in Licenses
    BY <1>1, LicenseTyped DEF IInv
  <2> QED
    BY <1>1, <2>1, <2>2 DEF IInv, Sound, Backed
<1>2. IInv => PasswordOpensAccount
  BY <1>1 DEF PasswordOpensAccount
<1> QED
  BY <1>2, Invariance, PTL

\* No state and no tier of an account comes out of nowhere.
THEOREM ChangesAreTraced == Spec => []ChangesTraced
<1>1. IInv => ChangesTraced
  BY DEF IInv, Sound, ChangesTraced
<1> QED
  BY <1>1, Invariance, PTL

\* No step reopens a locked room, gives a license another user, returns it to
\* active or takes an audit entry back.
THEOREM NothingIsTakenBack == Spec => NothingTakenBack
<1>1. IInv /\ [Next]_vars => [Grows]_vars
  BY NextInv
<1> QED
  BY <1>1, Invariance, PTL DEF Spec, NothingTakenBack

----------------------------------------------------------------------------
(* Refinement of LicenseRecord.                                            *)

\* A request that has been answered is done.
Answered(r) == reply[r] # "none" => pc[r] = "done"

AllAnswered == \A r \in Requests : Answered(r)

\* The one step that no life of a license has: an expiry that read the account
\* before a deactivation marked it marks it in its turn.
RollsBack(r) == MarkExpired(r) /\ accounts[License(r)].state = "deactivated"

\* What the life of a license shows does not change.
Unseen ==
  /\ accounts' = accounts /\ delivery' = delivery
  /\ \A s \in Requests : reply'[s] = "created" <=> reply[s] = "created"

LEMMA UnseenStutters == ASSUME Unseen PROVE UNCHANGED Record!vars
<1>1. \A l \in Licenses : Created(l)' = Created(l)
  BY DEF Unseen, Created, License
<1> QED
  BY <1>1 DEF Unseen, Record!vars

\* A step of a handler is one of a request in flight, and its own only.
LEMMA HandlerStep ==
  ASSUME TypeOK, NEW r \in Requests,
         AuditReceived(r) \/ Activation(r) \/ Lifecycle(r) \/ Fault(r)
  PROVE  /\ pc[r] \in Running /\ delivery' = delivery
         /\ \A s \in Requests \ {r} : pc'[s] = pc[s] /\ reply'[s] = reply[s]
         /\ reply'[r] = reply[r] \/ pc'[r] = "done"
<1> USE DEF TypeOK, GoTo, Answer, Running, CallSteps, Operations, AuditSteps, RowSteps
<1>1. CASE AuditReceived(r)
  BY <1>1 DEF AuditReceived
<1>2. CASE Activation(r)
  BY <1>2 DEF Activation, FindForActivation, RegisterUser, AuditAccount, CreateRoom, AuditRoom,
     InsertAccount, AuditCompleted
<1>3. CASE Lifecycle(r)
  BY <1>3 DEF Lifecycle, FindForLifecycle, AuditIdempotent, LockRoom, AuditPower, MarkExpired,
     DisableUser, AuditDisabled, MarkDeactivated, UpdateTier, UpdateTopic, AuditTopic,
     AuditProcessed, Reload
<1>4. CASE Fault(r)
  BY <1>4 DEF Fault, InternalError, GatewayError, CallIgnored, Abort, FatalCall, AfterCall
<1> QED
  BY <1>1, <1>2, <1>3, <1>4

LEMMA AnsweredInv == ASSUME TypeOK, AllAnswered, [Next]_vars PROVE AllAnswered'
<1>1. ASSUME NEW r \in Requests, Receive(r) PROVE AllAnswered'
  BY <1>1 DEF Receive, GoTo, TypeOK, AllAnswered, Answered
<1>2. ASSUME NEW r \in Requests, AuditReceived(r) \/ Activation(r) \/ Lifecycle(r) \/ Fault(r)
      PROVE  AllAnswered'
  BY <1>2, HandlerStep DEF AllAnswered, Answered, Running, CallSteps, Operations, AuditSteps,
     RowSteps
<1>3. CASE (\E c \in late : LateCall(c)) \/ UNCHANGED vars
  BY <1>3 DEF LateCall, vars, AllAnswered, Answered
<1> QED
  BY <1>1, <1>2, <1>3 DEF Next

LEMMA InsertRecords ==
  ASSUME IInv, AllAnswered, NEW r \in Requests, InsertAccount(r)
  PROVE  [Record!Next]_Record!vars
<1> PICK l \in Licenses : l = License(r)
  BY LicenseTyped DEF IInv
<1>1. TypeOK /\ Event(r) = "activated" /\ delivery[r].tier \in AllowedTiers
  BY DEF InsertAccount, GoTo, Answer, IInv, Consistent, EventOfStep, CreatingSteps
<1>2. delivery' = delivery /\ \A s \in Requests : reply'[s] = "created" <=> reply[s] = "created"
  BY <1>1 DEF InsertAccount, GoTo, Answer, TypeOK, AllAnswered, Answered
<1>3. CASE Exists(l)
  BY <1>2, <1>3, UnseenStutters DEF InsertAccount, Unseen, table
<1>4. CASE ~Exists(l)
  <2>1. accounts' = [accounts EXCEPT ![l] =
             [state |-> "active", user |-> r, tier |-> delivery[r].tier]]
    BY <1>4 DEF InsertAccount
  <2>2. \A m \in Licenses : Created(m)' = Created(m)
    BY <1>2 DEF Created, License
  <2> PICK t \in AllowedTiers : t = delivery[r].tier
    BY <1>1
  <2>3. Record!Activate(l, t)
    <3>1. /\ accounts[l].state = "no_row"
          /\ \A m \in Licenses : accounts'[m].state = IF m = l THEN "active" ELSE accounts[m].state
          /\ \A m \in Licenses : accounts'[m].tier = IF m = l THEN t ELSE accounts[m].tier
      BY <1>1, <1>4, <2>1, RowTyped DEF TypeOK
    <3> QED
      BY <2>2, <3>1 DEF Record!Activate
  <2> QED
    BY <2>3 DEF Record!Next
<1> QED
  BY <1>3, <1>4

\* Only one answer hands out the password of a license.
LEMMA CompletionRecords ==
  ASSUME IInv, AllAnswered, NEW r \in Requests, AuditCompleted(r)
  PROVE  Record!Next
<1> PICK l \in Licenses : l = License(r)
  BY LicenseTyped DEF IInv
<1>1. TypeOK /\ Exists(l) /\ accounts[l].user = r /\ reply[r] = "none"
  BY DEF AuditCompleted, IInv, Consistent, Owned, AllAnswered, Answered
<1>2. Created(l) = {} /\ Created(l)' = {r} /\ \A m \in Licenses \ {l} : Created(m)' = Created(m)
  <2>1. delivery' = delivery /\ reply' = [reply EXCEPT ![r] = "created"]
    BY DEF AuditCompleted, Answer
  <2>2. \A s \in Created(l) : s = r
    BY <1>1 DEF IInv, Consistent, Owned, Created
  <2> QED
    BY <1>1, <2>1, <2>2 DEF Created, License, TypeOK
<1>3. Cardinality(Created(l)) = 0 /\ Cardinality(Created(l)') = 1
  BY <1>2, FS_EmptySet, FS_Singleton
<1>4. accounts' = accounts /\ accounts[l].state # "no_row"
  BY <1>1, RowTyped DEF AuditCompleted, table
<1>5. Record!HandOver(l)
  BY <1>2, <1>3, <1>4 DEF Record!HandOver
<1> QED
  BY <1>5 DEF Record!Next

LEMMA MarksRecord ==
  ASSUME IInv, NEW r \in Requests,
         (MarkExpired(r) /\ ~RollsBack(r)) \/ MarkDeactivated(r) \/ UpdateTier(r)
  PROVE  [Record!Next]_Record!vars
<1> PICK l \in Licenses : l = License(r)
  BY LicenseTyped DEF IInv
<1>1. TypeOK /\ Exists(l) /\ accounts[l] \in Account /\ accounts \in [Licenses -> Account \cup {NoRow}]
  BY DEF IInv, Consistent, OnTarget, LifecycleSteps, MarkExpired, MarkDeactivated, UpdateTier, GoTo,
     TypeOK, Exists
<1>2. \A m \in Licenses : Created(m)' = Created(m)
  BY DEF MarkExpired, MarkDeactivated, UpdateTier, GoTo, Created, License
<1>3. CASE MarkExpired(r) /\ ~RollsBack(r)
  <2>1. accounts[l].state \in {"active", "read_only"} /\ accounts' = [accounts EXCEPT ![l].state = "read_only"]
    BY <1>1, <1>3 DEF RollsBack, MarkExpired, Account, AccountStates
  <2>2. CASE accounts[l].state = "active"
    <3>1. Record!Expire(l)
      BY <1>1, <1>2, <2>1, <2>2 DEF Record!Expire, Account
    <3> QED
      BY <3>1 DEF Record!Next
  <2>3. CASE accounts[l].state = "read_only"
    BY <1>1, <1>2, <2>1, <2>3 DEF Record!vars, Account
  <2> QED
    BY <2>1, <2>2, <2>3
<1>4. CASE MarkDeactivated(r)
  <2>1. accounts[l].state \in AccountStates /\ accounts' = [accounts EXCEPT ![l].state = "deactivated"]
    BY <1>1, <1>4 DEF MarkDeactivated, Account
  <2>2. CASE accounts[l].state = "deactivated"
    BY <1>1, <1>2, <2>1, <2>2 DEF Record!vars, Account
  <2>3. CASE accounts[l].state # "deactivated"
    <3>1. Record!Deactivate(l)
      BY <1>1, <1>2, <2>1, <2>3 DEF Record!Deactivate, Account, AccountStates
    <3> QED
      BY <3>1 DEF Record!Next
  <2> QED
    BY <2>2, <2>3
<1>5. CASE UpdateTier(r)
  <2>1. delivery[r].tier \in AllowedTiers /\ accounts' = [accounts EXCEPT ![l].tier = delivery[r].tier]
    BY <1>5 DEF UpdateTier, GoTo, IInv, Consistent, EventOfStep
  <2> PICK t \in AllowedTiers : t = delivery[r].tier
    BY <2>1
  <2>2. Record!ChangeTier(l, t)
    <3>1. /\ accounts[l].state # "no_row"
          /\ \A m \in Licenses : accounts'[m].state = accounts[m].state
          /\ \A m \in Licenses : accounts'[m].tier = IF m = l THEN t ELSE accounts[m].tier
      BY <1>1, <2>1, RowTyped, TierUpdated
    <3> QED
      BY <1>2, <3>1 DEF Record!ChangeTier
  <2> QED
    BY <2>2 DEF Record!Next
<1> QED
  BY <1>3, <1>4, <1>5

\* Of the other steps of a handler nothing shows.
LEMMA OthersUnseen ==
  ASSUME IInv, AllAnswered, NEW r \in Requests,
         Receive(r) \/ AuditReceived(r) \/ Activation(r) \/ Lifecycle(r) \/ Fault(r),
         ~InsertAccount(r), ~AuditCompleted(r), ~MarkExpired(r), ~MarkDeactivated(r), ~UpdateTier(r)
  PROVE  Unseen
<1> TypeOK
  BY DEF IInv
<1> USE DEF GoTo, Answer, table
<1>1. accounts' = accounts /\ delivery' = delivery
  BY DEF Receive, AuditReceived, Activation, Lifecycle, Fault,
     FindForActivation, RegisterUser, AuditAccount, CreateRoom, AuditRoom, FindForLifecycle,
     AuditIdempotent, LockRoom, AuditPower, DisableUser, AuditDisabled, UpdateTopic, AuditTopic,
     AuditProcessed, Reload, InternalError, GatewayError, CallIgnored, Abort
<1>2. pc[r] # "done"
  BY HandlerStep DEF Receive, Running, CallSteps, Operations, AuditSteps, RowSteps
<1>3. \/ reply' = reply
      \/ \E status \in Replies \ {"created"} : reply' = [reply EXCEPT ![r] = status]
  BY DEF Receive, AuditReceived, Activation, Lifecycle, Fault,
     FindForActivation, RegisterUser, AuditAccount, CreateRoom, AuditRoom, FindForLifecycle,
     AuditIdempotent, LockRoom, AuditPower, DisableUser, AuditDisabled, UpdateTopic, AuditTopic,
     AuditProcessed, Reload, InternalError, GatewayError, CallIgnored, Abort, Replies
<1>4. reply[r] = "none"
  BY <1>2 DEF AllAnswered, Answered
<1> QED
  BY <1>1, <1>3, <1>4 DEF Unseen, TypeOK

LEMMA StepRecords ==
  ASSUME IInv, AllAnswered, [Next]_vars
  PROVE  [Record!Next \/ \E r \in Requests : RollsBack(r)]_Record!vars
<1>1. ASSUME NEW r \in Requests,
             Receive(r) \/ AuditReceived(r) \/ Activation(r) \/ Lifecycle(r) \/ Fault(r)
      PROVE  Record!Next \/ UNCHANGED Record!vars \/ RollsBack(r)
  BY <1>1, InsertRecords, CompletionRecords, MarksRecord, OthersUnseen, UnseenStutters
<1>2. CASE (\E c \in late : LateCall(c)) \/ UNCHANGED vars
  <2>1. Unseen
    BY <1>2 DEF LateCall, vars, Unseen, table
  <2> QED
    BY <2>1, UnseenStutters
<1> QED
  BY <1>1, <1>2 DEF Next

----------------------------------------------------------------------------
(* One handler at a time.                                                  *)

Alone == \A r, s \in InFlight : r = s

\* What the handler has read of the state of the account is still so.
Current(r) ==
  /\ pc[r] \in {"lock", "audit_power", "mark_expired"} /\ Event(r) = "expired"
       => accounts[License(r)].state = "active"

SerialInv == IInv /\ AllAnswered /\ Alone /\ \A r \in Requests : Current(r)

\* With a bound of one, a request is taken when no other is in flight.
LEMMA NobodyElse ==
  ASSUME MaxInFlight = 1, Alone, Cardinality(InFlight) < MaxInFlight
  PROVE  InFlight = {}
<1>1. ASSUME NEW r \in InFlight PROVE FALSE
  <2>1. InFlight = {r}
    BY <1>1 DEF Alone
  <2>2. Cardinality({r}) = 1
    BY FS_Singleton
  <2>3. Cardinality(InFlight) = 1
    BY <2>1, <2>2, Zenon
  <2> QED
    BY <2>3
<1> QED
  BY <1>1

LEMMA SerialStep ==
  ASSUME MaxInFlight = 1, SerialInv, [Next]_vars
  PROVE  SerialInv'
<1>1. IInv' /\ AllAnswered' /\ TypeOK
  BY NextInv, AnsweredInv DEF SerialInv, IInv
<1>2. ASSUME NEW r \in Requests, Receive(r) PROVE Alone' /\ \A s \in Requests : Current(s)'
  <2>1. InFlight = {} /\ pc' = [pc EXCEPT ![r] = "audit_received"]
    BY <1>2, NobodyElse DEF SerialInv, Receive, GoTo
  <2>2. \A s \in InFlight' : s = r
    BY <1>1, <2>1 DEF InFlight, TypeOK
  <2>3. \A s \in Requests : Current(s)'
    BY <1>1, <1>2, <2>1 DEF SerialInv, Current, Receive, GoTo, table, TypeOK, License, Event
  <2> QED
    BY <2>2, <2>3 DEF Alone
<1>3. ASSUME NEW r \in Requests, AuditReceived(r) \/ Activation(r) \/ Lifecycle(r) \/ Fault(r)
      PROVE  Alone' /\ \A s \in Requests : Current(s)'
  <2>1. /\ r \in InFlight /\ delivery' = delivery
        /\ \A s \in Requests \ {r} : pc'[s] = pc[s] /\ pc[s] \notin Running
    BY <1>1, <1>3, HandlerStep DEF SerialInv, Alone, InFlight
  <2>2. Alone'
    BY <2>1 DEF Alone, InFlight
  <2>3. \A s \in Requests \ {r} : Current(s)'
    BY <2>1 DEF Current, Running, CallSteps, Operations, AuditSteps, RowSteps
  <2>4. Current(r)'
    <3> Current(r) /\ Consistent(r) /\ License(r) \in Licenses
      BY <1>1, LicenseTyped DEF SerialInv, IInv
    <3> USE <1>1 DEF Current, License, Event, GoTo, Answer, table, TypeOK
    <3>1. CASE AuditReceived(r)
      BY <3>1 DEF AuditReceived
    <3>2. CASE Activation(r)
      BY <3>2 DEF Activation, FindForActivation, RegisterUser, AuditAccount, CreateRoom, AuditRoom,
         InsertAccount, AuditCompleted
    <3>3. CASE FindForLifecycle(r)
      BY <3>3, RowTyped DEF FindForLifecycle, InTargetState, AccountStates
    <3>4. CASE Lifecycle(r) /\ ~FindForLifecycle(r)
      BY <3>4 DEF Lifecycle, AuditIdempotent, LockRoom, AuditPower, MarkExpired,
         DisableUser, AuditDisabled, MarkDeactivated, UpdateTier, UpdateTopic, AuditTopic,
         AuditProcessed, Reload, AfterLock
    <3>5. CASE Fault(r)
      BY <3>5 DEF Fault, InternalError, GatewayError, CallIgnored, Abort, FatalCall, AfterCall,
         AfterLock
    <3> QED
      BY <1>3, <3>1, <3>2, <3>3, <3>4, <3>5
  <2> QED
    BY <2>2, <2>3, <2>4
<1>4. CASE (\E c \in late : LateCall(c)) \/ UNCHANGED vars
  <2>1. UNCHANGED <<delivery, pc, accounts>>
    BY <1>4 DEF LateCall, vars, table
  <2>2. InFlight' = InFlight
    BY <2>1 DEF InFlight
  <2>3. Alone' /\ \A s \in Requests : Current(s)'
    BY <2>1, <2>2 DEF SerialInv, Alone, Current, License, Event
  <2> QED
    BY <1>1, <2>3 DEF SerialInv
<1> QED
  BY <1>1, <1>2, <1>3, <1>4 DEF Next, SerialInv

\* The state that an expiry read is still the one it marks.
LEMMA NoneRollsBack == ASSUME SerialInv, NEW r \in Requests PROVE ~RollsBack(r)
BY DEF SerialInv, Current, RollsBack, MarkExpired, GoTo, IInv, Consistent, EventOfStep

LEMMA InitRecords == Init => AllAnswered /\ Alone /\ (\A r \in Requests : Current(r)) /\ Record!Init
<1> SUFFICES ASSUME Init
             PROVE  AllAnswered /\ Alone /\ (\A r \in Requests : Current(r)) /\ Record!Init
  OBVIOUS
<1>1. AllAnswered /\ Alone /\ \A r \in Requests : Current(r)
  BY DEF Init, AllAnswered, Answered, Alone, InFlight, Running, CallSteps, Operations, AuditSteps,
     RowSteps, Current
<1>2. \A l \in Licenses : Created(l) = {}
  BY DEF Init, Created
<1>3. Record!Init
  BY <1>2, FS_EmptySet DEF Init, Record!Init, NoRow
<1> QED
  BY <1>1, <1>3

\* However many handlers run at the same time and whatever fails, the accounts table
\* and the answers show a step of the license life cycle, or none, in every step but
\* one: the expiry that overtook a deactivation (mark_expired of accounts.rs does not
\* ask for the state).
THEOREM OnlyExpiriesRollBack ==
  Spec => Record!Init /\ [][Record!Next \/ \E r \in Requests : RollsBack(r)]_Record!vars
<1>1. AllAnswered /\ IInv /\ [Next]_vars => AllAnswered'
  BY AnsweredInv DEF IInv
<1>2. IInv /\ AllAnswered /\ [Next]_vars
        => [Record!Next \/ \E r \in Requests : RollsBack(r)]_Record!vars
  BY StepRecords
<1> QED
  BY <1>1, <1>2, InitRecords, Invariance, PTL DEF Spec

\* While no two handlers overlap, the provisioner implements the life of a license,
\* whatever calls fail, come late, or are never made.
THEOREM SerialImplementsRecord ==
  ASSUME MaxInFlight = 1
  PROVE  Spec => ImplementsRecord
<1>1. Init => SerialInv
  BY InitInv, InitRecords DEF SerialInv
<1>2. SerialInv /\ [Next]_vars => SerialInv'
  BY SerialStep
<1>3. SerialInv /\ [Next]_vars => [Record!Next]_Record!vars
  BY StepRecords, NoneRollsBack DEF SerialInv
<1> QED
  BY <1>1, <1>2, <1>3, InitRecords, PTL DEF Spec, ImplementsRecord, Record!Spec
----------------------------------------------------------------------------
(* The topic of a room and the tier on record (handle_tier_changed writes  *)
(* the row, then the topic).                                               *)

\* A tier change that is about to set the topic, or ended without an answer of its own:
\* a statement failed or the handler was dropped.
CutOff(r) ==
  Event(r) = "tier_changed" /\ (pc[r] = "topic" \/ reply[r] \in {"internal", "aborted"})

\* A tier change is why one of the two is as it is.
Explains(r, l) ==
  /\ License(r) = l /\ CutOff(r)
  /\ \/ delivery[r].tier = accounts[l].tier
     \/ SlaForTier(delivery[r].tier) = topic[accounts[l].user]

TopicFollows(l) ==
  Exists(l) => \/ topic[accounts[l].user] = SlaForTier(accounts[l].tier)
               \/ \E r \in Requests : Explains(r, l)

TopicFollowsTier == \A l \in Licenses : TopicFollows(l)

\* The room an activation has created promises the SLA of its tier; the tier that a
\* change has written is on record until its topic is set.
Promised(r) ==
  /\ pc[r] \in {"audit_room", "insert"} => topic[r] = SlaForTier(delivery[r].tier)
  /\ pc[r] = "topic" => accounts[License(r)].tier = delivery[r].tier

\* Only a tier change whose handler was dropped leaves a topic call behind.
LateTopic(c) ==
  c.op = "topic" =>
    \E r \in Requests : /\ Event(r) = "tier_changed" /\ reply[r] = "aborted"
                        /\ Exists(License(r)) /\ accounts[License(r)].user = c.user
                        /\ c.sla = SlaForTier(delivery[r].tier)

TopicInv ==
  /\ \A r \in Requests : Promised(r)
  /\ \A c \in late : LateTopic(c)
  /\ TopicFollowsTier

\* A row that keeps its user and tier, whose room keeps its topic.
LEMMA TopicKept ==
  ASSUME NEW l \in Licenses, TopicFollows(l), delivery' = delivery,
         accounts'[l] = accounts[l]
           \/ (accounts[l] \in Account /\ \E s \in AccountStates : accounts'[l] = [accounts[l] EXCEPT !.state = s]),
         Exists(l) => topic'[accounts[l].user] = topic[accounts[l].user],
         \A r \in Requests : License(r) = l /\ CutOff(r) => CutOff(r)'
  PROVE  TopicFollows(l)'
<1> SUFFICES ASSUME Exists(l)' PROVE TopicFollows(l)'
  BY DEF TopicFollows
<1>1. Exists(l) /\ accounts'[l].user = accounts[l].user /\ accounts'[l].tier = accounts[l].tier
  BY DEF Exists, Account, AccountStates, NoRow
<1>2. topic'[accounts'[l].user] = topic[accounts[l].user]
  BY <1>1
<1>3. ASSUME NEW r \in Requests, Explains(r, l) PROVE Explains(r, l)'
  BY <1>1, <1>2, <1>3 DEF Explains, License
<1> QED
  BY <1>1, <1>2, <1>3 DEF TopicFollows

LEMMA LateTopicStays ==
  ASSUME IInv, Grows, NEW c \in late, LateTopic(c),
         \A r \in Requests : reply[r] = "aborted" => reply'[r] = "aborted"
  PROVE  LateTopic(c)'
<1> SUFFICES ASSUME c.op = "topic" PROVE LateTopic(c)'
  BY DEF LateTopic
<1>1. PICK r \in Requests :
        /\ Event(r) = "tier_changed" /\ reply[r] = "aborted"
        /\ Exists(License(r)) /\ accounts[License(r)].user = c.user
        /\ c.sla = SlaForTier(delivery[r].tier)
  BY DEF LateTopic
<1>2. License(r) \in Licenses /\ delivery' = delivery
  BY LicenseTyped DEF IInv, Grows
<1>3. Exists(License(r))' /\ accounts'[License(r)].user = c.user
  BY <1>1, <1>2 DEF Grows, Exists, License
<1> QED
  BY <1>1, <1>2, <1>3 DEF LateTopic, Event, License

\* Answers stay, and with them the tier changes cut off; only the topic call takes one
\* that was about to be made from them.
LEMMA CutOffStays ==
  ASSUME IInv, AllAnswered, "homeserver" \notin Faults, NEW r \in Requests,
         Receive(r) \/ AuditReceived(r) \/ Activation(r) \/ Lifecycle(r) \/ Fault(r)
  PROVE  /\ \A s \in Requests : reply[s] = "aborted" => reply'[s] = "aborted"
         /\ \A s \in Requests \ {r} : CutOff(s) => CutOff(s)'
         /\ ~UpdateTopic(r) /\ CutOff(r) => CutOff(r)'
<1> TypeOK /\ Answered(r)
  BY DEF IInv, AllAnswered
<1>1. /\ delivery' = delivery /\ reply[r] = "none"
      /\ \A s \in Requests \ {r} : pc'[s] = pc[s] /\ reply'[s] = reply[s]
  <2>1. CASE Receive(r)
    BY <2>1 DEF Receive, GoTo, TypeOK, Answered
  <2>2. CASE ~Receive(r)
    BY <2>2, HandlerStep DEF Answered, Running, CallSteps, Operations, AuditSteps, RowSteps
  <2> QED
    BY <2>1, <2>2
<1>2. ASSUME ~UpdateTopic(r), pc[r] = "topic" PROVE reply'[r] \in {"internal", "aborted"}
  BY <1>2 DEF Receive, AuditReceived, Activation, Lifecycle, Fault, GoTo, Answer,
     FindForActivation, RegisterUser, AuditAccount, CreateRoom, AuditRoom, InsertAccount,
     AuditCompleted, FindForLifecycle, AuditIdempotent, LockRoom, AuditPower, MarkExpired,
     DisableUser, AuditDisabled, MarkDeactivated, UpdateTier, AuditTopic, AuditProcessed,
     Reload, InternalError, GatewayError, CallIgnored, Abort, TypeOK
<1> QED
  BY <1>1, <1>2 DEF CutOff, Event

\* A step of a handler that neither writes a row nor makes a call that sets a topic.
LEMMA TopicUntouched ==
  ASSUME IInv, Grows, AllAnswered, "homeserver" \notin Faults, TopicInv, NEW r \in Requests,
         Receive(r) \/ AuditReceived(r) \/ Activation(r) \/ Lifecycle(r) \/ Fault(r),
         ~UpdateTopic(r), UNCHANGED <<accounts, topic>>,
         \A s \in Requests : Promised(s)',
         \A c \in late' \ late : LateTopic(c)'
  PROVE  TopicInv'
<1>1. \A c \in late' : LateTopic(c)'
  BY CutOffStays, LateTopicStays DEF TopicInv
<1>2. delivery' = delivery
  BY DEF Grows
<1>3. \A s \in Requests : CutOff(s) => CutOff(s)'
  BY CutOffStays
<1>4. \A l \in Licenses : TopicFollows(l)'
  BY <1>2, <1>3, TopicKept DEF TopicInv, TopicFollowsTier
<1> QED
  BY <1>1, <1>4 DEF TopicInv, TopicFollowsTier

\* The rooms of two licenses are two.
LEMMA RoomsApart ==
  ASSUME IInv, NEW l \in Licenses, NEW m \in Licenses, Exists(l), Exists(m),
         accounts[l].user = accounts[m].user
  PROVE  l = m
BY DEF IInv, Sound, Backed

\* Nobody else's promise depends on what the only handler in flight does.
LEMMA OthersPromised ==
  ASSUME SerialInv, NEW r \in Requests, NEW s \in Requests \ {r}, pc[r] \in Running,
         pc'[s] = pc[s]
  PROVE  Promised(s)'
BY DEF SerialInv, Alone, InFlight, Promised, Running, CallSteps, Operations, AuditSteps, RowSteps
\* What most steps of a handler are to the topics: nothing but a call left behind.
LEMMA QuietForTopics ==
  ASSUME IInv, TopicInv, "homeserver" \notin Faults, NEW r \in Requests,
         Receive(r) \/ AuditReceived(r) \/ Activation(r) \/ Lifecycle(r) \/ Fault(r),
         ~CreateRoom(r), ~InsertAccount(r), ~MarkExpired(r), ~MarkDeactivated(r), ~UpdateTier(r),
         ~UpdateTopic(r)
  PROVE  /\ UNCHANGED <<accounts, topic>>
         /\ \A s \in Requests : Promised(s)'
         /\ \A c \in late' \ late : LateTopic(c)'
<1> TypeOK /\ Consistent(r) /\ Promised(r)
  BY DEF IInv, TopicInv
<1> USE DEF GoTo, Answer, table, homeserver
<1>1. CASE Abort(r)
  <2>1. UNCHANGED <<accounts, topic, delivery, target>> /\ reply'[r] = "aborted"
        /\ pc' = [pc EXCEPT ![r] = "done"] /\ late' \ late \subseteq {CallOf(r)}
    BY <1>1 DEF Abort, Unanswered, TypeOK
  <2>2. \A s \in Requests : Promised(s)'
    BY <2>1 DEF TopicInv, Promised, License, TypeOK
  <2>3. ASSUME NEW c \in late' \ late PROVE LateTopic(c)'
    BY <2>1, <2>3 DEF LateTopic, CallOf, Consistent, EventOfStep, OnTarget, LifecycleSteps, Event,
       License, Exists
  <2> QED
    BY <2>1, <2>2, <2>3
<1>2. CASE ~Abort(r)
  <2>1. UNCHANGED <<accounts, delivery, late>>
    BY <1>2 DEF Receive, AuditReceived, Activation, Lifecycle, Fault,
       FindForActivation, RegisterUser, AuditAccount, AuditRoom, AuditCompleted,
       FindForLifecycle, AuditIdempotent, LockRoom, AuditPower, DisableUser, AuditDisabled,
       AuditTopic, AuditProcessed, Reload, InternalError, GatewayError, CallIgnored
  <2>2. topic' = topic
    BY <1>2 DEF Receive, AuditReceived, Activation, Lifecycle, Fault,
       FindForActivation, RegisterUser, AuditAccount, AuditRoom, AuditCompleted,
       FindForLifecycle, AuditIdempotent, LockRoom, AuditPower, DisableUser, AuditDisabled,
       AuditTopic, AuditProcessed, Reload, InternalError, GatewayError, CallIgnored,
       Perform, CallOf
  <2>3. /\ \A s \in Requests \ {r} : pc'[s] = pc[s]
        /\ pc'[r] # "topic"
        /\ pc'[r] \in {"audit_room", "insert"} => pc[r] \in {"audit_room", "insert"}
    BY <1>2 DEF Receive, AuditReceived, Activation, Lifecycle, Fault, TypeOK, AfterLock,
       FindForActivation, RegisterUser, AuditAccount, AuditRoom, AuditCompleted,
       FindForLifecycle, AuditIdempotent, LockRoom, AuditPower, DisableUser, AuditDisabled,
       AuditTopic, AuditProcessed, Reload, InternalError, GatewayError, CallIgnored
  <2>4. \A s \in Requests : Promised(s)'
    BY <2>1, <2>2, <2>3 DEF TopicInv, Promised, License
  <2> QED
    BY <2>1, <2>2, <2>4
<1> QED
  BY <1>1, <1>2

LEMMA CreateRoomTopic ==
  ASSUME SerialInv, Grows, TopicInv, "homeserver" \notin Faults, NEW r \in Requests, CreateRoom(r)
  PROVE  TopicInv'
<1> IInv /\ TypeOK /\ AllAnswered
  BY DEF SerialInv, IInv
<1>1. /\ pc[r] = "create_room" /\ pc' = [pc EXCEPT ![r] = "audit_room"]
      /\ UNCHANGED <<accounts, delivery, late>>
      /\ topic' = [topic EXCEPT ![r] = SlaForTier(delivery[r].tier)]
  BY DEF CreateRoom, GoTo, Perform, CallOf, table
<1>2. \A s \in Requests : Promised(s)'
  BY <1>1, OthersPromised DEF TypeOK, Promised, Running, CallSteps, Operations
<1>3. /\ \A s \in Requests : reply[s] = "aborted" => reply'[s] = "aborted"
      /\ \A s \in Requests : CutOff(s) => CutOff(s)'
  BY <1>1 DEF CreateRoom, GoTo, CutOff, Event, TypeOK
<1>4. \A l \in Licenses : Exists(l) => topic'[accounts[l].user] = topic[accounts[l].user]
  BY <1>1, RowTyped DEF IInv, Sound, Settled, TypeOK
<1>5. \A l \in Licenses : TopicFollows(l)'
  BY <1>1, <1>3, <1>4, TopicKept DEF TopicInv, TopicFollowsTier
<1> QED
  BY <1>1, <1>2, <1>3, <1>5, LateTopicStays DEF TopicInv, TopicFollowsTier

LEMMA InsertTopic ==
  ASSUME SerialInv, Grows, TopicInv, "homeserver" \notin Faults, NEW r \in Requests, InsertAccount(r)
  PROVE  TopicInv'
<1> IInv /\ TypeOK /\ AllAnswered /\ License(r) \in Licenses /\ delivery' = delivery
  BY LicenseTyped DEF SerialInv, IInv, Grows
<1>1. pc[r] = "insert" /\ topic' = topic /\ late' = late /\ pc'[r] \in {"audit_completed", "done"}
      /\ \A s \in Requests \ {r} : pc'[s] = pc[s]
  BY DEF InsertAccount, GoTo, Answer, homeserver, TypeOK
<1>2. \A s \in Requests : Promised(s)'
  BY <1>1, OthersPromised DEF Promised, Running, RowSteps
<1>3. /\ \A s \in Requests : reply[s] = "aborted" => reply'[s] = "aborted"
      /\ \A s \in Requests : CutOff(s) => CutOff(s)'
  BY <1>1, CutOffStays DEF Activation, UpdateTopic, GoTo
<1>4. ASSUME NEW l \in Licenses PROVE TopicFollows(l)'
  <2>1. CASE accounts'[l] = accounts[l]
    BY <1>1, <1>3, <2>1, TopicKept DEF TopicInv, TopicFollowsTier
  <2>2. CASE accounts'[l] # accounts[l]
    <3>1. accounts'[l] = [state |-> "active", user |-> r, tier |-> delivery[r].tier]
      BY <2>2 DEF InsertAccount, table, TypeOK
    <3>2. topic[r] = SlaForTier(delivery[r].tier)
      BY <1>1 DEF TopicInv, Promised
    <3> QED
      BY <1>1, <3>1, <3>2 DEF TopicFollows
  <2> QED
    BY <2>1, <2>2
<1> QED
  BY <1>1, <1>2, <1>3, <1>4, LateTopicStays DEF TopicInv, TopicFollowsTier

LEMMA MarkTopic ==
  ASSUME SerialInv, Grows, TopicInv, "homeserver" \notin Faults, NEW r \in Requests,
         MarkExpired(r) \/ MarkDeactivated(r)
  PROVE  TopicInv'
<1> IInv /\ TypeOK /\ AllAnswered /\ License(r) \in Licenses /\ delivery' = delivery
  BY LicenseTyped DEF SerialInv, IInv, Grows
<1>1. /\ pc[r] \in {"mark_expired", "mark_deactivated"}
      /\ pc' = [pc EXCEPT ![r] = "audit_processed"] /\ UNCHANGED <<topic, late>>
  BY DEF MarkExpired, MarkDeactivated, GoTo, homeserver
<1>2. \A s \in Requests : Promised(s)'
  BY <1>1, OthersPromised DEF Promised, Running, RowSteps, TypeOK
<1>3. /\ \A s \in Requests : reply[s] = "aborted" => reply'[s] = "aborted"
      /\ \A s \in Requests : CutOff(s) => CutOff(s)'
  BY <1>1, CutOffStays DEF Lifecycle, UpdateTopic, GoTo
<1>4. accounts[License(r)] \in Account
  BY <1>1 DEF IInv, Consistent, OnTarget, LifecycleSteps, Exists, TypeOK
<1>5. ASSUME NEW l \in Licenses
      PROVE  accounts'[l] = accounts[l]
             \/ (accounts[l] \in Account
                 /\ \E s \in AccountStates : accounts'[l] = [accounts[l] EXCEPT !.state = s])
  BY <1>4 DEF MarkExpired, MarkDeactivated, TypeOK, AccountStates
<1>6. \A l \in Licenses : TopicFollows(l)'
  BY <1>1, <1>3, <1>5, TopicKept DEF TopicInv, TopicFollowsTier
<1> QED
  BY <1>1, <1>2, <1>3, <1>6, LateTopicStays DEF TopicInv, TopicFollowsTier
LEMMA UpdateTierTopic ==
  ASSUME SerialInv, Grows, TopicInv, "homeserver" \notin Faults, NEW r \in Requests, UpdateTier(r)
  PROVE  TopicInv'
<1> IInv /\ TypeOK /\ AllAnswered /\ License(r) \in Licenses /\ delivery' = delivery
  BY LicenseTyped DEF SerialInv, IInv, Grows
<1>1. /\ pc[r] = "update_tier" /\ pc' = [pc EXCEPT ![r] = "topic"] /\ UNCHANGED <<topic, late>>
      /\ Event(r) = "tier_changed" /\ Exists(License(r))
  BY DEF UpdateTier, GoTo, homeserver, IInv, Consistent, EventOfStep, OnTarget, LifecycleSteps
<1>2. accounts' = [accounts EXCEPT ![License(r)].tier = delivery[r].tier]
      /\ accounts'[License(r)].tier = delivery[r].tier
  <2>1. accounts[License(r)] \in Account
    BY <1>1 DEF Exists, TypeOK
  <2> QED
    BY <2>1 DEF UpdateTier, TypeOK, Account
<1>3. \A s \in Requests : Promised(s)'
  BY <1>1, <1>2, OthersPromised DEF Promised, Running, RowSteps, TypeOK, License
<1>4. /\ \A s \in Requests : reply[s] = "aborted" => reply'[s] = "aborted"
      /\ \A s \in Requests : CutOff(s) => CutOff(s)'
  BY <1>1, CutOffStays DEF Lifecycle, UpdateTopic, GoTo
<1>5. ASSUME NEW l \in Licenses \ {License(r)} PROVE TopicFollows(l)'
  <2>1. accounts'[l] = accounts[l]
    BY <1>2 DEF TypeOK
  <2> QED
    BY <1>1, <1>4, <2>1, TopicKept DEF TopicInv, TopicFollowsTier
<1>6. Explains(r, License(r))'
  BY <1>1, <1>2 DEF Explains, CutOff, Event, License, TypeOK
<1>7. TopicFollows(License(r))'
  BY <1>6 DEF TopicFollows, License
<1> QED
  BY <1>1, <1>3, <1>4, <1>5, <1>7, LateTopicStays DEF TopicInv, TopicFollowsTier, License

\* A topic is set for a license, by a handler or late: the others keep theirs.
LEMMA TopicSet ==
  ASSUME IInv, TopicInv, NEW k \in Licenses, Exists(k), NEW t,
         topic' = [topic EXCEPT ![accounts[k].user] = t],
         UNCHANGED <<accounts, delivery>>,
         \A s \in Requests : License(s) # k /\ CutOff(s) => CutOff(s)'
  PROVE  /\ \A l \in Licenses \ {k} : TopicFollows(l)'
         /\ topic'[accounts[k].user] = t
         /\ \A s \in Requests : s # accounts[k].user => topic'[s] = topic[s]
         /\ pc[accounts[k].user] \notin {"audit_room", "insert"}
<1> TypeOK /\ accounts[k].user \in Requests
  BY RowTyped DEF IInv
<1>1. topic \in [Requests -> Slas]
  BY DEF TypeOK
<1>2. /\ topic'[accounts[k].user] = t
      /\ \A s \in Requests : s # accounts[k].user => topic'[s] = topic[s]
  BY <1>1
<1>3. ASSUME NEW l \in Licenses \ {k} PROVE TopicFollows(l)'
  <2>1. Exists(l) => accounts[l].user \in Requests /\ accounts[l].user # accounts[k].user
    BY RowTyped, RoomsApart
  <2>2. Exists(l) => topic'[accounts[l].user] = topic[accounts[l].user]
    BY <1>2, <2>1
  <2> QED
    BY <2>2, TopicKept DEF TopicInv, TopicFollowsTier
<1>4. pc[accounts[k].user] \notin {"audit_room", "insert"}
  BY DEF IInv, Sound, Settled
<1> QED
  BY <1>2, <1>3, <1>4

LEMMA UpdateTopicTopic ==
  ASSUME SerialInv, Grows, TopicInv, "homeserver" \notin Faults, NEW r \in Requests, UpdateTopic(r)
  PROVE  TopicInv'
<1> IInv /\ TypeOK /\ AllAnswered /\ License(r) \in Licenses
  BY LicenseTyped DEF SerialInv, IInv
<1>1. /\ pc[r] = "topic" /\ pc' = [pc EXCEPT ![r] = "audit_topic"]
      /\ UNCHANGED <<delivery, reply, accounts, late>>
      /\ Exists(License(r)) /\ target[r] = accounts[License(r)].user
  BY DEF UpdateTopic, GoTo, table, IInv, Consistent, OnTarget, LifecycleSteps
<1>2. /\ topic' = [topic EXCEPT ![accounts[License(r)].user] = SlaForTier(delivery[r].tier)]
      /\ accounts[License(r)].tier = delivery[r].tier
  BY <1>1 DEF UpdateTopic, Perform, CallOf, TopicInv, Promised
<1>3. \A s \in Requests \ {r} : CutOff(s) => CutOff(s)'
  BY <1>1 DEF CutOff, Event, TypeOK
<1>4. /\ \A l \in Licenses \ {License(r)} : TopicFollows(l)'
      /\ topic'[accounts[License(r)].user] = SlaForTier(delivery[r].tier)
  BY <1>1, <1>2, <1>3, TopicSet
<1>5. TopicFollows(License(r))'
  BY <1>1, <1>2, <1>4 DEF TopicFollows, License
<1>6. \A s \in Requests : Promised(s)'
  BY <1>1, OthersPromised DEF Promised, Running, CallSteps, Operations, TypeOK
<1> QED
  BY <1>1, <1>4, <1>5, <1>6, LateTopicStays DEF TopicInv, TopicFollowsTier, License

LEMMA LateCallTopic ==
  ASSUME SerialInv, Grows, TopicInv, NEW c \in late, LateCall(c)
  PROVE  TopicInv'
<1> IInv /\ TypeOK /\ LateRoom(c) /\ c.user \in Requests
  BY DEF SerialInv, IInv, TypeOK, Calls
<1>1. UNCHANGED <<delivery, pc, reply, accounts>> /\ late' \subseteq late
  BY DEF LateCall, table
<1>2. /\ \A s \in Requests : CutOff(s) => CutOff(s)'
      /\ \A d \in late' : LateTopic(d)'
  BY <1>1, LateTopicStays DEF CutOff, Event, TopicInv
<1>3. CASE c.op = "topic"
  <2>1. PICK r \in Requests :
          /\ Event(r) = "tier_changed" /\ reply[r] = "aborted"
          /\ Exists(License(r)) /\ accounts[License(r)].user = c.user
          /\ c.sla = SlaForTier(delivery[r].tier)
    BY <1>3 DEF TopicInv, LateTopic
  <2>2. License(r) \in Licenses /\ topic' = [topic EXCEPT ![accounts[License(r)].user] = c.sla]
    BY <1>3, <2>1, LicenseTyped DEF LateCall, Perform
  <2>3. /\ \A l \in Licenses \ {License(r)} : TopicFollows(l)'
        /\ topic'[c.user] = c.sla
        /\ \A s \in Requests : s # c.user => topic'[s] = topic[s]
        /\ pc[c.user] \notin {"audit_room", "insert"}
    <3>1. /\ \A l \in Licenses \ {License(r)} : TopicFollows(l)'
          /\ topic'[accounts[License(r)].user] = c.sla
          /\ \A s \in Requests : s # accounts[License(r)].user => topic'[s] = topic[s]
          /\ pc[accounts[License(r)].user] \notin {"audit_room", "insert"}
      BY <1>1, <1>2, <2>1, <2>2, TopicSet
    <3> QED
      BY <2>1, <3>1
  <2>4. Explains(r, License(r))'
    BY <1>1, <2>1, <2>3 DEF Explains, CutOff, Event, License
  <2>5. TopicFollows(License(r))'
    BY <2>4 DEF TopicFollows, License
  <2>6. \A s \in Requests : Promised(s)'
    BY <1>1, <2>3 DEF TopicInv, Promised, License
  <2> QED
    BY <1>1, <1>2, <2>3, <2>5, <2>6 DEF TopicInv, TopicFollowsTier, License
<1>4. CASE c.op # "topic"
  <2>1. \A s \in Requests : topic'[s] # topic[s] => c.op = "create_room" /\ s = c.user
    BY <1>4 DEF LateCall, Perform, TypeOK
  <2>2. \A l \in Licenses : Exists(l) => topic'[accounts[l].user] = topic[accounts[l].user]
    BY <2>1, RowTyped DEF LateRoom
  <2>3. \A s \in Requests : Promised(s)'
    BY <1>1, <2>1 DEF TopicInv, Promised, License, LateRoom
  <2>4. \A l \in Licenses : TopicFollows(l)'
    BY <1>1, <1>2, <2>2, TopicKept DEF TopicInv, TopicFollowsTier
  <2> QED
    BY <1>2, <2>3, <2>4 DEF TopicInv, TopicFollowsTier
<1> QED
  BY <1>3, <1>4

LEMMA TopicStep ==
  ASSUME SerialInv, SerialInv', TopicInv, "homeserver" \notin Faults, [Next]_vars
  PROVE  TopicInv'
<1>1. IInv /\ AllAnswered /\ Grows
  BY NextInv DEF SerialInv
<1>2. ASSUME NEW r \in Requests,
             Receive(r) \/ AuditReceived(r) \/ Activation(r) \/ Lifecycle(r) \/ Fault(r)
      PROVE  TopicInv'
  <2>1. CASE CreateRoom(r)
    BY <1>1, <2>1, CreateRoomTopic
  <2>2. CASE InsertAccount(r)
    BY <1>1, <2>2, InsertTopic
  <2>3. CASE MarkExpired(r) \/ MarkDeactivated(r)
    BY <1>1, <2>3, MarkTopic
  <2>4. CASE UpdateTier(r)
    BY <1>1, <2>4, UpdateTierTopic
  <2>5. CASE UpdateTopic(r)
    BY <1>1, <2>5, UpdateTopicTopic
  <2>6. CASE ~CreateRoom(r) /\ ~InsertAccount(r) /\ ~MarkExpired(r) /\ ~MarkDeactivated(r)
             /\ ~UpdateTier(r) /\ ~UpdateTopic(r)
    BY <1>1, <1>2, <2>6, QuietForTopics, TopicUntouched
  <2> QED
    BY <2>1, <2>2, <2>3, <2>4, <2>5, <2>6
<1>3. CASE \E c \in late : LateCall(c)
  BY <1>1, <1>3, LateCallTopic
<1>4. CASE UNCHANGED vars
  <2>1. UNCHANGED <<delivery, pc, reply, accounts, topic, late>>
    BY <1>4 DEF vars
  <2>2. /\ \A r \in Requests : Promised(r)'
        /\ \A c \in late' : LateTopic(c)'
    BY <2>1 DEF TopicInv, Promised, LateTopic, Event, License, Exists
  <2>3. \A l \in Licenses : TopicFollows(l)'
    BY <2>1, TopicKept DEF TopicInv, TopicFollowsTier, CutOff, Event
  <2> QED
    BY <2>2, <2>3 DEF TopicInv, TopicFollowsTier
<1> QED
  BY <1>2, <1>3, <1>4 DEF Next

\* While no two handlers overlap and no homeserver call fails on its own, the topic of a
\* room promises the SLA of the tier on record, unless a tier change is about to set it
\* or was cut off before; calls of dropped handlers may still come late.  With two
\* handlers the topic of one and the tier of the other can remain (provisioning.rs 618
\* to 637), and a failed topic call is answered like one that succeeded.
THEOREM TopicsFollowTiers ==
  ASSUME MaxInFlight = 1, "homeserver" \notin Faults
  PROVE  Spec => []TopicFollowsTier
<1>1. Init => SerialInv /\ TopicInv
  <2>1. Init => SerialInv
    BY InitInv, InitRecords DEF SerialInv
  <2>2. Init => TopicInv
    BY DEF Init, TopicInv, Promised, TopicFollowsTier, TopicFollows, Exists
  <2> QED
    BY <2>1, <2>2
<1>2. SerialInv /\ TopicInv /\ [Next]_vars => (SerialInv /\ TopicInv)'
  BY SerialStep, TopicStep
<1>3. TopicInv => TopicFollowsTier
  BY DEF TopicInv
<1> QED
  BY <1>1, <1>2, <1>3, PTL DEF Spec
=============================================================================
