---------------------------- MODULE Provisioning ----------------------------
(***************************************************************************)
(* The license workflows of the imogo-provisioner: the webhook route       *)
(* (http/webhook.rs) dispatching verified deliveries to the four handlers  *)
(* of ProvisioningService (provisioning.rs) over the accounts table        *)
(* (accounts.rs), the audit log and the Matrix homeserver (tuwunel.rs).    *)
(*                                                                         *)
(* Every delivery is one axum handler future.  A future runs from one      *)
(* await to the next; each database statement, audit append and homeserver *)
(* call is a step of its own, so the handlers interleave at these points.  *)
(* A request r that activates a license generates one fresh uuid, from     *)
(* which its user id and its support room derive: the model names them r.  *)
(*                                                                         *)
(* An operator Mut... is a seeded error of the operator that follows it;   *)
(* nothing refers to it, it only serves to test the properties.            *)
(***************************************************************************)
EXTENDS Naturals, FiniteSets

CONSTANTS
  Requests,      \* deliveries of the license server, retries included
  Licenses,
  Tiers,         \* every tier a payload may name
  Deliveries,    \* what the deliveries may carry
  AllowedTiers,  \* provisioning.allowed_tiers of the configuration
  Nobody,        \* no account read yet
  Faults,        \* which faults may happen: see FaultKinds
  MaxInFlight    \* bound: handlers running at the same time

FaultKinds == {"database", "homeserver", "abort"}
Events == {"activated", "expired", "deactivated", "tier_changed", "unsupported"}

ASSUME NobodyAssumption == Nobody \notin Requests
ASSUME FaultsAssumption == Faults \subseteq FaultKinds
\* complete = FALSE: an empty license id or customer name
ASSUME DeliveriesAssumption ==
  Deliveries \subseteq
    [event : Events, license : Licenses, tier : Tiers, complete : BOOLEAN]

VARIABLES
  delivery,  \* what request r carries
  pc,        \* the statement the handler of r awaits next
  target,    \* matrix_user_id of the account row the handler of r has read
  reply,     \* the HTTP answer to r
  accounts,  \* the accounts table, by license_id
  log,       \* the audit entries that the handling of r appended
  users,     \* homeserver: the Matrix user that request r generated
  room,      \* homeserver: may that user write in its support room?
  topic,     \* homeserver: the SLA the topic of that room promises
  late       \* calls sent to the homeserver whose caller stopped waiting

table == <<accounts>>
homeserver == <<users, room, topic>>
vars == <<delivery, pc, target, reply, accounts, log, users, room, topic, late>>

AccountStates == {"active", "read_only", "deactivated"}
NoRow == [state |-> "no_row", user |-> Nobody, tier |-> "none"]
Account == [state : AccountStates, user : Requests, tier : AllowedTiers]

Exists(l) == accounts[l] # NoRow

\* sla_for_tier: what a room topic says of a tier.
SlaForTier(t) ==
  CASE t \in {"pro", "enterprise"} -> "4h"
    [] t = "kmu" -> "24h"
    [] OTHER -> "48h"

Slas == {"4h", "24h", "48h"}

Entries == {"webhook.received", "account.created", "room.created",
            "activated.completed", "power_level.updated", "account.deactivated",
            "topic_updated", "idempotent", "processed"}

Replies == {"none", "created", "existed", "processed", "idempotent", "conflict",
            "invalid", "internal", "gateway", "aborted"}

----------------------------------------------------------------------------
(* The homeserver, as tuwunel.rs uses it.                                  *)

Operations == {"register", "create_room", "lock", "disable", "topic"}
Calls == [op : Operations, user : Requests, sla : Slas]

\* The statements of a handler that wait for a homeserver call bear its name.
CallOf(r) ==
  [op |-> pc[r],
   user |-> IF pc[r] \in {"register", "create_room"} THEN r ELSE target[r],
   sla |-> SlaForTier(delivery[r].tier)]

\* The effect of a call.  The power levels of a room matter only in whether
\* the customer reaches events_default: level 50 is "open", level 0 "locked".
Perform(c) ==
  /\ users' = CASE c.op = "register" -> [users EXCEPT ![c.user] = "enabled"]
                [] c.op = "disable"  -> [users EXCEPT ![c.user] = "disabled"]
                [] OTHER -> users
  /\ room' = CASE c.op = "create_room" -> [room EXCEPT ![c.user] = "open"]
               [] c.op = "lock"        -> [room EXCEPT ![c.user] = "locked"]
               [] OTHER -> room
  /\ topic' = IF c.op \in {"create_room", "topic"}
              THEN [topic EXCEPT ![c.user] = c.sla] ELSE topic

\* The call of r returned no success: it never arrived, or it is still on its
\* way and the homeserver will perform it later.
Unanswered(r) ==
  /\ late' \in {late, late \cup {CallOf(r)}}
  /\ UNCHANGED homeserver

----------------------------------------------------------------------------
Init ==
  /\ delivery \in [Requests -> Deliveries]
  /\ pc = [r \in Requests |-> "idle"]
  /\ target = [r \in Requests |-> Nobody]
  /\ reply = [r \in Requests |-> "none"]
  /\ accounts = [l \in Licenses |-> NoRow]
  /\ log = [r \in Requests |-> {}]
  /\ users = [r \in Requests |-> "absent"]
  /\ room = [r \in Requests |-> "absent"]
  /\ topic = [r \in Requests |-> "48h"]
  /\ late = {}

\* The statements at which a handler may be suspended.
CallSteps == Operations
AuditSteps == {"audit_received", "audit_account", "audit_room", "audit_completed",
               "audit_power", "audit_disabled", "audit_topic", "audit_idempotent",
               "audit_processed"}
RowSteps == {"find", "insert", "mark_expired", "mark_deactivated", "update_tier", "reload"}
Running == CallSteps \cup AuditSteps \cup RowSteps

InFlight == {r \in Requests : pc[r] \in Running}

Event(r) == delivery[r].event
License(r) == delivery[r].license

GoTo(r, from, to) ==
  /\ pc[r] = from
  /\ pc' = [pc EXCEPT ![r] = to]
  /\ UNCHANGED <<delivery, reply>>

Answer(r, status) ==
  /\ pc' = [pc EXCEPT ![r] = "done"]
  /\ reply' = [reply EXCEPT ![r] = status]
  /\ UNCHANGED delivery

\* A committed audit append; one that fails is InternalError.
Append(r, entry) == log' = [log EXCEPT ![r] = @ \cup {entry}]

----------------------------------------------------------------------------
(* http/webhook.rs: a delivery whose signature and nonce were accepted.    *)

Receive(r) ==
  /\ GoTo(r, "idle", "audit_received")
  /\ Cardinality(InFlight) < MaxInFlight
  /\ UNCHANGED <<target, table, log, homeserver, late>>

AuditReceived(r) ==
  /\ pc[r] = "audit_received"
  /\ Append(r, "webhook.received")
  /\ IF Event(r) = "unsupported"
     THEN Answer(r, "invalid")
     ELSE GoTo(r, "audit_received", "find")
  /\ UNCHANGED <<target, table, homeserver, late>>

----------------------------------------------------------------------------
(* handle_license_activated                                                *)

ActivationValid(r) == delivery[r].complete /\ delivery[r].tier \in AllowedTiers

FindForActivation(r) ==
  /\ pc[r] = "find" /\ Event(r) = "activated"
  /\ \/ ~ActivationValid(r) /\ Answer(r, "invalid")
     \/ /\ ActivationValid(r)
        /\ GoTo(r, "find", IF Exists(License(r)) THEN "audit_idempotent" ELSE "register")
  /\ UNCHANGED <<target, table, log, homeserver, late>>

RegisterUser(r) ==
  /\ GoTo(r, "register", "audit_account")
  /\ Perform(CallOf(r))
  /\ UNCHANGED <<target, table, log, late>>

MutPersistBeforeRoom(r) ==
  /\ GoTo(r, "audit_account", "insert")
  /\ Append(r, "account.created")
  /\ UNCHANGED <<target, table, homeserver, late>>

\* The display name set in between neither fails the handler nor matters here.
AuditAccount(r) ==
  /\ GoTo(r, "audit_account", "create_room")
  /\ Append(r, "account.created")
  /\ UNCHANGED <<target, table, homeserver, late>>

CreateRoom(r) ==
  /\ GoTo(r, "create_room", "audit_room")
  /\ Perform(CallOf(r))
  /\ UNCHANGED <<target, table, log, late>>

AuditRoom(r) ==
  /\ GoTo(r, "audit_room", "insert")
  /\ Append(r, "room.created")
  /\ UNCHANGED <<target, table, homeserver, late>>

MutInsertReplaces(r) ==
  /\ GoTo(r, "insert", "audit_completed")
  /\ accounts' = [accounts EXCEPT ![License(r)] =
       [state |-> "active", user |-> r, tier |-> delivery[r].tier]]
  /\ UNCHANGED <<target, log, homeserver, late>>

\* accounts.insert: license_id is the primary key of the table.
InsertAccount(r) ==
  /\ pc[r] = "insert"
  /\ IF Exists(License(r))
     THEN Answer(r, "internal") /\ UNCHANGED table
     ELSE /\ GoTo(r, "insert", "audit_completed")
          /\ accounts' = [accounts EXCEPT ![License(r)] =
               [state |-> "active", user |-> r, tier |-> delivery[r].tier]]
  /\ UNCHANGED <<target, log, homeserver, late>>

\* "created" is the one answer that carries the initial password of user r.
AuditCompleted(r) ==
  /\ pc[r] = "audit_completed"
  /\ Append(r, "activated.completed")
  /\ Answer(r, "created")
  /\ UNCHANGED <<target, table, homeserver, late>>

----------------------------------------------------------------------------
(* handle_license_expired, _deactivated and _tier_changed                  *)

LifecycleEvents == {"expired", "deactivated", "tier_changed"}

MutInTargetState(r) ==
  LET row == accounts[License(r)]
  IN  CASE Event(r) = "expired"      -> row.state = "read_only"
        [] Event(r) = "deactivated"  -> row.state = "deactivated"
        [] Event(r) = "tier_changed" -> row.tier = delivery[r].tier
        [] OTHER -> FALSE

\* The account is already where the event wants it.
InTargetState(r) ==
  LET row == accounts[License(r)]
  IN  CASE Event(r) = "expired"      -> row.state \in {"read_only", "deactivated"}
        [] Event(r) = "deactivated"  -> row.state = "deactivated"
        [] Event(r) = "tier_changed" -> row.tier = delivery[r].tier
        [] OTHER -> FALSE

MutTierUnchecked(r) ==
  /\ pc[r] = "find" /\ Event(r) \in LifecycleEvents
  /\ target' = [target EXCEPT ![r] = accounts[License(r)].user]
  /\ \/ ~Exists(License(r)) /\ Answer(r, "conflict")
     \/ Exists(License(r)) /\ InTargetState(r) /\ GoTo(r, "find", "audit_idempotent")
     \/ /\ Exists(License(r)) /\ ~InTargetState(r)
        /\ GoTo(r, "find", IF Event(r) = "tier_changed" THEN "update_tier" ELSE "lock")
  /\ UNCHANGED <<table, log, homeserver, late>>

FindForLifecycle(r) ==
  /\ pc[r] = "find" /\ Event(r) \in LifecycleEvents
  /\ target' = [target EXCEPT ![r] = accounts[License(r)].user]
  /\ \/ ~Exists(License(r)) /\ Answer(r, "conflict")
     \/ Exists(License(r)) /\ InTargetState(r) /\ GoTo(r, "find", "audit_idempotent")
     \/ /\ Exists(License(r)) /\ ~InTargetState(r)
        /\ \/ Event(r) # "tier_changed" /\ GoTo(r, "find", "lock")
           \/ /\ Event(r) = "tier_changed" /\ delivery[r].tier \in AllowedTiers
              /\ GoTo(r, "find", "update_tier")
           \/ /\ Event(r) = "tier_changed" /\ delivery[r].tier \notin AllowedTiers
              /\ Answer(r, "invalid")
  /\ UNCHANGED <<table, log, homeserver, late>>

AuditIdempotent(r) ==
  /\ pc[r] = "audit_idempotent"
  /\ Append(r, "idempotent")
  /\ Answer(r, IF Event(r) = "activated" THEN "existed" ELSE "idempotent")
  /\ UNCHANGED <<target, table, homeserver, late>>

MutAfterLock(r) == IF Event(r) = "expired" THEN "mark_expired" ELSE "disable"

\* update_power_levels with the customer at 0
AfterLock(r) == IF Event(r) = "expired" THEN "audit_power" ELSE "disable"
LockRoom(r) ==
  /\ GoTo(r, "lock", AfterLock(r))
  /\ Perform(CallOf(r))
  /\ UNCHANGED <<target, table, log, late>>

AuditPower(r) ==
  /\ GoTo(r, "audit_power", "mark_expired")
  /\ Append(r, "power_level.updated")
  /\ UNCHANGED <<target, table, homeserver, late>>

MarkExpired(r) ==
  /\ GoTo(r, "mark_expired", "audit_processed")
  /\ accounts' = [accounts EXCEPT ![License(r)].state = "read_only"]
  /\ UNCHANGED <<target, log, homeserver, late>>

DisableUser(r) ==
  /\ GoTo(r, "disable", "audit_disabled")
  /\ Perform(CallOf(r))
  /\ UNCHANGED <<target, table, log, late>>

AuditDisabled(r) ==
  /\ GoTo(r, "audit_disabled", "mark_deactivated")
  /\ Append(r, "account.deactivated")
  /\ UNCHANGED <<target, table, homeserver, late>>

MarkDeactivated(r) ==
  /\ GoTo(r, "mark_deactivated", "audit_processed")
  /\ accounts' = [accounts EXCEPT ![License(r)].state = "deactivated"]
  /\ UNCHANGED <<target, log, homeserver, late>>

UpdateTier(r) ==
  /\ GoTo(r, "update_tier", "topic")
  /\ accounts' = [accounts EXCEPT ![License(r)].tier = delivery[r].tier]
  /\ UNCHANGED <<target, log, homeserver, late>>

UpdateTopic(r) ==
  /\ GoTo(r, "topic", "audit_topic")
  /\ Perform(CallOf(r))
  /\ UNCHANGED <<target, table, log, late>>

AuditTopic(r) ==
  /\ GoTo(r, "audit_topic", "audit_processed")
  /\ Append(r, "topic_updated")
  /\ UNCHANGED <<target, table, homeserver, late>>

AuditProcessed(r) ==
  /\ GoTo(r, "audit_processed", "reload")
  /\ Append(r, "processed")
  /\ UNCHANGED <<target, table, homeserver, late>>

\* The second find_by_license; rows are never deleted.
Reload(r) ==
  /\ pc[r] = "reload"
  /\ Answer(r, IF Exists(License(r)) THEN "processed" ELSE "conflict")
  /\ UNCHANGED <<target, table, log, homeserver, late>>

----------------------------------------------------------------------------
(* Faults                                                                  *)

\* A statement on the database fails (an audit append also when another
\* connection commits between its SELECT and its INSERT), or the homeserver
\* of the account is no longer configured, which is looked up before a call.
InternalError(r) ==
  /\ "database" \in Faults
  /\ pc[r] \in AuditSteps \cup RowSteps \cup {"topic"}
  /\ pc[r] = "find" /\ Event(r) = "activated" => ActivationValid(r)
  /\ Answer(r, "internal")
  /\ UNCHANGED <<target, table, log, homeserver, late>>

MutFatalCall(r) == pc[r] \in {"register", "create_room"}

\* The calls whose failure ends the handler with 502 ...
FatalCall(r) ==
  \/ pc[r] \in {"register", "create_room"}
  \/ pc[r] = "lock" /\ Event(r) = "expired"

GatewayError(r) ==
  /\ "homeserver" \in Faults
  /\ FatalCall(r)
  /\ Unanswered(r)
  /\ Answer(r, "gateway")
  /\ UNCHANGED <<target, table, log>>

\* ... and those after which it goes on with a warning.
AfterCall(r) ==
  CASE pc[r] = "lock"    -> AfterLock(r)
    [] pc[r] = "disable" -> "audit_disabled"
    [] OTHER -> "audit_topic"

CallIgnored(r) ==
  /\ "homeserver" \in Faults
  /\ pc[r] \in CallSteps /\ ~FatalCall(r)
  /\ Unanswered(r)
  /\ GoTo(r, pc[r], AfterCall(r))
  /\ UNCHANGED <<target, table, log>>

\* The future is dropped where it is suspended: the TimeoutLayer, a peer that
\* hung up, or the death of the process (which drops every future; nothing
\* else of the state is volatile, so that is the same as dropping each).
Abort(r) ==
  /\ "abort" \in Faults
  /\ pc[r] \in Running
  /\ IF pc[r] \in CallSteps THEN Unanswered(r) ELSE UNCHANGED <<homeserver, late>>
  /\ Answer(r, "aborted")
  /\ UNCHANGED <<target, table, log>>

LateCall(c) ==
  /\ c \in late
  /\ late' = late \ {c}
  /\ Perform(c)
  /\ UNCHANGED <<delivery, pc, target, reply, table, log>>

----------------------------------------------------------------------------
Activation(r) ==
  \/ FindForActivation(r) \/ RegisterUser(r) \/ AuditAccount(r) \/ CreateRoom(r)
  \/ AuditRoom(r) \/ InsertAccount(r) \/ AuditCompleted(r)

Lifecycle(r) ==
  \/ FindForLifecycle(r) \/ AuditIdempotent(r) \/ LockRoom(r) \/ AuditPower(r)
  \/ MarkExpired(r) \/ DisableUser(r) \/ AuditDisabled(r) \/ MarkDeactivated(r)
  \/ UpdateTier(r) \/ UpdateTopic(r) \/ AuditTopic(r) \/ AuditProcessed(r) \/ Reload(r)

Fault(r) == InternalError(r) \/ GatewayError(r) \/ CallIgnored(r) \/ Abort(r)

Next ==
  \/ \E r \in Requests :
       Receive(r) \/ AuditReceived(r) \/ Activation(r) \/ Lifecycle(r) \/ Fault(r)
  \/ \E c \in late : LateCall(c)

Spec == Init /\ [][Next]_vars
----------------------------------------------------------------------------
(* Properties                                                              *)

TypeOK ==
  /\ delivery \in [Requests -> Deliveries]
  /\ pc \in [Requests -> Running \cup {"idle", "done"}]
  /\ target \in [Requests -> Requests \cup {Nobody}]
  /\ reply \in [Requests -> Replies]
  /\ accounts \in [Licenses -> Account \cup {NoRow}]
  /\ log \in [Requests -> SUBSET Entries]
  /\ users \in [Requests -> {"absent", "enabled", "disabled"}]
  /\ room \in [Requests -> {"absent", "open", "locked"}]
  /\ topic \in [Requests -> Slas]
  /\ late \subseteq Calls

Backed(l) ==
  LET u == accounts[l].user
  IN  /\ users[u] # "absent" /\ room[u] # "absent"
      /\ License(u) = l /\ Event(u) = "activated"
      /\ {"account.created", "room.created"} \subseteq log[u]

\* Whatever fails, is dropped or races, a row of the accounts table names a
\* user and a room that exist at the homeserver, were created for this very
\* license, and have both left their audit entry.
AccountBacked == \A l \in Licenses : Exists(l) => Backed(l)

LockedOut(l) == accounts[l].state = "read_only" => room[accounts[l].user] = "locked"

\* A license recorded as read_only has lost its right to write in the support
\* room, although handlers race and calls arrive late.
ReadOnlyLockedOut == \A l \in Licenses : LockedOut(l)

\* An answer "processed" stays true whatever the other handlers do later: the
\* license never returns to active and, after an expiry, the customer never
\* writes again.
ProcessedMeansEnforced ==
  \A r \in Requests :
    reply[r] = "processed" /\ Event(r) \in {"expired", "deactivated"} =>
      /\ accounts[License(r)].state \in {"read_only", "deactivated"}
      /\ Event(r) = "expired" => room[accounts[License(r)].user] = "locked"

\* A password handed out belongs to the user the accounts table names, so two
\* answers never hand out two passwords for one license.
PasswordOpensAccount ==
  \A r \in Requests :
    reply[r] = "created" => /\ accounts[License(r)].user = r
                            /\ users[r] # "absent"

Traced(l) ==
  /\ accounts[l].state = "read_only" =>
       \E r \in Requests : License(r) = l /\ "power_level.updated" \in log[r]
  /\ accounts[l].state = "deactivated" =>
       \E r \in Requests : License(r) = l /\ "account.deactivated" \in log[r]
  /\ accounts[l].tier # delivery[accounts[l].user].tier =>
       \E r \in Requests : /\ License(r) = l /\ delivery[r].tier = accounts[l].tier
                           /\ "webhook.received" \in log[r]

\* No change of a row goes without any trace: a locked state follows an audit
\* entry that announced it, another tier follows a logged delivery naming it.
ChangesTraced == \A l \in Licenses : Exists(l) => Traced(l)

Grows ==
  /\ delivery' = delivery
  /\ \A s \in Requests :
       /\ log[s] \subseteq log'[s]
       /\ users[s] # "absent" => users'[s] # "absent"
       /\ room[s] # "absent" => room'[s] # "absent"
  /\ \A l \in Licenses : Exists(l) =>
       /\ Exists(l)'
       /\ accounts'[l].user = accounts[l].user
       /\ accounts[l].state \in {"read_only", "deactivated"}
            => accounts'[l].state \in {"read_only", "deactivated"}
       /\ room[accounts[l].user] = "locked" => room'[accounts[l].user] = "locked"

\* What no step takes back, in whatever order handlers and late calls run: the
\* user a license was given, its leaving of active, the lock of its room, an
\* audit entry.
NothingTakenBack == [][Grows]_vars

\* "deactivated -> * is treated as idempotent (no roll-back)": a deactivated
\* license stays deactivated.
NoRollback ==
  [][\A l \in Licenses :
       accounts[l].state = "deactivated" => accounts'[l].state = "deactivated"]_accounts

----------------------------------------------------------------------------
Created(l) == {r \in Requests : License(r) = l /\ reply[r] = "created"}

Record == INSTANCE LicenseRecord WITH
  Tiers <- AllowedTiers,
  status <- [l \in Licenses |-> accounts[l].state],
  tier <- [l \in Licenses |-> accounts[l].tier],
  passwords <- [l \in Licenses |-> Cardinality(Created(l))]

\* As long as the handlers of one license never overlap, the accounts table and
\* the answers show the life of a license that LicenseRecord promises.
ImplementsRecord == Record!Spec
=============================================================================
