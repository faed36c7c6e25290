--------------------------------- MODULE B2c ---------------------------------
(***************************************************************************)
(* The B2C channel (b2c.rs): create_room opens a support room for an       *)
(* invoice and prints a QR token; redeem turns a scan of the token into a  *)
(* numbered guest account with a login token, invited into the room.       *)
(*                                                                         *)
(* Every call is one axum handler future; each database statement, audit   *)
(* append and homeserver call is a step of its own, and the handlers       *)
(* interleave at these points.  A creation draws a fresh random QR token   *)
(* and the homeserver gives it a fresh room id: the model names both like  *)
(* the creation.                                                           *)
(*                                                                         *)
(* An operator Mut... is a seeded error of the operator that follows it.   *)
(***************************************************************************)
EXTENDS Naturals, FiniteSets

CONSTANTS
  Creations,    \* calls of create_room
  Invoices,     \* invoice numbers, normalised
  InvoiceOf,    \* the invoice of each creation
  Valid,        \* the creations with a usable invoice number, subject and TTL
  Redemptions,  \* calls of redeem
  Unknown,      \* a QR token that no creation drew
  Nobody,
  MaxGuests,    \* guest_index_max
  Faults        \* which faults may happen: see FaultKinds

FaultKinds == {"database", "homeserver", "abort"}

ASSUME B2cAssumption ==
  /\ InvoiceOf \in [Creations -> Invoices] /\ Valid \subseteq Creations
  /\ Creations \cap Redemptions = {} /\ Unknown \notin Creations /\ Nobody \notin Creations
  /\ MaxGuests \in Nat /\ Faults \subseteq FaultKinds

VARIABLES
  pc,       \* the statement each call awaits next
  reply,    \* its HTTP answer
  token,    \* the QR token that a redemption presents
  index,    \* the next_guest_index it has read
  rooms,    \* b2c_rooms: the tokens with a row, to their next_guest_index
  guests,   \* b2c_guests
  log,      \* audit entries: the event and the room or guest
  expired,  \* the tokens whose expires_at has passed
  alias,    \* homeserver: the room that has the alias of an invoice
  users,    \* homeserver: the registered guests
  invited,  \* homeserver: who is invited into which room
  logins,   \* homeserver: the login tokens issued, and the redemption they went to
  late      \* calls sent to the homeserver whose caller stopped waiting

calls == <<pc, reply>>
scan == <<token, index>>
tables == <<rooms, guests>>
homeserver == <<alias, users, invited, logins>>
vars == <<pc, reply, token, index, rooms, guests, log, expired, alias, users, invited,
          logins, late>>

\* gast-<invoice>-<index>
Guest(t, i) == [invoice |-> InvoiceOf[t], index |-> i]
GuestOf(r) == Guest(token[r], index[r])

Rows == DOMAIN rooms

CallSteps == {"create_room", "register", "login", "invite"}
TableSteps == {"insert_room", "audit_created", "find", "audit_expired", "persist",
               "audit_joined"}
Running == CallSteps \cup TableSteps
Replies == {"none", "created", "joined", "not_found", "expired", "limit", "invalid",
            "internal", "gateway", "aborted"}

----------------------------------------------------------------------------
Init ==
  /\ pc = [p \in Creations \cup Redemptions |-> "idle"]
  /\ reply = [p \in Creations \cup Redemptions |-> "none"]
  /\ token = [r \in Redemptions |-> Unknown]
  /\ index = [r \in Redemptions |-> 0]
  /\ rooms = [t \in {} |-> 1]
  /\ guests = {}
  /\ log = {}
  /\ expired = {}
  /\ alias = [n \in Invoices |-> Nobody]
  /\ users = {}
  /\ invited = {}
  /\ logins = {}
  /\ late = {}

GoTo(p, from, to) ==
  /\ pc[p] = from
  /\ pc' = [pc EXCEPT ![p] = to]
  /\ UNCHANGED reply

Answer(p, status) ==
  /\ pc' = [pc EXCEPT ![p] = "done"]
  /\ reply' = [reply EXCEPT ![p] = status]

Append(event, of) == log' = log \cup {[event |-> event, of |-> of]}

\* spawn_audit: nobody learns whether the entry is appended.
SpawnAudit(event, of) == UNCHANGED log \/ Append(event, of)

----------------------------------------------------------------------------
(* create_room                                                             *)

Begin(c) ==
  /\ pc[c] = "idle"
  /\ IF c \in Valid THEN GoTo(c, "idle", "create_room") ELSE Answer(c, "invalid")
  /\ UNCHANGED <<scan, tables, log, expired, homeserver, late>>

MutCreateRoom(c) ==
  /\ GoTo(c, "create_room", "insert_room")
  /\ alias' = [alias EXCEPT ![InvoiceOf[c]] = IF @ = Nobody THEN c ELSE @]
  /\ UNCHANGED <<scan, tables, log, expired, users, invited, logins, late>>

\* The homeserver gives an alias to one room only.
CreateRoom(c) ==
  /\ alias[InvoiceOf[c]] = Nobody
  /\ GoTo(c, "create_room", "insert_room")
  /\ alias' = [alias EXCEPT ![InvoiceOf[c]] = c]
  /\ UNCHANGED <<scan, tables, log, expired, users, invited, logins, late>>

AliasTaken(c) ==
  /\ pc[c] = "create_room"
  /\ alias[InvoiceOf[c]] # Nobody
  /\ Answer(c, "gateway")
  /\ SpawnAudit("create_failed", c)
  /\ UNCHANGED <<scan, tables, expired, homeserver, late>>

InsertRoom(c) ==
  /\ GoTo(c, "insert_room", "audit_created")
  /\ rooms' = [t \in Rows \cup {c} |-> IF t = c THEN 1 ELSE rooms[t]]
  /\ UNCHANGED <<scan, guests, log, expired, homeserver, late>>

\* The answer carries the QR token.
AuditCreated(c) ==
  /\ pc[c] = "audit_created"
  /\ Answer(c, "created")
  /\ Append("room.created", c)
  /\ UNCHANGED <<scan, tables, expired, homeserver, late>>

Expire(t) ==
  /\ t \in Rows \ expired
  /\ expired' = expired \cup {t}
  /\ UNCHANGED <<calls, scan, tables, log, homeserver, late>>

----------------------------------------------------------------------------
(* redeem                                                                  *)

\* Someone scans a printed QR code, or makes up a token.
Scan(r, t) ==
  /\ t # Unknown => reply[t] = "created"
  /\ GoTo(r, "idle", "find")
  /\ token' = [token EXCEPT ![r] = t]
  /\ UNCHANGED <<index, tables, log, expired, homeserver, late>>

TokenNotFound(r) ==
  /\ pc[r] = "find" /\ token[r] \notin Rows
  /\ Answer(r, "not_found")
  /\ SpawnAudit("token.invalid", Nobody)
  /\ UNCHANGED <<scan, tables, expired, homeserver, late>>

TokenExpired(r) ==
  /\ token[r] \in expired
  /\ GoTo(r, "find", "audit_expired")
  /\ UNCHANGED <<scan, tables, log, expired, homeserver, late>>

AuditExpired(r) ==
  /\ pc[r] = "audit_expired"
  /\ Answer(r, "expired")
  /\ Append("token.expired", token[r])
  /\ UNCHANGED <<scan, tables, expired, homeserver, late>>

MutHasSeat(t) == rooms[t] <= MaxGuests + 1
HasSeat(t) == rooms[t] <= MaxGuests

FindRoom(r) ==
  /\ pc[r] = "find" /\ token[r] \in Rows \ expired
  /\ index' = [index EXCEPT ![r] = rooms[token[r]]]
  /\ IF HasSeat(token[r]) THEN GoTo(r, "find", "register") ELSE Answer(r, "limit")
  /\ UNCHANGED <<token, tables, log, expired, homeserver, late>>

\* M_USER_IN_USE is taken for success.
MutRegister(r) ==
  /\ GoTo(r, "register", "login")
  /\ users' = users \cup {GuestOf(r)}
  /\ UNCHANGED <<scan, tables, log, expired, alias, invited, logins, late>>

\* The homeserver registers a user name once.
Register(r) ==
  /\ GoTo(r, "register", "login")
  /\ GuestOf(r) \notin users
  /\ users' = users \cup {GuestOf(r)}
  /\ UNCHANGED <<scan, tables, log, expired, alias, invited, logins, late>>

NameTaken(r) ==
  /\ pc[r] = "register" /\ GuestOf(r) \in users
  /\ Answer(r, "gateway")
  /\ UNCHANGED <<scan, tables, log, expired, homeserver, late>>

MutLogin(r) ==
  /\ GoTo(r, "login", "persist")
  /\ logins' = logins \cup {[user |-> GuestOf(r), redemption |-> r]}
  /\ UNCHANGED <<scan, tables, log, expired, alias, users, invited, late>>

Login(r) ==
  /\ GoTo(r, "login", "invite")
  /\ logins' = logins \cup {[user |-> GuestOf(r), redemption |-> r]}
  /\ UNCHANGED <<scan, tables, log, expired, alias, users, invited, late>>

MutInvite(r) ==
  /\ GoTo(r, "invite", "audit_joined")
  /\ invited' = invited \cup {[room |-> token[r], user |-> GuestOf(r)]}
  /\ UNCHANGED <<scan, tables, log, expired, alias, users, logins, late>>

Invite(r) ==
  /\ GoTo(r, "invite", "persist")
  /\ invited' = invited \cup {[room |-> token[r], user |-> GuestOf(r)]}
  /\ UNCHANGED <<scan, tables, log, expired, alias, users, logins, late>>

GuestRow(r) == [user |-> GuestOf(r), token |-> token[r], index |-> index[r]]

MutPersist(r) ==
  /\ GoTo(r, "persist", "audit_joined")
  /\ guests' = guests \cup {GuestRow(r)}
  /\ UNCHANGED <<scan, rooms, log, expired, homeserver, late>>

\* One transaction; matrix_user_id is the primary key of b2c_guests.
Persist(r) ==
  /\ pc[r] = "persist"
  /\ IF \E g \in guests : g.user = GuestOf(r)
     THEN Answer(r, "internal") /\ UNCHANGED tables
     ELSE /\ GoTo(r, "persist", "audit_joined")
          /\ rooms' = [rooms EXCEPT ![token[r]] = @ + 1]
          /\ guests' = guests \cup {GuestRow(r)}
  /\ UNCHANGED <<scan, log, expired, homeserver, late>>

\* The answer carries the login token.
AuditJoined(r) ==
  /\ pc[r] = "audit_joined"
  /\ Answer(r, "joined")
  /\ Append("guest.joined", GuestOf(r))
  /\ UNCHANGED <<scan, tables, expired, homeserver, late>>

----------------------------------------------------------------------------
(* Faults                                                                  *)

\* A call on its way to the homeserver when its caller stops waiting.
CallOf(p) ==
  IF p \in Creations THEN [op |-> "create_room", room |-> p, user |-> Nobody]
  ELSE [op |-> pc[p], room |-> token[p], user |-> GuestOf(p)]

\* It never arrives, or it will be performed later.
Unanswered(p) == late' \in {late, late \cup {CallOf(p)}}

InternalError(p) ==
  /\ "database" \in Faults
  /\ pc[p] \in TableSteps
  /\ Answer(p, "internal")
  /\ UNCHANGED <<scan, tables, log, expired, homeserver, late>>

GatewayError(p) ==
  /\ "homeserver" \in Faults
  /\ pc[p] \in CallSteps
  /\ Answer(p, "gateway")
  /\ Unanswered(p)
  /\ IF p \in Creations THEN SpawnAudit("create_failed", p) ELSE UNCHANGED log
  /\ UNCHANGED <<scan, tables, expired, homeserver>>

\* The future is dropped: a timeout, a peer that hung up, the end of the process.
Abort(p) ==
  /\ "abort" \in Faults
  /\ pc[p] \in Running
  /\ Answer(p, "aborted")
  /\ IF pc[p] \in CallSteps THEN Unanswered(p) ELSE UNCHANGED late
  /\ UNCHANGED <<scan, tables, log, expired, homeserver>>

\* A late login issues a token that nobody receives.
LateCall(c) ==
  /\ c \in late
  /\ late' = late \ {c}
  /\ alias' = IF c.op = "create_room" /\ alias[InvoiceOf[c.room]] = Nobody
              THEN [alias EXCEPT ![InvoiceOf[c.room]] = c.room] ELSE alias
  /\ users' = IF c.op = "register" THEN users \cup {c.user} ELSE users
  /\ invited' = IF c.op = "invite" THEN invited \cup {[room |-> c.room, user |-> c.user]}
                ELSE invited
  /\ UNCHANGED <<calls, scan, tables, log, expired, logins>>

----------------------------------------------------------------------------
Creation(c) ==
  Begin(c) \/ CreateRoom(c) \/ AliasTaken(c) \/ InsertRoom(c) \/ AuditCreated(c)

Redemption(r) ==
  \/ \E t \in Creations \cup {Unknown} : Scan(r, t)
  \/ TokenNotFound(r) \/ TokenExpired(r) \/ AuditExpired(r) \/ FindRoom(r)
  \/ Register(r) \/ NameTaken(r) \/ Login(r) \/ Invite(r) \/ Persist(r) \/ AuditJoined(r)

Fault(p) == InternalError(p) \/ GatewayError(p) \/ Abort(p)

Next ==
  \/ \E c \in Creations : Creation(c)
  \/ \E r \in Redemptions : Redemption(r)
  \/ \E p \in Creations \cup Redemptions : Fault(p)
  \/ \E t \in Rows : Expire(t)
  \/ \E c \in late : LateCall(c)

Spec == Init /\ [][Next]_vars

----------------------------------------------------------------------------
(* Properties                                                              *)

AnyGuest == [invoice : Invoices, index : 1 .. MaxGuests]

\* In particular no guest with a number above guest_index_max ever exists.
TypeOK ==
  /\ pc \in [Creations \cup Redemptions -> Running \cup {"idle", "done"}]
  /\ reply \in [Creations \cup Redemptions -> Replies]
  /\ token \in [Redemptions -> Creations \cup {Unknown}]
  /\ index \in [Redemptions -> 0 .. MaxGuests + 1]
  /\ Rows \subseteq Creations /\ \A t \in Rows : rooms[t] \in 1 .. MaxGuests + 1
  /\ guests \subseteq [user : AnyGuest, token : Creations, index : 1 .. MaxGuests]
  /\ expired \subseteq Creations
  /\ alias \in [Invoices -> Creations \cup {Nobody}]
  /\ users \subseteq AnyGuest
  /\ invited \subseteq [room : Creations, user : AnyGuest]
  /\ logins \subseteq [user : AnyGuest, redemption : Redemptions]

\* The guests of a room are numbered without a gap, and next_guest_index counts
\* them, although concurrent scans read the same index.
SeatsCounted ==
  \A t \in Rows :
    {g.index : g \in {h \in guests : h.token = t}} = 1 .. rooms[t] - 1

\* No two scans are logged in as the same guest.
OneLoginPerGuest ==
  \A m, n \in logins : m.user = n.user => m.redemption = n.redemption

\* A persisted guest exists at the homeserver, is invited into the room of its
\* token, and a login token was issued for it.
GuestsArrive ==
  \A g \in guests :
    /\ g.user \in users
    /\ [room |-> g.token, user |-> g.user] \in invited
    /\ \E n \in logins : n.user = g.user

\* A login token leaves the provisioner only for a guest that is on record and
\* whose joining is in the audit log.
JoinedOnRecord ==
  \A r \in Redemptions : reply[r] = "joined" =>
    /\ [user |-> GuestOf(r), token |-> token[r], index |-> index[r]] \in guests
    /\ [event |-> "guest.joined", of |-> GuestOf(r)] \in log

\* The alias stored with a room leads to that room.
AliasLeadsToRoom == \A t \in Rows : alias[InvoiceOf[t]] = t

Quiet == late = {} /\ \A p \in Creations \cup Redemptions : pc[p] \notin Running

\* Once nothing is under way, the next scan of a token that has not expired and
\* has seats left finds its guest name free, so that redeem can serve it.
Redeemable ==
  Quiet => \A t \in Rows \ expired : HasSeat(t) => Guest(t, rooms[t]) \notin users
=============================================================================
