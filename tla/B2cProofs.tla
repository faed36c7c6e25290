------------------------------ MODULE B2cProofs ------------------------------
(***************************************************************************)
(* Theorems about B2c, for any creations, redemptions, invoices, limit and *)
(* faults.                                                                 *)
(***************************************************************************)
EXTENDS B2c, TLAPS

Calls == Creations \cup Redemptions

CreationSteps == {"idle", "create_room", "insert_room", "audit_created", "done"}
RedemptionSteps == {"idle", "find", "audit_expired", "register", "login", "invite", "persist",
                    "audit_joined", "done"}

LateCalls ==
  [op : {"create_room"}, room : Creations, user : {Nobody}]
    \cup [op : {"register", "login", "invite"}, room : Creations, user : AnyGuest]

Types ==
  /\ pc \in [Calls -> Running \cup {"idle", "done"}]
  /\ \A c \in Creations : pc[c] \in CreationSteps
  /\ \A r \in Redemptions : pc[r] \in RedemptionSteps
  /\ reply \in [Calls -> Replies]
  /\ token \in [Redemptions -> Creations \cup {Unknown}]
  /\ index \in [Redemptions -> 0 .. MaxGuests + 1]
  /\ rooms \in [Rows -> 1 .. MaxGuests + 1] /\ Rows \subseteq Creations
  /\ guests \subseteq [user : AnyGuest, token : Creations, index : 1 .. MaxGuests]
  /\ expired \subseteq Creations
  /\ alias \in [Invoices -> Creations \cup {Nobody}]
  /\ users \subseteq AnyGuest
  /\ invited \subseteq [room : Creations, user : AnyGuest]
  /\ logins \subseteq [user : AnyGuest, redemption : Redemptions]
  /\ late \subseteq LateCalls

\* A row is inserted once, by the creation whose room has the alias.
RoomsFounded ==
  /\ \A c \in Creations : pc[c] = "insert_room" => alias[InvoiceOf[c]] = c
  /\ \A t \in Rows : pc[t] \in {"audit_created", "done"}
  /\ AliasLeadsToRoom

Seated(r) == pc[r] \in {"register", "login", "invite", "persist", "audit_joined"}

\* A redemption under way has read an index that its room had, and one within the limit.
Seats ==
  /\ \A r \in Redemptions : Seated(r) =>
       /\ token[r] \in Rows
       /\ index[r] \in 1 .. MaxGuests
       /\ index[r] <= rooms[token[r]]
  /\ \A g \in guests : g.user = Guest(g.token, g.index) /\ g.token \in Rows
  /\ SeatsCounted

\* The redemptions that have registered their guest.
Owns(r) ==
  \/ pc[r] \in {"login", "invite", "persist", "audit_joined"}
  \/ \E n \in logins : n.redemption = r

Owners ==
  /\ \A n \in logins :
       /\ n.user = GuestOf(n.redemption)
       /\ pc[n.redemption] \in {"invite", "persist", "audit_joined", "done"}
  /\ \A r \in Redemptions : Owns(r) => GuestOf(r) \in users
  /\ \A r, q \in Redemptions : Owns(r) /\ Owns(q) /\ GuestOf(r) = GuestOf(q) => r = q

\* What the homeserver has done for a redemption before it persists its guest.
Arrivals ==
  /\ \A r \in Redemptions : pc[r] \in {"invite", "persist", "audit_joined"} =>
       [user |-> GuestOf(r), redemption |-> r] \in logins
  /\ \A r \in Redemptions : pc[r] \in {"persist", "audit_joined"} =>
       [room |-> token[r], user |-> GuestOf(r)] \in invited
  /\ GuestsArrive

Records ==
  /\ \A r \in Redemptions : pc[r] = "audit_joined" => GuestRow(r) \in guests
  /\ \A r \in Redemptions : reply[r] = "joined" => pc[r] = "done"
  /\ JoinedOnRecord

IInv == Types /\ RoomsFounded /\ Seats /\ Owners /\ Arrivals /\ Records

----------------------------------------------------------------------------
(* Initially                                                               *)

LEMMA InitIInv == Init => IInv
<1> SUFFICES ASSUME Init PROVE IInv
  OBVIOUS
<1> USE B2cAssumption DEF Init, Calls
<1>1. Types
  BY DEF Types, Replies, Rows, CreationSteps, RedemptionSteps
<1>2. Rows = {}
  BY DEF Rows
<1>3. RoomsFounded
  BY <1>2 DEF RoomsFounded, AliasLeadsToRoom
<1>4. Seats
  BY <1>2 DEF Seats, Seated, SeatsCounted
<1>5. Owners
  BY DEF Owners, Owns
<1>6. Arrivals
  BY DEF Arrivals, GuestsArrive
<1>7. Records
  BY DEF Records, JoinedOnRecord
<1> QED
  BY <1>1, <1>3, <1>4, <1>5, <1>6, <1>7 DEF IInv

----------------------------------------------------------------------------
(* Steps that only move one call                                           *)

\* What the tables and the homeserver hold stays, and so does every number read.
Kept == UNCHANGED <<scan, rooms, guests, alias, users, invited, logins>>

\* A call that ends without having joined, or that goes to a step in which it
\* has read nothing yet.
Moves(p, to) ==
  /\ pc' = [pc EXCEPT ![p] = to]
  /\ reply' \in [Calls -> Replies]
  /\ \A q \in Redemptions : reply'[q] = "joined" => reply[q] = "joined" /\ q # p
  /\ \/ to = "done"
     \/ p \in Creations /\ pc[p] = "idle" /\ to = "create_room"
     \/ p \in Redemptions /\ pc[p] = "find" /\ to = "audit_expired"

QuietStep(p, to) ==
  /\ Kept /\ Moves(p, to)
  /\ log \subseteq log' /\ expired' \subseteq Creations /\ late' \subseteq LateCalls

LEMMA QuietStepKeepsIInv ==
  ASSUME IInv, NEW p \in Calls, NEW to, QuietStep(p, to)
  PROVE  IInv'
<1> USE B2cAssumption DEF IInv, Calls, QuietStep, Kept, scan
<1>1. Types'
  BY DEF Types, Moves, CreationSteps, RedemptionSteps, Running, CallSteps, TableSteps, Rows
<1>2. RoomsFounded'
  BY DEF RoomsFounded, Types, Moves, Rows, AliasLeadsToRoom
<1>3. Seats'
  BY DEF Seats, Seated, Types, Moves, Rows, SeatsCounted, Guest
<1>4. Owners'
  BY DEF Owners, Owns, Types, Moves, GuestOf, Guest
<1>5. Arrivals'
  BY DEF Arrivals, Types, Moves, GuestOf, Guest, GuestsArrive
<1>6. Records'
  BY DEF Records, Types, Moves, GuestRow, GuestOf, Guest, JoinedOnRecord
<1> QED
  BY <1>1, <1>2, <1>3, <1>4, <1>5, <1>6 DEF IInv
LEMMA CallsTyped ==
  ASSUME IInv, NEW p \in Calls, pc[p] \in CallSteps
  PROVE  CallOf(p) \in LateCalls
<1> USE B2cAssumption DEF Calls
<1>1. CASE p \in Creations
  BY <1>1 DEF CallOf, LateCalls
<1>2. CASE p \in Redemptions
  <2>1. /\ pc[p] \in {"register", "login", "invite"}
        /\ token[p] \in Creations /\ index[p] \in 1 .. MaxGuests
    BY <1>2 DEF IInv, Types, RedemptionSteps, CallSteps, Seats, Seated
  <2>2. GuestOf(p) \in AnyGuest
    BY <2>1 DEF GuestOf, Guest, AnyGuest
  <2> QED
    BY <1>2, <2>1, <2>2 DEF CallOf, LateCalls
<1> QED
  BY <1>1, <1>2

LEMMA QuietActions ==
  ASSUME IInv, NEW p \in Calls,
         \/ p \in Creations /\ (Begin(p) \/ AliasTaken(p) \/ AuditCreated(p))
         \/ p \in Redemptions
              /\ (TokenNotFound(p) \/ TokenExpired(p) \/ AuditExpired(p) \/ NameTaken(p))
         \/ Fault(p)
  PROVE  \E to : QuietStep(p, to)
<1> USE B2cAssumption DEF Calls, QuietStep, Kept, Moves, tables, homeserver, Answer, GoTo,
        IInv, Types, Replies
<1>1. CASE p \in Creations /\ Begin(p)
  <2>1. ASSUME p \in Valid PROVE QuietStep(p, "create_room")
    BY <1>1, <2>1 DEF Begin, Records
  <2>2. ASSUME p \notin Valid PROVE QuietStep(p, "done")
    BY <1>1, <2>2 DEF Begin
  <2> QED
    BY <2>1, <2>2
<1>2. CASE p \in Creations /\ AliasTaken(p)
  BY <1>2 DEF AliasTaken, SpawnAudit, Append
<1>3. CASE p \in Creations /\ AuditCreated(p)
  BY <1>3 DEF AuditCreated, Append
<1>4. CASE p \in Redemptions /\ TokenNotFound(p)
  BY <1>4 DEF TokenNotFound, SpawnAudit, Append
<1>5. CASE p \in Redemptions /\ TokenExpired(p)
  <2>1. QuietStep(p, "audit_expired")
    BY <1>5 DEF TokenExpired, Records
  <2> QED
    BY <2>1
<1>6. CASE p \in Redemptions /\ AuditExpired(p)
  BY <1>6 DEF AuditExpired, Append
<1>7. CASE p \in Redemptions /\ NameTaken(p)
  BY <1>7 DEF NameTaken
<1>8. CASE InternalError(p)
  BY <1>8 DEF InternalError
<1>9. CASE GatewayError(p)
  BY <1>9, CallsTyped DEF GatewayError, Unanswered, SpawnAudit, Append
<1>10. CASE Abort(p)
  BY <1>10, CallsTyped DEF Abort, Unanswered
<1> QED
  BY <1>1, <1>2, <1>3, <1>4, <1>5, <1>6, <1>7, <1>8, <1>9, <1>10 DEF Fault

LEMMA ExpireKeepsIInv ==
  ASSUME IInv, NEW t \in Rows, Expire(t)
  PROVE  IInv'
<1> USE B2cAssumption DEF IInv, Calls, Expire, calls, scan, tables, homeserver
<1>1. Types'
  BY DEF Types, Rows
<1>2. RoomsFounded'
  BY DEF RoomsFounded, Rows, AliasLeadsToRoom
<1>3. Seats'
  BY DEF Seats, Seated, Rows, SeatsCounted, Guest
<1>4. Owners'
  BY DEF Owners, Owns, GuestOf, Guest
<1>5. Arrivals'
  BY DEF Arrivals, GuestOf, Guest, GuestsArrive
<1>6. Records'
  BY DEF Records, GuestRow, GuestOf, Guest, JoinedOnRecord
<1> QED
  BY <1>1, <1>2, <1>3, <1>4, <1>5, <1>6 DEF IInv

----------------------------------------------------------------------------
(* create_room                                                             *)

LEMMA CreateRoomKeepsIInv ==
  ASSUME IInv, NEW c \in Creations, CreateRoom(c)
  PROVE  IInv'
<1> USE B2cAssumption DEF IInv, Calls, CreateRoom, GoTo, scan, tables
<1>1. Types'
  BY DEF Types, CreationSteps, RedemptionSteps, Running, CallSteps, TableSteps, Rows
<1>2. RoomsFounded'
  BY DEF RoomsFounded, Types, Rows, AliasLeadsToRoom
<1>3. Seats'
  BY DEF Seats, Seated, Types, Rows, SeatsCounted, Guest
<1>4. Owners'
  BY DEF Owners, Owns, Types, GuestOf, Guest
<1>5. Arrivals'
  BY DEF Arrivals, Types, GuestOf, Guest, GuestsArrive
<1>6. Records'
  BY DEF Records, Types, GuestRow, GuestOf, Guest, JoinedOnRecord
<1> QED
  BY <1>1, <1>2, <1>3, <1>4, <1>5, <1>6 DEF IInv

LEMMA InsertRoomKeepsIInv ==
  ASSUME IInv, NEW c \in Creations, InsertRoom(c)
  PROVE  IInv'
<1> USE B2cAssumption DEF IInv, Calls, InsertRoom, GoTo, scan, homeserver
<1>1. /\ c \notin Rows /\ Rows' = Rows \cup {c}
      /\ rooms'[c] = 1 /\ \A t \in Rows : rooms'[t] = rooms[t]
  BY DEF RoomsFounded, Rows
<1>2. Types'
  BY <1>1 DEF Types, CreationSteps, RedemptionSteps, Running, CallSteps, TableSteps
<1>3. RoomsFounded'
  BY <1>1 DEF RoomsFounded, Types, AliasLeadsToRoom
<1>4. SeatsCounted'
  <2>1. {h \in guests : h.token = c} = {}
    BY <1>1 DEF Seats
  <2>2. {g.index : g \in {h \in guests : h.token = c}} = 1 .. rooms'[c] - 1
    BY <1>1, <2>1
  <2> QED
    BY <1>1, <2>2 DEF Seats, SeatsCounted
<1>5. Seats'
  BY <1>1, <1>4 DEF Seats, Seated, Types, Guest
<1>6. Owners'
  BY DEF Owners, Owns, Types, GuestOf, Guest
<1>7. Arrivals'
  BY DEF Arrivals, Types, GuestOf, Guest, GuestsArrive
<1>8. Records'
  BY DEF Records, Types, GuestRow, GuestOf, Guest, JoinedOnRecord
<1> QED
  BY <1>2, <1>3, <1>5, <1>6, <1>7, <1>8 DEF IInv
----------------------------------------------------------------------------
(* redeem                                                                  *)

LEMMA ScanKeepsIInv ==
  ASSUME IInv, NEW r \in Redemptions, NEW t \in Creations \cup {Unknown}, Scan(r, t)
  PROVE  IInv'
<1> USE B2cAssumption DEF IInv, Calls, Scan, GoTo, tables, homeserver
<1>0. pc[r] = "idle" /\ reply[r] # "joined" /\ \A n \in logins : n.redemption # r
  BY DEF Records, Owners
<1>1. Types'
  BY DEF Types, CreationSteps, RedemptionSteps, Running, CallSteps, TableSteps, Rows
<1>2. RoomsFounded'
  BY DEF RoomsFounded, Types, Rows, AliasLeadsToRoom
<1>3. Seats'
  BY DEF Seats, Seated, Types, Rows, SeatsCounted, Guest
<1>4. Owners'
  BY <1>0 DEF Owners, Owns, Types, GuestOf, Guest
<1>5. Arrivals'
  BY DEF Arrivals, Types, GuestOf, Guest, GuestsArrive
<1>6. Records'
  BY <1>0 DEF Records, Types, GuestRow, GuestOf, Guest, JoinedOnRecord
<1> QED
  BY <1>1, <1>2, <1>3, <1>4, <1>5, <1>6 DEF IInv

LEMMA FindRoomKeepsIInv ==
  ASSUME IInv, NEW r \in Redemptions, FindRoom(r)
  PROVE  IInv'
<1> USE B2cAssumption DEF IInv, Calls, FindRoom, HasSeat, GoTo, Answer, tables, homeserver
<1>0. /\ pc[r] = "find" /\ pc'[r] \in {"register", "done"} /\ reply'[r] # "joined"
      /\ token[r] \in Rows /\ rooms[token[r]] \in 1 .. MaxGuests + 1
      /\ \A q \in Calls \ {r} : pc'[q] = pc[q] /\ reply'[q] = reply[q]
      /\ \A q \in Redemptions \ {r} : index'[q] = index[q]
      /\ \A n \in logins : n.redemption # r
  BY DEF Types, Owners, Records
<1>1. Types'
  BY <1>0 DEF Types, Replies, CreationSteps, RedemptionSteps, Running, CallSteps, TableSteps, Rows
<1>2. RoomsFounded'
  BY DEF RoomsFounded, Types, Rows, AliasLeadsToRoom
<1>3. Seats'
  BY DEF Seats, Seated, Types, Rows, SeatsCounted, Guest
<1>4. Owners'
  BY <1>0 DEF Owners, Owns, Types, GuestOf, Guest
<1>5. Arrivals'
  BY DEF Arrivals, Types, GuestOf, Guest, GuestsArrive
<1>6. Records'
  BY DEF Records, Types, GuestRow, GuestOf, Guest, JoinedOnRecord
<1> QED
  BY <1>1, <1>2, <1>3, <1>4, <1>5, <1>6 DEF IInv

LEMMA RegisterKeepsIInv ==
  ASSUME IInv, NEW r \in Redemptions, Register(r)
  PROVE  IInv'
<1> USE B2cAssumption DEF IInv, Calls, Register, GoTo, scan, tables
<1>0. GuestOf(r) \in AnyGuest /\ token[r] \in Creations
  BY DEF GuestOf, Guest, AnyGuest, Types, Seats, Seated
<1>1. Types'
  BY <1>0 DEF Types, CreationSteps, RedemptionSteps, Running, CallSteps, TableSteps, Rows
<1>2. RoomsFounded'
  BY DEF RoomsFounded, Types, Rows, AliasLeadsToRoom
<1>3. Seats'
  BY DEF Seats, Seated, Types, Rows, SeatsCounted, Guest
<1>4. Owners'
  BY DEF Owners, Owns, Types, GuestOf, Guest
<1>5. Arrivals'
  BY DEF Arrivals, Types, GuestOf, Guest, GuestsArrive
<1>6. Records'
  BY DEF Records, Types, GuestRow, GuestOf, Guest, JoinedOnRecord
<1> QED
  BY <1>1, <1>2, <1>3, <1>4, <1>5, <1>6 DEF IInv

LEMMA LoginKeepsIInv ==
  ASSUME IInv, NEW r \in Redemptions, Login(r)
  PROVE  IInv'
<1> USE B2cAssumption DEF IInv, Calls, Login, GoTo, scan, tables
<1>0. GuestOf(r) \in AnyGuest /\ token[r] \in Creations
  BY DEF GuestOf, Guest, AnyGuest, Types, Seats, Seated
<1>1. Types'
  BY <1>0 DEF Types, CreationSteps, RedemptionSteps, Running, CallSteps, TableSteps, Rows
<1>2. RoomsFounded'
  BY DEF RoomsFounded, Types, Rows, AliasLeadsToRoom
<1>3. Seats'
  BY DEF Seats, Seated, Types, Rows, SeatsCounted, Guest
<1>4. Owners'
  BY DEF Owners, Owns, Types, GuestOf, Guest
<1>5. Arrivals'
  BY DEF Arrivals, Types, GuestOf, Guest, GuestsArrive
<1>6. Records'
  BY DEF Records, Types, GuestRow, GuestOf, Guest, JoinedOnRecord
<1> QED
  BY <1>1, <1>2, <1>3, <1>4, <1>5, <1>6 DEF IInv

LEMMA InviteKeepsIInv ==
  ASSUME IInv, NEW r \in Redemptions, Invite(r)
  PROVE  IInv'
<1> USE B2cAssumption DEF IInv, Calls, Invite, GoTo, scan, tables
<1>0. GuestOf(r) \in AnyGuest /\ token[r] \in Creations
  BY DEF GuestOf, Guest, AnyGuest, Types, Seats, Seated
<1>1. Types'
  BY <1>0 DEF Types, CreationSteps, RedemptionSteps, Running, CallSteps, TableSteps, Rows
<1>2. RoomsFounded'
  BY DEF RoomsFounded, Types, Rows, AliasLeadsToRoom
<1>3. Seats'
  BY DEF Seats, Seated, Types, Rows, SeatsCounted, Guest
<1>4. Owners'
  BY DEF Owners, Owns, Types, GuestOf, Guest
<1>5. Arrivals'
  BY DEF Arrivals, Types, GuestOf, Guest, GuestsArrive
<1>6. Records'
  BY DEF Records, Types, GuestRow, GuestOf, Guest, JoinedOnRecord
<1> QED
  BY <1>1, <1>2, <1>3, <1>4, <1>5, <1>6 DEF IInv
\* The number of a redemption that finds its name free is the room's next one:
\* every lower number has a guest on record.
LEMMA NextSeat ==
  ASSUME IInv, NEW r \in Redemptions, pc[r] = "persist",
         ~ \E g \in guests : g.user = GuestOf(r)
  PROVE  /\ token[r] \in Rows
         /\ index[r] = rooms[token[r]]
         /\ index[r] \in 1 .. MaxGuests
<1> USE B2cAssumption DEF IInv
<1>1. /\ token[r] \in Rows /\ index[r] \in 1 .. MaxGuests /\ index[r] <= rooms[token[r]]
      /\ rooms[token[r]] \in Nat
  BY DEF Seats, Seated, Types
<1>2. ASSUME index[r] # rooms[token[r]] PROVE FALSE
  <2>1. index[r] \in 1 .. rooms[token[r]] - 1
    BY <1>1, <1>2
  <2>2. PICK g \in guests : g.token = token[r] /\ g.index = index[r]
    BY <1>1, <2>1 DEF Seats, SeatsCounted
  <2>3. g.user = GuestOf(r)
    BY <2>2 DEF Seats, GuestOf
  <2> QED
    BY <2>3
<1> QED
  BY <1>1, <1>2

LEMMA PersistKeepsIInv ==
  ASSUME IInv, NEW r \in Redemptions, Persist(r)
  PROVE  IInv'
<1> USE B2cAssumption
<1>1. CASE \E g \in guests : g.user = GuestOf(r)
  <2>1. QuietStep(r, "done")
    BY <1>1 DEF Persist, QuietStep, Kept, Moves, tables, homeserver, scan, Answer, IInv, Types,
                Replies, Calls
  <2> QED
    BY <2>1, QuietStepKeepsIInv DEF Calls
<1>2. CASE ~ \E g \in guests : g.user = GuestOf(r)
  <2> USE DEF IInv, Calls, scan, homeserver
  <2> DEFINE t == token[r]
  <2>1. /\ t \in Rows /\ t \in Creations /\ index[r] = rooms[t] /\ index[r] \in 1 .. MaxGuests
        /\ GuestOf(r) \in AnyGuest
    BY <1>2, NextSeat DEF Persist, Types, GuestOf, Guest, AnyGuest
  <2>2. /\ pc[r] = "persist" /\ pc' = [pc EXCEPT ![r] = "audit_joined"] /\ reply' = reply
        /\ guests' = guests \cup {GuestRow(r)} /\ rooms' = [rooms EXCEPT ![t] = @ + 1]
        /\ UNCHANGED <<token, index, log, expired, alias, users, invited, logins, late>>
    BY <1>2 DEF Persist, GoTo
  <2>3. Rows' = Rows /\ rooms'[t] = rooms[t] + 1 /\ \A s \in Rows \ {t} : rooms'[s] = rooms[s]
    BY <2>1, <2>2 DEF Rows, Types
  <2>4. GuestRow(r) = [user |-> GuestOf(r), token |-> t, index |-> rooms[t]]
    BY <2>1 DEF GuestRow
  <2>5. Types'
    BY <2>1, <2>2, <2>3, <2>4
    DEF Types, CreationSteps, RedemptionSteps, Running, CallSteps, TableSteps
  <2>6. RoomsFounded'
    BY <2>2, <2>3 DEF RoomsFounded, Types, AliasLeadsToRoom
  <2>7. SeatsCounted'
    <3> SUFFICES ASSUME NEW s \in Rows
                 PROVE  {g.index : g \in {h \in guests' : h.token = s}} = 1 .. rooms'[s] - 1
      BY <2>3 DEF SeatsCounted
    <3>1. {g.index : g \in {h \in guests : h.token = s}} = 1 .. rooms[s] - 1
      BY DEF Seats, SeatsCounted
    <3>2. CASE s = t
      <4>1. {g.index : g \in {h \in guests' : h.token = s}} =
              {g.index : g \in {h \in guests : h.token = s}} \cup {rooms[s]}
        BY <2>2, <2>4, <3>2
      <4>2. (1 .. rooms[s] - 1) \cup {rooms[s]} = 1 .. rooms[s]
        BY <2>1, <3>2
      <4>3. rooms'[s] - 1 = rooms[s]
        BY <2>1, <2>3, <3>2
      <4> QED
        BY <3>1, <4>1, <4>2, <4>3
    <3>3. CASE s # t
      <4>1. {h \in guests' : h.token = s} = {h \in guests : h.token = s}
        BY <2>2, <2>4, <3>3
      <4> QED
        BY <2>3, <3>1, <3>3, <4>1
    <3> QED
      BY <3>2, <3>3
  <2>8. Seats'
    <3>1. \A q \in Redemptions : Seated(q)' => Seated(q)
      BY <2>2 DEF Seated, Types
    <3>2. GuestOf(r) = Guest(t, rooms[t])
      BY <2>1 DEF GuestOf
    <3>3. \A q \in Redemptions : Seated(q)' =>
            token[q] \in Rows /\ index[q] \in 1 .. MaxGuests /\ index[q] <= rooms'[token[q]]
      BY <2>1, <2>3, <3>1 DEF Seats, Types
    <3>4. \A g \in guests' : g.user = Guest(g.token, g.index) /\ g.token \in Rows
      BY <2>1, <2>2, <2>4, <3>2 DEF Seats
    <3> QED
      BY <2>2, <2>3, <2>7, <3>3, <3>4 DEF Seats, Guest
  <2>9. Owners'
    BY <2>2 DEF Owners, Owns, Types, GuestOf, Guest
  <2>10. Arrivals'
    <3>1. /\ GuestOf(r) \in users
          /\ [room |-> t, user |-> GuestOf(r)] \in invited
          /\ [user |-> GuestOf(r), redemption |-> r] \in logins
      BY <2>2 DEF Arrivals, Owners, Owns
    <3>2. GuestsArrive'
      <4> SUFFICES ASSUME NEW g \in guests'
                   PROVE  /\ g.user \in users
                          /\ [room |-> g.token, user |-> g.user] \in invited
                          /\ \E n \in logins : n.user = g.user
        BY <2>2 DEF GuestsArrive
      <4>1. CASE g \in guests
        BY <4>1 DEF Arrivals, GuestsArrive
      <4>2. CASE g = GuestRow(r)
        <5>1. g.user = GuestOf(r) /\ g.token = t
          BY <2>4, <4>2
        <5> QED
          BY <3>1, <5>1
      <4> QED
        BY <2>2, <4>1, <4>2
    <3> QED
      BY <2>2, <3>2 DEF Arrivals, Types, GuestOf, Guest
  <2>11. Records'
    BY <2>2 DEF Records, Types, GuestRow, GuestOf, Guest, JoinedOnRecord
  <2> QED
    BY <2>5, <2>6, <2>8, <2>9, <2>10, <2>11 DEF IInv
<1> QED
  BY <1>1, <1>2

LEMMA AuditJoinedKeepsIInv ==
  ASSUME IInv, NEW r \in Redemptions, AuditJoined(r)
  PROVE  IInv'
<1> USE B2cAssumption DEF IInv, Calls, AuditJoined, Answer, Append, scan, tables, homeserver
<1>1. Types'
  BY DEF Types, CreationSteps, RedemptionSteps, Running, CallSteps, TableSteps, Rows, Replies
<1>2. RoomsFounded'
  BY DEF RoomsFounded, Types, Rows, AliasLeadsToRoom
<1>3. Seats'
  BY DEF Seats, Seated, Types, Rows, SeatsCounted, Guest
<1>4. Owners'
  BY DEF Owners, Owns, Types, GuestOf, Guest
<1>5. Arrivals'
  BY DEF Arrivals, Types, GuestOf, Guest, GuestsArrive
<1>6. Records'
  BY DEF Records, Types, GuestRow, GuestOf, Guest, JoinedOnRecord
<1> QED
  BY <1>1, <1>2, <1>3, <1>4, <1>5, <1>6 DEF IInv

----------------------------------------------------------------------------
(* Late calls                                                              *)

LEMMA LateCallKeepsIInv ==
  ASSUME IInv, NEW c \in late, LateCall(c)
  PROVE  IInv'
<1> USE B2cAssumption DEF IInv, Calls, LateCall, calls, scan, tables
<1>1. /\ c \in LateCalls
      /\ c.op = "create_room" => c.room \in Creations
      /\ c.op \in {"register", "login", "invite"} => c.user \in AnyGuest /\ c.room \in Creations
  BY DEF Types, LateCalls
<1>2. /\ users \subseteq users' /\ invited \subseteq invited'
      /\ \A n \in Invoices : alias[n] # Nobody => alias'[n] = alias[n]
  BY DEF Types
<1>3. /\ alias' \in [Invoices -> Creations \cup {Nobody}] /\ users' \subseteq AnyGuest
      /\ invited' \subseteq [room : Creations, user : AnyGuest]
  <2>1. c.op = "create_room" => alias' \in [Invoices -> Creations \cup {Nobody}]
    BY <1>1 DEF Types
  <2>2. c.op # "create_room" => alias' = alias
    OBVIOUS
  <2> QED
    BY <1>1, <2>1, <2>2 DEF Types
<1>4. Types'
  BY <1>3 DEF Types, Rows
<1>5. RoomsFounded'
  BY <1>2 DEF RoomsFounded, Types, Rows, AliasLeadsToRoom
<1>6. Seats'
  BY DEF Seats, Seated, Rows, SeatsCounted, Guest
<1>7. Owners'
  BY <1>2 DEF Owners, Owns, GuestOf, Guest
<1>8. Arrivals'
  BY <1>2 DEF Arrivals, GuestOf, Guest, GuestsArrive
<1>9. Records'
  BY DEF Records, GuestRow, GuestOf, Guest, JoinedOnRecord
<1> QED
  BY <1>4, <1>5, <1>6, <1>7, <1>8, <1>9 DEF IInv

----------------------------------------------------------------------------
(* Every step                                                              *)

LEMMA StepKeepsIInv ==
  ASSUME IInv, [Next]_vars
  PROVE  IInv'
<1>1. CASE UNCHANGED vars
  BY <1>1
  DEF vars, calls, scan, tables, homeserver, IInv, Types, RoomsFounded, AliasLeadsToRoom, Seats,
      Seated, SeatsCounted, Owners, Owns, Arrivals, GuestsArrive, Records, JoinedOnRecord,
      GuestRow, GuestOf, Guest, Rows
<1>2. ASSUME NEW p \in Calls, NEW to, QuietStep(p, to) PROVE IInv'
  BY <1>2, QuietStepKeepsIInv
<1>3. ASSUME NEW c \in Creations, Creation(c) PROVE IInv'
  BY <1>2, <1>3, QuietActions, CreateRoomKeepsIInv, InsertRoomKeepsIInv DEF Creation, Calls
<1>4. ASSUME NEW r \in Redemptions, Redemption(r) PROVE IInv'
  BY <1>2, <1>4, QuietActions, ScanKeepsIInv, FindRoomKeepsIInv, RegisterKeepsIInv,
     LoginKeepsIInv, InviteKeepsIInv, PersistKeepsIInv, AuditJoinedKeepsIInv
  DEF Redemption, Calls
<1>5. ASSUME NEW p \in Calls, Fault(p) PROVE IInv'
  BY <1>2, <1>5, QuietActions
<1>6. ASSUME NEW t \in Rows, Expire(t) PROVE IInv'
  BY <1>6, ExpireKeepsIInv
<1>7. ASSUME NEW c \in late, LateCall(c) PROVE IInv'
  BY <1>7, LateCallKeepsIInv
<1> QED
  BY <1>1, <1>3, <1>4, <1>5, <1>6, <1>7 DEF Next, Calls

\* In every reachable state the strengthened invariant holds.
THEOREM Invariant == Spec => []IInv
<1>1. Init => IInv
  BY InitIInv
<1>2. IInv /\ [Next]_vars => IInv'
  BY StepKeepsIInv
<1> QED
  BY <1>1, <1>2, PTL DEF Spec

\* Every variable keeps its type; no guest has a number above guest_index_max.
THEOREM TypeCorrect == Spec => []TypeOK
<1>1. IInv => TypeOK
  BY DEF IInv, Types, TypeOK, Calls
<1> QED
  BY <1>1, Invariant, PTL

\* next_guest_index counts the guests of its room, numbered without a gap, for any
\* number of concurrent redemptions and any fault.
THEOREM SeatsAreCounted == Spec => []SeatsCounted
<1>1. IInv => SeatsCounted
  BY DEF IInv, Seats
<1> QED
  BY <1>1, Invariant, PTL

\* A guest account is handed to one scan only: whoever loses the race for a number
\* fails at the homeserver's register call and is never logged in.
THEOREM GuestsAreNotShared == Spec => []OneLoginPerGuest
<1>1. IInv => OneLoginPerGuest
  BY DEF IInv, Owners, Owns, OneLoginPerGuest, Types
<1> QED
  BY <1>1, Invariant, PTL

\* A guest on record is registered, invited and has been issued a login token.
THEOREM GuestsHaveArrived == Spec => []GuestsArrive
<1>1. IInv => GuestsArrive
  BY DEF IInv, Arrivals
<1> QED
  BY <1>1, Invariant, PTL

\* Only a guest that is on record and audited is answered a login token.
THEOREM AnswersAreOnRecord == Spec => []JoinedOnRecord
<1>1. IInv => JoinedOnRecord
  BY DEF IInv, Records
<1> QED
  BY <1>1, Invariant, PTL

\* Every row of b2c_rooms names the room that has the alias of its invoice.
THEOREM AliasesLeadToRooms == Spec => []AliasLeadsToRoom
<1>1. IInv => AliasLeadsToRoom
  BY DEF IInv, RoomsFounded
<1> QED
  BY <1>1, Invariant, PTL
=============================================================================
