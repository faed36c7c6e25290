----------------------------- MODULE RoomsProofs -----------------------------
(***************************************************************************)
(* Theorems about Rooms, for any rooms, messages, levels, limit of a sync  *)
(* response, faults and bounds.                                            *)
(***************************************************************************)
EXTENDS Rooms, FiniteSetTheorems, WellFoundedInduction, TLAPS

AnyMessage == UNION {Messages[r] : r \in RoomIds}
Measures == Nat \X {FirstMatch(bans, m) : bans \in SUBSET Bans, m \in AnyMessage}
AnyArg == {None} \cup Nat \cup {m.arg : m \in AnyMessage} \cup Measures \cup Bans

Statements ==
  {"insert", "delete", "ban", "unban", "refresh", "moderate", "kick", "pin", "unpin", "join",
   "join pending", "discover", "discover invited"}
Ops == {o \in [do : Statements, room : RoomIds, arg : AnyArg] : o.do = "ban" => o.arg \in Bans}
Actions ==
  {"room_activated", "room_deactivated", "auto_discovered", "auto_discovered_after_invite",
   "auto_moderation", "banned_word_added", "banned_word_removed", "command_denied_power_level",
   "event_pinned", "event_pinned_noop", "event_unpinned", "event_unpinned_noop", "pin_no_reply",
   "room_invite_accepted", "room_invite_join_failed", "user_kicked"}
Entries == [do : {"append", "note"}, action : Actions, room : RoomIds, arg : AnyArg]

\* What is written with the statement before it: the cache after the table of
\* words, the record after the row that a deactivation deletes.
Paired(p) ==
  /\ \A k \in DOMAIN p : p[k].do \in {"ban", "unban"} =>
       k + 1 \in DOMAIN p /\ p[k + 1].do = "refresh"
  /\ \A k \in DOMAIN p : p[k].do = "delete" =>
       k + 1 \in DOMAIN p /\ p[k + 1] = Entry("room_deactivated", p[k].room, None)

Programs == {p \in Seq(Ops \cup Entries) : Paired(p)}

ServerTypes ==
  /\ timeline \in [RoomIds -> Seq(AnyMessage)]
  /\ \A r \in RoomIds : timeline[r] \in Seq(Messages[r])
  /\ member \subseteq RoomIds
  /\ invited \subseteq RoomIds \ member
  /\ DOMAIN pins = RoomIds /\ DOMAIN seen = RoomIds

BotTypes ==
  /\ active \subseteq RoomIds
  /\ words \subseteq Bans /\ cache \subseteq Bans /\ Keyed(words) /\ Keyed(cache)
  /\ log \in Seq([action : Actions, room : RoomIds, arg : AnyArg])
  /\ up \in {"down", "starting", "running"}
  /\ known \subseteq member /\ told \subseteq RoomIds /\ arriving \subseteq RoomIds
  /\ program \in Programs
  /\ since \in 0 .. Len(log) /\ crashes \in 0 .. MaxCrashes /\ errors \in 0 .. MaxErrors

\* What the sync loop knows of each timeline.
Positions ==
  /\ token \in [RoomIds -> Nat] /\ reached \in [RoomIds -> Nat] /\ skipped \in [RoomIds -> Nat]
  /\ \A r \in RoomIds :
       token[r] <= Len(timeline[r]) /\ reached[r] <= token[r] /\ skipped[r] <= reached[r]
  /\ up # "running" => reached = token
  /\ up = "starting" => skipped = token
  /\ up = "down" => program = << >> /\ arriving = {}

\* The cache is behind the table only until the next operation.
Cached ==
  up # "down" /\ "behind" \notin trouble =>
    cache = words \/ (program # << >> /\ Head(program).do = "refresh")

\* Every message handled is one of those the loop has reached, in its order.
Ordered ==
  /\ handled \in [RoomIds -> Seq(Nat)]
  /\ "unprimed" \notin trouble => \A r \in RoomIds : \A i \in DOMAIN handled[r] :
       handled[r][i] <= reached[r]
  /\ HandledInOrder

Complete ==
  up = "running" /\ "cut" \notin trouble =>
    \A r \in RoomIds : \A i \in skipped[r] + 1 .. reached[r] : i \in Range(handled[r])

StartSteps == {"discover", "append", "note", "join pending"}

\* The discovery is the first that a start does.
ToDiscover(r) ==
  \E k \in DOMAIN program :
    /\ program[k].do = "discover" /\ program[k].room = r
    /\ \A j \in 1 .. k : program[j].do \in {"discover", "append"}

Deactivated(r) ==
  \E i \in since + 1 .. Len(log) : log[i].action = "room_deactivated" /\ log[i].room = r

AboutToRecord(r) ==
  /\ program # << >> /\ Head(program).do = "append"
  /\ Head(program).action = "room_deactivated" /\ Head(program).room = r

Discovering ==
  /\ up = "starting" => \A k \in DOMAIN program : program[k].do \in StartSteps
  /\ trouble \cap {"discover", "append"} = {} => \A r \in known \cap Matching :
       /\ up = "starting" => r \in active \/ ToDiscover(r)
       /\ up = "running" => r \in active \/ Deactivated(r) \/ AboutToRecord(r)

IInv ==
  ServerTypes /\ BotTypes /\ Positions /\ Cached /\ Ordered /\ Complete /\ Discovering

----------------------------------------------------------------------------
(* What the handlers do                                                    *)

\* Nothing has to follow it.
Alone(o) == o.do \notin {"ban", "unban", "delete"}

LEMMA OpTyped ==
  ASSUME NEW d \in Statements, NEW r \in RoomIds, NEW x \in AnyArg, d = "ban" => x \in Bans
  PROVE  /\ Op(d, r, x) \in Ops
         /\ d \notin {"ban", "unban", "delete"} => Alone(Op(d, r, x))
<1> QED
  BY DEF Op, Ops, Alone

LEMMA EntryTyped ==
  ASSUME NEW a \in Actions, NEW r \in RoomIds, NEW x \in AnyArg
  PROVE  /\ Entry(a, r, x) \in Entries /\ Alone(Entry(a, r, x))
         /\ Note(a, r, x) \in Entries /\ Alone(Note(a, r, x))
<1> QED
  BY DEF Entry, Note, Entries, Alone

LEMMA Concatenation ==
  ASSUME NEW p \in Programs, NEW q \in Programs
  PROVE  p \o q \in Programs
<1> DEFINE s == p \o q
<1>1. /\ p \in Seq(Ops \cup Entries) /\ q \in Seq(Ops \cup Entries) /\ s \in Seq(Ops \cup Entries)
      /\ Paired(p) /\ Paired(q)
  BY DEF Programs
<1>2. Len(s) = Len(p) + Len(q) /\ DOMAIN s = 1 .. Len(s) /\ DOMAIN p = 1 .. Len(p)
      /\ DOMAIN q = 1 .. Len(q) /\ Len(p) \in Nat /\ Len(q) \in Nat
  BY <1>1
<1>3. \A k \in 1 .. Len(p) : s[k] = p[k]
  BY <1>1
<1>4. \A k \in 1 .. Len(q) : s[Len(p) + k] = q[k]
  BY <1>1
<1> HIDE DEF s
<1>5. ASSUME NEW k \in DOMAIN s
      PROVE  /\ s[k].do \in {"ban", "unban"} => k + 1 \in DOMAIN s /\ s[k + 1].do = "refresh"
             /\ s[k].do = "delete" =>
                  k + 1 \in DOMAIN s /\ s[k + 1] = Entry("room_deactivated", s[k].room, None)
  <2>1. CASE k \in 1 .. Len(p)
    <3>1. k + 1 \in 1 .. Len(p) => s[k + 1] = p[k + 1]
      BY <1>3
    <3> QED
      BY <1>1, <1>2, <1>3, <2>1, <3>1 DEF Paired
  <2>2. CASE k \notin 1 .. Len(p)
    <3> DEFINE j == k - Len(p)
    <3>1. j \in 1 .. Len(q) /\ k = Len(p) + j /\ k + 1 = Len(p) + (j + 1)
      BY <1>2, <2>2
    <3>2. s[k] = q[j]
      BY <1>4, <3>1
    <3>3. j + 1 \in 1 .. Len(q) => s[k + 1] = q[j + 1] /\ k + 1 \in DOMAIN s
      BY <1>2, <1>4, <3>1
    <3> QED
      BY <1>1, <1>2, <3>1, <3>2, <3>3 DEF Paired
  <2> QED
    BY <2>1, <2>2
<1>6. Paired(s)
  BY <1>5 DEF Paired
<1> QED
  BY <1>1, <1>6 DEF Programs, s

LEMMA Rest ==
  ASSUME NEW p \in Programs, p # << >>
  PROVE  /\ Tail(p) \in Programs
         /\ Head(p) \in Ops \cup Entries
         /\ Len(Tail(p)) = Len(p) - 1
         /\ \A k \in DOMAIN Tail(p) : k + 1 \in DOMAIN p /\ Tail(p)[k] = p[k + 1]
<1> DEFINE s == Tail(p)
<1>1. p \in Seq(Ops \cup Entries) /\ Paired(p)
  BY DEF Programs
<1>2. s \in Seq(Ops \cup Entries) /\ Head(p) \in Ops \cup Entries /\ Len(s) = Len(p) - 1
  BY <1>1
<1>3. DOMAIN s = 1 .. Len(p) - 1 /\ DOMAIN p = 1 .. Len(p) /\ Len(p) \in Nat
  BY <1>1, <1>2
<1>4. \A k \in 1 .. Len(p) - 1 : s[k] = p[k + 1]
  BY <1>1
<1> HIDE DEF s
<1>5. Paired(s)
  <2>1. ASSUME NEW k \in DOMAIN s
        PROVE  /\ k + 1 \in DOMAIN p /\ s[k] = p[k + 1]
               /\ k + 2 \in DOMAIN p => k + 1 \in DOMAIN s /\ s[k + 1] = p[k + 2]
    BY <1>3, <1>4
  <2>2. \A k \in DOMAIN s : (k + 1) + 1 = k + 2
    BY <1>3
  <2> QED
    BY <1>1, <2>1, <2>2 DEF Paired
<1> QED
  BY <1>2, <1>3, <1>4, <1>5 DEF Programs, s

\* A program with nothing to pair.
LEMMA Plain ==
  ASSUME NEW p \in Seq(Ops \cup Entries),
         \A k \in DOMAIN p : Alone(p[k])
  PROVE  p \in Programs
<1> QED
  BY DEF Programs, Paired, Alone

LEMMA PlainOnes ==
  /\ << >> \in Programs
  /\ \A a \in Ops \cup Entries : Alone(a) => <<a>> \in Programs
<1>1. << >> \in Programs
  <2>1. << >> \in Seq(Ops \cup Entries) /\ \A k \in DOMAIN << >> : FALSE
    OBVIOUS
  <2> QED
    BY <2>1 DEF Programs, Paired
<1>2. ASSUME NEW a \in Ops \cup Entries, Alone(a)
      PROVE  <<a>> \in Programs
  <2>1. \A k \in DOMAIN <<a>> : <<a>>[k] = a
    OBVIOUS
  <2>2. <<a>> \in Seq(Ops \cup Entries)
    OBVIOUS
  <2> QED
    BY <1>2, <2>1, <2>2, Plain
<1> QED
  BY <1>1, <1>2

LEMMA PlainTwos ==
  ASSUME NEW a \in Ops \cup Entries, NEW b \in Ops \cup Entries,
         Alone(a), Alone(b)
  PROVE  <<a, b>> \in Programs
<1>1. \A k \in DOMAIN <<a, b>> : <<a, b>>[k] \in {a, b}
  OBVIOUS
<1>2. <<a, b>> \in Seq(Ops \cup Entries)
  OBVIOUS
<1> QED
  BY <1>1, <1>2, Plain
LEMMA OrdersTyped ==
  ASSUME NEW r \in RoomIds, NEW i \in Nat, NEW m \in Messages[r], timeline[r][i] = m,
         m.does # "chat"
  PROVE  Orders(r, i) \in Programs
<1> DEFINE x == m.arg
<1>1. x \in AnyArg /\ None \in AnyArg /\ i \in AnyArg
  BY DEF AnyArg, AnyMessage
<1>2. m.does \in Commands /\ (m.does = "ban-word add" => x \in Bans)
  BY LevelAssumption
<1> HIDE DEF x
<1>3. CASE m.does = "activate"
  <2>1. Op("insert", r, None) \in Ops /\ Alone(Op("insert", r, None))
    BY <1>1, OpTyped DEF Statements
  <2>2. Entry("room_activated", r, None) \in Entries /\ Alone(Entry("room_activated", r, None))
    BY <1>1, EntryTyped DEF Actions
  <2>3. <<Op("insert", r, None), Entry("room_activated", r, None)>> \in Programs
    BY <2>1, <2>2, PlainTwos
  <2> QED
    BY <1>3, <2>3 DEF Orders
<1>5. CASE m.does = "deactivate"
  <2> DEFINE a == Op("delete", r, None)
             b == Entry("room_deactivated", r, None)
  <2>1. a \in Ops /\ a.do = "delete" /\ a.room = r
    BY <1>1 DEF Ops, Op, Statements
  <2>2. b \in Entries /\ b.do = "append"
    BY <1>1 DEF Entries, Entry, Actions
  <2>3. b = Entry("room_deactivated", a.room, None)
    BY <2>1
  <2>4. Orders(r, i) = <<a, b>>
    BY <1>5 DEF Orders
  <2> HIDE DEF a, b
  <2>5. <<a, b>> \in Seq(Ops \cup Entries)
    BY <2>1, <2>2
  <2>6. DOMAIN <<a, b>> = {1, 2} /\ <<a, b>>[1] = a /\ <<a, b>>[2] = b
    OBVIOUS
  <2>7. Paired(<<a, b>>)
    BY <2>1, <2>2, <2>3, <2>6 DEF Paired
  <2> QED
    BY <2>4, <2>5, <2>7 DEF Programs
<1>6. ASSUME NEW d \in {"ban", "unban"}, NEW e \in Actions, d = "ban" => x \in Bans
      PROVE  <<Op(d, r, x), Op("refresh", r, None), Entry(e, r, x)>> \in Programs
  <2> DEFINE a == Op(d, r, x)
             b == Op("refresh", r, None)
             c == Entry(e, r, x)
  <2>1. a \in Ops /\ a.do = d
    BY <1>1, <1>6 DEF Ops, Op, Statements
  <2>2. b \in Ops /\ b.do = "refresh"
    BY <1>1 DEF Ops, Op, Statements
  <2>3. c \in Entries /\ c.do = "append"
    BY <1>1 DEF Entries, Entry
  <2> HIDE DEF a, b, c
  <2>4. <<a, b, c>> \in Seq(Ops \cup Entries)
    BY <2>1, <2>2, <2>3
  <2>5. DOMAIN <<a, b, c>> = {1, 2, 3} /\ <<a, b, c>>[1] = a /\ <<a, b, c>>[2] = b
        /\ <<a, b, c>>[3] = c
    OBVIOUS
  <2>6. Paired(<<a, b, c>>)
    BY <2>1, <2>2, <2>3, <2>5 DEF Paired
  <2>7. <<a, b, c>> \in Programs
    BY <2>4, <2>6 DEF Programs
  <2> QED
    BY <2>7 DEF a, b, c
<1>7. CASE m.does = "ban-word add"
  BY <1>2, <1>6, <1>7 DEF Orders, AddWord, Actions, x
<1>8. CASE m.does = "ban-word remove"
  BY <1>6, <1>8 DEF Orders, RemoveWord, Actions, x
<1>9. CASE m.does = "kick"
  <2>1. Op("kick", r, i) \in Ops /\ Alone(Op("kick", r, i))
    BY <1>1, OpTyped DEF Statements
  <2>2. Entry("user_kicked", r, i) \in Entries /\ Alone(Entry("user_kicked", r, i))
    BY <1>1, EntryTyped DEF Actions
  <2>3. <<Op("kick", r, i), Entry("user_kicked", r, i)>> \in Programs
    BY <2>1, <2>2, PlainTwos
  <2> QED
    BY <1>9, <2>3 DEF Orders
<1>10. ASSUME NEW e \in Actions, NEW y \in AnyArg PROVE <<Entry(e, r, y)>> \in Programs
  BY EntryTyped, PlainOnes
<1>11. ASSUME NEW e \in Actions, NEW d \in {"pin", "unpin"}
       PROVE  <<Op(d, r, x), Entry(e, r, x)>> \in Programs
  <2>1. Op(d, r, x) \in Ops /\ Alone(Op(d, r, x))
    BY <1>1, OpTyped DEF Statements
  <2>2. Entry(e, r, x) \in Entries /\ Alone(Entry(e, r, x))
    BY <1>1, EntryTyped
  <2> QED
    BY <2>1, <2>2, PlainTwos
<1>12. CASE m.does \in {"pin", "unpin"} /\ x = None
  BY <1>1, <1>10, <1>12 DEF Orders, Actions, x
<1>13. CASE m.does = "pin" /\ x # None
  BY <1>1, <1>10, <1>11, <1>13 DEF Orders, Pin, Actions, x
<1>14. CASE m.does = "unpin" /\ x # None
  BY <1>1, <1>10, <1>11, <1>14 DEF Orders, Unpin, Actions, x
<1> QED
  BY <1>2, <1>3, <1>5, <1>7, <1>8, <1>9, <1>12, <1>13, <1>14 DEF Commands

LEMMA DispatchTyped ==
  ASSUME NEW r \in RoomIds, NEW i \in Nat, NEW m \in Messages[r], timeline[r][i] = m
  PROVE  Dispatch(r, i) \in Programs
<1>1. i \in AnyArg
  BY DEF AnyArg
<1>2. <<Entry("command_denied_power_level", r, i)>> \in Programs
  BY <1>1, EntryTyped, PlainOnes DEF Actions
<1>3. m.does # "chat" => Orders(r, i) \in Programs
  BY OrdersTyped
<1> QED
  BY <1>2, <1>3, PlainOnes DEF Dispatch

LEMMA ModerationTyped ==
  ASSUME NEW r \in RoomIds, NEW i \in Nat, NEW m \in Messages[r], timeline[r][i] = m,
         cache \subseteq Bans
  PROVE  Moderation(r, i) \in Programs
<1> DEFINE how == <<i, FirstMatch(cache, m)>>
<1>1. how \in AnyArg
  <2>1. m \in AnyMessage /\ cache \in SUBSET Bans
    BY DEF AnyMessage
  <2>2. FirstMatch(cache, m) \in {FirstMatch(bans, n) : bans \in SUBSET Bans, n \in AnyMessage}
    BY <2>1
  <2> QED
    BY <2>2 DEF AnyArg, Measures
<1>2. Moderation(r, i) \in {<< >>, <<Op("moderate", r, how), Entry("auto_moderation", r, how)>>}
  BY DEF Moderation
<1> HIDE DEF how
<1>3. Op("moderate", r, how) \in Ops /\ Alone(Op("moderate", r, how))
  BY <1>1, OpTyped DEF Statements
<1>4. Entry("auto_moderation", r, how) \in Entries /\ Alone(Entry("auto_moderation", r, how))
  BY <1>1, EntryTyped DEF Actions
<1>5. <<Op("moderate", r, how), Entry("auto_moderation", r, how)>> \in Programs
  BY <1>3, <1>4, PlainTwos
<1> QED
  BY <1>2, <1>5, PlainOnes
----------------------------------------------------------------------------
(* One step of a handler                                                   *)

LEMMA HeadTyped ==
  ASSUME BotTypes, program # << >>
  PROVE  /\ op \in Ops \cup Entries /\ op.room \in RoomIds /\ op.arg \in AnyArg
         /\ op.do = "ban" => op.arg \in Bans
         /\ op.do \in {"append", "note"} => op \in Entries
         /\ Tail(program) \in Programs /\ program \in Programs
         /\ program \in Seq(Ops \cup Entries) /\ op = program[1]
<1>1. op \in Ops \cup Entries /\ Tail(program) \in Programs
  BY Rest DEF BotTypes, op
<1>2. program \in Seq(Ops \cup Entries)
  BY DEF BotTypes, Programs
<1>3. op = program[1]
  BY <1>2 DEF op
<1> QED
  BY <1>1, <1>2, <1>3 DEF Ops, Entries, BotTypes, Statements

\* A room found adds one or two records in front.
LEMMA FoundTyped ==
  ASSUME BotTypes, program # << >>
  PROVE  /\ Found \in Programs
         /\ \A k \in DOMAIN Found : Found[k].do = "append"
         /\ op.do \notin {"discover", "discover invited"} => Found = << >>
<1> DEFINE r == op.room
           a == Entry("auto_discovered", r, None)
           b == Entry("auto_discovered_after_invite", r, None)
<1>1. r \in RoomIds
  BY HeadTyped
<1>2. a \in Entries /\ Alone(a) /\ b \in Entries /\ Alone(b)
  BY <1>1, EntryTyped DEF Actions, AnyArg
<1>3. a.do = "append" /\ b.do = "append"
  BY DEF Entry
<1>4. Found \in {<< >>, <<a>>, <<a, b>>}
  BY DEF Found
<1> HIDE DEF a, b
<1>5. <<a>> \in Programs /\ <<a, b>> \in Programs /\ << >> \in Programs
  BY <1>2, PlainOnes, PlainTwos
<1>6. /\ \A k \in DOMAIN <<a>> : <<a>>[k] = a
      /\ \A k \in DOMAIN <<a, b>> : <<a, b>>[k] \in {a, b}
      /\ DOMAIN << >> = {}
  OBVIOUS
<1>7. \A k \in DOMAIN Found : Found[k].do = "append"
  BY <1>3, <1>4, <1>6
<1>8. op.do \notin {"discover", "discover invited"} => Found = << >>
  BY DEF Found
<1> QED
  BY <1>4, <1>5, <1>7, <1>8

\* Where the elements of the next program come from.
LEMMA NextProgram ==
  ASSUME BotTypes, program # << >>, program' = Found \o Tail(program)
  PROVE  /\ program' \in Programs
         /\ Found = << >> => program' = Tail(program)
         /\ \A k \in DOMAIN program' :
              \/ program'[k].do = "append"
              \/ \E j \in DOMAIN program : program'[k] = program[j]
         /\ \A j \in DOMAIN program : j > 1 =>
              \E k \in DOMAIN program' :
                /\ program'[k] = program[j]
                /\ \A l \in 1 .. k : \/ program'[l].do = "append"
                                   \/ \E i \in 1 .. j : program'[l] = program[i]
<1> DEFINE f == Found
           t == Tail(program)
<1>1. f \in Programs /\ t \in Programs /\ (\A k \in DOMAIN f : f[k].do = "append")
  BY HeadTyped, FoundTyped
<1>2. /\ Len(t) = Len(program) - 1
      /\ \A k \in DOMAIN t : k + 1 \in DOMAIN program /\ t[k] = program[k + 1]
  BY Rest, HeadTyped
<1> HIDE DEF f, t
<1>3. f \in Seq(Ops \cup Entries) /\ t \in Seq(Ops \cup Entries) /\ program \in Seq(Ops \cup Entries)
  BY <1>1, HeadTyped DEF Programs
<1>4. program' = f \o t
  BY DEF f, t
<1>5. /\ DOMAIN program' = 1 .. Len(f) + Len(t) /\ DOMAIN f = 1 .. Len(f)
      /\ DOMAIN t = 1 .. Len(t) /\ DOMAIN program = 1 .. Len(program)
      /\ Len(f) \in Nat /\ Len(t) \in Nat /\ Len(program) \in Nat
  BY <1>3, <1>4
<1>6. /\ \A k \in 1 .. Len(f) : program'[k] = f[k]
      /\ \A k \in 1 .. Len(t) : program'[Len(f) + k] = t[k]
  BY <1>3, <1>4
<1>7. ASSUME NEW k \in DOMAIN program'
      PROVE  \/ program'[k].do = "append"
             \/ \E j \in DOMAIN program : program'[k] = program[j]
  <2>1. CASE k \in 1 .. Len(f)
    BY <1>1, <1>5, <1>6, <2>1
  <2>2. CASE k \notin 1 .. Len(f)
    <3>1. k - Len(f) \in 1 .. Len(t) /\ Len(f) + (k - Len(f)) = k
      BY <1>5, <2>2
    <3> QED
      BY <1>2, <1>5, <1>6, <3>1
  <2> QED
    BY <2>1, <2>2
<1>8. ASSUME NEW j \in DOMAIN program, j > 1
      PROVE  \E k \in DOMAIN program' :
               /\ program'[k] = program[j]
               /\ \A l \in 1 .. k : \/ program'[l].do = "append"
                                  \/ \E i \in 1 .. j : program'[l] = program[i]
  <2> DEFINE k == Len(f) + (j - 1)
  <2>1. j - 1 \in 1 .. Len(t) /\ k \in DOMAIN program' /\ (j - 1) + 1 = j
    BY <1>2, <1>5, <1>8
  <2>2. program'[k] = program[j]
    BY <1>2, <1>5, <1>6, <2>1
  <2>3. ASSUME NEW l \in 1 .. k
        PROVE  program'[l].do = "append" \/ \E i \in 1 .. j : program'[l] = program[i]
    <3>1. CASE l \in 1 .. Len(f)
      BY <1>1, <1>5, <1>6, <3>1
    <3>2. CASE l \notin 1 .. Len(f)
      <4> DEFINE m == l - Len(f)
      <4>1. m \in 1 .. Len(t) /\ Len(f) + m = l /\ m + 1 \in 1 .. j
        BY <1>5, <2>1, <3>2
      <4>2. program'[l] = program[m + 1]
        BY <1>2, <1>5, <1>6, <4>1
      <4> QED
        BY <4>1, <4>2
    <3> QED
      BY <3>1, <3>2
  <2> QED
    BY <2>1, <2>2, <2>3
<1>9. f = << >> => program' = t
  BY <1>3, <1>4
<1>10. program' \in Programs
  BY <1>1, <1>4, Concatenation
<1> QED
  BY <1>7, <1>8, <1>9, <1>10 DEF f, t
\* What is done by the statement at the head.
LEMMA StepEffects ==
  ASSUME program # << >>, Local \/ Remote
  PROVE  /\ active' = IF op.do \in {"insert", "discover", "discover invited"}
                      THEN active \cup {op.room}
                      ELSE IF op.do = "delete" THEN active \ {op.room} ELSE active
         /\ words' = IF op.do = "ban" THEN Banned(words, op.arg)
                     ELSE IF op.do = "unban" THEN {b \in words : b.word # op.arg.word} ELSE words
         /\ cache' = IF op.do = "refresh" THEN words ELSE cache
         /\ log' = IF op.do \in {"append", "note"}
                   THEN Append(log, [action |-> op.action, room |-> op.room, arg |-> op.arg])
                   ELSE log
<1> USE DEF Doing, op, server, tables
<1>1. CASE Activate
  BY <1>1 DEF Activate
<1>2. CASE DeleteRow
  BY <1>2 DEF DeleteRow
<1>3. CASE ChangeWords
  BY <1>3 DEF ChangeWords
<1>4. CASE Refresh
  BY <1>4 DEF Refresh
<1>5. CASE AppendEntry
  BY <1>5 DEF AppendEntry
<1>6. CASE Act
  BY <1>6 DEF Act
<1>7. CASE WritePins
  BY <1>7 DEF WritePins
<1>8. CASE Join
  BY <1>8 DEF Join
<1> QED
  BY <1>1, <1>2, <1>3, <1>4, <1>5, <1>6, <1>7, <1>8 DEF Local, Remote

LEMMA SecondIsNext ==
  ASSUME BotTypes, program # << >>, 2 \in DOMAIN program, program' = Tail(program)
  PROVE  program' # << >> /\ Head(program') = program[2]
<1>1. program \in Seq(Ops \cup Entries)
  BY HeadTyped
<1> DEFINE t == Tail(program)
<1>2. t \in Seq(Ops \cup Entries) /\ Len(t) = Len(program) - 1 /\ Len(program) >= 2
  BY <1>1
<1>3. t[1] = program[2]
  BY <1>1, <1>2
<1> HIDE DEF t
<1>4. t # << >> /\ Head(t) = t[1]
  BY <1>2
<1> QED
  BY <1>3, <1>4 DEF t

LEMMA StepKeepsIInv ==
  ASSUME IInv, Step
  PROVE  IInv'
<1> USE RoomAssumption, BoundAssumption DEF IInv
<1>1. program # << >> /\ up # "down" /\ (Local \/ Remote)
  BY DEF Step, Local, Remote, Activate, DeleteRow, ChangeWords, Refresh, AppendEntry, Act,
         WritePins, Join, Doing, Positions
<1>2. /\ program' = Found \o Tail(program)
      /\ trouble' = IF op.do = "refresh" THEN trouble \ {"behind"} ELSE trouble
      /\ UNCHANGED <<up, known, told, seen, token, reached, arriving, handled, since, skipped,
                     errors, crashes>>
  BY DEF Step, client, response, history, bounded
<1>3. BotTypes /\ program' \in Programs
  BY <1>1, <1>2, NextProgram
<1>4. /\ op.room \in RoomIds /\ op.arg \in AnyArg /\ (op.do = "ban" => op.arg \in Bans)
      /\ op.do \in {"append", "note"} => op \in Entries
      /\ op = program[1] /\ 1 \in DOMAIN program /\ Head(program) = op
  BY <1>1, <1>3, HeadTyped DEF op
<1>5. \/ /\ UNCHANGED <<timeline, member, invited, pins, acted>>
         /\ Local
      \/ /\ UNCHANGED <<timeline, active, words, log, cache>>
         /\ Remote
  BY <1>1 DEF Local, Remote, Activate, DeleteRow, ChangeWords, Refresh, AppendEntry, Act,
              WritePins, Join, server, tables
<1>6. ServerTypes'
  BY <1>2, <1>4, <1>5 DEF ServerTypes, Remote, Act, WritePins, Join, Doing
<1>7. BotTypes'
  <2>1. /\ active' \subseteq RoomIds
        /\ words' \subseteq Bans /\ cache' \subseteq Bans /\ Keyed(words') /\ Keyed(cache')
    <3>1. op.do = "ban" => Banned(words, op.arg) \subseteq Bans /\ Keyed(Banned(words, op.arg))
      BY <1>4 DEF BotTypes, Banned, Keyed
    <3>2. LET rest == {b \in words : b.word # op.arg.word} IN rest \subseteq Bans /\ Keyed(rest)
      BY DEF BotTypes, Keyed
    <3> QED
      BY <1>1, <1>4, <3>1, <3>2, StepEffects DEF BotTypes
  <2>2. /\ log' \in Seq([action : Actions, room : RoomIds, arg : AnyArg])
        /\ Len(log) <= Len(log')
    <3>1. CASE op.do \in {"append", "note"}
      <4>1. [action |-> op.action, room |-> op.room, arg |-> op.arg]
              \in [action : Actions, room : RoomIds, arg : AnyArg]
        BY <1>4, <3>1 DEF Entries
      <4>2. log' = Append(log, [action |-> op.action, room |-> op.room, arg |-> op.arg])
        BY <1>1, <3>1, StepEffects
      <4> QED
        BY <4>1, <4>2 DEF BotTypes
    <3>2. CASE op.do \notin {"append", "note"}
      <4>1. log' = log
        BY <1>1, <3>2, StepEffects
      <4> QED
        BY <4>1 DEF BotTypes
    <3> QED
      BY <3>1, <3>2
  <2>3. member \subseteq member'
    BY <1>5 DEF Remote, Act, WritePins, Join
  <2> QED
    BY <1>2, <1>3, <2>1, <2>2, <2>3 DEF BotTypes
<1>8. Positions'
  BY <1>1, <1>2, <1>5 DEF Positions, Remote, Act, WritePins, Join
<1>9. Cached'
  <2>1. CASE op.do \in {"ban", "unban"}
    <3>1. 2 \in DOMAIN program /\ program[2].do = "refresh"
      <4>1. Paired(program)
        BY <1>3 DEF BotTypes, Programs
      <4>2. 1 + 1 \in DOMAIN program /\ program[1 + 1].do = "refresh"
        BY <1>4, <2>1, <4>1 DEF Paired
      <4> QED
        BY <4>2
    <3>2. program' = Tail(program)
      BY <1>1, <1>2, <1>3, <2>1, FoundTyped, NextProgram
    <3>3. program' # << >> /\ Head(program') = program[2]
      BY <1>1, <1>3, <3>1, <3>2, SecondIsNext
    <3> QED
      BY <3>1, <3>3 DEF Cached
  <2>2. CASE op.do = "refresh"
    BY <1>1, <2>2, StepEffects DEF Cached
  <2>3. CASE op.do \notin {"ban", "unban", "refresh"}
    BY <1>1, <1>2, <1>4, <2>3, StepEffects DEF Cached
  <2> QED
    BY <2>1, <2>2, <2>3
<1>10. Ordered'
  BY <1>2 DEF Ordered, HandledInOrder
<1>11. Complete'
  BY <1>2 DEF Complete, Range
<1>12. Discovering'
  <2>1. ASSUME up = "starting" PROVE \A k \in DOMAIN program' : program'[k].do \in StartSteps
    BY <1>1, <1>2, <1>3, <2>1, NextProgram DEF Discovering, StartSteps
  <2>2. trouble' \cap {"discover", "append"} = trouble \cap {"discover", "append"}
    BY <1>2
  <2>3. ASSUME up = "starting", NEW r \in known \cap Matching, r \in active \/ ToDiscover(r)
        PROVE  r \in active' \/ ToDiscover(r)'
    <3>1. op.do # "delete"
      BY <1>4, <2>3 DEF Discovering, StartSteps
    <3>2. active \subseteq active' /\ (op.do = "discover" => op.room \in active')
      BY <1>1, <3>1, StepEffects
    <3>3. ASSUME NEW j \in DOMAIN program, program[j].do = "discover", program[j].room = r,
                 \A l \in 1 .. j : program[l].do \in {"discover", "append"}
          PROVE  r \in active' \/ ToDiscover(r)'
      <4>1. CASE j = 1
        BY <1>4, <3>2, <3>3, <4>1
      <4>2. CASE j # 1
        <5>1. j > 1
          BY <1>3, <4>2 DEF BotTypes, Programs
        <5>2. PICK k \in DOMAIN program' :
                /\ program'[k] = program[j]
                /\ \A l \in 1 .. k : \/ program'[l].do = "append"
                                   \/ \E i \in 1 .. j : program'[l] = program[i]
          BY <1>1, <1>2, <1>3, <5>1, NextProgram
        <5>3. \A l \in 1 .. k : program'[l].do \in {"discover", "append"}
          BY <3>3, <5>2
        <5> QED
          BY <3>3, <5>2, <5>3 DEF ToDiscover
      <4> QED
        BY <4>1, <4>2
    <3> QED
      BY <2>3, <3>2, <3>3 DEF ToDiscover
  <2>4. ASSUME up = "running", NEW r \in known \cap Matching,
               r \in active \/ Deactivated(r) \/ AboutToRecord(r)
        PROVE  r \in active' \/ Deactivated(r)' \/ AboutToRecord(r)'
    <3>1. r \in RoomIds
      BY <2>4
    <3>2. CASE r \in active /\ r \notin active'
      <4>1. op.do = "delete" /\ op.room = r
        BY <1>1, <3>2, StepEffects
      <4>2. 2 \in DOMAIN program /\ program[2] = Entry("room_deactivated", r, None)
        <5>1. Paired(program)
          BY <1>3 DEF BotTypes, Programs
        <5>2. 1 + 1 \in DOMAIN program /\ program[1 + 1] = Entry("room_deactivated", r, None)
          BY <1>4, <4>1, <5>1 DEF Paired
        <5> QED
          BY <5>2
      <4>3. program' = Tail(program)
        BY <1>1, <1>2, <1>3, <4>1, FoundTyped, NextProgram
      <4>4. program' # << >> /\ Head(program') = Entry("room_deactivated", r, None)
        BY <1>1, <1>3, <4>2, <4>3, SecondIsNext
      <4> QED
        BY <4>4 DEF AboutToRecord, Entry
    <3>3. CASE Deactivated(r)
      <4>1. /\ Len(log) <= Len(log') /\ Len(log) \in Nat /\ Len(log') \in Nat
            /\ \A i \in 1 .. Len(log) : log'[i] = log[i]
        <5>1. log \in Seq([action : Actions, room : RoomIds, arg : AnyArg])
          BY <1>3 DEF BotTypes
        <5>2. log' = log
                \/ log' = Append(log, [action |-> op.action, room |-> op.room, arg |-> op.arg])
          BY <1>1, StepEffects
        <5> QED
          BY <5>1, <5>2
      <4>2. since \in Nat /\ since' = since
        BY <1>2, <1>3 DEF BotTypes
      <4> QED
        BY <3>3, <4>1, <4>2 DEF Deactivated
    <3>4. CASE AboutToRecord(r)
      <4>1. /\ log' = Append(log, [action |-> op.action, room |-> op.room, arg |-> op.arg])
            /\ op.action = "room_deactivated" /\ op.room = r
        BY <1>1, <1>4, <3>4, StepEffects DEF AboutToRecord
      <4>2. Len(log') = Len(log) + 1 /\ Len(log) \in Nat
            /\ log'[Len(log')].action = "room_deactivated" /\ log'[Len(log')].room = r
        BY <1>3, <4>1 DEF BotTypes
      <4>3. since \in 0 .. Len(log) /\ since' = since
        BY <1>2, <1>3 DEF BotTypes
      <4>4. Len(log') \in since' + 1 .. Len(log')
        BY <4>2, <4>3
      <4> QED
        BY <4>2, <4>4 DEF Deactivated
    <3> QED
      BY <2>4, <3>2, <3>3, <3>4
  <2> QED
    BY <1>2, <2>1, <2>2, <2>3, <2>4 DEF Discovering
<1> QED
  BY <1>6, <1>7, <1>8, <1>9, <1>10, <1>11, <1>12
LEMMA AfterErrorTyped ==
  ASSUME BotTypes, program # << >>
  PROVE  /\ AfterError \in Programs
         /\ op.do # "join" => \A k \in DOMAIN AfterError :
              \E j \in DOMAIN program : AfterError[k] = program[j]
<1>1. Tail(program) \in Programs /\ op.room \in RoomIds
  BY HeadTyped
<1>2. <<Entry("room_invite_join_failed", op.room, None)>> \in Programs
  BY <1>1, EntryTyped, PlainOnes DEF Actions, AnyArg
<1>3. \A k \in DOMAIN Tail(program) : \E j \in DOMAIN program : Tail(program)[k] = program[j]
  BY HeadTyped, Rest
<1>4. op.do # "join" => AfterError = Tail(program) \/ AfterError = << >>
  BY DEF AfterError
<1>5. AfterError = Tail(program) \/ AfterError = << >>
        \/ AfterError = <<Entry("room_invite_join_failed", op.room, None)>>
  BY DEF AfterError
<1>6. DOMAIN << >> = {}
  OBVIOUS
<1> QED
  BY <1>1, <1>2, <1>3, <1>4, <1>5, <1>6, PlainOnes

LEMMA StepFailsKeepsIInv ==
  ASSUME IInv, StepFails
  PROVE  IInv'
<1> USE RoomAssumption, BoundAssumption DEF IInv
<1>1. program # << >> /\ up # "down"
  BY DEF StepFails, Positions
<1>2. /\ program' = AfterError
      /\ trouble' = trouble \cup {op.do} \cup (IF op.do = "refresh" THEN {"behind"} ELSE {})
      /\ errors' = errors + 1 /\ errors < MaxErrors
      /\ UNCHANGED <<up, known, told, seen, token, reached, arriving, handled, since, skipped, crashes>>
      /\ UNCHANGED <<timeline, active, words, log, cache>>
      /\ Remote \/ UNCHANGED <<member, invited, pins>>
  BY DEF StepFails, Fails, client, response, history, RestOfBatch, Remote, Act, WritePins, Join,
         server, tables
<1>3. BotTypes /\ program' \in Programs
  BY <1>1, <1>2, AfterErrorTyped
<1>4. op.room \in RoomIds /\ op = program[1] /\ 1 \in DOMAIN program /\ Head(program) = op
  BY <1>1, <1>3, HeadTyped DEF op
<1>5. ServerTypes'
  BY <1>2, <1>4 DEF ServerTypes, Remote, Act, WritePins, Join, Doing
<1>6. BotTypes'
  <2>1. member \subseteq member'
    BY <1>2 DEF Remote, Act, WritePins, Join
  <2> QED
    BY <1>2, <1>3, <2>1 DEF BotTypes
<1>7. Positions'
  BY <1>1, <1>2 DEF Positions
<1>8. Cached'
  BY <1>2, <1>4 DEF Cached
<1>9. Ordered'
  BY <1>2 DEF Ordered, HandledInOrder
<1>10. Complete'
  BY <1>2 DEF Complete, Range
<1>11. Discovering'
  <2>1. ASSUME up = "starting" PROVE \A k \in DOMAIN program' : program'[k].do \in StartSteps
    <3>1. op.do # "join"
      BY <1>4, <2>1 DEF Discovering, StartSteps
    <3> QED
      BY <1>1, <1>2, <1>3, <2>1, <3>1, AfterErrorTyped DEF Discovering
  <2>2. ASSUME trouble' \cap {"discover", "append"} = {}
        PROVE  trouble \cap {"discover", "append"} = {} /\ op.do \notin {"discover", "append"}
    BY <1>2, <2>2
  <2>3. ASSUME op.do \notin {"discover", "append"}, NEW r \in known \cap Matching
        PROVE  ~ToDiscover(r) /\ ~AboutToRecord(r)
    <3>1. ~ToDiscover(r)
      <4>1. ASSUME NEW k \in DOMAIN program,
                   \A j \in 1 .. k : program[j].do \in {"discover", "append"}
            PROVE  FALSE
        <5>1. 1 \in 1 .. k
          BY <1>3 DEF BotTypes, Programs
        <5> QED
          BY <1>4, <2>3, <4>1, <5>1
      <4> QED
        BY <4>1 DEF ToDiscover
    <3> QED
      BY <1>4, <2>3, <3>1 DEF AboutToRecord
  <2> QED
    BY <1>2, <2>1, <2>2, <2>3 DEF Discovering, Deactivated
<1> QED
  BY <1>5, <1>6, <1>7, <1>8, <1>9, <1>10, <1>11
----------------------------------------------------------------------------
(* The loop                                                                *)

LEMMA HandleMessageKeepsIInv ==
  ASSUME IInv, NEW r \in RoomIds, HandleMessage(r)
  PROVE  IInv'
<1> USE RoomAssumption, BoundAssumption DEF IInv
<1> DEFINE i == reached[r] + 1
<1>1. /\ program = << >> /\ reached[r] < token[r]
      /\ reached' = [reached EXCEPT ![r] = i]
      /\ handled' = [handled EXCEPT ![r] = Append(@, i)]
      /\ program' \in {<< >>, Moderation(r, i), Moderation(r, i) \o Dispatch(r, i)}
      /\ trouble' \in {trouble, trouble \cup {"stale"}}
      /\ errors' = errors \/ (errors' = errors + 1 /\ errors < MaxErrors)
      /\ UNCHANGED <<timeline, member, invited, pins, active, words, log, up, known, told, seen,
                     token, cache, arriving, since, skipped, crashes>>
  BY DEF HandleMessage, Waiting, Fails, server, tables, client
<1>2. up = "running" /\ i \in 1 .. token[r] /\ token[r] <= Len(timeline[r])
  BY <1>1 DEF Positions, BotTypes
<1>3. timeline[r][i] \in Messages[r]
  <2>1. timeline[r] \in Seq(Messages[r]) /\ token[r] \in Nat
    BY DEF ServerTypes, Positions
  <2>2. i \in 1 .. Len(timeline[r])
    BY <1>2, <2>1
  <2> QED
    BY <2>1, <2>2
<1>4. program' \in Programs
  <2>1. i \in Nat
    BY <1>2 DEF Positions
  <2> HIDE DEF i
  <2>2. Moderation(r, i) \in Programs /\ Dispatch(r, i) \in Programs
    BY <1>3, <2>1, ModerationTyped, DispatchTyped DEF BotTypes
  <2> QED
    BY <1>1, <2>2, Concatenation, PlainOnes
<1>5. ServerTypes'
  BY <1>1 DEF ServerTypes
<1>6. BotTypes'
  BY <1>1, <1>4 DEF BotTypes
<1>7. Positions'
  BY <1>1, <1>2 DEF Positions
<1>8. Cached'
  BY <1>1 DEF Cached
<1>9. handled'[r] = Append(handled[r], i) /\ handled[r] \in Seq(Nat)
      /\ \A q \in RoomIds \ {r} : handled'[q] = handled[q]
  BY <1>1 DEF Ordered
<1>10. /\ Len(handled'[r]) = Len(handled[r]) + 1 /\ Len(handled[r]) \in Nat
       /\ DOMAIN handled'[r] = 1 .. Len(handled[r]) + 1 /\ DOMAIN handled[r] = 1 .. Len(handled[r])
       /\ handled'[r][Len(handled[r]) + 1] = i
       /\ \A k \in DOMAIN handled[r] : handled'[r][k] = handled[r][k]
  BY <1>9
<1>11. Ordered'
  <2>1. handled' \in [RoomIds -> Seq(Nat)]
    BY <1>1, <1>2 DEF Ordered, Positions
  <2>2. ASSUME "unprimed" \notin trouble', NEW q \in RoomIds, NEW k \in DOMAIN handled'[q]
        PROVE  /\ handled'[q][k] <= reached'[q]
               /\ \A l \in DOMAIN handled'[q] : l < k => handled'[q][l] < handled'[q][k]
    <3>1. "unprimed" \notin trouble
      BY <1>1, <2>2
    <3>2. \A l \in DOMAIN handled[q] : handled[q][l] <= reached[q] /\ handled[q][l] \in Nat
      BY <3>1 DEF Ordered
    <3>3. \A m, l \in DOMAIN handled[q] : m < l => handled[q][m] < handled[q][l]
      BY <3>1 DEF Ordered, HandledInOrder
    <3>4. CASE q # r
      BY <1>1, <1>9, <2>2, <3>2, <3>3, <3>4 DEF Positions
    <3>5. CASE q = r /\ k \in DOMAIN handled[r]
      <4>1. handled'[q][k] = handled[q][k] /\ reached'[q] = reached[q] + 1 /\ reached[q] \in Nat
        BY <1>1, <1>10, <3>5 DEF Positions
      <4>2. ASSUME NEW l \in DOMAIN handled'[q], l < k PROVE handled'[q][l] < handled'[q][k]
        <5>1. l \in DOMAIN handled[q]
          BY <1>10, <3>5, <4>2
        <5> QED
          BY <1>10, <3>3, <3>5, <4>1, <4>2, <5>1
      <4> QED
        BY <3>2, <3>5, <4>1, <4>2
    <3>6. CASE q = r /\ k \notin DOMAIN handled[r]
      <4>1. handled'[q][k] = i /\ reached'[q] = i /\ i = reached[q] + 1 /\ reached[q] \in Nat
        BY <1>1, <1>10, <2>2, <3>6 DEF Positions
      <4>2. ASSUME NEW l \in DOMAIN handled'[q], l < k PROVE handled'[q][l] < handled'[q][k]
        <5>1. l \in DOMAIN handled[q]
          BY <1>10, <2>2, <3>6, <4>2
        <5>2. handled'[q][l] = handled[q][l]
          BY <1>10, <3>6, <5>1
        <5> QED
          BY <3>2, <4>1, <5>1, <5>2
      <4> QED
        BY <4>1, <4>2
    <3> QED
      BY <3>4, <3>5, <3>6
  <2> QED
    BY <2>1, <2>2 DEF Ordered, HandledInOrder
<1>12. Complete'
  <2>1. ASSUME NEW q \in RoomIds, NEW k \in skipped[q] + 1 .. reached'[q],
               up = "running", "cut" \notin trouble
        PROVE  k \in Range(handled'[q])
    <3>1. CASE q # r
      BY <1>1, <1>9, <2>1, <3>1 DEF Complete, Positions
    <3>2. CASE q = r /\ k = i
      BY <1>10, <3>2 DEF Range
    <3>3. CASE q = r /\ k # i
      <4>1. k \in skipped[q] + 1 .. reached[q]
        BY <1>1, <2>1, <3>3 DEF Positions
      <4>2. k \in Range(handled[q])
        BY <2>1, <4>1 DEF Complete
      <4> QED
        BY <1>10, <3>3, <4>2 DEF Range
    <3> QED
      BY <3>1, <3>2, <3>3
  <2> QED
    BY <1>1, <2>1 DEF Complete
<1>13. Discovering'
  BY <1>1, <1>2 DEF Discovering, AboutToRecord, Deactivated
<1> QED
  BY <1>5, <1>6, <1>7, <1>8, <1>11, <1>12, <1>13

LEMMA InviteProgram ==
  ASSUME NEW r \in RoomIds, NEW a \in Ops, NEW b \in Entries, NEW c \in Ops,
         Alone(a), Alone(b), Alone(c)
  PROVE  /\ <<a, b>> \o << >> \in Programs /\ <<a, b>> \o <<c>> \in Programs
         /\ \A k \in DOMAIN (<<a, b>> \o << >>) : (<<a, b>> \o << >>)[k] \in {a, b, c}
         /\ \A k \in DOMAIN (<<a, b>> \o <<c>>) : (<<a, b>> \o <<c>>)[k] \in {a, b, c}
<1>1. <<a, b>> \in Programs /\ <<c>> \in Programs /\ << >> \in Programs
  BY PlainOnes, PlainTwos
<1>2. ASSUME NEW p \in {<< >>, <<c>>}
      PROVE  /\ <<a, b>> \o p \in Programs
             /\ \A k \in DOMAIN (<<a, b>> \o p) : (<<a, b>> \o p)[k] \in {a, b, c}
  <2> DEFINE S == {a, b, c}
  <2>0. a \in S /\ b \in S /\ c \in S
    OBVIOUS
  <2> HIDE DEF S
  <2>1. <<a, b>> \in Seq(S) /\ << >> \in Seq(S) /\ <<c>> \in Seq(S)
    BY <2>0
  <2>2. <<a, b>> \o p \in Seq(S)
    <3>1. p \in Seq(S)
      BY <2>1
    <3> QED
      BY <2>1, <3>1
  <2>3. \A k \in DOMAIN (<<a, b>> \o p) : (<<a, b>> \o p)[k] \in S
    BY <2>2
  <2> QED
    BY <1>1, <2>3, Concatenation DEF S
<1> QED
  BY <1>2

LEMMA InviteKeepsIInv ==
  ASSUME IInv, NEW r \in RoomIds, HandleInvite(r) \/ AcceptPending(r)
  PROVE  IInv'
<1> USE RoomAssumption, BoundAssumption DEF IInv
<1> DEFINE d == IF up = "running" THEN "join" ELSE "join pending"
           e == IF up = "running" THEN "discover invited" ELSE "discover"
           b == IF up = "running" THEN Entry("room_invite_accepted", r, None)
                ELSE Note("room_invite_accepted", r, None)
<1>1. /\ program = << >> /\ up # "down" /\ arriving' = arriving \ {r}
      /\ program' \in {<<Op(d, r, None), b>> \o << >>,
                       <<Op(d, r, None), b>> \o <<Op(e, r, None)>>}
      /\ UNCHANGED <<timeline, member, invited, pins, active, words, log, up, known, told, seen,
                     token, cache, reached, handled, since, skipped, errors, crashes, trouble>>
  BY DEF HandleInvite, AcceptPending, Aliased, server, tables, client, history, bounded
<1>2. /\ Op(d, r, None) \in Ops /\ Alone(Op(d, r, None)) /\ Op(e, r, None) \in Ops
      /\ Alone(Op(e, r, None)) /\ b \in Entries /\ Alone(b)
  BY OpTyped, EntryTyped DEF Statements, Actions, AnyArg
<1>3. /\ program' \in Programs
      /\ \A k \in DOMAIN program' : program'[k] \in {Op(d, r, None), b, Op(e, r, None)}
  <2> DEFINE x == Op(d, r, None)
             y == Op(e, r, None)
  <2>1. program' = <<x, b>> \o << >> \/ program' = <<x, b>> \o <<y>>
    BY <1>1
  <2>2. x \in Ops /\ Alone(x) /\ y \in Ops /\ Alone(y) /\ b \in Entries /\ Alone(b)
    BY <1>2
  <2> HIDE DEF x, y, b
  <2>3. /\ <<x, b>> \o << >> \in Programs /\ <<x, b>> \o <<y>> \in Programs
        /\ \A k \in DOMAIN (<<x, b>> \o << >>) : (<<x, b>> \o << >>)[k] \in {x, b, y}
        /\ \A k \in DOMAIN (<<x, b>> \o <<y>>) : (<<x, b>> \o <<y>>)[k] \in {x, b, y}
    BY <2>2, InviteProgram
  <2>4. program' \in Programs /\ \A k \in DOMAIN program' : program'[k] \in {x, b, y}
    BY <2>1, <2>3
  <2> QED
    BY <2>4 DEF x, y
<1>4. up = "starting" => Op(d, r, None).do \in StartSteps /\ b.do \in StartSteps
                         /\ Op(e, r, None).do \in StartSteps
  BY DEF Op, Note, StartSteps
<1> HIDE DEF d, e, b
<1>5. ServerTypes'
  BY <1>1 DEF ServerTypes
<1>6. BotTypes'
  BY <1>1, <1>3 DEF BotTypes
<1>7. Positions'
  BY <1>1 DEF Positions
<1>8. Cached'
  BY <1>1 DEF Cached
<1>9. Ordered'
  BY <1>1 DEF Ordered, HandledInOrder
<1>10. Complete'
  BY <1>1 DEF Complete, Range
<1>11. Discovering'
  <2>1. up = "starting" => \A k \in DOMAIN program' : program'[k].do \in StartSteps
    BY <1>3, <1>4
  <2>2. \A q \in RoomIds : ~AboutToRecord(q) /\ ~ToDiscover(q)
    BY <1>1 DEF AboutToRecord, ToDiscover
  <2> QED
    BY <1>1, <2>1, <2>2 DEF Discovering, Deactivated
<1> QED
  BY <1>5, <1>6, <1>7, <1>8, <1>9, <1>10, <1>11
LEMMA FirstTyped ==
  ASSUME ServerTypes, Positions, NEW r \in RoomIds, NEW limit \in Limits
  PROVE  /\ First(r, limit) \in Nat
         /\ token[r] <= First(r, limit) /\ First(r, limit) <= Len(timeline[r])
<1> DEFINE S == {token[r], Len(timeline[r]) - limit}
<1>1. token[r] \in Nat /\ Len(timeline[r]) \in Nat /\ limit \in Nat \ {0}
      /\ token[r] <= Len(timeline[r])
  BY BoundAssumption DEF ServerTypes, Positions
<1>2. \E x \in S : \A y \in S : x >= y
  BY <1>1
<1>3. First(r, limit) \in S /\ \A y \in S : First(r, limit) >= y
  BY <1>2 DEF First, Max
<1> QED
  BY <1>1, <1>3

LEMMA SyncKeepsIInv ==
  ASSUME IInv, Sync
  PROVE  IInv'
<1> USE RoomAssumption, BoundAssumption DEF IInv
<1>a. PICK limit \in Limits :
         /\ reached' = [r \in RoomIds |-> First(r, limit)]
         /\ trouble' = IF Cut(limit) THEN trouble \cup {"cut"} ELSE trouble
  BY DEF Sync
<1>b. /\ up = "running" /\ program = << >> /\ Waiting = {} /\ arriving' = invited \ told
      /\ token' = [r \in RoomIds |-> Len(timeline[r])]
      /\ told' = invited /\ seen' = pins
      /\ UNCHANGED <<server, tables, up, known, cache, program, history, bounded>>
  BY DEF Sync, Idle
<1>1. /\ up = "running" /\ program = << >> /\ \A r \in RoomIds : reached[r] >= token[r]
      /\ reached' = [r \in RoomIds |-> First(r, limit)] /\ arriving' = invited \ told
      /\ token' = [r \in RoomIds |-> Len(timeline[r])]
      /\ told' = invited /\ seen' = pins
      /\ trouble' = IF Cut(limit) THEN trouble \cup {"cut"} ELSE trouble
      /\ UNCHANGED <<timeline, member, invited, pins, active, words, log, up, known, cache, program,
                     handled, since, skipped, errors, crashes>>
  BY <1>a, <1>b DEF Waiting, server, tables, history, bounded, Positions
<1>2. \A r \in RoomIds : reached[r] = token[r]
  BY <1>1 DEF Positions
<1>3. \A r \in RoomIds : /\ First(r, limit) \in Nat
                         /\ token[r] <= First(r, limit) /\ First(r, limit) <= Len(timeline[r])
  BY FirstTyped
<1>4. ServerTypes'
  BY <1>1 DEF ServerTypes
<1>5. BotTypes'
  BY <1>1 DEF BotTypes, ServerTypes
<1>6. Positions'
  <2>1. \A r \in RoomIds : Len(timeline[r]) \in Nat
    BY DEF ServerTypes
  <2> QED
    BY <1>1, <1>2, <1>3, <2>1 DEF Positions
<1>7. Cached'
  BY <1>1 DEF Cached
<1>8. Ordered'
  <2>1. \A r \in RoomIds : reached[r] <= reached'[r] /\ reached[r] \in Nat /\ reached'[r] \in Nat
    BY <1>1, <1>2, <1>3 DEF Positions
  <2>2. "unprimed" \notin trouble' => "unprimed" \notin trouble
    BY <1>1
  <2>3. \A r \in RoomIds : \A i \in DOMAIN handled[r] : handled[r][i] \in Nat
    BY DEF Ordered
  <2> QED
    BY <1>1, <2>1, <2>2, <2>3 DEF Ordered, HandledInOrder
<1>9. Complete'
  <2>1. ASSUME "cut" \notin trouble' PROVE "cut" \notin trouble /\ reached' = token
    <3>1. \A r \in RoomIds : First(r, limit) = token[r]
      BY <1>1, <1>3, <2>1 DEF Cut, Positions
    <3> QED
      BY <1>1, <2>1, <3>1 DEF Positions
  <2> QED
    BY <1>1, <1>2, <2>1 DEF Complete, Range
<1>10. Discovering'
  BY <1>1 DEF Discovering, AboutToRecord, Deactivated
<1> QED
  BY <1>4, <1>5, <1>6, <1>7, <1>8, <1>9, <1>10

LEMMA RunKeepsIInv ==
  ASSUME IInv, Run
  PROVE  IInv'
<1> USE RoomAssumption, BoundAssumption DEF IInv
<1>1. /\ up = "starting" /\ program = << >> /\ up' = "running" /\ since' = Len(log)
      /\ UNCHANGED <<timeline, member, invited, pins, active, words, log, known, told, seen, token,
                     reached, arriving, cache, program, handled, skipped, errors, crashes, trouble>>
  BY DEF Run, Idle, server, tables, client, response, bounded
<1>2. ServerTypes'
  BY <1>1 DEF ServerTypes
<1>3. BotTypes'
  BY <1>1 DEF BotTypes
<1>4. Positions'
  BY <1>1 DEF Positions
<1>5. Cached'
  BY <1>1 DEF Cached
<1>6. Ordered'
  BY <1>1 DEF Ordered, HandledInOrder
<1>7. Complete'
  BY <1>1 DEF Complete, Positions
<1>8. Discovering'
  BY <1>1 DEF Discovering, ToDiscover
<1> QED
  BY <1>2, <1>3, <1>4, <1>5, <1>6, <1>7, <1>8

LEMMA CrashKeepsIInv ==
  ASSUME IInv, Crash
  PROVE  IInv'
<1> USE RoomAssumption, BoundAssumption DEF IInv
<1>1. /\ up' = "down" /\ reached' = token /\ arriving' = {} /\ program' = << >>
      /\ crashes' = crashes + 1 /\ crashes < MaxCrashes
      /\ trouble' \in {trouble, trouble \cup {"crash"}}
      /\ UNCHANGED <<timeline, member, invited, pins, active, words, log, known, told, seen, token,
                     cache, handled, since, skipped, errors>>
  BY DEF Crash, server, tables, client, history
<1>2. ServerTypes'
  BY <1>1 DEF ServerTypes
<1>3. BotTypes'
  BY <1>1, PlainOnes DEF BotTypes
<1>4. Positions'
  BY <1>1 DEF Positions
<1>5. Cached'
  BY <1>1 DEF Cached
<1>6. Ordered'
  <2>1. \A r \in RoomIds : reached[r] <= reached'[r] /\ reached[r] \in Nat /\ reached'[r] \in Nat
    BY <1>1 DEF Positions
  <2>2. "unprimed" \notin trouble' => "unprimed" \notin trouble
    BY <1>1
  <2>3. \A r \in RoomIds : \A i \in DOMAIN handled[r] : handled[r][i] \in Nat
    BY DEF Ordered
  <2> QED
    BY <1>1, <2>1, <2>2, <2>3 DEF Ordered, HandledInOrder
<1>7. Complete'
  BY <1>1 DEF Complete
<1>8. Discovering'
  BY <1>1 DEF Discovering
<1> QED
  BY <1>2, <1>3, <1>4, <1>5, <1>6, <1>7, <1>8
\* A sequence of as many different elements as a finite set has holds each of them.
LEMMA SeqOfSet ==
  ASSUME NEW S, IsFiniteSet(S), NEW f \in SetToSeqs(S)
  PROVE  \E n \in Nat : f \in [1 .. n -> S] /\ \A x \in S : \E k \in 1 .. n : f[k] = x
<1> DEFINE n == Cardinality(S)
<1>1. n \in Nat /\ ExistsBijection(1 .. n, S)
  BY FS_CardinalityType
<1>2. f \in [1 .. n -> S] /\ \A i, j \in 1 .. n : i # j => f[i] # f[j]
  BY DEF SetToSeqs
<1>3. f \in Injection(1 .. n, S)
  BY <1>2 DEF Injection, IsInjective
<1>4. IsFiniteSet(1 .. n)
  BY <1>3, FS_Injection
<1>5. Cardinality(1 .. n) = Cardinality(S)
  BY <1>1, <1>4, FS_Bijection
<1>6. f \in Surjection(1 .. n, S)
  BY <1>3, <1>5, FS_Injection
<1> QED
  BY <1>1, <1>2, <1>6 DEF Surjection

LEMMA RoomsFinite == \A S \in SUBSET RoomIds : IsFiniteSet(S)
<1> DEFINE f == [i \in 1 .. NumRooms |-> i]
<1>1. f \in Bijection(1 .. NumRooms, RoomIds)
  BY DEF Bijection, Injection, Surjection, IsInjective, RoomIds
<1>2. IsFiniteSet(RoomIds)
  BY <1>1, RoomAssumption, FS_NatBijection DEF ExistsBijection
<1> QED
  BY <1>2, FS_Subset

LEMMA StartKeepsIInv ==
  ASSUME IInv, Start
  PROVE  IInv'
<1> USE RoomAssumption, BoundAssumption DEF IInv
<1>1. /\ up = "down" /\ up' = "starting" /\ cache' = words
      /\ known' \in {member, {}} /\ told' \in {invited, {}} /\ arriving' \in {invited, {}}
      /\ skipped' = token' /\ reached' = token'
      /\ seen' \in {pins, [r \in RoomIds |-> {}]}
      /\ "unprimed" \notin trouble' =>
           token' = [r \in RoomIds |-> Len(timeline[r])] /\ "unprimed" \notin trouble
      /\ token' \in {[r \in RoomIds |-> Len(timeline[r])], [r \in RoomIds |-> 0]}
      /\ trouble \cap {"discover", "append"} \subseteq trouble'
      /\ errors' = errors \/ (errors' = errors + 1 /\ errors < MaxErrors)
      /\ UNCHANGED <<timeline, member, invited, pins, active, words, log, handled, since, crashes>>
  BY DEF Start, Fails, SkipToken, server, tables
<1>2. PICK order \in SetToSeqs(known' \cap Matching) :
        program' = [k \in DOMAIN order |-> Op("discover", order[k], None)]
  BY DEF Start, Discovery
<1>3. known' \subseteq RoomIds /\ known' \subseteq member
  BY <1>1 DEF ServerTypes
<1>4. PICK n \in Nat : /\ order \in [1 .. n -> known' \cap Matching]
                      /\ \A r \in known' \cap Matching : \E k \in 1 .. n : order[k] = r
  <2> DEFINE S == known' \cap Matching
  <2>1. IsFiniteSet(S)
    BY <1>3, RoomsFinite
  <2>2. order \in SetToSeqs(S)
    BY <1>2
  <2> HIDE DEF S
  <2>3. \E n \in Nat : order \in [1 .. n -> S] /\ \A r \in S : \E k \in 1 .. n : order[k] = r
    BY <2>1, <2>2, SeqOfSet
  <2> QED
    BY <2>3 DEF S
<1>5. /\ DOMAIN program' = 1 .. n
      /\ \A k \in 1 .. n : program'[k] = Op("discover", order[k], None) /\ order[k] \in RoomIds
  BY <1>2, <1>3, <1>4
<1>6. ASSUME NEW k \in 1 .. n
      PROVE  /\ program'[k] \in Ops /\ Alone(program'[k])
             /\ program'[k].do = "discover" /\ program'[k].room = order[k]
  <2>1. Op("discover", order[k], None) \in Ops /\ Alone(Op("discover", order[k], None))
    BY <1>5, OpTyped DEF Statements, AnyArg
  <2>2. program'[k] = Op("discover", order[k], None)
    BY <1>5
  <2> QED
    BY <2>1, <2>2 DEF Op
<1>7. program' \in Programs
  <2>1. program' \in [1 .. n -> Ops]
    BY <1>2, <1>5, <1>6
  <2>2. program' \in Seq(Ops \cup Entries)
    BY <1>4, <2>1
  <2> QED
    BY <1>5, <1>6, <2>2, Plain
<1>8. ServerTypes'
  BY <1>1 DEF ServerTypes
<1>9. BotTypes'
  BY <1>1, <1>3, <1>7 DEF BotTypes, ServerTypes
<1>10. \A r \in RoomIds : Len(timeline[r]) \in Nat
  BY DEF ServerTypes
<1>11. Positions'
  BY <1>1, <1>10 DEF Positions
<1>12. Cached'
  BY <1>1 DEF Cached
<1>13. Ordered'
  <2>1. ASSUME "unprimed" \notin trouble'
        PROVE  \A r \in RoomIds : /\ reached[r] <= reached'[r]
                                 /\ reached[r] \in Nat /\ reached'[r] \in Nat
    BY <1>1, <1>10, <2>1 DEF Positions
  <2>2. "unprimed" \notin trouble' => "unprimed" \notin trouble
    BY <1>1
  <2>3. \A r \in RoomIds : \A i \in DOMAIN handled[r] : handled[r][i] \in Nat
    BY DEF Ordered
  <2>4. ASSUME "unprimed" \notin trouble', NEW r \in RoomIds, NEW i \in DOMAIN handled[r]
        PROVE  handled[r][i] <= reached'[r]
    <3>1. handled[r][i] <= reached[r] /\ handled[r][i] \in Nat
      BY <2>2, <2>3, <2>4 DEF Ordered
    <3> QED
      BY <2>1, <2>4, <3>1
  <2>5. HandledInOrder'
    BY <1>1, <2>2 DEF Ordered, HandledInOrder
  <2> QED
    BY <1>1, <2>4, <2>5 DEF Ordered
<1>14. Complete'
  BY <1>1 DEF Complete
<1>15. Discovering'
  <2>1. \A k \in DOMAIN program' : program'[k].do \in StartSteps
    BY <1>5, <1>6 DEF StartSteps
  <2>2. ASSUME NEW r \in known' \cap Matching PROVE ToDiscover(r)'
    <3>1. PICK k \in 1 .. n : order[k] = r
      BY <1>4
    <3>2. \A j \in 1 .. k : j \in 1 .. n
      BY <1>4, <3>1
    <3> QED
      BY <1>5, <1>6, <3>1, <3>2 DEF ToDiscover
  <2> QED
    BY <1>1, <2>1, <2>2 DEF Discovering
<1> QED
  BY <1>8, <1>9, <1>11, <1>12, <1>13, <1>14, <1>15

----------------------------------------------------------------------------
(* Users, the beginning, and every step                                    *)

LEMMA UserKeepsIInv ==
  ASSUME IInv, NEW r \in RoomIds, Invite(r) \/ \E m \in Messages[r] : Send(r, m)
  PROVE  IInv'
<1> USE RoomAssumption, BoundAssumption DEF IInv
<1>1. /\ UNCHANGED <<member, pins, active, words, log, up, known, told, seen, token, cache, reached,
                     arriving, program, handled, since, skipped, errors, crashes, trouble>>
      /\ \/ timeline' = timeline /\ invited' = invited \cup {r} /\ r \notin member
         \/ /\ invited' = invited
            /\ \E m \in Messages[r] :
                  timeline' = [timeline EXCEPT ![r] = Append(timeline[r], m)]
  BY DEF Invite, Send, tables, client, response, history, bounded
<1>2. /\ ServerTypes'
      /\ \A q \in RoomIds : Len(timeline[q]) \in Nat /\ Len(timeline'[q]) \in Nat
                            /\ Len(timeline[q]) <= Len(timeline'[q])
  <2>1. CASE timeline' = timeline /\ invited' = invited \cup {r} /\ r \notin member
    BY <1>1, <2>1 DEF ServerTypes
  <2>2. ASSUME invited' = invited, NEW m \in Messages[r],
               timeline' = [timeline EXCEPT ![r] = Append(timeline[r], m)]
        PROVE  /\ ServerTypes'
               /\ \A q \in RoomIds : Len(timeline[q]) \in Nat /\ Len(timeline'[q]) \in Nat
                                     /\ Len(timeline[q]) <= Len(timeline'[q])
    <3>1. m \in AnyMessage
      BY DEF AnyMessage
    <3>2. timeline[r] \in Seq(AnyMessage) /\ timeline[r] \in Seq(Messages[r])
      BY DEF ServerTypes
    <3>3. /\ Append(timeline[r], m) \in Seq(AnyMessage)
          /\ Append(timeline[r], m) \in Seq(Messages[r])
          /\ Len(Append(timeline[r], m)) = Len(timeline[r]) + 1
      <4>1. Append(timeline[r], m) \in Seq(AnyMessage)
        BY <3>1, <3>2
      <4> DEFINE M == Messages[r]
                 t == timeline[r]
      <4>2. t \in Seq(M) /\ m \in M
        BY <3>2
      <4> HIDE DEF M, t
      <4>3. Append(t, m) \in Seq(M) /\ Len(Append(t, m)) = Len(t) + 1
        BY <4>2
      <4> QED
        BY <4>1, <4>3 DEF M, t
    <3>4. timeline'[r] = Append(timeline[r], m)
          /\ \A q \in RoomIds \ {r} : timeline'[q] = timeline[q]
      BY <2>2 DEF ServerTypes
    <3>5. timeline' \in [RoomIds -> Seq(AnyMessage)]
      BY <2>2, <3>3 DEF ServerTypes
    <3>6. \A q \in RoomIds : timeline'[q] \in Seq(Messages[q])
      BY <3>3, <3>4 DEF ServerTypes
    <3>7. ServerTypes'
      BY <1>1, <2>2, <3>5, <3>6 DEF ServerTypes
    <3>8. \A q \in RoomIds : Len(timeline[q]) \in Nat
      BY DEF ServerTypes
    <3>9. Len(timeline'[r]) = Len(timeline[r]) + 1
      BY <3>3, <3>4
    <3> QED
      BY <3>4, <3>7, <3>8, <3>9
  <2> QED
    BY <1>1, <2>1, <2>2
<1>3. BotTypes'
  BY <1>1 DEF BotTypes
<1>4. Positions'
  BY <1>1, <1>2 DEF Positions
<1>5. Cached'
  BY <1>1 DEF Cached
<1>6. Ordered'
  BY <1>1 DEF Ordered, HandledInOrder
<1>7. Complete'
  BY <1>1 DEF Complete, Range
<1>8. Discovering'
  BY <1>1 DEF Discovering, ToDiscover, AboutToRecord, Deactivated
<1> QED
  BY <1>2, <1>3, <1>4, <1>5, <1>6, <1>7, <1>8

LEMMA InitIInv == Init => IInv
<1> SUFFICES ASSUME Init PROVE IInv
  OBVIOUS
<1> USE RoomAssumption, BoundAssumption DEF Init
<1>1. ServerTypes
  BY DEF ServerTypes
<1>2. BotTypes
  <2> DEFINE Adds == [action : {"banned_word_added"}, room : RoomIds, arg : Bans]
             Records == [action : Actions, room : RoomIds, arg : AnyArg]
  <2>1. Adds \subseteq Records /\ \A e \in Adds : e.arg \in Bans
    BY DEF Actions, AnyArg
  <2>2. Earlier \in Seq(Adds) /\ Keyed({Earlier[k].arg : k \in DOMAIN Earlier})
    BY WordAssumption
  <2> HIDE DEF Adds, Records
  <2>3. Earlier \in Seq(Records) /\ \A k \in DOMAIN Earlier : Earlier[k].arg \in Bans
    BY <2>1, <2>2
  <2>4. log \in Seq([action : Actions, room : RoomIds, arg : AnyArg]) /\ since \in 0 .. Len(log)
    BY <2>3 DEF Records
  <2>5. words \subseteq Bans /\ Keyed(words) /\ Keyed(cache) /\ cache \subseteq Bans
    BY <2>2, <2>3 DEF Keyed
  <2> QED
    BY <2>4, <2>5, PlainOnes DEF BotTypes
<1>3. Positions
  <2>1. \A r \in RoomIds : Len(timeline[r]) = 0
    OBVIOUS
  <2> QED
    BY <2>1 DEF Positions
<1>4. Cached /\ Complete /\ Discovering
  BY DEF Cached, Complete, Discovering
<1>5. Ordered
  BY DEF Ordered, HandledInOrder
<1> QED
  BY <1>1, <1>2, <1>3, <1>4, <1>5 DEF IInv

LEMMA NextKeepsIInv ==
  ASSUME IInv, [Next]_vars
  PROVE  IInv'
<1>1. CASE UNCHANGED vars
  BY <1>1 DEF vars, server, tables, client, response, history, bounded, IInv, ServerTypes, BotTypes,
     Positions, Cached, Ordered, HandledInOrder, Complete, Range, Discovering, ToDiscover,
     AboutToRecord, Deactivated
<1>2. CASE Next
  BY <1>2, StepKeepsIInv, StepFailsKeepsIInv, HandleMessageKeepsIInv, InviteKeepsIInv,
     SyncKeepsIInv, StartKeepsIInv, RunKeepsIInv, CrashKeepsIInv, UserKeepsIInv DEF Next
<1> QED
  BY <1>1, <1>2

\* In every reachable state the strengthened invariant holds.
THEOREM Invariant == Spec => []IInv
<1>1. Init => IInv
  BY InitIInv
<1>2. IInv /\ [Next]_vars => IInv'
  BY NextKeepsIInv
<1> QED
  BY <1>1, <1>2, PTL DEF Spec

\* Every variable keeps its type; what the loop has read of a timeline never passes
\* its end.
THEOREM TypeCorrect == Spec => []TypeOK
<1>1. IInv => TypeOK
  <2> SUFFICES ASSUME IInv PROVE TypeOK
    OBVIOUS
  <2>1. \A k \in DOMAIN program : program[k].room \in RoomIds
    BY DEF IInv, BotTypes, Programs, Ops, Entries
  <2>2. \A r \in RoomIds : /\ token[r] \in 0 .. Len(timeline[r])
                          /\ reached[r] \in 0 .. token[r] /\ skipped[r] \in 0 .. token[r]
    BY DEF IInv, Positions, ServerTypes
  <2> QED
    BY <2>1, <2>2 DEF IInv, ServerTypes, BotTypes, TypeOK
<1> QED
  BY <1>1, Invariant, PTL

\* Between two handlers the word cache is the table of banned words, also after a
\* command whose record failed, or a restart at any point (WordCache::refresh).
THEOREM CacheIsCurrent == Spec => []CacheFollowsTable
<1>1. IInv => CacheFollowsTable
  BY DEF IInv, Cached, CacheFollowsTable
<1> QED
  BY <1>1, Invariant, PTL

\* No message is moderated or executed twice, over any number of restarts.
THEOREM NoMessageTwice == Spec => []HandledInOrder
<1>1. IInv => HandledInOrder
  BY DEF IInv, Ordered
<1> QED
  BY <1>1, Invariant, PTL

\* Every message since the start is handled or still waiting, whatever the handlers
\* before it ran into.
THEOREM NoMessageLost == Spec => []NothingDropped
<1>1. IInv => NothingDropped
  <2> SUFFICES ASSUME IInv, up = "running", "cut" \notin trouble, NEW r \in RoomIds,
                      NEW i \in skipped[r] + 1 .. token[r], ~(i > reached[r])
               PROVE  i \in Range(handled[r])
    BY DEF NothingDropped
  <2>1. i \in skipped[r] + 1 .. reached[r]
    BY DEF IInv, Positions
  <2> QED
    BY <2>1 DEF IInv, Complete
<1> QED
  BY <1>1, Invariant, PTL

\* A matching room that the bot was in at its start is moderated until somebody
\* deactivates it.
THEOREM RoomsAreDiscovered == Spec => []DiscoveredAtStart
<1>1. IInv => DiscoveredAtStart
  BY DEF IInv, Discovering, Deactivated, AboutToRecord, DiscoveredAtStart
<1> QED
  BY <1>1, Invariant, PTL

----------------------------------------------------------------------------
(* The tables and the log.  A statement and the record of it are two steps *)
(* of a program; between them the tables are what the log and the record   *)
(* that is owed say.                                                       *)

\* What waits for a step of its own to follow it at once, and what may only follow so.
Opens(a) ==
  a.do \in {"insert", "delete", "ban", "unban", "refresh", "moderate", "pin", "unpin"}

WordRecords == {"banned_word_added", "banned_word_removed"}
TableRecords ==
  {"room_activated", "room_deactivated", "auto_discovered", "auto_moderation",
   "event_pinned", "event_unpinned"} \cup WordRecords

Closes(b) == b.do = "refresh" \/ (b.do \in {"append", "note"} /\ b.action \in TableRecords)

\* The step b belongs to the step a before it.
Belongs(a, b) ==
  \/ a.do = "insert" /\ b = Entry("room_activated", a.room, None)
  \/ a.do = "delete" /\ b = Entry("room_deactivated", a.room, None)
  \/ a.do \in {"ban", "unban"} /\ b.do = "refresh"
  \/ a.do = "refresh" /\ b.do = "append" /\ b.action \in WordRecords
  \/ a.do = "moderate" /\ b = Entry("auto_moderation", a.room, a.arg)
  \/ a.do = "pin" /\ b = Entry("event_pinned", a.room, a.arg)
  \/ a.do = "unpin" /\ b = Entry("event_unpinned", a.room, a.arg)

\* The records of rooms have no argument.
Bare(e) ==
  e.action \in {"room_activated", "room_deactivated", "auto_discovered"} => e.arg = None

\* Step k of a program, and a program from some point on.
ShapedAt(p, k) ==
  /\ Opens(p[k]) => k + 1 \in DOMAIN p
  /\ k + 1 \in DOMAIN p /\ (Opens(p[k]) \/ Closes(p[k + 1])) => Belongs(p[k], p[k + 1])
  /\ p[k].do = "ban" =>
       k + 2 \in DOMAIN p /\ p[k + 2] = Entry("banned_word_added", p[k].room, p[k].arg)
  /\ p[k].do = "unban" =>
       k + 2 \in DOMAIN p /\ p[k + 2] = Entry("banned_word_removed", p[k].room, p[k].arg)
  /\ p[k].do = "moderate" => k = 1
  /\ p[k].do \in {"pin", "unpin"} => k + 1 = Len(p)
  /\ p[k].do = "note" => p[k].action \notin TableRecords
  /\ p[k].do \in {"append", "note"} => Bare(p[k])

Shaped(p) == \A k \in DOMAIN p : ShapedAt(p, k)

Argumentless == \A k \in DOMAIN log : Bare(log[k])

\* What the tables are after one more record.
RoomsAfter(rooms, e) ==
  IF e.action \in {"room_activated", "auto_discovered"} THEN rooms \cup {e.room}
  ELSE IF e.action = "room_deactivated" THEN rooms \ {e.room} ELSE rooms

WordsAfter(bans, e) ==
  IF e.action = "banned_word_added" THEN Banned(bans, e.arg)
  ELSE IF e.action = "banned_word_removed" THEN {b \in bans : b.word # e.arg.word} ELSE bans

PinsAfter(events, r, e) ==
  IF e.action = "event_pinned" /\ e.room = r THEN events \cup {e.arg}
  ELSE IF e.action = "event_unpinned" /\ e.room = r THEN events \ {e.arg} ELSE events

PinnedOnRecord(r) ==
  {log[i].arg : i \in {j \in OnRecord(Len(log), {"event_pinned"}, "event_unpinned") :
                          log[j].room = r}}

\* What the tables are, from what the log says, while the program p is to be done:
\* the record at its head, or behind a refresh, is of something done.
Records(p) == p # << >> /\ p[1].do = "append"

RoomsNow(p, rooms) == IF Records(p) THEN RoomsAfter(rooms, p[1]) ELSE rooms

WordsNow(p, bans) ==
  IF Records(p) THEN WordsAfter(bans, p[1])
  ELSE IF p # << >> /\ p[1].do = "refresh" THEN WordsAfter(bans, p[2]) ELSE bans

PinsNow(p, events, r) == IF Records(p) THEN PinsAfter(events, r, p[1]) ELSE events

Moderates(e) == e.do = "append" /\ e.action = "auto_moderation"

ActsNow(p, acts) ==
  IF p # << >> /\ Moderates(p[1]) THEN acts \cup {<<p[1].room, p[1].arg>>} ELSE acts

Unharmed == trouble \cap {"crash", "append", "note"} = {}

RoomsRecorded == Unharmed => active = RoomsNow(program, ActiveOnRecord(Len(log)))

WordsRecorded ==
  Unharmed /\ "refresh" \notin trouble => words = WordsNow(program, BannedOnRecord(Len(log)))

\* The message how[1] of a room deserves to be moderated for the word how[2].
Deserved(r, how, rooms, bans) ==
  /\ r \in rooms /\ how[1] \in DOMAIN timeline[r]
  /\ how[2] \in Hits(bans, timeline[r][how[1]])
  /\ \A b \in Hits(bans, timeline[r][how[1]]) : how[2].word <= b.word

ModerationDeserved ==
  Unharmed /\ "refresh" \notin trouble =>
    /\ \A k \in Moderated :
         Deserved(log[k].room, log[k].arg, ActiveOnRecord(k - 1), BannedOnRecord(k - 1))
    /\ \A k \in DOMAIN program :
         Moderates(program[k]) => Deserved(program[k].room, program[k].arg, active, words)

Acts == {<<a[2], a[3]>> : a \in {b \in acted : b[1] = "moderate"}}
ActsOnRecord == {<<log[k].room, log[k].arg>> : k \in Moderated}

ActsRecorded == Unharmed /\ "moderate" \notin trouble => Acts = ActsNow(program, ActsOnRecord)

PinsRecorded ==
  trouble \cap {"stale", "crash", "append", "pin", "unpin"} = {} =>
    /\ \A r \in RoomIds : pins[r] = PinsNow(program, PinnedOnRecord(r), r)
    /\ \A k \in DOMAIN program :
         program[k].do \in {"pin", "unpin"} => seen[program[k].room] = pins[program[k].room]

\* The tables, the pins and what was done to messages are what the log says.
RInv ==
  /\ Shaped(program) /\ Argumentless /\ ("behind" \in trouble => "refresh" \in trouble)
  /\ RoomsRecorded /\ WordsRecorded /\ ModerationDeserved /\ ActsRecorded /\ PinsRecorded

----------------------------------------------------------------------------
(* What one more entry of the log changes                                  *)

\* As OnRecord and BannedOnRecord, over any sequence.
Standing(l, n, yes, no) ==
  {i \in 1 .. n : /\ l[i].action \in yes
                  /\ ~\E j \in i + 1 .. n : /\ l[j].action = no
                                            /\ l[j].room = l[i].room
                                            /\ l[j].arg = l[i].arg}

LastWords(l, n) ==
  {j \in 1 .. n : l[j].action = "banned_word_added" /\
     ~\E k \in j + 1 .. n : l[k].action \in WordRecords /\ l[k].arg.word = l[j].arg.word}

\* The sequence m begins with the first n elements of l.
Continues(m, l, n) == \A i \in 1 .. n : m[i] = l[i]

AllBare(l, n) == \A i \in 1 .. n : Bare(l[i])

LEMMA StandingGrows ==
  ASSUME NEW n \in Nat, NEW l, NEW m, Continues(m, l, n), NEW yes, NEW no
  PROVE  /\ \A k \in 0 .. n : Standing(m, k, yes, no) = Standing(l, k, yes, no)
         /\ \A i : i \in Standing(m, n + 1, yes, no) <=>
              \/ i = n + 1 /\ m[n + 1].action \in yes
              \/ /\ i \in Standing(l, n, yes, no)
                 /\ ~(m[n + 1].action = no /\ m[n + 1].room = l[i].room /\ m[n + 1].arg = l[i].arg)
<1> USE DEF Continues
<1>1. ASSUME NEW k \in 0 .. n PROVE Standing(m, k, yes, no) = Standing(l, k, yes, no)
  <2>1. \A i \in 1 .. k : i \in 1 .. n /\ m[i] = l[i] /\ \A j \in i + 1 .. k : m[j] = l[j]
    OBVIOUS
  <2> QED
    BY <2>1 DEF Standing
<1>2. ASSUME NEW i \in 1 .. n
      PROVE  i \in Standing(m, n + 1, yes, no) <=>
               /\ i \in Standing(l, n, yes, no)
               /\ ~(m[n + 1].action = no /\ m[n + 1].room = l[i].room /\ m[n + 1].arg = l[i].arg)
  <2>1. /\ i \in 1 .. n + 1 /\ n + 1 \in i + 1 .. n + 1 /\ m[i] = l[i]
        /\ \A j \in i + 1 .. n : j \in i + 1 .. n + 1 /\ m[j] = l[j]
        /\ \A j \in i + 1 .. n + 1 : j \in i + 1 .. n \/ j = n + 1
    OBVIOUS
  <2> QED
    BY <2>1 DEF Standing
<1>3. n + 1 \in Standing(m, n + 1, yes, no) <=> m[n + 1].action \in yes
  BY DEF Standing
<1>4. \A i \in Standing(m, n + 1, yes, no) : i \in 1 .. n \/ i = n + 1
  BY DEF Standing
<1>5. \A i \in Standing(l, n, yes, no) : i \in 1 .. n
  BY DEF Standing
<1> QED
  BY <1>1, <1>2, <1>3, <1>4, <1>5

LEMMA LastWordsGrow ==
  ASSUME NEW n \in Nat, NEW l, NEW m, Continues(m, l, n)
  PROVE  /\ \A k \in 0 .. n : LastWords(m, k) = LastWords(l, k)
         /\ \A i : i \in LastWords(m, n + 1) <=>
              \/ i = n + 1 /\ m[n + 1].action = "banned_word_added"
              \/ /\ i \in LastWords(l, n)
                 /\ ~(m[n + 1].action \in WordRecords /\ m[n + 1].arg.word = l[i].arg.word)
<1> USE DEF Continues
<1>1. ASSUME NEW k \in 0 .. n PROVE LastWords(m, k) = LastWords(l, k)
  <2>1. \A i \in 1 .. k : i \in 1 .. n /\ m[i] = l[i] /\ \A j \in i + 1 .. k : m[j] = l[j]
    OBVIOUS
  <2> QED
    BY <2>1 DEF LastWords
<1>2. ASSUME NEW i \in 1 .. n
      PROVE  i \in LastWords(m, n + 1) <=>
               /\ i \in LastWords(l, n)
               /\ ~(m[n + 1].action \in WordRecords /\ m[n + 1].arg.word = l[i].arg.word)
  <2>1. /\ i \in 1 .. n + 1 /\ n + 1 \in i + 1 .. n + 1 /\ m[i] = l[i]
        /\ \A j \in i + 1 .. n : j \in i + 1 .. n + 1 /\ m[j] = l[j]
        /\ \A j \in i + 1 .. n + 1 : j \in i + 1 .. n \/ j = n + 1
    OBVIOUS
  <2> QED
    BY <2>1 DEF LastWords
<1>3. n + 1 \in LastWords(m, n + 1) <=> m[n + 1].action = "banned_word_added"
  BY DEF LastWords
<1>4. /\ \A i \in LastWords(m, n + 1) : i \in 1 .. n \/ i = n + 1
      /\ \A i \in LastWords(l, n) : i \in 1 .. n
  BY DEF LastWords
<1> QED
  BY <1>1, <1>2, <1>3, <1>4

\* What the first n entries of a sequence say.
RoomsOf(l, n) ==
  {l[i].room : i \in Standing(l, n, {"room_activated", "auto_discovered"}, "room_deactivated")}

WordsOf(l, n) == {l[i].arg : i \in LastWords(l, n)}

PinsOf(l, n, r) ==
  {l[i].arg : i \in {j \in Standing(l, n, {"event_pinned"}, "event_unpinned") : l[j].room = r}}

LEMMA OnRecordIsOf ==
  /\ \A n : ActiveOnRecord(n) = RoomsOf(log, n)
  /\ \A n : BannedOnRecord(n) = WordsOf(log, n)
  /\ \A r : PinnedOnRecord(r) = PinsOf(log, Len(log), r)
<1> QED
  BY DEF ActiveOnRecord, BannedOnRecord, PinnedOnRecord, OnRecord, Standing, LastWords, WordRecords,
         RoomsOf, WordsOf, PinsOf

LEMMA OnRecordIsOfNext ==
  /\ \A n : ActiveOnRecord(n)' = RoomsOf(log', n)
  /\ \A n : BannedOnRecord(n)' = WordsOf(log', n)
  /\ \A r : PinnedOnRecord(r)' = PinsOf(log', Len(log'), r)
  /\ ActiveOnRecord(Len(log))' = RoomsOf(log', Len(log'))
  /\ BannedOnRecord(Len(log))' = WordsOf(log', Len(log'))
<1> QED
  BY DEF ActiveOnRecord, BannedOnRecord, PinnedOnRecord, OnRecord, Standing, LastWords, WordRecords,
         RoomsOf, WordsOf, PinsOf

LEMMA RoomsGrow ==
  ASSUME NEW n \in Nat, NEW l, NEW m, Continues(m, l, n), AllBare(l, n), Bare(m[n + 1])
  PROVE  RoomsOf(m, n + 1) = RoomsAfter(RoomsOf(l, n), m[n + 1])
<1> DEFINE yes == {"room_activated", "auto_discovered"}
           old == Standing(l, n, yes, "room_deactivated")
           new == Standing(m, n + 1, yes, "room_deactivated")
           e == m[n + 1]
<1>1. \A i \in old : i \in 1 .. n /\ l[i].action \in yes
  BY DEF Standing
<1>2. \A i \in old : m[i].room = l[i].room /\ l[i].arg = None
  BY <1>1 DEF Bare, AllBare, Continues
<1>3. \A i : i \in new <=>
        \/ i = n + 1 /\ e.action \in yes
        \/ i \in old /\ ~(e.action = "room_deactivated" /\ e.room = l[i].room /\ e.arg = l[i].arg)
  <2> HIDE DEF yes
  <2> QED
    BY StandingGrows
<1>4. e.action = "room_deactivated" => e.arg = None
  BY DEF Bare
<1> HIDE DEF old, new
<1>5. CASE e.action \in yes
  <2>1. \A i : i \in new <=> i = n + 1 \/ i \in old
    BY <1>3, <1>5
  <2>2. {m[i].room : i \in new} = {l[i].room : i \in old} \cup {e.room}
    <3> HIDE DEF yes
    <3> QED
      BY <1>2, <2>1
  <2> QED
    BY <1>5, <2>2 DEF RoomsAfter, RoomsOf, old, new
<1>6. CASE e.action = "room_deactivated"
  <2>1. \A i : i \in new <=> i \in old /\ e.room # l[i].room
    BY <1>2, <1>3, <1>4, <1>6
  <2>2. {m[i].room : i \in new} = {l[i].room : i \in old} \ {e.room}
    <3> HIDE DEF yes
    <3> QED
      BY <1>2, <2>1
  <2> QED
    BY <1>6, <2>2 DEF RoomsAfter, RoomsOf, old, new
<1>7. CASE e.action \notin yes /\ e.action # "room_deactivated"
  <2>1. \A i : i \in new <=> i \in old
    BY <1>3, <1>7
  <2>2. {m[i].room : i \in new} = {l[i].room : i \in old}
    <3> HIDE DEF yes
    <3> QED
      BY <1>2, <2>1
  <2> QED
    BY <1>7, <2>2 DEF RoomsAfter, RoomsOf, old, new
<1> QED
  BY <1>5, <1>6, <1>7

LEMMA WordsGrow ==
  ASSUME NEW n \in Nat, NEW l, NEW m, Continues(m, l, n)
  PROVE  WordsOf(m, n + 1) = WordsAfter(WordsOf(l, n), m[n + 1])
<1> DEFINE old == LastWords(l, n)
           new == LastWords(m, n + 1)
           e == m[n + 1]
<1>1. \A i \in old : m[i].arg = l[i].arg
  BY DEF LastWords, Continues
<1>2. \A i : i \in new <=>
        \/ i = n + 1 /\ e.action = "banned_word_added"
        \/ i \in old /\ ~(e.action \in WordRecords /\ e.arg.word = l[i].arg.word)
  BY LastWordsGrow
<1> HIDE DEF old, new
<1>3. CASE e.action = "banned_word_added"
  <2>1. \A i : i \in new <=> i = n + 1 \/ (i \in old /\ l[i].arg.word # e.arg.word)
    BY <1>2, <1>3 DEF WordRecords
  <2>2. {m[i].arg : i \in new} = {b \in {l[i].arg : i \in old} : b.word # e.arg.word} \cup {e.arg}
    BY <1>1, <2>1
  <2> QED
    BY <1>3, <2>2 DEF WordsAfter, WordsOf, Banned, old, new
<1>4. CASE e.action = "banned_word_removed"
  <2>1. \A i : i \in new <=> i \in old /\ l[i].arg.word # e.arg.word
    BY <1>2, <1>4 DEF WordRecords
  <2>2. {m[i].arg : i \in new} = {b \in {l[i].arg : i \in old} : b.word # e.arg.word}
    BY <1>1, <2>1
  <2> QED
    BY <1>4, <2>2 DEF WordsAfter, WordsOf, old, new
<1>5. CASE e.action \notin WordRecords
  <2>1. \A i : i \in new <=> i \in old
    BY <1>2, <1>5 DEF WordRecords
  <2>2. {m[i].arg : i \in new} = {l[i].arg : i \in old}
    BY <1>1, <2>1
  <2> QED
    BY <1>5, <2>2 DEF WordsAfter, WordsOf, WordRecords, old, new
<1> QED
  BY <1>3, <1>4, <1>5 DEF WordRecords

LEMMA PinsGrow ==
  ASSUME NEW n \in Nat, NEW l, NEW m, Continues(m, l, n), NEW r
  PROVE  PinsOf(m, n + 1, r) = PinsAfter(PinsOf(l, n, r), r, m[n + 1])
<1> DEFINE yes == {"event_pinned"}
           all == Standing(l, n, yes, "event_unpinned")
           grown == Standing(m, n + 1, yes, "event_unpinned")
           old == {j \in all : l[j].room = r}
           new == {j \in grown : m[j].room = r}
           e == m[n + 1]
<1>1. \A i \in all : i # n + 1 /\ m[i] = l[i]
  BY DEF Standing, Continues
<1>2. \A i : i \in grown <=>
        \/ i = n + 1 /\ e.action \in yes
        \/ i \in all /\ ~(e.action = "event_unpinned" /\ e.room = l[i].room /\ e.arg = l[i].arg)
  <2> HIDE DEF yes
  <2> QED
    BY StandingGrows
<1> HIDE DEF all, grown
<1>3. \A i : i \in new <=>
        \/ i = n + 1 /\ e.action = "event_pinned" /\ e.room = r
        \/ i \in old /\ ~(e.action = "event_unpinned" /\ e.room = r /\ e.arg = l[i].arg)
  BY <1>1, <1>2
<1>4. \A i \in old : m[i].arg = l[i].arg
  BY <1>1
<1> HIDE DEF old, new
<1>5. CASE e.action = "event_pinned" /\ e.room = r
  <2>1. \A i : i \in new <=> i = n + 1 \/ i \in old
    BY <1>3, <1>5
  <2>2. {m[i].arg : i \in new} = {l[i].arg : i \in old} \cup {e.arg}
    BY <1>4, <2>1
  <2> QED
    BY <1>5, <2>2 DEF PinsAfter, PinsOf, old, new, all, grown
<1>6. CASE e.action = "event_unpinned" /\ e.room = r
  <2>1. \A i : i \in new <=> i \in old /\ l[i].arg # e.arg
    BY <1>3, <1>6
  <2>2. {m[i].arg : i \in new} = {l[i].arg : i \in old} \ {e.arg}
    BY <1>4, <2>1
  <2> QED
    BY <1>6, <2>2 DEF PinsAfter, PinsOf, old, new, all, grown
<1>7. CASE ~(e.action \in {"event_pinned", "event_unpinned"} /\ e.room = r)
  <2>1. \A i : i \in new <=> i \in old
    BY <1>3, <1>7
  <2>2. {m[i].arg : i \in new} = {l[i].arg : i \in old}
    BY <1>4, <2>1
  <2> QED
    BY <1>7, <2>2 DEF PinsAfter, PinsOf, old, new, all, grown
<1> QED
  BY <1>5, <1>6, <1>7

LEMMA OfPrefix ==
  ASSUME NEW n \in Nat, NEW l, NEW m, Continues(m, l, n), NEW k \in 0 .. n
  PROVE  RoomsOf(m, k) = RoomsOf(l, k) /\ WordsOf(m, k) = WordsOf(l, k)
<1> DEFINE yes == {"room_activated", "auto_discovered"}
<1>1. Standing(m, k, yes, "room_deactivated") = Standing(l, k, yes, "room_deactivated")
  <2> HIDE DEF yes
  <2> QED
    BY StandingGrows
<1>2. LastWords(m, k) = LastWords(l, k)
  BY LastWordsGrow
<1>3. /\ \A i \in Standing(l, k, yes, "room_deactivated") : m[i] = l[i]
      /\ \A i \in LastWords(l, k) : m[i] = l[i]
  BY DEF Standing, LastWords, Continues
<1> QED
  BY <1>1, <1>2, <1>3 DEF RoomsOf, WordsOf

\* What the log says after one more entry, and what it said before any of them.
LEMMA EntryAppended ==
  ASSUME BotTypes, Argumentless, NEW e \in [action : Actions, room : RoomIds, arg : AnyArg],
         Bare(e), log' = Append(log, e)
  PROVE  /\ Len(log') = Len(log) + 1 /\ Len(log) \in Nat /\ log'[Len(log) + 1] = e
         /\ DOMAIN log = 1 .. Len(log) /\ DOMAIN log' = 1 .. Len(log) + 1
         /\ \A k \in 1 .. Len(log) : log'[k] = log[k]
         /\ ActiveOnRecord(Len(log))' = RoomsAfter(ActiveOnRecord(Len(log)), e)
         /\ BannedOnRecord(Len(log))' = WordsAfter(BannedOnRecord(Len(log)), e)
         /\ \A r : PinnedOnRecord(r)' = PinsAfter(PinnedOnRecord(r), r, e)
         /\ \A k \in 0 .. Len(log) :
              ActiveOnRecord(k)' = ActiveOnRecord(k) /\ BannedOnRecord(k)' = BannedOnRecord(k)
<1>1. /\ Len(log') = Len(log) + 1 /\ Len(log) \in Nat /\ log'[Len(log) + 1] = e
      /\ DOMAIN log = 1 .. Len(log) /\ DOMAIN log' = 1 .. Len(log) + 1
      /\ \A k \in 1 .. Len(log) : log'[k] = log[k]
  BY DEF BotTypes
<1>2. Continues(log', log, Len(log)) /\ AllBare(log, Len(log)) /\ Bare(log'[Len(log) + 1])
  BY <1>1 DEF Argumentless, Continues, AllBare
<1> DEFINE n == Len(log)
<1>3. n \in Nat /\ Continues(log', log, n) /\ AllBare(log, n) /\ Bare(log'[n + 1])
  BY <1>1, <1>2
<1>4. ActiveOnRecord(Len(log))' = RoomsAfter(ActiveOnRecord(Len(log)), e)
  <2>1. RoomsOf(log', n + 1) = RoomsAfter(RoomsOf(log, n), log'[n + 1])
    <3> HIDE DEF n
    <3> QED
      BY <1>3, RoomsGrow
  <2>2. ActiveOnRecord(Len(log))' = RoomsOf(log', n + 1) /\ ActiveOnRecord(n) = RoomsOf(log, n)
    BY <1>1, OnRecordIsOf, OnRecordIsOfNext
  <2> QED
    BY <1>1, <2>1, <2>2
<1>5. BannedOnRecord(Len(log))' = WordsAfter(BannedOnRecord(Len(log)), e)
  <2>1. WordsOf(log', n + 1) = WordsAfter(WordsOf(log, n), log'[n + 1])
    <3> HIDE DEF n
    <3> QED
      BY <1>3, WordsGrow
  <2>2. BannedOnRecord(Len(log))' = WordsOf(log', n + 1) /\ BannedOnRecord(n) = WordsOf(log, n)
    BY <1>1, OnRecordIsOf, OnRecordIsOfNext
  <2> QED
    BY <1>1, <2>1, <2>2
<1>6. ASSUME NEW r PROVE PinnedOnRecord(r)' = PinsAfter(PinnedOnRecord(r), r, e)
  <2>1. PinsOf(log', n + 1, r) = PinsAfter(PinsOf(log, n, r), r, log'[n + 1])
    <3> HIDE DEF n
    <3> QED
      BY <1>3, PinsGrow
  <2>2. PinnedOnRecord(r)' = PinsOf(log', n + 1, r) /\ PinnedOnRecord(r) = PinsOf(log, n, r)
    BY <1>1, OnRecordIsOf, OnRecordIsOfNext
  <2> QED
    BY <1>1, <2>1, <2>2
<1>7. ASSUME NEW k \in 0 .. Len(log)
      PROVE  ActiveOnRecord(k)' = ActiveOnRecord(k) /\ BannedOnRecord(k)' = BannedOnRecord(k)
  BY <1>1, <1>2, OfPrefix, OnRecordIsOf, OnRecordIsOfNext
<1> QED
  BY <1>1, <1>4, <1>5, <1>6, <1>7

----------------------------------------------------------------------------
(* The shape of the programs                                               *)

LEMMA ShapedRest ==
  ASSUME NEW p \in Seq(Ops \cup Entries), p # << >>, Shaped(p)
  PROVE  /\ Shaped(Tail(p))
         /\ Tail(p) # << >> => /\ 2 \in DOMAIN p /\ Tail(p)[1] = p[2]
                               /\ Opens(p[1]) \/ Closes(p[2]) => Belongs(p[1], p[2])
         /\ Opens(p[1]) => Tail(p) # << >>
         /\ p[1].do \in {"pin", "unpin"} => Len(Tail(p)) = 1
         /\ \A k \in DOMAIN Tail(p) : Tail(p)[k].do # "moderate"
<1> DEFINE t == Tail(p)
<1>1. /\ DOMAIN t = 1 .. Len(p) - 1 /\ DOMAIN p = 1 .. Len(p) /\ Len(p) \in Nat \ {0}
      /\ Len(t) = Len(p) - 1 /\ (t # << >> <=> Len(p) > 1)
      /\ \A k \in 1 .. Len(p) - 1 : t[k] = p[k + 1]
  <2>1. Len(p) \in Nat \ {0} /\ DOMAIN p = 1 .. Len(p)
    OBVIOUS
  <2>2. t \in Seq(Ops \cup Entries) /\ Len(t) = Len(p) - 1 /\ DOMAIN t = 1 .. Len(p) - 1
    BY <2>1
  <2>3. \A k \in 1 .. Len(p) - 1 : t[k] = p[k + 1]
    BY <2>1
  <2> HIDE DEF t
  <2>4. t # << >> <=> Len(p) > 1
    BY <2>1, <2>2
  <2> QED
    BY <2>1, <2>2, <2>3, <2>4
<1> HIDE DEF t
<1>2. ASSUME NEW k \in DOMAIN t
      PROVE  /\ k + 1 \in DOMAIN p /\ t[k] = p[k + 1]
             /\ k + 1 + 1 \in DOMAIN p <=> k + 1 \in DOMAIN t
             /\ k + 1 + 2 \in DOMAIN p <=> k + 2 \in DOMAIN t
             /\ k + 1 # 1 /\ (k + 1 + 1 = Len(p) <=> k + 1 = Len(t))
  BY <1>1
<1>3. ASSUME NEW k \in DOMAIN t
      PROVE  /\ k + 1 \in DOMAIN t => t[k + 1] = p[k + 1 + 1]
             /\ k + 2 \in DOMAIN t => t[k + 2] = p[k + 1 + 2]
  <2>1. k + 1 + 1 = (k + 1) + 1 /\ k + 1 + 2 = (k + 2) + 1
    BY <1>1
  <2> QED
    BY <1>1, <2>1
<1>4. Shaped(t)
  <2> SUFFICES ASSUME NEW k \in DOMAIN t PROVE ShapedAt(t, k)
    BY DEF Shaped
  <2>1. ShapedAt(p, k + 1)
    BY <1>2 DEF Shaped
  <2> QED
    BY <1>2, <1>3, <2>1 DEF ShapedAt
<1>5. 1 \in DOMAIN p /\ 1 + 1 = 2 /\ (t # << >> <=> 2 \in DOMAIN p) /\ (t # << >> => t[1] = p[2])
  BY <1>1
<1>6. ShapedAt(p, 1)
  BY <1>5 DEF Shaped
<1>7. p[1].do \in {"pin", "unpin"} => Len(t) = 1
  BY <1>1, <1>6 DEF ShapedAt
<1>8. \A k \in DOMAIN t : t[k].do # "moderate"
  BY <1>2 DEF Shaped, ShapedAt
<1>9. /\ t # << >> => (Opens(p[1]) \/ Closes(p[2]) => Belongs(p[1], p[2]))
      /\ Opens(p[1]) => t # << >>
  BY <1>5, <1>6 DEF ShapedAt
<1> QED
  BY <1>4, <1>5, <1>7, <1>8, <1>9 DEF t

\* One program behind another.
LEMMA ShapedSeam ==
  ASSUME NEW p \in Seq(Ops \cup Entries), NEW q \in Seq(Ops \cup Entries), Shaped(p), Shaped(q),
         q # << >> => ~Closes(q[1]),
         \A k \in DOMAIN q : q[k].do # "moderate",
         \A k \in DOMAIN p : p[k].do \notin {"pin", "unpin"}
  PROVE  Shaped(p \o q)
<1> DEFINE s == p \o q
           n == Len(p)
<1>1. /\ Len(s) = n + Len(q) /\ DOMAIN s = 1 .. n + Len(q)
      /\ DOMAIN p = 1 .. n /\ DOMAIN q = 1 .. Len(q) /\ n \in Nat /\ Len(q) \in Nat
      /\ q # << >> <=> Len(q) > 0
  OBVIOUS
<1>2. /\ \A k \in 1 .. n : s[k] = p[k]
      /\ \A k \in 1 .. Len(q) : s[n + k] = q[k]
  OBVIOUS
<1> HIDE DEF s, n
<1>3. ASSUME NEW k \in 1 .. n PROVE ShapedAt(s, k)
  <2>1. s[k] = p[k] /\ k \in DOMAIN p /\ ShapedAt(p, k)
    BY <1>1, <1>2 DEF Shaped
  <2>2. /\ k + 1 \in DOMAIN p => k + 1 \in DOMAIN s /\ s[k + 1] = p[k + 1]
        /\ k + 2 \in DOMAIN p => k + 2 \in DOMAIN s /\ s[k + 2] = p[k + 2]
    BY <1>1, <1>2
  <2>3. p[k].do \notin {"pin", "unpin"}
    BY <2>1
  <2>4. CASE k + 1 \in DOMAIN p
    BY <2>1, <2>2, <2>3, <2>4 DEF ShapedAt
  <2>5. CASE k + 1 \notin DOMAIN p
    <3>1. ~Opens(s[k]) /\ s[k].do \notin {"ban", "unban"}
      BY <2>1, <2>5 DEF ShapedAt, Opens
    <3>2. k + 1 \in DOMAIN s => q # << >> /\ s[k + 1] = q[1]
      <4>1. k = n
        BY <1>1, <2>5
      <4>2. n + 1 \in DOMAIN s => 1 \in 1 .. Len(q)
        BY <1>1
      <4> QED
        BY <1>1, <1>2, <4>1, <4>2
    <3> QED
      BY <2>1, <2>3, <3>1, <3>2 DEF ShapedAt
  <2> QED
    BY <2>4, <2>5
<1>4. ASSUME NEW j \in 1 .. Len(q) PROVE ShapedAt(s, n + j)
  <2>1. n + j + 1 = n + (j + 1) /\ n + j + 2 = n + (j + 2)
    BY <1>1
  <2>2. (n + j + 1 \in DOMAIN s) <=> (j + 1 \in DOMAIN q)
    BY <1>1
  <2>3. (n + j + 2 \in DOMAIN s) <=> (j + 2 \in DOMAIN q)
    BY <1>1
  <2>4. (n + j + 1 = Len(s)) <=> (j + 1 = Len(q))
    <3>1. PICK a \in Nat, b \in Nat : a = n /\ b = Len(q) /\ Len(s) = a + b /\ j \in 1 .. b
      BY <1>1
    <3>2. (a + j + 1 = a + b) <=> (j + 1 = b)
      BY <3>1
    <3> QED
      BY <3>1, <3>2
  <2>5. /\ s[n + j] = q[j]
        /\ j + 1 \in DOMAIN q => s[n + j + 1] = q[j + 1]
        /\ j + 2 \in DOMAIN q => s[n + j + 2] = q[j + 2]
    <3>1. /\ s[n + j] = q[j]
          /\ j + 1 \in DOMAIN q => s[n + (j + 1)] = q[j + 1]
          /\ j + 2 \in DOMAIN q => s[n + (j + 2)] = q[j + 2]
      <4> HIDE DEF n
      <4> QED
        BY <1>1, <1>2
    <3> QED
      BY <2>1, <3>1
  <2>6. ShapedAt(q, j) /\ q[j].do # "moderate"
    BY <1>1 DEF Shaped
  <2> HIDE DEF n
  <2> QED
    BY <2>2, <2>3, <2>4, <2>5, <2>6 DEF ShapedAt
<1>5. \A k \in DOMAIN s : k \in 1 .. n \/ \E j \in 1 .. Len(q) : k = n + j
  <2>1. ASSUME NEW k \in DOMAIN s, k \notin 1 .. n
        PROVE  k - n \in 1 .. Len(q) /\ k = n + (k - n)
    BY <1>1, <2>1
  <2> QED
    BY <2>1
<1>6. Shaped(s)
  BY <1>3, <1>4, <1>5 DEF Shaped
<1> QED
  BY <1>6 DEF s

\* What every step of a program satisfies by itself.
Sound(a) ==
  /\ a.do = "note" => a.action \notin TableRecords
  /\ a.do \in {"append", "note"} => Bare(a)

LEMMA ShapedNone == Shaped(<< >>)
<1>1. DOMAIN << >> = {}
  OBVIOUS
<1> QED
  BY <1>1 DEF Shaped

LEMMA ShapedOne ==
  ASSUME NEW a, ~Opens(a), Sound(a)
  PROVE  Shaped(<<a>>)
<1>1. DOMAIN <<a>> = {1} /\ <<a>>[1] = a
  OBVIOUS
<1>2. 1 + 1 \notin {1} /\ 1 + 2 \notin {1}
  OBVIOUS
<1>3. ShapedAt(<<a>>, 1)
  BY <1>1, <1>2 DEF ShapedAt, Sound, Opens
<1> QED
  BY <1>1, <1>3 DEF Shaped

LEMMA ShapedTwo ==
  ASSUME NEW a, NEW b, Sound(a), Sound(b), ~Opens(b), a.do \notin {"ban", "unban"},
         Opens(a) \/ Closes(b) => Belongs(a, b)
  PROVE  Shaped(<<a, b>>)
<1>1. /\ DOMAIN <<a, b>> = {1, 2} /\ <<a, b>>[1] = a /\ <<a, b>>[2] = b
      /\ Len(<<a, b>>) = 2
  OBVIOUS
<1>2. PICK p : p = <<a, b>>
  OBVIOUS
<1>3. ShapedAt(p, 1)
  <2>1. 1 + 1 = 2 /\ 2 \in DOMAIN p /\ p[1] = a /\ p[2] = b /\ Len(p) = 2
    BY <1>1, <1>2
  <2> QED
    BY <2>1 DEF ShapedAt, Sound
<1>4. ShapedAt(p, 2)
  <2>1. 2 + 1 \notin DOMAIN p /\ p[2] = b
    BY <1>1, <1>2
  <2> QED
    BY <2>1 DEF ShapedAt, Sound, Opens
<1> QED
  BY <1>1, <1>2, <1>3, <1>4 DEF Shaped

\* The commands on words.
LEMMA ShapedThree ==
  ASSUME NEW r, NEW x, NEW d \in {"ban", "unban"},
         NEW e, e = IF d = "ban" THEN "banned_word_added" ELSE "banned_word_removed"
  PROVE  Shaped(<<Op(d, r, x), Op("refresh", r, None), Entry(e, r, x)>>)
<1>1. PICK a, b, c : a = Op(d, r, x) /\ b = Op("refresh", r, None) /\ c = Entry(e, r, x)
  OBVIOUS
<1>2. PICK p : p = <<a, b, c>>
  OBVIOUS
<1>3. /\ DOMAIN p = {1, 2, 3} /\ p[1] = a /\ p[2] = b /\ p[3] = c
  BY <1>2
<1>4. /\ a.do = d /\ b.do = "refresh" /\ c.do = "append" /\ c.action = e
      /\ a.room = r /\ a.arg = x
  BY <1>1 DEF Op, Entry
<1>5. ShapedAt(p, 1)
  <2>1. 1 + 1 = 2 /\ 1 + 2 = 3 /\ 2 \in DOMAIN p /\ 3 \in DOMAIN p
    BY <1>3
  <2>2. Belongs(a, b) /\ (d = "ban" => c = Entry("banned_word_added", a.room, a.arg))
        /\ (d = "unban" => c = Entry("banned_word_removed", a.room, a.arg))
    BY <1>1, <1>4 DEF Belongs
  <2> QED
    BY <1>3, <1>4, <2>1, <2>2 DEF ShapedAt
<1>6. ShapedAt(p, 2)
  <2>1. 2 + 1 = 3 /\ 3 \in DOMAIN p
    BY <1>3
  <2>2. Belongs(b, c)
    BY <1>4 DEF Belongs, WordRecords
  <2> QED
    BY <1>3, <1>4, <2>1, <2>2 DEF ShapedAt
<1>7. ShapedAt(p, 3)
  <2>1. 3 + 1 \notin DOMAIN p
    BY <1>3
  <2> QED
    BY <1>3, <1>4, <2>1 DEF ShapedAt, Opens, Bare
<1> QED
  BY <1>1, <1>2, <1>3, <1>5, <1>6, <1>7 DEF Shaped

\* What may be put behind the moderation of a message: nothing before it is needed.
Fresh(q) ==
  /\ Shaped(q) /\ (q # << >> => ~Closes(q[1]))
  /\ \A k \in DOMAIN q : q[k].do # "moderate"

LEMMA FreshOnes ==
  /\ Fresh(<< >>)
  /\ \A a : ~Opens(a) /\ ~Closes(a) /\ Sound(a) => Fresh(<<a>>)
<1>1. DOMAIN << >> = {}
  OBVIOUS
<1>2. \A a : DOMAIN <<a>> = {1} /\ <<a>>[1] = a
  OBVIOUS
<1> QED
  BY <1>1, <1>2, ShapedNone, ShapedOne DEF Fresh, Opens

LEMMA FreshTwo ==
  ASSUME NEW a, NEW b, Sound(a), Sound(b), ~Closes(a), ~Opens(b),
         a.do \notin {"ban", "unban", "moderate"},
         Opens(a) \/ Closes(b) => Belongs(a, b)
  PROVE  Fresh(<<a, b>>)
<1>1. DOMAIN <<a, b>> = {1, 2} /\ <<a, b>>[1] = a /\ <<a, b>>[2] = b
  OBVIOUS
<1> QED
  BY <1>1, ShapedTwo DEF Fresh, Opens

\* What the command m in the room r may have a program do.
Commanded(p, r, m) ==
  /\ Fresh(p)
  /\ \A k \in DOMAIN p :
       /\ ~Moderates(p[k])
       /\ p[k].do \in {"pin", "unpin"} => p[k].room = r /\ m.does \in {"pin", "unpin"}

LEMMA OrdersFresh ==
  ASSUME NEW r \in RoomIds, NEW i \in Nat, NEW m \in Messages[r], timeline[r][i] = m,
         m.does # "chat"
  PROVE  Commanded(Orders(r, i), r, m)
<1> DEFINE x == m.arg
<1>1. m.does \in Commands
  BY LevelAssumption
<1> HIDE DEF x
<1>2. ASSUME NEW a, NEW b, Fresh(<<a, b>>), a.do \notin {"append"}, b.do = "append",
             b.action # "auto_moderation", a.room = r,
             a.do \in {"pin", "unpin"} => m.does \in {"pin", "unpin"}
      PROVE  Commanded(<<a, b>>, r, m)
  <2>1. DOMAIN <<a, b>> = {1, 2} /\ <<a, b>>[1] = a /\ <<a, b>>[2] = b
    OBVIOUS
  <2> QED
    BY <1>2, <2>1 DEF Commanded, Moderates
<1>3. ASSUME NEW e \in {"pin_no_reply", "event_pinned_noop", "event_unpinned_noop"}, NEW y
      PROVE  Commanded(<<Entry(e, r, y)>>, r, m)
  <2>1. PICK a : a = Entry(e, r, y)
    OBVIOUS
  <2>2. a.do = "append" /\ a.action = e
    BY <2>1 DEF Entry
  <2>3. ~Opens(a) /\ ~Closes(a) /\ Sound(a) /\ ~Moderates(a)
    BY <2>2 DEF Opens, Closes, Sound, Bare, Moderates, TableRecords, WordRecords
  <2>4. Fresh(<<a>>)
    BY <2>3, FreshOnes
  <2>5. DOMAIN <<a>> = {1} /\ <<a>>[1] = a
    OBVIOUS
  <2> QED
    BY <2>1, <2>2, <2>3, <2>4, <2>5 DEF Commanded
<1>4. ASSUME NEW d \in {"insert", "delete", "kick", "pin", "unpin"}, NEW y,
             d \in {"pin", "unpin"} => m.does \in {"pin", "unpin"},
             d \in {"insert", "delete"} => y = None,
             NEW e, e = IF d = "insert" THEN "room_activated"
                        ELSE IF d = "delete" THEN "room_deactivated"
                        ELSE IF d = "kick" THEN "user_kicked"
                        ELSE IF d = "pin" THEN "event_pinned" ELSE "event_unpinned"
      PROVE  Commanded(<<Op(d, r, y), Entry(e, r, y)>>, r, m)
  <2>1. PICK a, b : a = Op(d, r, y) /\ b = Entry(e, r, y)
    OBVIOUS
  <2>2. /\ a.do = d /\ a.room = r /\ a.arg = y
        /\ b.do = "append" /\ b.action = e /\ b.arg = y
    BY <2>1 DEF Op, Entry
  <2>3. Sound(a) /\ ~Closes(a)
    BY <2>2 DEF Sound, Closes
  <2>4. Sound(b) /\ ~Opens(b)
    BY <1>4, <2>2 DEF Sound, Opens, Bare
  <2>5. Opens(a) \/ Closes(b) => Belongs(a, b)
    BY <1>4, <2>1, <2>2 DEF Opens, Closes, Belongs, TableRecords, WordRecords
  <2>6. Fresh(<<a, b>>)
    BY <2>2, <2>3, <2>4, <2>5, FreshTwo
  <2>7. e # "auto_moderation" /\ d # "append"
    BY <1>4
  <2>8. Commanded(<<a, b>>, r, m)
    BY <1>2, <1>4, <2>2, <2>6, <2>7
  <2> QED
    BY <2>1, <2>8
<1>5. ASSUME NEW d \in {"ban", "unban"},
             NEW e, e = IF d = "ban" THEN "banned_word_added" ELSE "banned_word_removed"
      PROVE  Commanded(<<Op(d, r, x), Op("refresh", r, None), Entry(e, r, x)>>, r, m)
  <2>1. PICK a, b, c : a = Op(d, r, x) /\ b = Op("refresh", r, None) /\ c = Entry(e, r, x)
    OBVIOUS
  <2>2. Shaped(<<a, b, c>>)
    BY <1>5, <2>1, ShapedThree
  <2>3. /\ DOMAIN <<a, b, c>> = {1, 2, 3} /\ <<a, b, c>>[1] = a /\ <<a, b, c>>[2] = b
        /\ <<a, b, c>>[3] = c
    OBVIOUS
  <2>4. a.do = d /\ b.do = "refresh" /\ c.do = "append" /\ c.action = e
    BY <2>1 DEF Op, Entry
  <2>5. c.action # "auto_moderation" /\ ~Closes(a)
    BY <1>5, <2>4 DEF Closes
  <2>6. Commanded(<<a, b, c>>, r, m)
    BY <2>2, <2>3, <2>4, <2>5 DEF Commanded, Fresh, Moderates
  <2> QED
    BY <2>1, <2>6
<1>6. CASE m.does = "activate"
  BY <1>4, <1>6 DEF Orders
<1>7. CASE m.does = "deactivate"
  BY <1>4, <1>7 DEF Orders
<1>8. CASE m.does = "ban-word add"
  BY <1>5, <1>8 DEF Orders, AddWord, x
<1>9. CASE m.does = "ban-word remove"
  BY <1>5, <1>9 DEF Orders, RemoveWord, x
<1>10. CASE m.does = "kick"
  BY <1>4, <1>10 DEF Orders
<1>11. CASE m.does \in {"pin", "unpin"} /\ x = None
  BY <1>3, <1>11 DEF Orders, x
<1>12. CASE m.does = "pin" /\ x # None
  BY <1>3, <1>4, <1>12 DEF Orders, Pin, x
<1>13. CASE m.does = "unpin" /\ x # None
  BY <1>3, <1>4, <1>13 DEF Orders, Unpin, x
<1> QED
  BY <1>1, <1>6, <1>7, <1>8, <1>9, <1>10, <1>11, <1>12, <1>13 DEF Commands

LEMMA DispatchFresh ==
  ASSUME NEW r \in RoomIds, NEW i \in Nat, NEW m \in Messages[r], timeline[r][i] = m
  PROVE  Commanded(Dispatch(r, i), r, m)
<1>1. Commanded(<< >>, r, m)
  <2>1. DOMAIN << >> = {}
    OBVIOUS
  <2> QED
    BY <2>1, FreshOnes DEF Commanded
<1>2. Commanded(<<Entry("command_denied_power_level", r, i)>>, r, m)
  <2>1. PICK a : a = Entry("command_denied_power_level", r, i)
    OBVIOUS
  <2>2. a.do = "append" /\ a.action = "command_denied_power_level"
    BY <2>1 DEF Entry
  <2>3. ~Opens(a) /\ ~Closes(a) /\ Sound(a) /\ ~Moderates(a)
    BY <2>2 DEF Opens, Closes, Sound, Bare, Moderates, TableRecords, WordRecords
  <2>4. DOMAIN <<a>> = {1} /\ <<a>>[1] = a
    OBVIOUS
  <2>5. Fresh(<<a>>)
    BY <2>3, FreshOnes
  <2> QED
    BY <2>1, <2>2, <2>3, <2>4, <2>5 DEF Commanded
<1>3. m.does # "chat" => Commanded(Orders(r, i), r, m)
  BY OrdersFresh
<1> QED
  BY <1>1, <1>2, <1>3 DEF Dispatch

\* Of the words that a message matches one comes first in the list.
LEMMA FirstIsHit ==
  ASSUME NEW bans \in SUBSET Bans, NEW m, Hits(bans, m) # {}
  PROVE  /\ FirstMatch(bans, m) \in Hits(bans, m)
         /\ \A b \in Hits(bans, m) : FirstMatch(bans, m).word <= b.word
<1>1. Hits(bans, m) \subseteq Bans /\ \A b \in Bans : b.word \in Nat
  BY WordAssumption DEF Hits, Bans
<1>2. \E b \in Hits(bans, m) : \A c \in Hits(bans, m) : b.word <= c.word
  <2> DEFINE sizes == {b.word : b \in Hits(bans, m)}
  <2>1. sizes \subseteq Nat /\ sizes # {}
    BY <1>1
  <2> HIDE DEF sizes
  <2>2. PICK n \in sizes : \A k \in sizes : n <= k
    <3>1. PICK n \in sizes : \A k \in sizes : <<k, n>> \notin OpToRel(<, Nat)
      BY <2>1, NatLessThanWellFounded, WFMin
    <3>2. \A k \in sizes : ~(k < n)
      BY <2>1, <3>1 DEF OpToRel
    <3> QED
      BY <2>1, <3>2
  <2> QED
    BY <2>2 DEF sizes
<1> HIDE DEF Hits
<1> QED
  BY <1>2 DEF FirstMatch

\* What a program begins with does not need what came before it.
Begun(p) == Shaped(p) /\ (p # << >> => ~Closes(p[1]))

\* What is done to a message is deserved, given the words in the cache.
ForMessage(p, r, i) ==
  /\ Begun(p)
  /\ \A k \in DOMAIN p : Moderates(p[k]) =>
       p[k].room = r /\ p[k].arg[1] = i /\ r \in active
         /\ p[k].arg[2] \in Hits(cache, timeline[r][i])
         /\ \A b \in Hits(cache, timeline[r][i]) : p[k].arg[2].word <= b.word

LEMMA ModerationFor ==
  ASSUME NEW r \in RoomIds, NEW i \in Nat, cache \subseteq Bans
  PROVE  /\ ForMessage(Moderation(r, i), r, i)
         /\ \A k \in DOMAIN Moderation(r, i) : Moderation(r, i)[k].do \notin {"pin", "unpin"}
<1> DEFINE m == timeline[r][i]
           how == <<i, FirstMatch(cache, m)>>
<1>1. CASE Moderation(r, i) = << >>
  <2>1. DOMAIN << >> = {}
    OBVIOUS
  <2> QED
    BY <1>1, <2>1, ShapedNone DEF ForMessage, Begun
<1>2. CASE Moderation(r, i) # << >>
  <2>1. r \in active /\ Hits(cache, m) # {}
        /\ Moderation(r, i) = <<Op("moderate", r, how), Entry("auto_moderation", r, how)>>
    BY <1>2 DEF Moderation
  <2>2. /\ FirstMatch(cache, m) \in Hits(cache, m)
        /\ \A b \in Hits(cache, m) : FirstMatch(cache, m).word <= b.word
    BY <2>1, FirstIsHit
  <2>3. how[1] = i /\ how[2] = FirstMatch(cache, m)
    OBVIOUS
  <2> HIDE DEF how, m
  <2>4. PICK a, b : a = Op("moderate", r, how) /\ b = Entry("auto_moderation", r, how)
    OBVIOUS
  <2>5. /\ a.do = "moderate" /\ a.room = r /\ a.arg = how
        /\ b.do = "append" /\ b.action = "auto_moderation" /\ b.room = r /\ b.arg = how
    BY <2>4 DEF Op, Entry
  <2>6. Sound(a) /\ Sound(b) /\ ~Opens(b) /\ Belongs(a, b) /\ ~Closes(a) /\ ~Moderates(a)
    BY <2>4, <2>5 DEF Sound, Opens, Bare, Belongs, Closes, Moderates
  <2>7. Shaped(<<a, b>>)
    BY <2>5, <2>6, ShapedTwo
  <2>8. DOMAIN <<a, b>> = {1, 2} /\ <<a, b>>[1] = a /\ <<a, b>>[2] = b
    OBVIOUS
  <2>9. ForMessage(<<a, b>>, r, i)
    BY <2>1, <2>2, <2>3, <2>5, <2>6, <2>7, <2>8 DEF ForMessage, Begun, m
  <2> QED
    BY <2>1, <2>4, <2>5, <2>8, <2>9
<1> QED
  BY <1>1, <1>2

\* What stands in one program behind another.
LEMMA SeamElements ==
  ASSUME NEW p \in Seq(Ops \cup Entries), NEW q \in Seq(Ops \cup Entries)
  PROVE  /\ p \o q # << >> => \/ p # << >> /\ (p \o q)[1] = p[1]
                              \/ p = << >> /\ q # << >> /\ (p \o q)[1] = q[1]
         /\ \A k \in DOMAIN (p \o q) : \/ k \in DOMAIN p /\ (p \o q)[k] = p[k]
                                       \/ \E j \in DOMAIN q : (p \o q)[k] = q[j]
<1> DEFINE s == p \o q
<1>1. /\ DOMAIN s = 1 .. Len(p) + Len(q) /\ DOMAIN p = 1 .. Len(p) /\ DOMAIN q = 1 .. Len(q)
      /\ Len(p) \in Nat /\ Len(q) \in Nat
  OBVIOUS
<1>2. /\ \A k \in 1 .. Len(p) : s[k] = p[k]
      /\ \A k \in 1 .. Len(q) : s[Len(p) + k] = q[k]
  OBVIOUS
<1>3. ASSUME NEW k \in DOMAIN s, k \notin DOMAIN p
      PROVE  k - Len(p) \in DOMAIN q /\ k = Len(p) + (k - Len(p))
  BY <1>1, <1>3
<1>4. \A k \in DOMAIN s : \/ k \in DOMAIN p /\ s[k] = p[k]
                          \/ \E j \in DOMAIN q : s[k] = q[j]
  <2> HIDE DEF s
  <2> QED
    BY <1>1, <1>2, <1>3
<1>5. p # << >> => s[1] = p[1]
  <2>1. p # << >> => 1 \in 1 .. Len(p)
    BY <1>1
  <2> QED
    BY <1>2, <2>1
<1>6. p = << >> => s = q
  OBVIOUS
<1> QED
  BY <1>4, <1>5, <1>6

LEMMA HandlerFor ==
  ASSUME NEW r \in RoomIds, NEW i \in Nat, NEW m \in Messages[r], timeline[r][i] = m,
         cache \subseteq Bans
  PROVE  /\ ForMessage(Moderation(r, i) \o Dispatch(r, i), r, i)
         /\ \A k \in DOMAIN (Moderation(r, i) \o Dispatch(r, i)) :
              (Moderation(r, i) \o Dispatch(r, i))[k].do \in {"pin", "unpin"} =>
                /\ (Moderation(r, i) \o Dispatch(r, i))[k].room = r
                /\ m.does \in {"pin", "unpin"}
<1> DEFINE p == Moderation(r, i)
           q == Dispatch(r, i)
           s == p \o q
<1>1. p \in Seq(Ops \cup Entries) /\ q \in Seq(Ops \cup Entries)
  BY ModerationTyped, DispatchTyped DEF Programs
<1>2. ForMessage(p, r, i) /\ \A k \in DOMAIN p : p[k].do \notin {"pin", "unpin"}
  BY ModerationFor
<1>3. Commanded(q, r, m)
  BY DispatchFresh
<1> HIDE DEF p, q
<1>4. Shaped(s)
  BY <1>1, <1>2, <1>3, ShapedSeam DEF ForMessage, Begun, Commanded, Fresh
<1>5. /\ s # << >> => \/ p # << >> /\ s[1] = p[1]
                      \/ p = << >> /\ q # << >> /\ s[1] = q[1]
      /\ \A k \in DOMAIN s : \/ k \in DOMAIN p /\ s[k] = p[k]
                             \/ \E j \in DOMAIN q : s[k] = q[j]
  BY <1>1, SeamElements
<1> HIDE DEF s
<1>6. Begun(s)
  BY <1>2, <1>3, <1>4, <1>5 DEF ForMessage, Begun, Commanded, Fresh
<1>7. ForMessage(s, r, i)
  BY <1>2, <1>3, <1>5, <1>6 DEF ForMessage, Commanded
<1>8. \A k \in DOMAIN s : s[k].do \in {"pin", "unpin"} => s[k].room = r /\ m.does \in {"pin", "unpin"}
  BY <1>2, <1>3, <1>5 DEF Commanded
<1> QED
  BY <1>7, <1>8 DEF s, p, q

\* A program that records nothing of the tables and moderates nothing.
Harmless(p) ==
  Begun(p) /\ \A k \in DOMAIN p : ~Moderates(p[k]) /\ p[k].do \notin {"pin", "unpin"}

LEMMA HarmlessOnes ==
  /\ Harmless(<< >>)
  /\ \A a : ~Opens(a) /\ ~Closes(a) /\ Sound(a) => Harmless(<<a>>)
<1>1. DOMAIN << >> = {}
  OBVIOUS
<1>2. \A a : DOMAIN <<a>> = {1} /\ <<a>>[1] = a
  OBVIOUS
<1>3. \A a : ~Opens(a) /\ ~Closes(a) => ~Moderates(a) /\ a.do \notin {"pin", "unpin"}
  BY DEF Opens, Closes, Moderates, TableRecords
<1> QED
  BY <1>1, <1>2, <1>3, ShapedNone, ShapedOne DEF Harmless, Begun

\* The programs of invites.
Invites == {"join", "join pending"}
Discoveries == {"discover", "discover invited"}

LEMMA InviteHarmless ==
  ASSUME NEW a \in Ops, NEW b \in Entries, NEW q,
         q = << >> \/ \E c \in Ops : q = <<c>> /\ c.do \in Discoveries,
         a.do \in Invites, b.action = "room_invite_accepted"
  PROVE  Harmless(<<a, b>> \o q)
<1> DEFINE p == <<a, b>>
<1>1. /\ ~Opens(a) /\ ~Closes(a) /\ Sound(a) /\ ~Moderates(a)
      /\ ~Opens(b) /\ ~Closes(b) /\ Sound(b) /\ ~Moderates(b)
  BY DEF Invites, Opens, Closes, Sound, Bare, Moderates, TableRecords, WordRecords, Entries
<1>2. DOMAIN p = {1, 2} /\ p[1] = a /\ p[2] = b /\ Len(p) = 2 /\ p \in Seq(Ops \cup Entries)
  OBVIOUS
<1>3. Shaped(p)
  BY <1>1, ShapedTwo DEF Invites, Opens
<1>4. \A k \in DOMAIN p : ~Moderates(p[k]) /\ p[k].do \notin {"pin", "unpin", "moderate"}
  BY <1>1, <1>2 DEF Opens
<1> HIDE DEF p
<1>5. CASE q = << >>
  <2>1. p \o << >> = p
    BY <1>2
  <2> QED
    BY <1>1, <1>2, <1>3, <1>4, <1>5, <2>1 DEF Harmless, Begun, p
<1>6. ASSUME NEW c \in Ops, q = <<c>>, c.do \in Discoveries
      PROVE  Harmless(p \o q)
  <2>1. /\ ~Opens(c) /\ ~Closes(c) /\ Sound(c) /\ ~Moderates(c)
        /\ c.do \notin {"moderate", "pin", "unpin"}
    BY <1>6 DEF Discoveries, Opens, Closes, Sound, Moderates
  <2>2. q \in Seq(Ops \cup Entries) /\ DOMAIN q = {1} /\ q[1] = c
    BY <1>6
  <2>3. Shaped(q)
    BY <1>6, <2>1, ShapedOne
  <2>4. Shaped(p \o q)
    BY <1>2, <1>3, <1>4, <1>6, <2>1, <2>2, <2>3, ShapedSeam
  <2>5. /\ p # << >> /\ (p \o q)[1] = p[1]
        /\ \A k \in DOMAIN (p \o q) : \/ k \in DOMAIN p /\ (p \o q)[k] = p[k]
                                      \/ (p \o q)[k] = c
    BY <1>2, <2>2, SeamElements
  <2> QED
    BY <1>1, <1>2, <1>4, <2>1, <2>4, <2>5 DEF Harmless, Begun
<1> QED
  BY <1>5, <1>6 DEF p

\* The program of a start.
LEMMA DiscoveryHarmless ==
  ASSUME NEW p, \A k \in DOMAIN p : p[k].do = "discover", p # << >> => 1 \in DOMAIN p
  PROVE  Harmless(p)
<1>1. \A k \in DOMAIN p : /\ ~Opens(p[k]) /\ ~Closes(p[k]) /\ ~Moderates(p[k])
                          /\ p[k].do \notin {"pin", "unpin"}
  BY DEF Opens, Closes, Moderates
<1>2. \A k \in DOMAIN p : ShapedAt(p, k)
  BY <1>1 DEF ShapedAt, Opens
<1> QED
  BY <1>1, <1>2 DEF Harmless, Begun, Shaped

\* As long as nothing is owed the tables are what the log says.
LEMMA Calm ==
  ASSUME NEW p, p # << >> => ~Closes(p[1])
  PROVE  /\ \A s : RoomsNow(p, s) = s
         /\ \A s : WordsNow(p, s) = s
         /\ \A s, r : PinsNow(p, s, r) = s
         /\ \A s : ActsNow(p, s) = s
<1>1. Records(p) => p[1].action \notin TableRecords
  BY DEF Records, Closes
<1>2. ~(p # << >> /\ p[1].do = "refresh") /\ ~(p # << >> /\ Moderates(p[1]))
  BY <1>1 DEF Closes, Records, Moderates, TableRecords
<1>3. Records(p) => /\ \A s : RoomsAfter(s, p[1]) = s
                    /\ \A s : WordsAfter(s, p[1]) = s
                    /\ \A s, r : PinsAfter(s, r, p[1]) = s
  BY <1>1 DEF RoomsAfter, WordsAfter, PinsAfter, TableRecords, WordRecords
<1> QED
  BY <1>2, <1>3 DEF RoomsNow, WordsNow, PinsNow, ActsNow

\* Before a statement or a call as well.
LEMMA CalmBefore ==
  ASSUME NEW p, p[1].do \notin {"append", "refresh"}
  PROVE  /\ \A s : RoomsNow(p, s) = s
         /\ \A s : WordsNow(p, s) = s
         /\ \A s, r : PinsNow(p, s, r) = s
         /\ \A s : ActsNow(p, s) = s
<1> QED
  BY DEF RoomsNow, WordsNow, PinsNow, ActsNow, Records, Moderates

\* What one step does to the homeserver.
LEMMA ServerEffects ==
  ASSUME program # << >>, Local \/ Remote
  PROVE  /\ timeline' = timeline
         /\ acted' = IF op.do \in {"moderate", "kick"}
                     THEN acted \cup {<<op.do, op.room, op.arg>>} ELSE acted
         /\ pins' = IF op.do = "pin" THEN [pins EXCEPT ![op.room] = seen[op.room] \cup {op.arg}]
                    ELSE IF op.do = "unpin"
                         THEN [pins EXCEPT ![op.room] = seen[op.room] \ {op.arg}] ELSE pins
<1> USE DEF Doing, op, server
<1>1. CASE Local
  BY <1>1 DEF Local, Activate, DeleteRow, ChangeWords, Refresh, AppendEntry
<1>2. CASE Act
  BY <1>2 DEF Act
<1>3. CASE WritePins
  BY <1>3 DEF WritePins
<1>4. CASE Join
  BY <1>4 DEF Join
<1> QED
  BY <1>1, <1>2, <1>3, <1>4 DEF Remote

LEMMA ActsGrow ==
  ASSUME NEW d, NEW r, NEW x, acted' = acted \cup {<<d, r, x>>}
  PROVE  Acts' = IF d = "moderate" THEN Acts \cup {<<r, x>>} ELSE Acts
<1> DEFINE old == {b \in acted : b[1] = "moderate"}
           new == {b \in acted' : b[1] = "moderate"}
<1>1. <<d, r, x>>[1] = d /\ <<d, r, x>>[2] = r /\ <<d, r, x>>[3] = x
  OBVIOUS
<1>2. CASE d = "moderate"
  <2>1. \A b : b \in new <=> b \in old \/ b = <<d, r, x>>
    BY <1>1, <1>2
  <2> HIDE DEF old, new
  <2>2. {<<a[2], a[3]>> : a \in new} = {<<a[2], a[3]>> : a \in old} \cup {<<r, x>>}
    BY <1>1, <2>1
  <2> QED
    BY <1>2, <2>2 DEF Acts, old, new
<1>3. CASE d # "moderate"
  <2>1. new = old
    BY <1>1, <1>3
  <2> HIDE DEF old, new
  <2> QED
    BY <1>3, <2>1 DEF Acts, old, new
<1> QED
  BY <1>2, <1>3

----------------------------------------------------------------------------
(* One step of a program                                                   *)

\* What is left of a program after its first step.
LEMMA Leaves ==
  ASSUME NEW p \in Seq(Ops \cup Entries), p # << >>, Shaped(p)
  PROVE  /\ Shaped(Tail(p)) /\ 1 \in DOMAIN p
         /\ ~Opens(p[1]) => Begun(Tail(p))
         /\ Opens(p[1]) => /\ Tail(p) # << >> /\ 2 \in DOMAIN p /\ Tail(p)[1] = p[2]
                           /\ Belongs(p[1], p[2])
         /\ p[1].do = "ban" => Tail(p)[2] = Entry("banned_word_added", p[1].room, p[1].arg)
         /\ p[1].do = "unban" => Tail(p)[2] = Entry("banned_word_removed", p[1].room, p[1].arg)
         /\ \A k \in DOMAIN Tail(p) : \E j \in DOMAIN p : Tail(p)[k] = p[j]
         /\ \A k \in DOMAIN Tail(p) :
              Moderates(Tail(p)[k]) => p[1].do = "moderate" /\ Tail(p)[k] = p[2]
         /\ \A k \in DOMAIN Tail(p) : Tail(p)[k].do # "moderate"
         /\ p[1].do \in {"pin", "unpin"} =>
              \A k \in DOMAIN Tail(p) : Tail(p)[k].do \notin {"pin", "unpin"}
         /\ p[1].do = "note" => p[1].action \notin TableRecords
         /\ p[1].do \in {"append", "note"} => Bare(p[1])
<1> DEFINE t == Tail(p)
<1>1. /\ DOMAIN t = 1 .. Len(p) - 1 /\ DOMAIN p = 1 .. Len(p) /\ Len(p) \in Nat \ {0}
      /\ Len(t) = Len(p) - 1 /\ t \in Seq(Ops \cup Entries)
      /\ \A k \in 1 .. Len(p) - 1 : t[k] = p[k + 1]
  <2>1. Len(p) \in Nat \ {0} /\ DOMAIN p = 1 .. Len(p)
    OBVIOUS
  <2>2. t \in Seq(Ops \cup Entries) /\ Len(t) = Len(p) - 1 /\ DOMAIN t = 1 .. Len(p) - 1
    BY <2>1
  <2>3. \A k \in 1 .. Len(p) - 1 : t[k] = p[k + 1]
    BY <2>1
  <2> QED
    BY <2>1, <2>2, <2>3
<1>2. /\ Shaped(t)
      /\ t # << >> => /\ 2 \in DOMAIN p /\ t[1] = p[2]
                      /\ Opens(p[1]) \/ Closes(p[2]) => Belongs(p[1], p[2])
      /\ Opens(p[1]) => t # << >>
      /\ p[1].do \in {"pin", "unpin"} => Len(t) = 1
      /\ \A k \in DOMAIN t : t[k].do # "moderate"
  BY ShapedRest
<1> HIDE DEF t
<1>3. 1 \in DOMAIN p /\ ShapedAt(p, 1)
  BY <1>1 DEF Shaped
<1>4. ~Opens(p[1]) => Begun(t)
  BY <1>2 DEF Begun, Belongs, Opens
<1>5. \A k \in DOMAIN t : \E j \in DOMAIN p : t[k] = p[j]
  BY <1>1
<1>6. ASSUME p[1].do \in {"ban", "unban"}
      PROVE  t[2] = Entry(IF p[1].do = "ban" THEN "banned_word_added" ELSE "banned_word_removed",
                          p[1].room, p[1].arg)
  <2>1. 1 + 2 = 3 /\ 3 \in DOMAIN p => t[2] = p[3]
    BY <1>1
  <2> QED
    BY <1>3, <1>6, <2>1 DEF ShapedAt
<1>7. ASSUME NEW k \in DOMAIN t, Moderates(t[k])
      PROVE  p[1].do = "moderate" /\ t[k] = p[2]
  <2>1. k \in DOMAIN p /\ k + 1 \in DOMAIN p /\ t[k] = p[k + 1] /\ ShapedAt(p, k)
    BY <1>1 DEF Shaped
  <2>2. Closes(p[k + 1])
    BY <1>7, <2>1 DEF Moderates, Closes, TableRecords
  <2>3. Belongs(p[k], p[k + 1])
    BY <2>1, <2>2 DEF ShapedAt
  <2>4. p[k].do = "moderate"
    BY <1>7, <2>1, <2>3 DEF Belongs, Moderates, Entry, WordRecords
  <2>5. k = 1
    BY <2>1, <2>4 DEF ShapedAt
  <2>6. 1 + 1 = 2
    OBVIOUS
  <2> QED
    BY <2>1, <2>4, <2>5, <2>6
<1>8. ASSUME p[1].do \in {"pin", "unpin"}
      PROVE  \A k \in DOMAIN t : t[k].do \notin {"pin", "unpin"}
  <2>1. Opens(p[1]) /\ Len(t) = 1
    BY <1>2, <1>8 DEF Opens
  <2>2. t # << >> /\ t[1] = p[2] /\ Belongs(p[1], p[2])
    BY <1>2, <2>1
  <2>3. DOMAIN t = {1}
    <3>1. DOMAIN t = 1 .. Len(t)
      BY <1>1
    <3> QED
      BY <2>1, <3>1
  <2> QED
    BY <1>8, <2>2, <2>3 DEF Belongs, Entry
<1>9. p[1].do = "note" => p[1].action \notin TableRecords
  BY <1>3 DEF ShapedAt
<1>10. p[1].do \in {"append", "note"} => Bare(p[1])
  BY <1>3 DEF ShapedAt
<1> QED
  BY <1>2, <1>3, <1>4, <1>5, <1>6, <1>7, <1>8, <1>9, <1>10 DEF t

\* A room found has its entry next.
LEMMA FoundFirst ==
  ASSUME BotTypes, program # << >>, Found # << >>
  PROVE  /\ op.do \in Discoveries /\ op.room \notin active
         /\ Found \in Seq(Ops \cup Entries) /\ Shaped(Found)
         /\ Found[1] = Entry("auto_discovered", op.room, None)
         /\ \A k \in DOMAIN Found :
              ~Moderates(Found[k]) /\ Found[k].do \notin {"pin", "unpin"}
<1> DEFINE a == Entry("auto_discovered", op.room, None)
           b == Entry("auto_discovered_after_invite", op.room, None)
<1>1. op.do \in Discoveries /\ op.room \notin active /\ (Found = <<a>> \/ Found = <<a, b>>)
  BY DEF Found, Discoveries
<1>2. /\ ~Opens(a) /\ Sound(a) /\ ~Moderates(a) /\ a.do = "append"
      /\ ~Opens(b) /\ Sound(b) /\ ~Moderates(b) /\ b.do = "append" /\ ~Closes(b)
  BY DEF Entry, Opens, Sound, Bare, Moderates, Closes, TableRecords, WordRecords
<1> HIDE DEF a, b
<1>3. Shaped(<<a>>) /\ Shaped(<<a, b>>)
  BY <1>2, ShapedOne, ShapedTwo
<1>4. /\ DOMAIN <<a>> = {1} /\ <<a>>[1] = a
      /\ DOMAIN <<a, b>> = {1, 2} /\ <<a, b>>[1] = a /\ <<a, b>>[2] = b
  OBVIOUS
<1>5. Found \in Seq(Ops \cup Entries)
  BY FoundTyped DEF Programs
<1>6. \A k \in DOMAIN Found : Found[k] = a \/ Found[k] = b
  BY <1>1, <1>4
<1> QED
  BY <1>1, <1>2, <1>3, <1>4, <1>5, <1>6 DEF a

\* What a step leaves to be done.
LEMMA StepLeaves ==
  ASSUME BotTypes, Shaped(program), program # << >>, program' = Found \o Tail(program)
  PROVE  /\ Shaped(program')
         /\ \/ /\ op.do \in Discoveries /\ op.room \notin active
               /\ program' # << >> /\ program'[1] = Entry("auto_discovered", op.room, None)
            \/ /\ Opens(op) /\ program' # << >>
               /\ program'[1] = program[2] /\ Belongs(op, program'[1])
            \/ /\ ~Opens(op) /\ Begun(program')
               /\ op.do \in Discoveries => op.room \in active
         /\ op.do = "ban" => program'[2] = Entry("banned_word_added", op.room, op.arg)
         /\ op.do = "unban" => program'[2] = Entry("banned_word_removed", op.room, op.arg)
         /\ \A k \in DOMAIN program' : Moderates(program'[k]) =>
              op.do = "moderate" /\ 2 \in DOMAIN program /\ program'[k] = program[2]
         /\ \A k \in DOMAIN program' : program'[k].do \in {"pin", "unpin"} =>
              /\ op.do \notin {"pin", "unpin"}
              /\ \E j \in DOMAIN program : program'[k] = program[j]
<1> DEFINE t == Tail(program)
<1>1. program \in Seq(Ops \cup Entries) /\ op = program[1] /\ t \in Seq(Ops \cup Entries)
  BY HeadTyped DEF Programs
<1>2. /\ Shaped(t) /\ 1 \in DOMAIN program
      /\ ~Opens(op) => Begun(t)
      /\ Opens(op) => /\ t # << >> /\ 2 \in DOMAIN program /\ t[1] = program[2]
                      /\ Belongs(op, program[2])
      /\ op.do = "ban" => t[2] = Entry("banned_word_added", op.room, op.arg)
      /\ op.do = "unban" => t[2] = Entry("banned_word_removed", op.room, op.arg)
      /\ \A k \in DOMAIN t : \E j \in DOMAIN program : t[k] = program[j]
      /\ \A k \in DOMAIN t : Moderates(t[k]) => op.do = "moderate" /\ t[k] = program[2]
      /\ \A k \in DOMAIN t : t[k].do # "moderate"
      /\ op.do \in {"pin", "unpin"} => \A k \in DOMAIN t : t[k].do \notin {"pin", "unpin"}
  BY <1>1, Leaves
<1> HIDE DEF t
<1>3. op.do \in Discoveries => ~Opens(op) /\ op.do \notin {"ban", "unban", "moderate", "pin", "unpin"}
  BY DEF Discoveries, Opens
<1>4. CASE Found = << >>
  <2>1. program' = t
    BY <1>4, NextProgram DEF t
  <2>2. op.do \in Discoveries => op.room \in active
    <3> HIDE DEF op
    <3> QED
      BY <1>4 DEF Found, Discoveries, Entry
  <2>3. op.do = "moderate" => 2 \in DOMAIN program
    BY <1>2 DEF Opens
  <2> QED
    BY <1>2, <2>1, <2>2, <2>3
<1>5. CASE Found # << >>
  <2>1. /\ op.do \in Discoveries /\ op.room \notin active
        /\ Found \in Seq(Ops \cup Entries) /\ Shaped(Found)
        /\ Found[1] = Entry("auto_discovered", op.room, None)
        /\ \A k \in DOMAIN Found :
             ~Moderates(Found[k]) /\ Found[k].do \notin {"pin", "unpin"}
    BY <1>5, FoundFirst
  <2>2. PICK f \in Seq(Ops \cup Entries) : f = Found
    BY <2>1
  <2>3. ~Opens(op) /\ op.do \notin {"ban", "unban", "moderate", "pin", "unpin"}
    BY <1>3, <2>1
  <2>4. Shaped(f \o t)
    BY <1>1, <1>2, <2>1, <2>2, <2>3, ShapedSeam DEF Begun
  <2>5. f \o t # << >> /\ (f \o t)[1] = f[1]
    <3>1. f # << >> => f \o t # << >>
      BY <1>1
    <3> QED
      BY <1>1, <1>5, <2>2, <3>1, SeamElements
  <2>6. \A k \in DOMAIN (f \o t) : \/ k \in DOMAIN f /\ (f \o t)[k] = f[k]
                                   \/ \E j \in DOMAIN t : (f \o t)[k] = t[j]
    BY <1>1, SeamElements
  <2>7. program' = f \o t
    BY <2>2 DEF t
  <2>8. ASSUME NEW k \in DOMAIN program'
        PROVE  /\ ~Moderates(program'[k])
               /\ program'[k].do \in {"pin", "unpin"} =>
                    \E j \in DOMAIN program : program'[k] = program[j]
    <3>1. CASE k \in DOMAIN f /\ program'[k] = f[k]
      BY <2>1, <2>2, <3>1
    <3>2. CASE \E j \in DOMAIN t : program'[k] = t[j]
      BY <1>2, <2>3, <3>2
    <3> QED
      BY <2>6, <2>7, <3>1, <3>2
  <2>9. /\ Shaped(program') /\ program' # << >>
        /\ program'[1] = Entry("auto_discovered", op.room, None)
    BY <2>1, <2>2, <2>4, <2>5, <2>7
  <2> QED
    BY <2>1, <2>3, <2>8, <2>9
<1> QED
  BY <1>4, <1>5

----------------------------------------------------------------------------
(* Each action keeps the invariant                                         *)

LEMMA LogStays ==
  ASSUME log' = log
  PROVE  /\ ActiveOnRecord(Len(log))' = ActiveOnRecord(Len(log))
         /\ BannedOnRecord(Len(log))' = BannedOnRecord(Len(log))
         /\ \A n : ActiveOnRecord(n)' = ActiveOnRecord(n)
         /\ \A n : BannedOnRecord(n)' = BannedOnRecord(n)
         /\ \A r : PinnedOnRecord(r)' = PinnedOnRecord(r)
         /\ Moderated' = Moderated /\ ActsOnRecord' = ActsOnRecord
         /\ Argumentless' = Argumentless
<1> QED
  BY OnRecordIsOf, OnRecordIsOfNext DEF Moderated, ActsOnRecord, Argumentless

\* The entry is what the program said it would be.
LEMMA StepRecords ==
  ASSUME BotTypes, Argumentless, Shaped(program), program # << >>, op.do \in {"append", "note"},
         log' = Append(log, [action |-> op.action, room |-> op.room, arg |-> op.arg])
  PROVE  /\ Argumentless'
         /\ ActiveOnRecord(Len(log))' = RoomsNow(program, ActiveOnRecord(Len(log)))
         /\ BannedOnRecord(Len(log))' = WordsNow(program, BannedOnRecord(Len(log)))
         /\ \A r : PinnedOnRecord(r)' = PinsNow(program, PinnedOnRecord(r), r)
         /\ ActsOnRecord' = ActsNow(program, ActsOnRecord)
         /\ \A k \in Moderated' :
              \/ /\ k \in Moderated /\ log'[k] = log[k]
                 /\ ActiveOnRecord(k - 1)' = ActiveOnRecord(k - 1)
                 /\ BannedOnRecord(k - 1)' = BannedOnRecord(k - 1)
              \/ /\ Moderates(op) /\ log'[k].room = op.room /\ log'[k].arg = op.arg
                 /\ ActiveOnRecord(k - 1)' = ActiveOnRecord(Len(log))
                 /\ BannedOnRecord(k - 1)' = BannedOnRecord(Len(log))
<1> DEFINE e == [action |-> op.action, room |-> op.room, arg |-> op.arg]
           n == Len(log)
<1>1. /\ op = program[1] /\ op \in Entries
      /\ op.do = "note" => op.action \notin TableRecords
      /\ Bare(op)
  BY HeadTyped, Leaves DEF Programs
<1>2. /\ e.action = op.action /\ e.room = op.room /\ e.arg = op.arg
      /\ e \in [action : Actions, room : RoomIds, arg : AnyArg] /\ Bare(e)
  <2>1. /\ op.action \in Actions /\ op.room \in RoomIds /\ op.arg \in AnyArg
    BY <1>1 DEF Entries
  <2>2. Bare(e)
    BY <1>1 DEF Bare
  <2> QED
    BY <2>1, <2>2
<1>3. log' = Append(log, e)
  OBVIOUS
<1> HIDE DEF e
<1>4. /\ Len(log') = n + 1 /\ n \in Nat /\ log'[n + 1] = e
      /\ DOMAIN log = 1 .. n /\ DOMAIN log' = 1 .. n + 1
      /\ \A k \in 1 .. n : log'[k] = log[k]
      /\ ActiveOnRecord(Len(log))' = RoomsAfter(ActiveOnRecord(Len(log)), e)
      /\ BannedOnRecord(Len(log))' = WordsAfter(BannedOnRecord(Len(log)), e)
      /\ \A r : PinnedOnRecord(r)' = PinsAfter(PinnedOnRecord(r), r, e)
      /\ \A k \in 0 .. n :
           ActiveOnRecord(k)' = ActiveOnRecord(k) /\ BannedOnRecord(k)' = BannedOnRecord(k)
  BY <1>2, <1>3, EntryAppended
<1>5. /\ \A s : RoomsAfter(s, e) = RoomsAfter(s, op)
      /\ \A s : WordsAfter(s, e) = WordsAfter(s, op)
      /\ \A s, r : PinsAfter(s, r, e) = PinsAfter(s, r, op)
  BY <1>2 DEF RoomsAfter, WordsAfter, PinsAfter
<1>6. /\ \A s : RoomsAfter(s, e) = RoomsNow(program, s)
      /\ \A s : WordsAfter(s, e) = WordsNow(program, s)
      /\ \A s, r : PinsAfter(s, r, e) = PinsNow(program, s, r)
      /\ \A s : ActsNow(program, s) =
                  IF e.action = "auto_moderation" THEN s \cup {<<e.room, e.arg>>} ELSE s
  <2>1. CASE op.do = "append"
    BY <1>1, <1>2, <1>5, <2>1 DEF RoomsNow, WordsNow, PinsNow, ActsNow, Records, Moderates
  <2>2. CASE op.do = "note"
    <3>1. ~Records(program) /\ program[1].do # "refresh" /\ ~Moderates(program[1])
      BY <1>1, <2>2 DEF Records, Moderates
    <3>2. e.action \notin TableRecords
      BY <1>1, <1>2, <2>2
    <3>3. /\ \A s : RoomsAfter(s, e) = s
          /\ \A s : WordsAfter(s, e) = s
          /\ \A s, r : PinsAfter(s, r, e) = s
          /\ e.action # "auto_moderation"
      BY <3>2 DEF RoomsAfter, WordsAfter, PinsAfter, TableRecords, WordRecords
    <3> QED
      BY <3>1, <3>3 DEF RoomsNow, WordsNow, PinsNow, ActsNow
  <2> QED
    BY <2>1, <2>2
<1>7. Argumentless'
  BY <1>2, <1>4 DEF Argumentless
<1>8. \A k : k \in Moderated' <=> k \in Moderated \/ (k = n + 1 /\ e.action = "auto_moderation")
  BY <1>4 DEF Moderated
<1>9. \A k \in Moderated : k \in 1 .. n /\ k - 1 \in 0 .. n /\ log'[k] = log[k]
  BY <1>4 DEF Moderated
<1>10. ActsOnRecord' = ActsNow(program, ActsOnRecord)
  <2>1. ActsOnRecord' = {<<log'[k].room, log'[k].arg>> : k \in Moderated'}
    BY DEF ActsOnRecord
  <2>2. CASE e.action = "auto_moderation"
    <3>1. \A k : k \in Moderated' <=> k \in Moderated \/ k = n + 1
      BY <1>8, <2>2
    <3>2. {<<log'[k].room, log'[k].arg>> : k \in Moderated'}
            = {<<log[k].room, log[k].arg>> : k \in Moderated} \cup {<<e.room, e.arg>>}
      <4> HIDE DEF n
      <4> QED
        BY <1>4, <1>9, <3>1
    <3> QED
      BY <1>6, <2>1, <2>2, <3>2 DEF ActsOnRecord
  <2>3. CASE e.action # "auto_moderation"
    <3>1. Moderated' = Moderated
      BY <1>8, <2>3
    <3>2. {<<log'[k].room, log'[k].arg>> : k \in Moderated} = {<<log[k].room, log[k].arg>> : k \in Moderated}
      BY <1>9
    <3> QED
      BY <1>6, <2>1, <2>3, <3>1, <3>2 DEF ActsOnRecord
  <2> QED
    BY <2>2, <2>3
<1>11. ASSUME NEW k \in Moderated'
       PROVE  \/ /\ k \in Moderated /\ log'[k] = log[k]
                 /\ ActiveOnRecord(k - 1)' = ActiveOnRecord(k - 1)
                 /\ BannedOnRecord(k - 1)' = BannedOnRecord(k - 1)
              \/ /\ Moderates(op) /\ log'[k].room = op.room /\ log'[k].arg = op.arg
                 /\ ActiveOnRecord(k - 1)' = ActiveOnRecord(Len(log))
                 /\ BannedOnRecord(k - 1)' = BannedOnRecord(Len(log))
  <2>1. CASE k \in Moderated
    BY <1>4, <1>9, <2>1
  <2>2. CASE k = n + 1 /\ e.action = "auto_moderation"
    <3>1. k - 1 = n /\ n \in 0 .. n
      BY <1>4, <2>2
    <3>2. op.do = "append"
      BY <1>1, <1>2, <2>2 DEF TableRecords
    <3> QED
      BY <1>2, <1>4, <2>2, <3>1, <3>2 DEF Moderates
  <2> QED
    BY <1>8, <2>1, <2>2
<1> QED
  BY <1>4, <1>6, <1>7, <1>10, <1>11

\* What is needed below of a step.
StepDone ==
  /\ program # << >> /\ op = program[1] /\ BotTypes /\ Shaped(program)
  /\ program' = Found \o Tail(program)
  /\ trouble' = trouble \/ trouble' = trouble \ {"behind"}
  /\ timeline' = timeline /\ seen' = seen
  /\ active' = IF op.do \in {"insert"} \cup Discoveries THEN active \cup {op.room}
               ELSE IF op.do = "delete" THEN active \ {op.room} ELSE active
  /\ words' = IF op.do = "ban" THEN Banned(words, op.arg)
              ELSE IF op.do = "unban" THEN {b \in words : b.word # op.arg.word} ELSE words
  /\ log' = IF op.do \in {"append", "note"}
            THEN Append(log, [action |-> op.action, room |-> op.room, arg |-> op.arg])
            ELSE log
  /\ acted' = IF op.do \in {"moderate", "kick"}
              THEN acted \cup {<<op.do, op.room, op.arg>>} ELSE acted
  /\ pins' = IF op.do = "pin" THEN [pins EXCEPT ![op.room] = seen[op.room] \cup {op.arg}]
             ELSE IF op.do = "unpin"
                  THEN [pins EXCEPT ![op.room] = seen[op.room] \ {op.arg}] ELSE pins

LEMMA StepDoes ==
  ASSUME IInv, RInv, Step
  PROVE  StepDone
<1>1. program # << >> /\ (Local \/ Remote)
  BY DEF Step, Local, Remote, Activate, DeleteRow, ChangeWords, Refresh, AppendEntry, Act,
         WritePins, Join, Doing
<1>2. /\ program' = Found \o Tail(program)
      /\ trouble' = trouble \/ trouble' = trouble \ {"behind"}
      /\ seen' = seen
  BY DEF Step, client
<1>3. BotTypes /\ Shaped(program) /\ op = program[1]
  BY <1>1, HeadTyped DEF IInv, RInv
<1>4. op.do \in {"insert"} \cup Discoveries
        <=> op.do \in {"insert", "discover", "discover invited"}
  BY DEF Discoveries
<1> QED
  BY <1>1, <1>2, <1>3, <1>4, StepEffects, ServerEffects DEF StepDone

\* Between an entry and the next step nothing is owed.
LEMMA StepIsCalm ==
  ASSUME StepDone, ~Opens(op), op.do \notin Discoveries \/ op.room \in active
  PROVE  /\ \A s : RoomsNow(program', s) = s
         /\ \A s : WordsNow(program', s) = s
         /\ \A s, r : PinsNow(program', s, r) = s
         /\ \A s : ActsNow(program', s) = s
<1>1. Begun(program')
  BY StepLeaves DEF StepDone
<1>2. program' # << >> => ~Closes(program'[1])
  BY <1>1 DEF Begun
<1> QED
  BY <1>2, Calm

LEMMA StepKeepsRooms ==
  ASSUME StepDone, Argumentless, RoomsRecorded
  PROVE  RoomsRecorded'
<1> SUFFICES ASSUME Unharmed'
             PROVE  active' = RoomsNow(program', ActiveOnRecord(Len(log))')
  BY DEF RoomsRecorded
<1>1. active = RoomsNow(program, ActiveOnRecord(Len(log)))
  BY DEF StepDone, Unharmed, RoomsRecorded
<1>2. CASE op.do \in {"append", "note"}
  <2>1. ActiveOnRecord(Len(log))' = RoomsNow(program, ActiveOnRecord(Len(log)))
    BY <1>2, StepRecords DEF StepDone
  <2>2. ~Opens(op) /\ op.do \notin Discoveries /\ op.do \notin {"insert", "delete"}
    BY <1>2 DEF Opens, Discoveries
  <2>3. active' = active
    BY <2>2 DEF StepDone
  <2> QED
    BY <1>1, <2>1, <2>2, <2>3, StepIsCalm
<1>3. CASE op.do \notin {"append", "note"}
  <2>1. ActiveOnRecord(Len(log))' = ActiveOnRecord(Len(log))
    BY <1>3, LogStays DEF StepDone
  <2>2. active = ActiveOnRecord(Len(log))
    BY <1>1, <1>3 DEF StepDone, RoomsNow, Records
  <2>3. CASE op.do \in Discoveries /\ op.room \notin active
    <3>1. program' # << >> /\ program'[1] = Entry("auto_discovered", op.room, None)
      BY <2>3, StepLeaves DEF StepDone, Opens, Discoveries
    <3>2. active' = active \cup {op.room}
      BY <2>3 DEF StepDone
    <3>3. RoomsNow(program', active) = active \cup {op.room}
      BY <3>1 DEF RoomsNow, Records, RoomsAfter, Entry
    <3> QED
      BY <2>1, <2>2, <3>2, <3>3
  <2>4. CASE Opens(op)
    <3>1. program' # << >> /\ Belongs(op, program'[1]) /\ op.do \notin Discoveries
      BY <2>4, StepLeaves DEF StepDone, Opens, Discoveries
    <3>2. CASE op.do = "insert"
      <4>1. program'[1] = Entry("room_activated", op.room, None)
        BY <3>1, <3>2 DEF Belongs
      <4>2. RoomsNow(program', active) = active \cup {op.room}
        BY <3>1, <4>1 DEF RoomsNow, Records, RoomsAfter, Entry
      <4>3. active' = active \cup {op.room}
        BY <3>2 DEF StepDone
      <4> QED
        BY <2>1, <2>2, <4>2, <4>3
    <3>3. CASE op.do = "delete"
      <4>1. program'[1] = Entry("room_deactivated", op.room, None)
        BY <3>1, <3>3 DEF Belongs
      <4>2. RoomsNow(program', active) = active \ {op.room}
        BY <3>1, <4>1 DEF RoomsNow, Records, RoomsAfter, Entry
      <4>3. active' = active \ {op.room}
        BY <3>1, <3>3 DEF StepDone
      <4> QED
        BY <2>1, <2>2, <4>2, <4>3
    <3>4. CASE op.do \notin {"insert", "delete"}
      <4>1. Records(program') => program'[1].action \notin
              {"room_activated", "auto_discovered", "room_deactivated"}
        BY <3>1, <3>4 DEF Records, Belongs, Entry, WordRecords
      <4>2. RoomsNow(program', active) = active
        BY <4>1 DEF RoomsNow, RoomsAfter
      <4>3. active' = active
        BY <3>1, <3>4 DEF StepDone
      <4> QED
        BY <2>1, <2>2, <4>2, <4>3
    <3> QED
      BY <3>2, <3>3, <3>4
  <2>5. CASE ~Opens(op) /\ (op.do \notin Discoveries \/ op.room \in active)
    <3>1. active' = active
      BY <2>5 DEF StepDone, Opens
    <3> QED
      BY <2>1, <2>2, <2>5, <3>1, StepIsCalm
  <2> QED
    BY <2>3, <2>4, <2>5
<1> QED
  BY <1>2, <1>3

LEMMA StepKeepsWords ==
  ASSUME StepDone, Argumentless, WordsRecorded
  PROVE  WordsRecorded'
<1> SUFFICES ASSUME Unharmed', "refresh" \notin trouble'
             PROVE  words' = WordsNow(program', BannedOnRecord(Len(log))')
  BY DEF WordsRecorded
<1>1. words = WordsNow(program, BannedOnRecord(Len(log)))
  BY DEF StepDone, Unharmed, WordsRecorded
<1>2. CASE op.do \in {"append", "note"}
  <2>1. BannedOnRecord(Len(log))' = WordsNow(program, BannedOnRecord(Len(log)))
    BY <1>2, StepRecords DEF StepDone
  <2>2. ~Opens(op) /\ op.do \notin Discoveries /\ op.do \notin {"ban", "unban"}
    BY <1>2 DEF Opens, Discoveries
  <2>3. words' = words
    BY <2>2 DEF StepDone
  <2> QED
    BY <1>1, <2>1, <2>2, <2>3, StepIsCalm
<1>3. CASE op.do \notin {"append", "note"}
  <2>1. BannedOnRecord(Len(log))' = BannedOnRecord(Len(log))
    BY <1>3, LogStays DEF StepDone
  <2> DEFINE bans == BannedOnRecord(Len(log))
  <2>2. op.do # "refresh" => words = bans
    BY <1>1, <1>3 DEF StepDone, WordsNow, Records
  <2> HIDE DEF bans
  <2>3. CASE op.do \in Discoveries /\ op.room \notin active
    <3>1. program' # << >> /\ program'[1] = Entry("auto_discovered", op.room, None)
      BY <2>3, StepLeaves DEF StepDone, Opens, Discoveries
    <3>2. words' = words /\ op.do # "refresh"
      BY <2>3 DEF StepDone, Discoveries
    <3>3. WordsNow(program', bans) = bans
      BY <3>1 DEF WordsNow, Records, WordsAfter, Entry
    <3> QED
      BY <2>1, <2>2, <3>2, <3>3 DEF bans
  <2>4. CASE Opens(op)
    <3>1. program' # << >> /\ Belongs(op, program'[1]) /\ program'[1] = program[2]
          /\ op.do \notin Discoveries
      BY <2>4, StepLeaves DEF StepDone, Opens, Discoveries
    <3>2. CASE op.do = "ban"
      <4>1. /\ program'[1].do = "refresh"
            /\ program'[2] = Entry("banned_word_added", op.room, op.arg)
        BY <3>1, <3>2, StepLeaves DEF StepDone, Belongs
      <4>2. WordsNow(program', bans) = Banned(bans, op.arg)
        BY <3>1, <4>1 DEF WordsNow, Records, WordsAfter, Entry
      <4>3. words' = Banned(words, op.arg)
        BY <3>2 DEF StepDone
      <4> QED
        BY <2>1, <2>2, <3>2, <4>2, <4>3 DEF bans
    <3>3. CASE op.do = "unban"
      <4>1. /\ program'[1].do = "refresh"
            /\ program'[2] = Entry("banned_word_removed", op.room, op.arg)
        BY <3>1, <3>3, StepLeaves DEF StepDone, Belongs
      <4>2. WordsNow(program', bans) = {b \in bans : b.word # op.arg.word}
        BY <3>1, <4>1 DEF WordsNow, Records, WordsAfter, Entry
      <4>3. words' = {b \in words : b.word # op.arg.word}
        BY <3>3 DEF StepDone
      <4> QED
        BY <2>1, <2>2, <3>3, <4>2, <4>3 DEF bans
    <3>4. CASE op.do = "refresh"
      <4>1. program'[1].do = "append"
        BY <3>1, <3>4 DEF Belongs
      <4>2. WordsNow(program', bans) = WordsAfter(bans, program[2])
        BY <3>1, <4>1 DEF WordsNow, Records
      <4>3. WordsNow(program, bans) = WordsAfter(bans, program[2])
        BY <3>4 DEF StepDone, WordsNow, Records
      <4>4. words' = words
        BY <3>4 DEF StepDone
      <4> QED
        BY <1>1, <2>1, <4>2, <4>3, <4>4 DEF bans
    <3>5. CASE op.do \notin {"ban", "unban", "refresh"}
      <4>1. /\ Records(program') => program'[1].action \notin WordRecords
            /\ program'[1].do # "refresh"
        BY <2>4, <3>1, <3>5 DEF Records, Belongs, Entry, WordRecords
      <4>2. WordsNow(program', bans) = bans
        BY <4>1 DEF WordsNow, WordsAfter, WordRecords
      <4>3. words' = words
        BY <3>5 DEF StepDone
      <4> QED
        BY <2>1, <2>2, <3>5, <4>2, <4>3 DEF bans
    <3> QED
      BY <3>2, <3>3, <3>4, <3>5
  <2>5. CASE ~Opens(op) /\ (op.do \notin Discoveries \/ op.room \in active)
    <3>1. words' = words /\ op.do # "refresh"
      BY <2>5 DEF StepDone, Opens
    <3> QED
      BY <2>1, <2>2, <2>5, <3>1, StepIsCalm DEF bans
  <2> QED
    BY <2>3, <2>4, <2>5
<1> QED
  BY <1>2, <1>3

\* The message is moderated for what the tables say, and so on record.
LEMMA StepKeepsModeration ==
  ASSUME StepDone, Argumentless, RoomsRecorded, WordsRecorded, ModerationDeserved
  PROVE  ModerationDeserved'
<1> SUFFICES ASSUME Unharmed', "refresh" \notin trouble'
             PROVE  /\ \A k \in Moderated' :
                         Deserved(log[k].room, log[k].arg,
                                  ActiveOnRecord(k - 1), BannedOnRecord(k - 1))'
                    /\ \A k \in DOMAIN program' : Moderates(program'[k]) =>
                         Deserved(program[k].room, program[k].arg, active, words)'
  BY DEF ModerationDeserved
<1>1. Unharmed /\ "refresh" \notin trouble
  BY DEF StepDone, Unharmed
<1>2. /\ \A k \in Moderated :
           Deserved(log[k].room, log[k].arg, ActiveOnRecord(k - 1), BannedOnRecord(k - 1))
      /\ \A k \in DOMAIN program :
           Moderates(program[k]) => Deserved(program[k].room, program[k].arg, active, words)
      /\ active = RoomsNow(program, ActiveOnRecord(Len(log)))
      /\ words = WordsNow(program, BannedOnRecord(Len(log)))
  BY <1>1 DEF ModerationDeserved, RoomsRecorded, WordsRecorded
<1>3. timeline' = timeline
  BY DEF StepDone
<1>4. ASSUME NEW k \in Moderated'
      PROVE  Deserved(log[k].room, log[k].arg, ActiveOnRecord(k - 1), BannedOnRecord(k - 1))'
  <2>1. CASE op.do \in {"append", "note"}
    <3>1. \/ /\ k \in Moderated /\ log'[k] = log[k]
             /\ ActiveOnRecord(k - 1)' = ActiveOnRecord(k - 1)
             /\ BannedOnRecord(k - 1)' = BannedOnRecord(k - 1)
          \/ /\ Moderates(op) /\ log'[k].room = op.room /\ log'[k].arg = op.arg
             /\ ActiveOnRecord(k - 1)' = ActiveOnRecord(Len(log))
             /\ BannedOnRecord(k - 1)' = BannedOnRecord(Len(log))
      BY <2>1, StepRecords DEF StepDone
    <3>2. Moderates(op) => /\ Deserved(op.room, op.arg, active, words)
                           /\ active = ActiveOnRecord(Len(log))
                           /\ words = BannedOnRecord(Len(log))
      <4>1. 1 \in DOMAIN program
        BY HeadTyped, Leaves DEF StepDone, Programs
      <4>2. Moderates(op) => /\ RoomsNow(program, ActiveOnRecord(Len(log))) = ActiveOnRecord(Len(log))
                             /\ WordsNow(program, BannedOnRecord(Len(log))) = BannedOnRecord(Len(log))
        BY DEF StepDone, Moderates, RoomsNow, WordsNow, Records, RoomsAfter, WordsAfter
      <4> QED
        BY <1>2, <4>1, <4>2 DEF StepDone
    <3> QED
      BY <1>2, <1>3, <3>1, <3>2 DEF Deserved
  <2>2. CASE op.do \notin {"append", "note"}
    <3>1. /\ k \in Moderated /\ log' = log
          /\ ActiveOnRecord(k - 1)' = ActiveOnRecord(k - 1)
          /\ BannedOnRecord(k - 1)' = BannedOnRecord(k - 1)
      BY <2>2, LogStays DEF StepDone
    <3> QED
      BY <1>2, <1>3, <3>1 DEF Deserved
  <2> QED
    BY <2>1, <2>2
<1>5. ASSUME NEW k \in DOMAIN program', Moderates(program'[k])
      PROVE  Deserved(program[k].room, program[k].arg, active, words)'
  <2>1. op.do = "moderate" /\ 2 \in DOMAIN program /\ program'[k] = program[2]
    BY <1>5, StepLeaves DEF StepDone
  <2>2. active' = active /\ words' = words
    BY <2>1 DEF StepDone, Discoveries
  <2>3. Deserved(program[2].room, program[2].arg, active, words)
    BY <1>2, <1>5, <2>1
  <2> QED
    BY <1>3, <2>1, <2>2, <2>3 DEF Deserved
<1> QED
  BY <1>4, <1>5

LEMMA StepKeepsActs ==
  ASSUME StepDone, Argumentless, ActsRecorded
  PROVE  ActsRecorded'
<1> SUFFICES ASSUME Unharmed', "moderate" \notin trouble'
             PROVE  Acts' = ActsNow(program', ActsOnRecord')
  BY DEF ActsRecorded
<1>1. Acts = ActsNow(program, ActsOnRecord)
  BY DEF StepDone, Unharmed, ActsRecorded
<1>2. Acts' = IF op.do = "moderate" THEN Acts \cup {<<op.room, op.arg>>} ELSE Acts
  <2>1. CASE op.do \in {"moderate", "kick"}
    BY <2>1, ActsGrow DEF StepDone
  <2>2. CASE op.do \notin {"moderate", "kick"}
    BY <2>2 DEF StepDone, Acts
  <2> QED
    BY <2>1, <2>2
<1>3. CASE op.do \in {"append", "note"}
  <2>1. ActsOnRecord' = ActsNow(program, ActsOnRecord)
    BY <1>3, StepRecords DEF StepDone
  <2>2. ~Opens(op) /\ op.do \notin Discoveries /\ op.do # "moderate"
    BY <1>3 DEF Opens, Discoveries
  <2> QED
    BY <1>1, <1>2, <2>1, <2>2, StepIsCalm
<1>4. CASE op.do \notin {"append", "note"}
  <2>1. ActsOnRecord' = ActsOnRecord
    BY <1>4, LogStays DEF StepDone
  <2>2. Acts = ActsOnRecord
    BY <1>1, <1>4 DEF StepDone, ActsNow, Moderates
  <2>3. CASE op.do \in Discoveries /\ op.room \notin active
    <3>1. program' # << >> /\ program'[1] = Entry("auto_discovered", op.room, None)
      BY <2>3, StepLeaves DEF StepDone, Opens, Discoveries
    <3>2. ActsNow(program', Acts) = Acts
      BY <3>1 DEF ActsNow, Moderates, Entry
    <3>3. op.do # "moderate"
      BY <2>3 DEF Discoveries
    <3> QED
      BY <1>2, <2>1, <2>2, <3>2, <3>3
  <2>4. CASE Opens(op)
    <3>1. program' # << >> /\ Belongs(op, program'[1])
      BY <2>4, StepLeaves DEF StepDone, Opens, Discoveries
    <3>2. CASE op.do = "moderate"
      <4>1. program'[1] = Entry("auto_moderation", op.room, op.arg)
        BY <3>1, <3>2 DEF Belongs
      <4>2. ActsNow(program', Acts) = Acts \cup {<<op.room, op.arg>>}
        BY <3>1, <4>1 DEF ActsNow, Moderates, Entry
      <4> QED
        BY <1>2, <2>1, <2>2, <3>2, <4>2
    <3>3. CASE op.do # "moderate"
      <4>1. ~Moderates(program'[1])
        BY <3>1, <3>3 DEF Moderates, Belongs, Entry, WordRecords
      <4> QED
        BY <1>2, <2>1, <2>2, <3>3, <4>1 DEF ActsNow
    <3> QED
      BY <3>2, <3>3
  <2>5. CASE ~Opens(op) /\ (op.do \notin Discoveries \/ op.room \in active)
    <3>1. op.do # "moderate"
      BY <2>5 DEF Opens
    <3> QED
      BY <1>2, <2>1, <2>2, <2>5, <3>1, StepIsCalm
  <2> QED
    BY <2>3, <2>4, <2>5
<1> QED
  BY <1>3, <1>4

\* The pinned events as the log has them, as long as nothing failed.
PinsHold == trouble \cap {"stale", "crash", "append", "pin", "unpin"} = {}

LEMMA StepKeepsPins ==
  ASSUME ServerTypes, StepDone, Argumentless, PinsRecorded
  PROVE  PinsRecorded'
<1> SUFFICES ASSUME PinsHold'
             PROVE  /\ \A r \in RoomIds : pins'[r] = PinsNow(program', PinnedOnRecord(r)', r)
                    /\ \A k \in DOMAIN program' : program'[k].do \in {"pin", "unpin"} =>
                         seen'[program'[k].room] = pins'[program'[k].room]
  BY DEF PinsRecorded, PinsHold
<1>1. /\ \A r \in RoomIds : pins[r] = PinsNow(program, PinnedOnRecord(r), r)
      /\ \A k \in DOMAIN program :
           program[k].do \in {"pin", "unpin"} => seen[program[k].room] = pins[program[k].room]
  BY DEF StepDone, PinsHold, PinsRecorded
<1>2. ASSUME NEW k \in DOMAIN program', program'[k].do \in {"pin", "unpin"}
      PROVE  seen'[program'[k].room] = pins'[program'[k].room]
  <2>1. op.do \notin {"pin", "unpin"} /\ \E j \in DOMAIN program : program'[k] = program[j]
    BY <1>2, StepLeaves DEF StepDone
  <2>2. seen' = seen /\ pins' = pins
    BY <2>1 DEF StepDone
  <2> QED
    BY <1>1, <1>2, <2>1, <2>2
<1>3. ASSUME NEW r \in RoomIds
      PROVE  pins'[r] = PinsNow(program', PinnedOnRecord(r)', r)
  <2>1. pins[r] = PinsNow(program, PinnedOnRecord(r), r)
    BY <1>1
  <2>2. CASE op.do \in {"append", "note"}
    <3>1. PinnedOnRecord(r)' = PinsNow(program, PinnedOnRecord(r), r)
      BY <2>2, StepRecords DEF StepDone
    <3>2. ~Opens(op) /\ op.do \notin Discoveries /\ op.do \notin {"pin", "unpin"}
      BY <2>2 DEF Opens, Discoveries
    <3>3. pins' = pins
      BY <3>2 DEF StepDone
    <3> QED
      BY <2>1, <3>1, <3>2, <3>3, StepIsCalm
  <2>3. CASE op.do \notin {"append", "note"}
    <3>1. PinnedOnRecord(r)' = PinnedOnRecord(r)
      BY <2>3, LogStays DEF StepDone
    <3>2. pins[r] = PinnedOnRecord(r)
      BY <2>1, <2>3 DEF StepDone, PinsNow, Records
    <3>3. CASE op.do \in Discoveries /\ op.room \notin active
      <4>1. program' # << >> /\ program'[1] = Entry("auto_discovered", op.room, None)
        BY <3>3, StepLeaves DEF StepDone, Opens, Discoveries
      <4>2. PinsNow(program', pins[r], r) = pins[r]
        BY <4>1 DEF PinsNow, Records, PinsAfter, Entry
      <4>3. pins' = pins
        BY <3>3 DEF StepDone, Discoveries
      <4> QED
        BY <3>1, <3>2, <4>2, <4>3
    <3>4. CASE op.do \in {"pin", "unpin"}
      <4>1. program' # << >> /\ Belongs(op, program'[1])
        BY <3>4, StepLeaves DEF StepDone, Opens, Discoveries
      <4>2. 1 \in DOMAIN program /\ op = program[1]
        BY HeadTyped, Leaves DEF StepDone, Programs
      <4>3. seen[op.room] = pins[op.room] /\ r \in DOMAIN pins
        BY <1>1, <3>4, <4>2 DEF ServerTypes
      <4>4. CASE op.do = "pin"
        <5>1. program'[1] = Entry("event_pinned", op.room, op.arg)
          BY <4>1, <4>4 DEF Belongs
        <5>2. PinsNow(program', pins[r], r) = IF op.room = r THEN pins[r] \cup {op.arg} ELSE pins[r]
          BY <4>1, <5>1 DEF PinsNow, Records, PinsAfter, Entry
        <5>3. pins' = [pins EXCEPT ![op.room] = seen[op.room] \cup {op.arg}]
          BY <4>4 DEF StepDone
        <5>4. pins'[r] = IF op.room = r THEN pins[r] \cup {op.arg} ELSE pins[r]
          BY <4>3, <5>3
        <5> QED
          BY <3>1, <3>2, <5>2, <5>4
      <4>5. CASE op.do = "unpin"
        <5>1. program'[1] = Entry("event_unpinned", op.room, op.arg)
          BY <4>1, <4>5 DEF Belongs
        <5>2. PinsNow(program', pins[r], r) = IF op.room = r THEN pins[r] \ {op.arg} ELSE pins[r]
          BY <4>1, <5>1 DEF PinsNow, Records, PinsAfter, Entry
        <5>3. pins' = [pins EXCEPT ![op.room] = seen[op.room] \ {op.arg}]
          BY <4>5 DEF StepDone
        <5>4. pins'[r] = IF op.room = r THEN pins[r] \ {op.arg} ELSE pins[r]
          BY <4>3, <5>3
        <5> QED
          BY <3>1, <3>2, <5>2, <5>4
      <4> QED
        BY <3>4, <4>4, <4>5
    <3>5. CASE Opens(op) /\ op.do \notin {"pin", "unpin"}
      <4>1. program' # << >> /\ Belongs(op, program'[1])
        BY <3>5, StepLeaves DEF StepDone, Opens, Discoveries
      <4>2. Records(program') => program'[1].action \notin {"event_pinned", "event_unpinned"}
        BY <3>5, <4>1 DEF Records, Belongs, Entry, WordRecords
      <4>3. PinsNow(program', pins[r], r) = pins[r]
        BY <4>2 DEF PinsNow, PinsAfter
      <4>4. pins' = pins
        BY <3>5 DEF StepDone
      <4> QED
        BY <3>1, <3>2, <4>3, <4>4
    <3>6. CASE ~Opens(op) /\ (op.do \notin Discoveries \/ op.room \in active)
      <4>1. pins' = pins
        BY <3>6 DEF StepDone, Opens
      <4> QED
        BY <3>1, <3>2, <3>6, <4>1, StepIsCalm
    <3> QED
      BY <3>3, <3>4, <3>5, <3>6
  <2> QED
    BY <2>2, <2>3
<1> QED
  BY <1>2, <1>3

LEMMA StepKeepsRInv ==
  ASSUME IInv, RInv, Step
  PROVE  RInv'
<1>1. StepDone /\ ServerTypes
  BY StepDoes DEF IInv
<1>2. Shaped(program)'
  BY <1>1, StepLeaves DEF StepDone
<1>3. Argumentless'
  <2>1. CASE op.do \in {"append", "note"}
    BY <1>1, <2>1, StepRecords DEF StepDone, RInv
  <2>2. CASE op.do \notin {"append", "note"}
    BY <1>1, <2>2, LogStays DEF StepDone, RInv
  <2> QED
    BY <2>1, <2>2
<1>4. ("behind" \in trouble => "refresh" \in trouble)'
  BY <1>1 DEF StepDone, RInv
<1>5. RoomsRecorded' /\ WordsRecorded' /\ ModerationDeserved' /\ ActsRecorded' /\ PinsRecorded'
  BY <1>1, StepKeepsRooms, StepKeepsWords, StepKeepsModeration, StepKeepsActs, StepKeepsPins
     DEF RInv
<1> QED
  BY <1>2, <1>3, <1>4, <1>5 DEF RInv

\* What an error leaves to be done, and what it may have done.
FailDone ==
  /\ program # << >> /\ op = program[1] /\ BotTypes /\ Shaped(program)
  /\ program' = AfterError
  /\ trouble \cup {op.do} \subseteq trouble'
  /\ "behind" \in trouble' => "behind" \in trouble \/ op.do = "refresh"
  /\ timeline' = timeline /\ seen' = seen /\ active' = active /\ words' = words /\ log' = log
  /\ \/ acted' = acted
     \/ op.do \in {"moderate", "kick"} /\ acted' = acted \cup {<<op.do, op.room, op.arg>>}
  /\ op.do \notin {"pin", "unpin"} => pins' = pins

LEMMA FailDoes ==
  ASSUME IInv, RInv, StepFails
  PROVE  FailDone
<1>1. /\ program # << >> /\ program' = AfterError
      /\ trouble' = trouble \cup {op.do} \cup (IF op.do = "refresh" THEN {"behind"} ELSE {})
      /\ seen' = seen /\ UNCHANGED <<active, words, log>>
      /\ Remote \/ UNCHANGED <<timeline, acted, pins>>
  BY DEF StepFails, client, server, tables, Remote, Act, WritePins, Join
<1>2. BotTypes /\ Shaped(program) /\ op = program[1]
  BY <1>1, HeadTyped DEF IInv, RInv
<1>3. /\ trouble \cup {op.do} \subseteq trouble'
      /\ "behind" \in trouble' => "behind" \in trouble \/ op.do = "refresh"
  <2>1. CASE op.do = "refresh"
    BY <1>1, <2>1
  <2>2. CASE op.do # "refresh"
    <3>1. trouble' = trouble \cup {op.do} \cup {}
      BY <1>1, <2>2
    <3>2. op.do # "behind"
      BY <1>1, HeadTyped DEF IInv, Ops, Entries, Statements
    <3> QED
      BY <2>2, <3>1, <3>2
  <2> QED
    BY <2>1, <2>2
<1>4. /\ timeline' = timeline
      /\ \/ acted' = acted
         \/ op.do \in {"moderate", "kick"} /\ acted' = acted \cup {<<op.do, op.room, op.arg>>}
      /\ op.do \notin {"pin", "unpin"} => pins' = pins
  <2>1. CASE Remote
    BY <1>1, <2>1, ServerEffects
  <2>2. CASE UNCHANGED <<timeline, acted, pins>>
    BY <2>2
  <2> QED
    BY <1>1, <2>1, <2>2
<1>5. active' = active /\ words' = words /\ log' = log
  BY <1>1
<1> QED
  BY <1>1, <1>2, <1>3, <1>4, <1>5 DEF FailDone

LEMMA FailLeaves ==
  ASSUME FailDone
  PROVE  /\ Shaped(program')
         /\ \A s : RoomsNow(program', s) = s
         /\ \A s : WordsNow(program', s) = s
         /\ \A s, r : PinsNow(program', s, r) = s
         /\ op.do # "moderate" => \A s : ActsNow(program', s) = s
         /\ \A k \in DOMAIN program' : Moderates(program'[k]) =>
              op.do = "moderate" /\ 2 \in DOMAIN program /\ program'[k] = program[2]
         /\ \A k \in DOMAIN program' : program'[k].do \in {"pin", "unpin"} =>
              /\ op.do \notin {"pin", "unpin"}
              /\ \E j \in DOMAIN program : program'[k] = program[j]
<1> USE DEF FailDone
<1>1. CASE Harmless(program')
  <2>1. program' # << >> => ~Closes(program'[1])
    BY <1>1 DEF Harmless, Begun
  <2> QED
    BY <1>1, <2>1, Calm DEF Harmless, Begun
<1>2. CASE op.do \in {"moderate", "note"}
  <2>1. program' = Tail(program)
    BY <1>2 DEF AfterError
  <2>2. /\ Shaped(Tail(program))
        /\ ~Opens(op) => Begun(Tail(program))
        /\ Opens(op) => /\ Tail(program) # << >> /\ 2 \in DOMAIN program
                        /\ Tail(program)[1] = program[2] /\ Belongs(op, program[2])
        /\ \A k \in DOMAIN Tail(program) : \E j \in DOMAIN program : Tail(program)[k] = program[j]
        /\ \A k \in DOMAIN Tail(program) : Moderates(Tail(program)[k]) =>
             op.do = "moderate" /\ Tail(program)[k] = program[2]
    BY HeadTyped, Leaves DEF Programs
  <2>3. CASE op.do = "note"
    <3>1. Begun(program')
      BY <2>1, <2>2, <2>3 DEF Opens
    <3>2. program' # << >> => ~Closes(program'[1])
      BY <3>1 DEF Begun
    <3>3. /\ \A s : RoomsNow(program', s) = s
          /\ \A s : WordsNow(program', s) = s
          /\ \A s, r : PinsNow(program', s, r) = s
          /\ \A s : ActsNow(program', s) = s
      BY <3>2, Calm
    <3> QED
      BY <2>1, <2>2, <2>3, <3>3
  <2>4. CASE op.do = "moderate"
    <3>1. /\ 2 \in DOMAIN program /\ program' # << >>
          /\ program'[1] = Entry("auto_moderation", op.room, op.arg)
      BY <2>1, <2>2, <2>4 DEF Opens, Belongs
    <3>2. program'[1].do = "append" /\ program'[1].action = "auto_moderation"
      BY <3>1 DEF Entry
    <3>3. /\ \A s : RoomsNow(program', s) = s
          /\ \A s : WordsNow(program', s) = s
          /\ \A s, r : PinsNow(program', s, r) = s
      BY <3>2 DEF RoomsNow, WordsNow, PinsNow, Records, RoomsAfter, WordsAfter, PinsAfter
    <3> QED
      BY <2>1, <2>2, <2>4, <3>1, <3>3
  <2> QED
    BY <1>2, <2>3, <2>4
<1>3. CASE op.do = "join"
  <2>1. PICK a : a = Entry("room_invite_join_failed", op.room, None)
    OBVIOUS
  <2>2. ~Opens(a) /\ ~Closes(a) /\ Sound(a)
    BY <2>1 DEF Entry, Opens, Closes, Sound, Bare, TableRecords, WordRecords
  <2>3. program' = <<a>>
    BY <1>3, <2>1 DEF AfterError
  <2> QED
    BY <1>1, <2>2, <2>3, HarmlessOnes
<1>4. CASE op.do \notin {"moderate", "note", "join"}
  <2>1. program' = << >>
    BY <1>4 DEF AfterError
  <2> QED
    BY <1>1, <2>1, HarmlessOnes
<1> QED
  BY <1>2, <1>3, <1>4

LEMMA StepFailsKeepsRInv ==
  ASSUME IInv, RInv, StepFails
  PROVE  RInv'
<1>1. FailDone
  BY FailDoes
<1>2. /\ ActiveOnRecord(Len(log))' = ActiveOnRecord(Len(log))
      /\ BannedOnRecord(Len(log))' = BannedOnRecord(Len(log))
      /\ \A n : ActiveOnRecord(n)' = ActiveOnRecord(n)
      /\ \A n : BannedOnRecord(n)' = BannedOnRecord(n)
      /\ \A r : PinnedOnRecord(r)' = PinnedOnRecord(r)
      /\ Moderated' = Moderated /\ ActsOnRecord' = ActsOnRecord
      /\ Argumentless' = Argumentless
  BY <1>1, LogStays DEF FailDone
<1>3. Shaped(program)' /\ Argumentless' /\ ("behind" \in trouble => "refresh" \in trouble)'
  BY <1>1, <1>2, FailLeaves DEF FailDone, RInv
<1>4. RoomsRecorded'
  <2> SUFFICES ASSUME Unharmed'
               PROVE  active' = RoomsNow(program', ActiveOnRecord(Len(log))')
    BY DEF RoomsRecorded
  <2>1. Unharmed /\ op.do # "append"
    BY <1>1 DEF FailDone, Unharmed
  <2>2. active = ActiveOnRecord(Len(log))
    BY <1>1, <2>1 DEF RInv, RoomsRecorded, RoomsNow, Records, FailDone
  <2> QED
    BY <1>1, <1>2, <2>2, FailLeaves DEF FailDone
<1>5. WordsRecorded'
  <2> SUFFICES ASSUME Unharmed', "refresh" \notin trouble'
               PROVE  words' = WordsNow(program', BannedOnRecord(Len(log))')
    BY DEF WordsRecorded
  <2>1. Unharmed /\ op.do \notin {"append", "refresh"} /\ "refresh" \notin trouble
    BY <1>1 DEF FailDone, Unharmed
  <2>2. words = BannedOnRecord(Len(log))
    BY <1>1, <2>1 DEF RInv, WordsRecorded, WordsNow, Records, FailDone
  <2> QED
    BY <1>1, <1>2, <2>2, FailLeaves DEF FailDone
<1>6. ModerationDeserved'
  <2> SUFFICES ASSUME Unharmed', "refresh" \notin trouble'
               PROVE  /\ \A k \in Moderated' :
                           Deserved(log[k].room, log[k].arg,
                                    ActiveOnRecord(k - 1), BannedOnRecord(k - 1))'
                      /\ \A k \in DOMAIN program' : Moderates(program'[k]) =>
                           Deserved(program[k].room, program[k].arg, active, words)'
    BY DEF ModerationDeserved
  <2>1. Unharmed /\ "refresh" \notin trouble
    BY <1>1 DEF FailDone, Unharmed
  <2>2. /\ \A k \in Moderated :
             Deserved(log[k].room, log[k].arg, ActiveOnRecord(k - 1), BannedOnRecord(k - 1))
        /\ \A k \in DOMAIN program :
             Moderates(program[k]) => Deserved(program[k].room, program[k].arg, active, words)
    BY <2>1 DEF RInv, ModerationDeserved
  <2>3. timeline' = timeline /\ log' = log /\ active' = active /\ words' = words
    BY <1>1 DEF FailDone
  <2>4. \A k \in DOMAIN program' : Moderates(program'[k]) =>
          2 \in DOMAIN program /\ program'[k] = program[2]
    BY <1>1, FailLeaves
  <2> QED
    BY <1>2, <2>2, <2>3, <2>4 DEF Deserved
<1>7. ActsRecorded'
  <2> SUFFICES ASSUME Unharmed', "moderate" \notin trouble'
               PROVE  Acts' = ActsNow(program', ActsOnRecord')
    BY DEF ActsRecorded
  <2>1. Unharmed /\ op.do \notin {"append", "moderate"} /\ "moderate" \notin trouble
    BY <1>1 DEF FailDone, Unharmed
  <2>2. Acts = ActsOnRecord
    BY <1>1, <2>1 DEF RInv, ActsRecorded, ActsNow, Moderates, FailDone
  <2>3. Acts' = Acts
    <3>1. CASE acted' = acted
      BY <3>1 DEF Acts
    <3>2. CASE acted' = acted \cup {<<op.do, op.room, op.arg>>}
      BY <2>1, <3>2, ActsGrow
    <3> QED
      BY <1>1, <3>1, <3>2 DEF FailDone
  <2> QED
    BY <1>1, <1>2, <2>1, <2>2, <2>3, FailLeaves
<1>8. PinsRecorded'
  <2> SUFFICES ASSUME PinsHold'
               PROVE  /\ \A r \in RoomIds : pins'[r] = PinsNow(program', PinnedOnRecord(r)', r)
                      /\ \A k \in DOMAIN program' : program'[k].do \in {"pin", "unpin"} =>
                           seen'[program'[k].room] = pins'[program'[k].room]
    BY DEF PinsRecorded, PinsHold
  <2>1. PinsHold /\ op.do \notin {"append", "pin", "unpin"}
    BY <1>1 DEF FailDone, PinsHold
  <2>2. /\ \A r \in RoomIds : pins[r] = PinsNow(program, PinnedOnRecord(r), r)
        /\ \A k \in DOMAIN program :
             program[k].do \in {"pin", "unpin"} => seen[program[k].room] = pins[program[k].room]
    BY <2>1 DEF RInv, PinsRecorded, PinsHold
  <2>3. \A r \in RoomIds : pins[r] = PinnedOnRecord(r)
    BY <1>1, <2>1, <2>2 DEF PinsNow, Records, FailDone
  <2>4. pins' = pins /\ seen' = seen
    BY <1>1, <2>1 DEF FailDone
  <2>5. \A k \in DOMAIN program' : program'[k].do \in {"pin", "unpin"} =>
          \E j \in DOMAIN program : program'[k] = program[j]
    BY <1>1, FailLeaves
  <2>6. \A s, r : PinsNow(program', s, r) = s
    BY <1>1, FailLeaves
  <2> QED
    BY <1>2, <2>2, <2>3, <2>4, <2>5, <2>6
<1> QED
  BY <1>3, <1>4, <1>5, <1>6, <1>7, <1>8 DEF RInv

\* Between two handlers: a program may begin, users may act.
Begins ==
  /\ program = << >> /\ Begun(program')
  /\ log' = log /\ active' = active /\ words' = words /\ acted' = acted /\ pins' = pins
  /\ trouble \ {"behind"} \subseteq trouble'
  /\ "behind" \in trouble' => "behind" \in trouble
  /\ \A r \in RoomIds : \A i \in DOMAIN timeline[r] :
       i \in DOMAIN timeline'[r] /\ timeline'[r][i] = timeline[r][i]
  /\ Unharmed' /\ "refresh" \notin trouble' =>
       \A k \in DOMAIN program' : Moderates(program'[k]) =>
         Deserved(program[k].room, program[k].arg, active, words)'
  /\ PinsHold' => \A k \in DOMAIN program' : program'[k].do \in {"pin", "unpin"} =>
                    seen'[program'[k].room] = pins'[program'[k].room]

LEMMA BeginningKeepsRInv ==
  ASSUME BotTypes, RInv, Begins
  PROVE  RInv'
<1>1. \A k \in DOMAIN log : log[k].room \in RoomIds
  <2>1. PICK all : all = [action : Actions, room : RoomIds, arg : AnyArg]
    OBVIOUS
  <2>2. log \in Seq(all)
    BY <2>1 DEF BotTypes
  <2>3. \A k \in DOMAIN log : log[k] \in all
    BY <2>2
  <2> QED
    BY <2>1, <2>3
<1>2. /\ ActiveOnRecord(Len(log))' = ActiveOnRecord(Len(log))
      /\ BannedOnRecord(Len(log))' = BannedOnRecord(Len(log))
      /\ \A n : ActiveOnRecord(n)' = ActiveOnRecord(n)
      /\ \A n : BannedOnRecord(n)' = BannedOnRecord(n)
      /\ \A r : PinnedOnRecord(r)' = PinnedOnRecord(r)
      /\ Moderated' = Moderated /\ ActsOnRecord' = ActsOnRecord
      /\ Argumentless' = Argumentless
  BY LogStays DEF Begins
<1>3. /\ \A s : RoomsNow(program, s) = s
      /\ \A s : WordsNow(program, s) = s
      /\ \A s, r : PinsNow(program, s, r) = s
      /\ \A s : ActsNow(program, s) = s
  BY Calm DEF Begins
<1>4. /\ \A s : RoomsNow(program', s) = s
      /\ \A s : WordsNow(program', s) = s
      /\ \A s, r : PinsNow(program', s, r) = s
      /\ \A s : ActsNow(program', s) = s
  <2>1. program' # << >> => ~Closes(program'[1])
    BY DEF Begins, Begun
  <2> QED
    BY <2>1, Calm
<1>5. /\ Unharmed' => Unharmed
      /\ PinsHold' => PinsHold
      /\ "refresh" \notin trouble' => "refresh" \notin trouble
      /\ "moderate" \notin trouble' => "moderate" \notin trouble
  BY DEF Begins, Unharmed, PinsHold
<1>6. Shaped(program)' /\ Argumentless' /\ ("behind" \in trouble => "refresh" \in trouble)'
  BY <1>2, <1>5 DEF Begins, Begun, RInv
<1>7. RoomsRecorded'
  BY <1>2, <1>3, <1>4, <1>5 DEF RInv, Begins, RoomsRecorded
<1>8. WordsRecorded'
  BY <1>2, <1>3, <1>4, <1>5 DEF RInv, Begins, WordsRecorded
<1>9. ModerationDeserved'
  <2> SUFFICES ASSUME Unharmed', "refresh" \notin trouble'
               PROVE  \A k \in Moderated' :
                        Deserved(log[k].room, log[k].arg,
                                 ActiveOnRecord(k - 1), BannedOnRecord(k - 1))'
    BY DEF ModerationDeserved, Begins
  <2>1. \A k \in Moderated :
          Deserved(log[k].room, log[k].arg, ActiveOnRecord(k - 1), BannedOnRecord(k - 1))
    BY <1>5 DEF RInv, ModerationDeserved
  <2> SUFFICES ASSUME NEW k \in Moderated
               PROVE  Deserved(log[k].room, log[k].arg,
                               ActiveOnRecord(k - 1), BannedOnRecord(k - 1))'
    BY <1>2
  <2>2. Deserved(log[k].room, log[k].arg, ActiveOnRecord(k - 1), BannedOnRecord(k - 1))
    BY <2>1
  <2>3. log[k].room \in RoomIds
    <3>1. k \in DOMAIN log
      BY DEF Moderated
    <3> QED
      BY <1>1, <3>1
  <2>4. log' = log
    BY DEF Begins
  <2>5. log[k].arg[1] \in DOMAIN timeline[log[k].room]
    BY <2>2 DEF Deserved
  <2>6. /\ log[k].arg[1] \in DOMAIN timeline'[log[k].room]
        /\ timeline'[log[k].room][log[k].arg[1]] = timeline[log[k].room][log[k].arg[1]]
    BY <2>3, <2>5 DEF Begins
  <2> QED
    BY <1>2, <2>2, <2>4, <2>6 DEF Deserved
<1>10. ActsRecorded'
  <2>1. Acts' = Acts
    BY DEF Begins, Acts
  <2> QED
    BY <1>2, <1>3, <1>4, <1>5, <2>1 DEF RInv, ActsRecorded
<1>11. PinsRecorded'
  <2> SUFFICES ASSUME PinsHold'
               PROVE  \A r \in RoomIds : pins'[r] = PinsNow(program', PinnedOnRecord(r)', r)
    BY DEF PinsRecorded, PinsHold, Begins
  <2>1. \A r \in RoomIds : pins[r] = PinsNow(program, PinnedOnRecord(r), r)
    BY <1>5 DEF RInv, PinsRecorded, PinsHold
  <2> QED
    BY <1>2, <1>3, <1>4, <2>1 DEF Begins
<1> QED
  BY <1>6, <1>7, <1>8, <1>9, <1>10, <1>11 DEF RInv

\* Nothing that concerns the tables happens between two handlers.
LEMMA QuietlyBegins ==
  ASSUME program = << >>, Harmless(program'), UNCHANGED <<timeline, acted, pins, active, words, log>>,
         trouble \ {"behind"} \subseteq trouble', "behind" \in trouble' => "behind" \in trouble
  PROVE  Begins
<1>1. \A r \in RoomIds : \A i \in DOMAIN timeline[r] :
        i \in DOMAIN timeline'[r] /\ timeline'[r][i] = timeline[r][i]
  OBVIOUS
<1> QED
  BY <1>1 DEF Begins, Harmless

LEMMA HandleMessageKeepsRInv ==
  ASSUME IInv, RInv, NEW r \in RoomIds, HandleMessage(r)
  PROVE  RInv'
<1> DEFINE i == reached[r] + 1
           m == timeline[r][i]
           early == m.does \in {"pin", "unpin"} /\ seen[r] # pins[r]
<1>1. /\ program = << >> /\ reached[r] < token[r]
      /\ UNCHANGED <<timeline, acted, pins, active, words, log, seen>>
      /\ \/ /\ program' = Moderation(r, i) \o Dispatch(r, i)
            /\ trouble' = IF early THEN trouble \cup {"stale"} ELSE trouble
         \/ program' \in {<< >>, Moderation(r, i)} /\ trouble' = trouble
  BY DEF HandleMessage, Waiting, server, tables, client
<1>2. /\ i \in Nat /\ i \in DOMAIN timeline[r] /\ m \in Messages[r]
      /\ cache \subseteq Bans /\ up = "running"
  <2>1. /\ timeline[r] \in Seq(Messages[r]) /\ token[r] \in Nat /\ reached[r] \in Nat
        /\ token[r] <= Len(timeline[r]) /\ (up # "running" => reached = token)
    BY DEF IInv, ServerTypes, Positions
  <2>2. i \in Nat /\ i \in DOMAIN timeline[r] /\ (reached # token)
    BY <1>1, <2>1
  <2>3. m \in Messages[r]
    <3> HIDE DEF i
    <3> QED
      BY <2>1, <2>2
  <2> QED
    BY <2>1, <2>2, <2>3 DEF IInv, BotTypes
<1>3. trouble \ {"behind"} \subseteq trouble' /\ ("behind" \in trouble' => "behind" \in trouble)
  BY <1>1
<1> HIDE DEF i
<1>4. /\ ForMessage(program', r, i)
      /\ \A k \in DOMAIN program' : program'[k].do \in {"pin", "unpin"} =>
           /\ program'[k].room = r /\ m.does \in {"pin", "unpin"}
           /\ trouble' = IF early THEN trouble \cup {"stale"} ELSE trouble
  <2>1. CASE program' = Moderation(r, i) \o Dispatch(r, i)
             /\ trouble' = IF early THEN trouble \cup {"stale"} ELSE trouble
    BY <1>2, <2>1, HandlerFor
  <2>2. CASE program' = Moderation(r, i)
    BY <1>2, <2>2, ModerationFor
  <2>3. CASE program' = << >>
    <3>1. DOMAIN << >> = {}
      OBVIOUS
    <3> QED
      BY <2>3, <3>1, ShapedNone DEF ForMessage, Begun
  <2> QED
    BY <1>1, <2>1, <2>2, <2>3
<1>5. ASSUME Unharmed', "refresh" \notin trouble', NEW k \in DOMAIN program', Moderates(program'[k])
      PROVE  Deserved(program[k].room, program[k].arg, active, words)'
  <2>1. cache = words
    BY <1>1, <1>2, <1>3, <1>5 DEF IInv, Cached, RInv
  <2>2. /\ program'[k].room = r /\ program'[k].arg[1] = i /\ r \in active
        /\ program'[k].arg[2] \in Hits(cache, timeline[r][i])
        /\ \A b \in Hits(cache, timeline[r][i]) : program'[k].arg[2].word <= b.word
    BY <1>4, <1>5 DEF ForMessage
  <2>3. /\ active' = active /\ words' = words /\ timeline' = timeline
    BY <1>1
  <2> QED
    BY <1>2, <2>1, <2>2, <2>3 DEF Deserved
<1>6. ASSUME PinsHold', NEW k \in DOMAIN program', program'[k].do \in {"pin", "unpin"}
      PROVE  seen'[program'[k].room] = pins'[program'[k].room]
  <2>1. program'[k].room = r /\ m.does \in {"pin", "unpin"}
        /\ trouble' = IF early THEN trouble \cup {"stale"} ELSE trouble
    BY <1>4, <1>6
  <2>2. ~early
    BY <1>6, <2>1 DEF PinsHold
  <2> QED
    BY <1>1, <2>1, <2>2
<1>7. \A q \in RoomIds : \A j \in DOMAIN timeline[q] :
        j \in DOMAIN timeline'[q] /\ timeline'[q][j] = timeline[q][j]
  BY <1>1
<1>8. Begun(program')
  BY <1>4 DEF ForMessage
<1>9. Begins
  BY <1>1, <1>3, <1>5, <1>6, <1>7, <1>8 DEF Begins
<1> QED
  BY <1>9, BeginningKeepsRInv DEF IInv

LEMMA HandleInviteKeepsRInv ==
  ASSUME IInv, RInv, NEW r \in RoomIds, HandleInvite(r)
  PROVE  RInv'
<1>1. /\ program = << >> /\ trouble' = trouble
      /\ UNCHANGED <<timeline, acted, pins, active, words, log>>
  BY DEF HandleInvite, server, tables
<1>2. PICK a, b, c : /\ a = Op("join", r, None) /\ b = Entry("room_invite_accepted", r, None)
                     /\ c = Op("discover invited", r, None)
  OBVIOUS
<1>3. \E q \in {<<c>>, << >>} : program' = <<a, b>> \o q
  BY <1>2 DEF HandleInvite
<1>4. /\ a \in Ops /\ b \in Entries /\ c \in Ops
      /\ a.do \in Invites /\ b.action = "room_invite_accepted" /\ c.do \in Discoveries
  <2>1. None \in AnyArg
    BY DEF AnyArg
  <2>2. a \in Ops /\ c \in Ops
    BY <1>2, <2>1, OpTyped DEF Statements
  <2>3. b \in Entries
    BY <1>2, <2>1, EntryTyped DEF Actions
  <2> QED
    BY <1>2, <2>2, <2>3 DEF Op, Entry, Invites, Discoveries
<1>5. Harmless(program')
  BY <1>3, <1>4, InviteHarmless
<1> QED
  BY <1>1, <1>5, QuietlyBegins, BeginningKeepsRInv DEF IInv

LEMMA AcceptPendingKeepsRInv ==
  ASSUME IInv, RInv, NEW r \in RoomIds, AcceptPending(r)
  PROVE  RInv'
<1>1. /\ program = << >> /\ trouble' = trouble
      /\ UNCHANGED <<timeline, acted, pins, active, words, log>>
  BY DEF AcceptPending, server, tables
<1>2. PICK a, b, c : /\ a = Op("join pending", r, None) /\ b = Note("room_invite_accepted", r, None)
                     /\ c = Op("discover", r, None)
  OBVIOUS
<1>3. \E q \in {<<c>>, << >>} : program' = <<a, b>> \o q
  BY <1>2 DEF AcceptPending
<1>4. /\ a \in Ops /\ b \in Entries /\ c \in Ops
      /\ a.do \in Invites /\ b.action = "room_invite_accepted" /\ c.do \in Discoveries
  <2>1. None \in AnyArg
    BY DEF AnyArg
  <2>2. a \in Ops /\ c \in Ops
    BY <1>2, <2>1, OpTyped DEF Statements
  <2>3. b \in Entries
    BY <1>2, <2>1, EntryTyped DEF Actions
  <2> QED
    BY <1>2, <2>2, <2>3 DEF Op, Note, Invites, Discoveries
<1>5. Harmless(program')
  BY <1>3, <1>4, InviteHarmless
<1> QED
  BY <1>1, <1>5, QuietlyBegins, BeginningKeepsRInv DEF IInv

LEMMA StartKeepsRInv ==
  ASSUME IInv, RInv, Start
  PROVE  RInv'
<1>1. /\ program = << >> /\ UNCHANGED <<timeline, acted, pins, active, words, log>>
  BY DEF Start, server, tables, IInv, Positions
<1>2. trouble \ {"behind"} \subseteq trouble' /\ ("behind" \in trouble' => "behind" \in trouble)
  BY DEF Start
<1>3. PICK order \in SetToSeqs(Discovery(known')) :
        program' = [k \in DOMAIN order |-> Op("discover", order[k], None)]
  BY DEF Start
<1>4. (\A k \in DOMAIN program' : program'[k].do = "discover")
      /\ (program' # << >> => 1 \in DOMAIN program')
  <2>1. PICK n \in Nat : DOMAIN order = 1 .. n
    <3>1. Discovery(known') \subseteq RoomIds
      BY RoomAssumption DEF Discovery
    <3>2. PICK S \in SUBSET RoomIds : S = Discovery(known')
      BY <3>1
    <3>3. order \in SetToSeqs(S)
      BY <1>3, <3>2
    <3> QED
      BY <3>3, RoomsFinite, SeqOfSet
  <2>2. DOMAIN program' = 1 .. n /\ \A k \in 1 .. n : program'[k] = Op("discover", order[k], None)
    BY <1>3, <2>1
  <2>3. n = 0 => program' = << >>
    <3>1. n = 0 => DOMAIN program' = {}
      BY <2>2
    <3>2. program' = [k \in DOMAIN program' |-> Op("discover", order[k], None)]
      BY <1>3
    <3> QED
      BY <3>1, <3>2
  <2>4. n # 0 => 1 \in 1 .. n
    OBVIOUS
  <2> QED
    BY <2>2, <2>3, <2>4 DEF Op
<1>5. Harmless(program')
  BY <1>4, DiscoveryHarmless
<1> QED
  BY <1>1, <1>2, <1>5, QuietlyBegins, BeginningKeepsRInv DEF IInv

LEMMA CrashKeepsRInv ==
  ASSUME IInv, RInv, Crash
  PROVE  RInv'
<1>1. /\ program' = << >> /\ UNCHANGED <<timeline, acted, pins, active, words, log>>
      /\ trouble' = IF program = << >> THEN trouble ELSE trouble \cup {"crash"}
  BY DEF Crash, server, tables
<1>2. CASE program = << >>
  <2>1. trouble' = trouble
    BY <1>1, <1>2
  <2> QED
    BY <1>1, <1>2, <2>1, HarmlessOnes, QuietlyBegins, BeginningKeepsRInv DEF IInv
<1>3. CASE program # << >>
  <2>1. ~Unharmed' /\ ~PinsHold' /\ ("behind" \in trouble' => "refresh" \in trouble')
    BY <1>1, <1>3 DEF Unharmed, PinsHold, RInv
  <2>2. Shaped(program') /\ Argumentless'
    BY <1>1, ShapedNone, LogStays DEF RInv
  <2> QED
    BY <2>1, <2>2 DEF RInv, RoomsRecorded, WordsRecorded, ModerationDeserved, ActsRecorded,
                      PinsRecorded, PinsHold
<1> QED
  BY <1>2, <1>3

LEMMA QuietKeepsRInv ==
  ASSUME IInv, RInv, Sync \/ Run \/ \E r \in RoomIds : Invite(r)
  PROVE  RInv'
<1>1. /\ program = << >> /\ program' = << >> /\ UNCHANGED <<timeline, acted, pins, active, words, log>>
      /\ trouble' = trouble \/ trouble' = trouble \cup {"cut"}
  BY DEF Sync, Run, Invite, Idle, server, tables
<1>2. trouble \ {"behind"} \subseteq trouble' /\ ("behind" \in trouble' => "behind" \in trouble)
  BY <1>1
<1> QED
  BY <1>1, <1>2, HarmlessOnes, QuietlyBegins, BeginningKeepsRInv DEF IInv

LEMMA SendKeepsRInv ==
  ASSUME IInv, RInv, NEW r \in RoomIds, NEW m \in Messages[r], Send(r, m)
  PROVE  RInv'
<1>1. /\ program = << >> /\ program' = << >> /\ UNCHANGED <<acted, pins, active, words, log, trouble>>
      /\ timeline' = [timeline EXCEPT ![r] = Append(@, m)]
  BY DEF Send, Idle, tables
<1>2. ASSUME NEW q \in RoomIds, NEW j \in DOMAIN timeline[q]
      PROVE  j \in DOMAIN timeline'[q] /\ timeline'[q][j] = timeline[q][j]
  <2>1. timeline \in [RoomIds -> Seq(AnyMessage)]
    BY DEF IInv, ServerTypes
  <2>2. CASE q = r
    <3>1. timeline'[q] = Append(timeline[q], m)
      BY <1>1, <2>1, <2>2
    <3>2. PICK s \in Seq(AnyMessage) : s = timeline[q]
      BY <2>1
    <3>3. m \in AnyMessage
      BY DEF AnyMessage
    <3>4. ASSUME NEW k \in DOMAIN s PROVE k \in DOMAIN Append(s, m) /\ Append(s, m)[k] = s[k]
      BY <3>3
    <3> QED
      BY <3>1, <3>2, <3>4
  <2>3. CASE q # r
    BY <1>1, <2>1, <2>3
  <2> QED
    BY <2>2, <2>3
<1>3. Harmless(program')
  BY <1>1, HarmlessOnes
<1>4. Begins
  <2>1. DOMAIN program' = {}
    BY <1>1
  <2> QED
    BY <1>1, <1>2, <1>3, <2>1 DEF Begins, Harmless
<1> QED
  BY <1>4, BeginningKeepsRInv DEF IInv

LEMMA EarlierTyped ==
  /\ Len(Earlier) \in Nat /\ DOMAIN Earlier = 1 .. Len(Earlier)
  /\ \A k \in DOMAIN Earlier : Earlier[k].action = "banned_word_added"
<1>1. PICK all : all = [action : {"banned_word_added"}, room : RoomIds, arg : Bans]
  OBVIOUS
<1>2. Earlier \in Seq(all)
  BY <1>1, WordAssumption
<1>3. /\ Len(Earlier) \in Nat /\ DOMAIN Earlier = 1 .. Len(Earlier)
      /\ \A k \in DOMAIN Earlier : Earlier[k] \in all
  BY <1>2
<1> QED
  BY <1>1, <1>3

\* Before the first start every word banned is on record.
LEMMA InitialWords ==
  ASSUME log = Earlier, words = {Earlier[k].arg : k \in DOMAIN Earlier}
  PROVE  words = BannedOnRecord(Len(log))
<1> DEFINE n == Len(Earlier)
<1>1. /\ n \in Nat /\ DOMAIN Earlier = 1 .. n /\ Keyed({Earlier[k].arg : k \in DOMAIN Earlier})
      /\ \A k \in 1 .. n : Earlier[k].action = "banned_word_added"
  BY EarlierTyped, WordAssumption
<1> HIDE DEF n
<1>2. \A j : j \in LastWords(log, n) <=>
        j \in 1 .. n /\ ~\E k \in j + 1 .. n : Earlier[k].arg.word = Earlier[j].arg.word
  <2>1. \A j \in 1 .. n : \A k \in j + 1 .. n : k \in 1 .. n
    BY <1>1
  <2> QED
    BY <1>1, <2>1 DEF LastWords, WordRecords
<1>3. ASSUME NEW k \in 1 .. n
      PROVE  \E j \in LastWords(log, n) : Earlier[j].arg = Earlier[k].arg
  <2> DEFINE same == {j \in 1 .. n : Earlier[j].arg.word = Earlier[k].arg.word}
             ahead == {n - j : j \in same}
  <2>1. ahead \subseteq Nat /\ n - k \in ahead
    BY <1>1
  <2>2. PICK d \in ahead : \A x \in ahead : ~(x < d)
    <3> HIDE DEF ahead
    <3>1. PICK d \in ahead : \A x \in ahead : <<x, d>> \notin OpToRel(<, Nat)
      BY <2>1, NatLessThanWellFounded, WFMin
    <3> QED
      BY <2>1, <3>1 DEF OpToRel
  <2>3. PICK j \in same : d = n - j
    OBVIOUS
  <2>4. ASSUME NEW l \in j + 1 .. n, Earlier[l].arg.word = Earlier[j].arg.word
        PROVE  FALSE
    <3>1. l \in 1 .. n /\ j \in 1 .. n /\ n - l < n - j
      BY <1>1
    <3>2. l \in same
      BY <2>4, <3>1
    <3>3. n - l \in ahead
      BY <3>2
    <3> QED
      BY <2>2, <2>3, <3>1, <3>3
  <2>5. j \in 1 .. n /\ Earlier[j].arg.word = Earlier[k].arg.word
    OBVIOUS
  <2>6. j \in LastWords(log, n)
    BY <1>2, <2>4, <2>5
  <2>7. Earlier[j].arg = Earlier[k].arg
    BY <1>1, <2>5 DEF Keyed
  <2> QED
    BY <2>6, <2>7
<1>4. WordsOf(log, n) = {log[i].arg : i \in LastWords(log, n)}
  BY DEF WordsOf
<1>5. \A j \in LastWords(log, n) : j \in DOMAIN Earlier
  BY <1>1, <1>2
<1>6. words = WordsOf(log, n)
  BY <1>1, <1>3, <1>4, <1>5
<1> QED
  BY <1>6, OnRecordIsOf DEF n

LEMMA InitRInv ==
  ASSUME Init
  PROVE  RInv
<1>1. /\ program = << >> /\ log = Earlier /\ active = {} /\ acted = {} /\ trouble = {}
      /\ pins = [r \in RoomIds |-> {}] /\ words = {Earlier[k].arg : k \in DOMAIN Earlier}
  BY DEF Init
<1>2. \A k \in DOMAIN log : log[k].action = "banned_word_added"
  BY <1>1, EarlierTyped
<1>3. Len(log) \in Nat /\ DOMAIN log = 1 .. Len(log)
  BY <1>1, EarlierTyped
<1>4. Argumentless /\ Moderated = {}
  BY <1>2 DEF Argumentless, Bare, Moderated
<1>5. ActiveOnRecord(Len(log)) = {} /\ \A r : PinnedOnRecord(r) = {}
  <2>1. OnRecord(Len(log), {"room_activated", "auto_discovered"}, "room_deactivated") = {}
    BY <1>2, <1>3 DEF OnRecord
  <2>2. OnRecord(Len(log), {"event_pinned"}, "event_unpinned") = {}
    BY <1>2, <1>3 DEF OnRecord
  <2> QED
    BY <2>1, <2>2 DEF ActiveOnRecord, PinnedOnRecord
<1>6. words = BannedOnRecord(Len(log))
  BY <1>1, InitialWords
<1>7. Acts = {} /\ ActsOnRecord = {}
  BY <1>1, <1>4 DEF Acts, ActsOnRecord
<1>8. /\ \A s : RoomsNow(program, s) = s
      /\ \A s : WordsNow(program, s) = s
      /\ \A s, r : PinsNow(program, s, r) = s
      /\ \A s : ActsNow(program, s) = s
  BY <1>1, Calm
<1>9. Shaped(program) /\ DOMAIN program = {}
  BY <1>1, ShapedNone
<1>10. RoomsRecorded /\ WordsRecorded /\ ModerationDeserved /\ ActsRecorded
  BY <1>1, <1>4, <1>5, <1>6, <1>7, <1>8, <1>9
     DEF RoomsRecorded, WordsRecorded, ModerationDeserved, ActsRecorded
<1>11. PinsRecorded
  BY <1>1, <1>5, <1>8, <1>9 DEF PinsRecorded
<1> QED
  BY <1>1, <1>4, <1>9, <1>10, <1>11 DEF RInv

LEMMA NextKeepsRInv ==
  ASSUME IInv, RInv, [Next]_vars
  PROVE  RInv'
<1>1. CASE Next
  BY <1>1, StepKeepsRInv, StepFailsKeepsRInv, StartKeepsRInv, CrashKeepsRInv, QuietKeepsRInv,
     HandleMessageKeepsRInv, HandleInviteKeepsRInv, AcceptPendingKeepsRInv, SendKeepsRInv
     DEF Next
<1>2. CASE UNCHANGED vars
  <2>1. UNCHANGED <<timeline, pins, acted, active, words, log, seen, program, trouble>>
    BY <1>2 DEF vars, server, tables, client
  <2>2. /\ ActiveOnRecord(Len(log))' = ActiveOnRecord(Len(log))
        /\ BannedOnRecord(Len(log))' = BannedOnRecord(Len(log))
        /\ \A n : ActiveOnRecord(n)' = ActiveOnRecord(n)
        /\ \A n : BannedOnRecord(n)' = BannedOnRecord(n)
        /\ \A r : PinnedOnRecord(r)' = PinnedOnRecord(r)
        /\ Moderated' = Moderated /\ ActsOnRecord' = ActsOnRecord
        /\ Argumentless' = Argumentless
    BY <2>1, LogStays
  <2>3. Shaped(program)' /\ Argumentless' /\ ("behind" \in trouble => "refresh" \in trouble)'
    BY <2>1, <2>2 DEF RInv
  <2>4. RoomsRecorded' /\ WordsRecorded'
    BY <2>1, <2>2 DEF RInv, RoomsRecorded, WordsRecorded, Unharmed
  <2>5. ModerationDeserved'
    BY <2>1, <2>2 DEF RInv, ModerationDeserved, Unharmed, Deserved
  <2>6. ActsRecorded'
    BY <2>1, <2>2 DEF RInv, ActsRecorded, Unharmed, Acts
  <2>7. PinsRecorded'
    BY <2>1, <2>2 DEF RInv, PinsRecorded
  <2> QED
    BY <2>3, <2>4, <2>5, <2>6, <2>7 DEF RInv
<1> QED
  BY <1>1, <1>2

LEMMA RecordsInvariant == Spec => []RInv
<1> QED
  BY InitRInv, NextKeepsRInv, Invariant, PTL DEF Spec

\* The tables and what was done to messages are what the audit log says, whatever the
\* order of handlers, starts, errors and ends of the process (TablesFollowLog).
THEOREM TablesAreAsLogged == Spec => []TablesFollowLog
<1>1. RInv => TablesFollowLog
  <2> SUFFICES ASSUME RInv, program = << >>, trouble \cap {"crash", "append", "note"} = {}
               PROVE  /\ active = ActiveOnRecord(Len(log))
                      /\ "refresh" \notin trouble =>
                           /\ words = BannedOnRecord(Len(log))
                           /\ \A k \in Moderated :
                                LET i == log[k].arg[1]
                                    r == log[k].room
                                    hits == Hits(BannedOnRecord(k - 1), timeline[r][i])
                                IN /\ r \in ActiveOnRecord(k - 1)
                                   /\ log[k].arg[2] \in hits
                                   /\ \A b \in hits : log[k].arg[2].word <= b.word
                      /\ "moderate" \notin trouble =>
                           {<<a[2], a[3]>> : a \in {b \in acted : b[1] = "moderate"}}
                             = {<<log[k].room, log[k].arg>> : k \in Moderated}
    BY DEF TablesFollowLog
  <2>1. /\ \A s : RoomsNow(program, s) = s
        /\ \A s : WordsNow(program, s) = s
        /\ \A s : ActsNow(program, s) = s
    BY Calm
  <2>2. Unharmed
    BY DEF Unharmed
  <2>3. active = ActiveOnRecord(Len(log))
    BY <2>1, <2>2 DEF RInv, RoomsRecorded
  <2>4. "refresh" \notin trouble => words = BannedOnRecord(Len(log))
    BY <2>1, <2>2 DEF RInv, WordsRecorded
  <2>5. "refresh" \notin trouble => \A k \in Moderated :
          Deserved(log[k].room, log[k].arg, ActiveOnRecord(k - 1), BannedOnRecord(k - 1))
    BY <2>2 DEF RInv, ModerationDeserved
  <2>6. "moderate" \notin trouble => Acts = ActsOnRecord
    BY <2>1, <2>2 DEF RInv, ActsRecorded
  <2> QED
    BY <2>3, <2>4, <2>5, <2>6 DEF Deserved, Acts, ActsOnRecord
<1> QED
  BY <1>1, RecordsInvariant, PTL

\* The pinned events are those that the log says are pinned, as long as nothing failed
\* and no command worked on a list older than the change before it (PinsFollowLog).
THEOREM PinsAreAsLogged == Spec => []PinsFollowLog
<1>1. RInv => PinsFollowLog
  <2> SUFFICES ASSUME RInv, program = << >>,
                      trouble \cap {"stale", "crash", "append", "pin", "unpin"} = {},
                      NEW r \in RoomIds
               PROVE  pins[r] = {log[i].arg :
                        i \in {j \in OnRecord(Len(log), {"event_pinned"}, "event_unpinned") :
                                 log[j].room = r}}
    BY DEF PinsFollowLog
  <2>1. PinsNow(program, PinnedOnRecord(r), r) = PinnedOnRecord(r)
    BY Calm
  <2>2. pins[r] = PinnedOnRecord(r)
    BY <2>1 DEF RInv, PinsRecorded
  <2> QED
    BY <2>2 DEF PinnedOnRecord
<1> QED
  BY <1>1, RecordsInvariant, PTL
=============================================================================
