------------------------------- MODULE Rooms -------------------------------
(***************************************************************************)
(* The sync loop of the moderation bot: start-up, discovery, invites,      *)
(* moderation of messages, commands on rooms, banned words, users and pins *)
(* (handler.rs, rooms.rs, banned_words.rs, pinned.rs; mutes are in Mute).  *)
(*                                                                         *)
(* The loop awaits the handler of one event at a time.  Of the last sync   *)
(* response the messages from `reached` to `token` and the invites in      *)
(* `arriving` are still to be handled; `program` is what the handler under *)
(* way has yet to do: a database statement, a call of the homeserver or an *)
(* audit append each.  Nothing else writes the tables or the word cache,   *)
(* so what a handler will do is settled when it begins, but the end of the *)
(* process or an error may cut it short.                                   *)
(*                                                                         *)
(* An operator Mut... is a seeded error of the operator that follows it.   *)
(***************************************************************************)
EXTENDS Integers, SequencesExt

CONSTANTS
  None,
  NumRooms,
  Joined,      \* the rooms joined before the first start
  Matching,    \* the rooms whose canonical alias matches the pattern
  Words,       \* what may be banned, numbered in the order of the list
  Earlier,     \* the records of the words that were banned before the first start
  Messages,    \* what is sent in each room: by whom, which command or chat, its argument,
               \* and with which words and modes its text matches
  Level,       \* the power level of each sender
  Needed,      \* required_pl_for: the level that each command needs
  BotLevel,    \* the power level of the bot in each room
  Limits,      \* the homeserver's choice of how many messages of a room a response carries
  Faults,      \* what may go wrong: "crash", "homeserver", "database"
  MaxMessages, \* bound: messages in all
  MaxErrors,   \* bound: errors of the database and the homeserver
  MaxCrashes   \* bound: ends of the process

RoomIds == 1 .. NumRooms  \* in the order of their ids
Commands ==
  {"activate", "deactivate", "ban-word add", "ban-word remove", "kick", "pin", "unpin"}

\* A banned word; MatchMode and Severity.
Bans ==
  [word : Words, mode : {"substring", "whole_word"}, severity : {"redact", "warn", "kick"}]

\* The word is the key of its table.
Keyed(bans) == \A b, c \in bans : b.word = c.word => b = c

ASSUME WordAssumption ==
  /\ Words \subseteq Nat
  /\ Earlier \in Seq([action : {"banned_word_added"}, room : RoomIds, arg : Bans])
  /\ Keyed({Earlier[k].arg : k \in DOMAIN Earlier})
ASSUME RoomAssumption ==
  NumRooms \in Nat /\ Joined \subseteq RoomIds /\ Matching \subseteq RoomIds
ASSUME LevelAssumption ==
  /\ \A r \in RoomIds : \A m \in Messages[r] :
       /\ Level[m.by] \in Int /\ m.does \in Commands \cup {"chat"}
       /\ m.does = "ban-word add" => m.arg \in Bans
  /\ Needed \in [Commands -> Int] /\ BotLevel \in [RoomIds -> Int]
ASSUME BoundAssumption ==
  /\ Limits \subseteq Nat \ {0} /\ MaxMessages \in Nat /\ MaxErrors \in Nat /\ MaxCrashes \in Nat
  /\ Faults \subseteq {"crash", "homeserver", "database"}

VARIABLES
  timeline, member, invited, pins,  \* the homeserver: messages, the bot's rooms, pinned events
  acted,                            \* the messages redacted, and those whose kick was done
  active, words, log,               \* the tables and the audit log
  up,                               \* the bot: down, starting or running
  known,                            \* the joined rooms that discovery found in the store
  told,                             \* the invites that the client has been sent
  seen,                             \* the pinned events in the client's store
  token,                            \* the length of each timeline at the last sync
  cache,                            \* word_cache
  reached,                          \* of each timeline, what has been handled or passed over
  arriving,                         \* the invites of the response still to be handled
  program,
  handled,                          \* history: the messages handled, in order
  since, skipped,                   \* history: the length of the log when the loop began,
                                    \* and of each timeline as of the initial sync
  errors, crashes, trouble          \* history: what happened that the code does not reckon with

server == <<timeline, member, invited, pins, acted>>
tables == <<active, words, log>>
client == <<known, told, seen, token>>
response == <<reached, arriving>>
history == <<handled, since, skipped>>
bounded == <<errors, crashes>>
vars == <<server, tables, up, client, cache, response, program, history, bounded, trouble>>

Fails(kind) == kind \in Faults /\ errors < MaxErrors
Waiting == {r \in RoomIds : reached[r] < token[r]}
Idle == Waiting = {} /\ arriving = {} /\ program = << >>

Op(d, r, x) == [do |-> d, room |-> r, arg |-> x]
Entry(a, r, x) == [do |-> "append", action |-> a, room |-> r, arg |-> x]
Note(a, r, x) == [do |-> "note", action |-> a, room |-> r, arg |-> x]

----------------------------------------------------------------------------
(* What the handlers do *)

\* The admin shield.
Shielded(m) == Level[m.by] >= 100

\* matches_one
Hits(bans, m) == {b \in bans : <<b.word, b.mode>> \in m.says}

\* first_match_in: the list is in the order of its words.
FirstMatch(bans, m) ==
  CHOOSE b \in Hits(bans, m) : \A c \in Hits(bans, m) : b.word <= c.word

\* run_auto_moderation: a redaction, a warning or a kick, as the first match says.
Moderation(r, i) ==
  LET m == timeline[r][i]
      how == <<i, FirstMatch(cache, m)>>
  IN IF r \in active /\ Hits(cache, m) # {} /\ ~Shielded(m)
     THEN <<Op("moderate", r, how), Entry("auto_moderation", r, how)>> ELSE << >>

NeedsBotPower(c) == c \in {"activate", "kick", "pin", "unpin"}

\* Deactivation counts as one of the commands that need no active room.
NeedsActiveRoom(c) == c \notin {"activate", "deactivate"}

\* The word is banned in the table only.
MutAddWord(r, b) == <<Op("ban", r, b), Entry("banned_word_added", r, b)>>

AddWord(r, b) == <<Op("ban", r, b), Op("refresh", r, None), Entry("banned_word_added", r, b)>>

RemoveWord(r, w) ==
  <<Op("unban", r, w), Op("refresh", r, None), Entry("banned_word_removed", r, w)>>

\* A change of the list is recorded, but not sent.
MutPin(r, e) == <<Entry("event_pinned", r, e)>>

\* apply_pin: no call when the list in the store would not change.
Pin(r, e) ==
  IF e \in seen[r] THEN <<Entry("event_pinned_noop", r, e)>>
  ELSE <<Op("pin", r, e), Entry("event_pinned", r, e)>>

Unpin(r, e) ==
  IF e \notin seen[r] THEN <<Entry("event_unpinned_noop", r, e)>>
  ELSE <<Op("unpin", r, e), Entry("event_unpinned", r, e)>>

Orders(r, i) ==
  LET c == timeline[r][i].does
      x == timeline[r][i].arg
  IN CASE c = "activate" -> <<Op("insert", r, None), Entry("room_activated", r, None)>>
       [] c = "deactivate" -> <<Op("delete", r, None), Entry("room_deactivated", r, None)>>
       [] c = "ban-word add" -> AddWord(r, x)
       [] c = "ban-word remove" -> RemoveWord(r, x)
       [] c = "kick" -> <<Op("kick", r, i), Entry("user_kicked", r, i)>>
       [] c \in {"pin", "unpin"} /\ x = None -> <<Entry("pin_no_reply", r, None)>>
       [] c = "pin" /\ x # None -> Pin(r, x)
       [] c = "unpin" /\ x # None -> Unpin(r, x)

\* dispatch_command: an answer is all that a command without the bot's power or
\* without an active room gets.
Dispatch(r, i) ==
  LET m == timeline[r][i]
  IN IF m.does = "chat" THEN << >>
     ELSE IF Level[m.by] < Needed[m.does] THEN <<Entry("command_denied_power_level", r, i)>>
     ELSE IF \/ NeedsBotPower(m.does) /\ BotLevel[r] < 50
             \/ NeedsActiveRoom(m.does) /\ r \notin active
     THEN << >> ELSE Orders(r, i)

----------------------------------------------------------------------------
(* One step of the handler under way *)

Doing(d) == program # << >> /\ Head(program).do = d
op == Head(program)

Activate ==
  /\ Doing("insert") \/ Doing("discover") \/ Doing("discover invited")
  /\ active' = active \cup {op.room}
  /\ UNCHANGED <<server, words, log, cache>>

DeleteRow ==
  /\ Doing("delete")
  /\ active' = active \ {op.room}
  /\ UNCHANGED <<server, words, log, cache>>

\* add: a word banned again gets the new mode and severity (ON CONFLICT).
Banned(bans, b) == {c \in bans : c.word # b.word} \cup {b}

ChangeWords ==
  /\ \/ Doing("ban") /\ words' = Banned(words, op.arg)
     \/ Doing("unban") /\ words' = {b \in words : b.word # op.arg.word}
  /\ UNCHANGED <<server, active, log, cache>>

\* WordCache::refresh
Refresh ==
  /\ Doing("refresh")
  /\ cache' = words
  /\ UNCHANGED <<server, tables>>

AppendEntry ==
  /\ Doing("append") \/ Doing("note")
  /\ log' = Append(log, [action |-> op.action, room |-> op.room, arg |-> op.arg])
  /\ UNCHANGED <<server, active, words, cache>>

\* redact, send or kick_user; and the commands on users.
Act ==
  /\ Doing("moderate") \/ Doing("kick")
  /\ acted' = acted \cup {<<op.do, op.room, op.arg>>}
  /\ UNCHANGED <<timeline, member, invited, pins, tables, cache>>

\* The whole list of the store, changed, is sent.
WritePins ==
  /\ \/ Doing("pin") /\ pins' = [pins EXCEPT ![op.room] = seen[op.room] \cup {op.arg}]
     \/ Doing("unpin") /\ pins' = [pins EXCEPT ![op.room] = seen[op.room] \ {op.arg}]
  /\ UNCHANGED <<timeline, member, invited, acted, tables, cache>>

Join ==
  /\ Doing("join") \/ Doing("join pending")
  /\ member' = member \cup {op.room} /\ invited' = invited \ {op.room}
  /\ UNCHANGED <<timeline, pins, acted, tables, cache>>

Local == Activate \/ DeleteRow \/ ChangeWords \/ Refresh \/ AppendEntry
Remote == Act \/ WritePins \/ Join
RemoteOps == {"moderate", "kick", "pin", "unpin", "join", "join pending"}

\* A room found is active without a record.
MutFound == << >>

\* check_alias_and_record, of a room whose alias matches: only a new row is
\* recorded, after an invite twice.
Found ==
  IF op.room \in active \/ op.do \notin {"discover", "discover invited"} THEN << >>
  ELSE IF op.do = "discover" THEN <<Entry("auto_discovered", op.room, None)>>
  ELSE <<Entry("auto_discovered", op.room, None),
         Entry("auto_discovered_after_invite", op.room, None)>>

Step ==
  /\ Local \/ Remote
  /\ program' = Found \o Tail(program)
  /\ trouble' = IF op.do = "refresh" THEN trouble \ {"behind"} ELSE trouble
  /\ UNCHANGED <<up, client, response, history, bounded>>

\* Where an error is only logged, the handler goes on; a failed join has an entry
\* of its own, but not at the start.
AfterError ==
  IF op.do \in {"moderate", "note"} THEN Tail(program)
  ELSE IF op.do = "join" THEN <<Entry("room_invite_join_failed", op.room, None)>>
  ELSE << >>

\* An error leaves the loop, and with it the rest of the response.
MutRestOfBatch == reached' = token /\ arriving' = {}

\* The error of a handler is logged.
RestOfBatch == UNCHANGED response

\* A failed statement did nothing; a failed call may have been performed.
StepFails ==
  /\ program # << >>
  /\ \/ Fails("homeserver") /\ Remote
     \/ /\ Fails(IF op.do \in RemoteOps THEN "homeserver" ELSE "database")
        /\ UNCHANGED <<server, tables, cache>>
  /\ program' = AfterError
  /\ RestOfBatch
  /\ trouble' = trouble \cup {op.do} \cup (IF op.do = "refresh" THEN {"behind"} ELSE {})
  /\ errors' = errors + 1
  /\ UNCHANGED <<up, client, history, crashes>>

----------------------------------------------------------------------------
(* The loop *)

\* on_message, room by room.  A pin command sees the list as of the last sync.  A
\* lookup of the room or of a level may fail: before the moderation, or before the
\* command.
HandleMessage(r) ==
  /\ program = << >>
  /\ r \in Waiting /\ \A q \in Waiting : r <= q
  /\ LET i == reached[r] + 1
         early == timeline[r][i].does \in {"pin", "unpin"} /\ seen[r] # pins[r]
     IN /\ reached' = [reached EXCEPT ![r] = i]
        /\ handled' = [handled EXCEPT ![r] = Append(@, i)]
        /\ \/ /\ program' = Moderation(r, i) \o Dispatch(r, i)
              /\ trouble' = IF early THEN trouble \cup {"stale"} ELSE trouble
              /\ UNCHANGED errors
           \/ /\ Fails("database") \/ Fails("homeserver")
              /\ program' \in {<< >>, Moderation(r, i)}
              /\ errors' = errors + 1
              /\ UNCHANGED trouble
  /\ UNCHANGED <<server, tables, up, client, cache, arriving, since, skipped, crashes>>

\* The store may not know the alias of a room just joined.
Aliased(r) == {FALSE, (r \in Matching)}

\* on_room_invite
HandleInvite(r) ==
  /\ up = "running" /\ program = << >> /\ Waiting = {} /\ r \in arriving
  /\ \E aliased \in Aliased(r) :
       program' = <<Op("join", r, None), Entry("room_invite_accepted", r, None)>>
                    \o (IF aliased THEN <<Op("discover invited", r, None)>> ELSE << >>)
  /\ arriving' = arriving \ {r}
  /\ UNCHANGED <<server, tables, up, client, cache, reached, history, bounded, trouble>>

\* At the start run accepts the invites of the store itself.
AcceptPending(r) ==
  /\ up = "starting" /\ program = << >> /\ r \in arriving
  /\ \E aliased \in Aliased(r) :
       program' = <<Op("join pending", r, None), Note("room_invite_accepted", r, None)>>
                    \o (IF aliased THEN <<Op("discover", r, None)>> ELSE << >>)
  /\ arriving' = arriving \ {r}
  /\ UNCHANGED <<server, tables, up, client, cache, reached, history, bounded, trouble>>

\* A sync response carries of each room the last messages, when there are many.
First(r, limit) == Max({token[r], Len(timeline[r]) - limit})

Cut(limit) == \E r \in RoomIds : First(r, limit) > token[r]

\* The messages, then the invites not yet sent.  No filter is set, so the limit is the
\* homeserver's.  The store is brought up to date before the handlers are called.
Sync ==
  /\ up = "running" /\ Idle
  /\ (\E r \in RoomIds : token[r] < Len(timeline[r])) \/ invited \ told # {} \/ seen # pins
  /\ \E limit \in Limits :
       /\ reached' = [r \in RoomIds |-> First(r, limit)]
       /\ trouble' = IF Cut(limit) THEN trouble \cup {"cut"} ELSE trouble
  /\ arriving' = invited \ told
  /\ token' = [r \in RoomIds |-> Len(timeline[r])]
  /\ told' = invited
  /\ seen' = pins
  /\ UNCHANGED <<server, tables, up, known, cache, program, history, bounded>>

\* The first long poll does not continue from the initial sync.
MutSkipToken == [r \in RoomIds |-> 0]

\* An event too far.
MutNextBatch == [r \in RoomIds |-> Len(timeline[r]) + 1]

\* next_batch of the initial sync: what was sent before is skipped.
SkipToken == [r \in RoomIds |-> Len(timeline[r])]

\* The rooms that are active already end the discovery.
MutDiscovery(rs) == IF rs \cap active # {} THEN {} ELSE rs \cap Matching

\* auto_discover looks at every joined room.
Discovery(rs) == rs \cap Matching

\* A start up to the initial sync: main loads the cache and syncs once, run syncs
\* once more.  Without the second one there is no token to continue from; without
\* both the store is empty.
Start ==
  /\ up = "down"
  /\ up' = "starting"
  /\ cache' = words
  /\ \E primed \in {TRUE, ~Fails("homeserver")} : \E filled \in {TRUE, primed} :
     /\ known' = IF filled THEN member ELSE {}
     /\ told' = IF primed THEN invited ELSE {}
     /\ token' = IF primed THEN SkipToken ELSE [r \in RoomIds |-> 0]
     /\ skipped' = token' /\ reached' = token'
     /\ seen' = IF filled THEN pins ELSE [r \in RoomIds |-> {}]
     /\ \E order \in SetToSeqs(Discovery(known')) :
           program' = [k \in DOMAIN order |-> Op("discover", order[k], None)]
     /\ arriving' = IF filled THEN invited ELSE {}
     /\ trouble' = (trouble \ {"behind"}) \cup (IF primed THEN {} ELSE {"unprimed"})
     /\ errors' = IF primed THEN errors ELSE errors + 1
  /\ UNCHANGED <<server, tables, handled, since, crashes>>

\* The handlers are registered and the long poll begins.
Run ==
  /\ up = "starting" /\ Idle
  /\ up' = "running"
  /\ since' = Len(log)
  /\ UNCHANGED <<server, tables, client, cache, response, program, handled, skipped, bounded, trouble>>

\* The process ends: a crash, or an error of a sync, after which main returns.
Crash ==
  /\ "crash" \in Faults
  /\ up # "down" /\ crashes < MaxCrashes
  /\ up' = "down" /\ reached' = token /\ arriving' = {} /\ program' = << >>
  /\ crashes' = crashes + 1
  /\ trouble' = IF program = << >> THEN trouble ELSE trouble \cup {"crash"}
  /\ UNCHANGED <<server, tables, client, cache, history, errors>>

----------------------------------------------------------------------------
(* What users do *)

Sent == FoldFunction(LAMBDA s, n : Len(s) + n, 0, timeline)

\* Only a sync and a start look at what is new, and none comes while a handler is
\* under way: whether something is sent during it or right after it is the same.
Send(r, m) ==
  /\ Idle
  /\ r \in member
  /\ Sent < MaxMessages
  /\ timeline' = [timeline EXCEPT ![r] = Append(@, m)]
  /\ UNCHANGED <<member, invited, pins, acted, tables, up, client, cache, response, program, history, bounded, trouble>>

Invite(r) ==
  /\ Idle
  /\ r \notin member \cup invited
  /\ invited' = invited \cup {r}
  /\ UNCHANGED <<timeline, member, pins, acted, tables, up, client, cache, response, program, history, bounded, trouble>>

Init ==
  /\ timeline = [r \in RoomIds |-> << >>] /\ member = Joined /\ invited = {}
  /\ pins = [r \in RoomIds |-> {}] /\ acted = {}
  /\ active = {} /\ log = Earlier /\ words = {Earlier[k].arg : k \in DOMAIN Earlier}
  /\ up = "down" /\ known = {} /\ told = {}
  /\ seen = [r \in RoomIds |-> {}] /\ token = [r \in RoomIds |-> 0]
  /\ reached = [r \in RoomIds |-> 0]
  /\ cache = {} /\ arriving = {} /\ program = << >>
  /\ handled = [r \in RoomIds |-> << >>] /\ since = 0
  /\ skipped = [r \in RoomIds |-> 0] /\ errors = 0 /\ crashes = 0 /\ trouble = {}

Next ==
  \/ Step \/ StepFails \/ Sync \/ Start \/ Run \/ Crash
  \/ \E r \in RoomIds :
       \/ HandleMessage(r) \/ HandleInvite(r) \/ AcceptPending(r)
       \/ Invite(r) \/ \E m \in Messages[r] : Send(r, m)

Spec == Init /\ [][Next]_vars

----------------------------------------------------------------------------
(* Properties *)

\* Of the first n entries, those of a kind in `yes` with no later one of the kind `no`
\* of the same room.
OnRecord(n, yes, no) ==
  {i \in 1 .. n : /\ log[i].action \in yes
                  /\ ~\E j \in i + 1 .. n : /\ log[j].action = no
                                            /\ log[j].room = log[i].room
                                            /\ log[j].arg = log[i].arg}

\* The rooms that the first n entries activate or discover, and do not deactivate.
ActiveOnRecord(n) ==
  {log[i].room : i \in OnRecord(n, {"room_activated", "auto_discovered"}, "room_deactivated")}

\* The words that they ban, and do not ban anew or remove.
BannedOnRecord(n) ==
  {log[i].arg : i \in {j \in 1 .. n : log[j].action = "banned_word_added" /\
     ~\E k \in j + 1 .. n : /\ log[k].action \in {"banned_word_added", "banned_word_removed"}
                           /\ log[k].arg.word = log[j].arg.word}}

Moderated == {k \in DOMAIN log : log[k].action = "auto_moderation"}

\* The variables keep their types; a word is banned in one way at a time.
TypeOK ==
  /\ DOMAIN timeline = RoomIds /\ (\A r \in RoomIds : timeline[r] \in Seq(Messages[r]))
  /\ member \subseteq RoomIds
  /\ invited \subseteq RoomIds \ member
  /\ DOMAIN pins = RoomIds /\ DOMAIN seen = RoomIds
  /\ active \subseteq RoomIds
  /\ words \subseteq Bans /\ cache \subseteq Bans /\ Keyed(words) /\ Keyed(cache)
  /\ up \in {"down", "starting", "running"}
  /\ known \subseteq member /\ told \subseteq RoomIds
  /\ \A r \in RoomIds : token[r] \in 0 .. Len(timeline[r])
  /\ (\A r \in RoomIds : reached[r] \in 0 .. token[r]) /\ arriving \subseteq RoomIds
  /\ \A k \in DOMAIN program : program[k].room \in RoomIds
  /\ \A r \in RoomIds : skipped[r] \in 0 .. token[r]
  /\ since \in 0 .. Len(log) /\ crashes \in 0 .. MaxCrashes /\ errors \in 0 .. MaxErrors

\* Between two handlers the tables are what the audit log says: the rooms activated
\* or discovered and not deactivated since, the words as they were added last and not
\* removed since; and the moderated messages are those on record, each one in a room
\* that was active on record then, for the first of the words on record then.
\* (dispatch_command, discovery, run_auto_moderation.)  The exceptions are an append
\* that failed and all that the error or the end of a handler kept from the log.
TablesFollowLog ==
  program = << >> /\ trouble \cap {"crash", "append", "note"} = {} =>
    /\ active = ActiveOnRecord(Len(log))
    /\ "refresh" \notin trouble =>
         /\ words = BannedOnRecord(Len(log))
         /\ \A k \in Moderated :
              LET i == log[k].arg[1]
                  r == log[k].room
                  hits == Hits(BannedOnRecord(k - 1), timeline[r][i])
              IN /\ r \in ActiveOnRecord(k - 1)
                 /\ log[k].arg[2] \in hits /\ \A b \in hits : log[k].arg[2].word <= b.word
    /\ "moderate" \notin trouble =>
         {<<a[2], a[3]>> : a \in {b \in acted : b[1] = "moderate"}}
           = {<<log[k].room, log[k].arg>> : k \in Moderated}

\* The pinned events are those that the log says are pinned, if nothing failed and
\* no pin command was handled before the change of an earlier one came back with a
\* sync (apply_pin reads the list from the store).
PinsFollowLog ==
  program = << >> /\ trouble \cap {"stale", "crash", "append", "pin", "unpin"} = {} =>
    \A r \in RoomIds :
      pins[r] = {log[i].arg : i \in {j \in OnRecord(Len(log), {"event_pinned"}, "event_unpinned") :
                                        log[j].room = r}}

\* Between two handlers messages are matched against the words of the table: every
\* command on words, also one whose audit append fails, refreshes the cache, and so
\* does a restart.  Only a refresh that failed leaves it behind.
CacheFollowsTable ==
  up # "down" /\ program = << >> /\ "behind" \notin trouble => cache = words

\* No message is handled twice or out of its order, however often the bot is
\* restarted; a start whose initial sync failed is the exception (run).
HandledInOrder ==
  "unprimed" \notin trouble =>
    \A r \in RoomIds : \A i, j \in DOMAIN handled[r] : i < j => handled[r][i] < handled[r][j]

\* A running bot moderates each room it found joined at the start and whose alias
\* matches, unless somebody has deactivated the room since the start or an error
\* ended the discovery (auto_discover).
DiscoveredAtStart ==
  up = "running" /\ program = << >> /\ trouble \cap {"discover", "append"} = {} =>
    \A r \in known \cap Matching :
      r \in active \/ \E i \in since + 1 .. Len(log) :
                         log[i].action = "room_deactivated" /\ log[i].room = r

\* No message is lost on the way to its handler, whatever the handlers of earlier
\* messages ran into (the handlers of run log their errors): of those that came after
\* the start each is handled or about to be.  A sync that found more messages in a
\* room than a response carries is the exception.
NothingDropped ==
  up = "running" /\ "cut" \notin trouble =>
    \A r \in RoomIds : \A i \in skipped[r] + 1 .. token[r] :
      i \in Range(handled[r]) \/ i > reached[r]
=============================================================================
