------------------------------- MODULE Mute -------------------------------
(***************************************************************************)
(* Mutes of the moderation bot in one room (mute.rs, handle_mute and       *)
(* handle_unmute of handler.rs, find_open_mutes of audit.rs, the recovery  *)
(* of main.rs).                                                            *)
(*                                                                         *)
(* The main task of the bot recovers the open mutes and then runs the sync *)
(* loop, which awaits the handler of one command at a time; each mute has  *)
(* a timer task of its own.  Every power-level write sends the whole map   *)
(* of the room, taken from the client's cache, which only a sync           *)
(* refreshes.  A timer may read the cache, be overtaken by commands, syncs *)
(* and other timers, and send what it read.  The main task's read and      *)
(* write are one step: no sync comes between them, and whatever timers     *)
(* write in between may as well have come before, and what they log after. *)
(*                                                                         *)
(* There is no clock: `expired` holds the mutes whose expires_at has       *)
(* passed.  A mute's id is its position in the audit log.                  *)
(*                                                                         *)
(* An operator Mut... is a seeded error of the operator that follows it.   *)
(***************************************************************************)
EXTENDS Integers, Sequences, FiniteSetsExt, Functions

CONSTANTS
  Users,
  Original,    \* the power level of each user before any command
  Faults,      \* what may go wrong: "crash", "stop", "matrix", "database"
  MaxCommands, \* bound: mute and unmute commands given
  MaxCrashes,  \* bound: crashes and stops
  MaxBoth      \* bound: commands, crashes and stops together

ASSUME LevelAssumption == Original \in [Users -> Nat]
ASSUME FaultAssumption == Faults \subseteq {"crash", "stop", "matrix", "database"}
ASSUME BoundAssumption == MaxCommands \in Nat /\ MaxCrashes \in Nat /\ MaxBoth \in Nat

VARIABLES
  level,    \* m.room.power_levels at the homeserver
  cache,    \* the same map in the client's store
  log,      \* the user_muted and user_unmuted entries of the audit log
  expired,  \* the mutes whose expires_at has passed
  up,       \* the bot: down, recovering, running, or blind: running after a
            \* recovery that could not read the log
  task,     \* the main task: idle, or the entry it is about to append
  timers,   \* auto-unmute tasks: asleep, about to send the map that they fetched,
            \* or about to append their entry
  fetched,  \* the map that each of them has read from the cache
  todo,     \* the open mutes recovery has yet to handle, and whether overdue
  commands, crashes,
  trouble   \* history: a call has failed, or something else has happened that the code
            \* does not reckon with

vars == <<level, cache, log, expired, up, task, timers, fetched, todo, commands, crashes,
          trouble>>

MUTED_POWER_LEVEL == -1

Entries == [action : {"user_muted", "user_unmuted"}, user : Users, level : Int]
Muted(u, previous) == [action |-> "user_muted", user |-> u, level |-> previous]
Unmuted(u, restored) == [action |-> "user_unmuted", user |-> u, level |-> restored]
Idle == [action |-> "none"]
Nothing == [m \in {} |-> FALSE]

\* m gets a value; m is done with.
With(m, x, f) == [t \in DOMAIN f \cup {m} |-> IF t = m THEN x ELSE f[t]]
Without(m, f) == Restrict(f, DOMAIN f \ {m})

Mutes == {m \in DOMAIN log : log[m].action = "user_muted"}

\* Without WHERE action = 'user_muted'.
MutEveryRow ==
  {m \in DOMAIN log : ~\E i \in DOMAIN log :
      i > m /\ log[i].action = "user_unmuted" /\ log[i].user = log[m].user}

\* find_open_mutes: no user_unmuted entry of the same user has a larger id.
OpenMutes ==
  {m \in Mutes : ~\E i \in DOMAIN log :
      i > m /\ log[i].action = "user_unmuted" /\ log[i].user = log[m].user}

OpenOf(u) == {m \in OpenMutes : log[m].user = u}

----------------------------------------------------------------------------
Init ==
  /\ level = Original /\ cache = Original
  /\ log = << >> /\ expired = {}
  /\ up = "running" /\ task = Idle /\ timers = Nothing /\ fetched = Nothing /\ todo = Nothing
  /\ commands = 0 /\ crashes = 0 /\ trouble = {}

Fails(kind) == kind \in Faults

\* Room::update_power_levels: a map read from the cache with one entry changed.
Written(map, u, l) == [map EXCEPT ![u] = l]

\* The write succeeds.
Write(map, u, l) == level' = Written(map, u, l)

\* The write reports an error; the homeserver may have applied it nevertheless.
WriteFails(map, u, l) == Fails("matrix") /\ level' \in {level, Written(map, u, l)}

\* The write takes back what another has changed since the map was synced.
Stale(map) == IF map = level THEN {} ELSE {"odd"}

Serving == up \in {"running", "blind"} /\ task = Idle

\* A timer of the user has restored its level but not yet said so in the log.
Raced(u) ==
  IF \E m \in DOMAIN timers : timers[m] = "restored" /\ log[m].user = u THEN {"odd"} ELSE {}

Within == commands + crashes < MaxBoth

Command == Serving /\ Within /\ commands < MaxCommands /\ commands' = commands + 1

Repeated(u) == IF OpenOf(u) = {} THEN {} ELSE {"odd"}

\* handle_mute, apply_mute: the current level is read from the cache.
MuteUser(u) ==
  /\ Command
  /\ \/ /\ Write(cache, u, MUTED_POWER_LEVEL)
        /\ task' = Muted(u, cache[u])
        /\ trouble' = trouble \cup Stale(cache) \cup Raced(u) \cup Repeated(u)
     \/ /\ WriteFails(cache, u, MUTED_POWER_LEVEL)
        /\ task' = Idle
        /\ trouble' = trouble \cup {"failure"}
  /\ UNCHANGED <<cache, log, expired, up, timers, fetched, todo, crashes>>

\* The lookup finds no open mute.
MutPreviousLevel(u) == 0

\* lookup_previous_pl: the latest open mute of the user, else 0.
PreviousLevel(u) == IF OpenOf(u) = {} THEN 0 ELSE log[Max(OpenOf(u))].level

Unfounded(u) == IF OpenOf(u) = {} THEN {"odd"} ELSE {}

\* handle_unmute: a failed lookup counts as no open mute.  The user's timer is
\* not cancelled.
UnmuteUser(u) ==
  /\ Command
  /\ \E lost \in {FALSE, Fails("database")} :
     LET l == IF lost THEN 0 ELSE PreviousLevel(u)
         odd == Stale(cache) \cup Raced(u) \cup Unfounded(u) \cup (IF lost THEN {"failure"} ELSE {})
     IN \/ Write(cache, u, l) /\ task' = Unmuted(u, l) /\ trouble' = trouble \cup odd
        \/ WriteFails(cache, u, l) /\ task' = Idle /\ trouble' = trouble \cup odd \cup {"failure"}
  /\ UNCHANGED <<cache, log, expired, up, timers, fetched, todo, crashes>>

\* spawn_auto_unmute follows the append of a mute.
Started ==
  IF task.action = "user_muted" THEN With(Len(log) + 1, "asleep", timers)
  ELSE timers

\* The audit entry of a command or of an overdue unmute.
AppendEntry ==
  /\ task # Idle
  /\ task' = Idle
  /\ \/ /\ log' = Append(log, task)
        /\ timers' = Started
        /\ UNCHANGED trouble
     \/ /\ Fails("database")
        /\ trouble' = trouble \cup {"failure"}
        /\ UNCHANGED <<log, timers>>
  /\ UNCHANGED <<level, cache, expired, up, fetched, todo, commands, crashes>>

\* The sleep ends, no earlier than expires_at: run_auto_unmute reads the cache.
TimerReads(m) ==
  /\ m \in DOMAIN timers /\ timers[m] = "asleep" /\ m \in expired
  /\ timers' = [timers EXCEPT ![m] = "fetched"]
  /\ fetched' = With(m, cache, fetched)
  /\ UNCHANGED <<level, cache, log, expired, up, task, todo, commands, crashes, trouble>>

\* A command has muted the user and has not yet said so in the log.
Crossed(u) == IF task.action = "user_muted" /\ task.user = u THEN {"odd"} ELSE {}

\* The map reaches the homeserver, whatever has been written there since; or not.
TimerWrites(m) ==
  /\ m \in DOMAIN timers /\ timers[m] = "fetched"
  /\ \/ /\ Write(fetched[m], log[m].user, log[m].level)
        /\ timers' = [timers EXCEPT ![m] = "restored"]
        /\ trouble' = trouble \cup Stale(fetched[m]) \cup Crossed(log[m].user)
     \/ /\ WriteFails(fetched[m], log[m].user, log[m].level)
        /\ timers' = Without(m, timers)
        /\ trouble' = trouble \cup {"failure"}
  /\ fetched' = Without(m, fetched)
  /\ UNCHANGED <<cache, log, expired, up, task, todo, commands, crashes>>

\* The audit entry of an auto-unmute.
TimerAppends(m) ==
  /\ m \in DOMAIN timers /\ timers[m] = "restored"
  /\ timers' = Without(m, timers)
  /\ \/ log' = Append(log, Unmuted(log[m].user, log[m].level)) /\ UNCHANGED trouble
     \/ Fails("database") /\ trouble' = trouble \cup {"failure"} /\ UNCHANGED log
  /\ UNCHANGED <<level, cache, expired, up, task, fetched, todo, commands, crashes>>

\* The duration of a mute has passed.
Expire(m) ==
  /\ m \in Mutes \ expired
  /\ expired' = expired \cup {m}
  /\ UNCHANGED <<level, cache, log, up, task, timers, fetched, todo, commands, crashes, trouble>>

\* A sync response: between two handlers, so never while one is awaited.
Sync ==
  /\ Serving
  /\ cache # level
  /\ cache' = level
  /\ UNCHANGED <<level, log, expired, up, task, timers, fetched, todo, commands, crashes, trouble>>

----------------------------------------------------------------------------
Quiet == task = Idle /\ todo = Nothing /\ \A m \in DOMAIN timers : timers[m] = "asleep"

\* The process ends, anywhere ("crash") or with nothing under way ("stop").
Crash ==
  /\ up # "down" /\ crashes < MaxCrashes /\ Within
  /\ Fails("crash") \/ (Fails("stop") /\ Quiet)
  /\ up' = "down" /\ task' = Idle /\ timers' = Nothing /\ fetched' = Nothing /\ todo' = Nothing
  /\ crashes' = crashes + 1
  /\ trouble' = IF Quiet THEN trouble ELSE trouble \cup {"odd"}
  /\ UNCHANGED <<level, cache, log, expired, commands>>

\* Only overdue mutes are recovered.
MutOverdueOnly == [m \in OpenMutes \cap expired |-> TRUE]

\* Mutes that expired while the bot was down are not recovered.
MutRecoverable == [m \in OpenMutes \ expired |-> FALSE]

\* The rows of find_open_mutes, with the `now` of schedule_recovery_tasks.
Recoverable == [m \in OpenMutes |-> m \in expired]

\* main: a first sync fills the store, then the open mutes are read.
Start ==
  /\ up = "down"
  /\ cache' = level
  /\ \/ up' = "recovering" /\ todo' = Recoverable /\ UNCHANGED trouble
     \/ /\ Fails("database")
        /\ up' = "blind" /\ trouble' = trouble \cup {"failure"} /\ UNCHANGED todo
  /\ UNCHANGED <<level, log, expired, task, timers, fetched, commands, crashes>>

\* The next open mute: overdue, it is undone at once; else its timer starts.
Recover ==
  /\ up = "recovering" /\ task = Idle
  /\ \E m \in DOMAIN todo :
     /\ \A later \in DOMAIN todo : m <= later
     /\ todo' = Without(m, todo)
     /\ \/ /\ ~todo[m]
           /\ timers' = With(m, "asleep", timers)
           /\ UNCHANGED <<level, task, trouble>>
        \/ /\ todo[m]
           /\ Write(cache, log[m].user, log[m].level)
           /\ task' = Unmuted(log[m].user, log[m].level)
           /\ trouble' = trouble \cup Stale(cache)
           /\ UNCHANGED timers
        \/ /\ todo[m]
           /\ WriteFails(cache, log[m].user, log[m].level)
           /\ trouble' = trouble \cup {"failure"}
           /\ UNCHANGED <<task, timers>>
  /\ UNCHANGED <<cache, log, expired, up, fetched, commands, crashes>>

\* handler::run: another sync, then the loop.
Recovered ==
  /\ up = "recovering" /\ task = Idle /\ todo = Nothing
  /\ up' = "running"
  /\ cache' = level
  /\ UNCHANGED <<level, log, expired, task, timers, fetched, todo, commands, crashes, trouble>>

\* Bound: the entries of the log, one for each command and for each time that a
\* mute is undone by its timer or by a recovery.
MuteIds == 1 .. MaxCommands * (MaxCrashes + 2)

Next ==
  \/ \E u \in Users : MuteUser(u) \/ UnmuteUser(u)
  \/ \E m \in MuteIds : TimerReads(m) \/ TimerWrites(m) \/ TimerAppends(m) \/ Expire(m)
  \/ AppendEntry \/ Sync \/ Crash \/ Start \/ Recover \/ Recovered

Spec == Init /\ [][Next]_vars

\* While timers can go on or run out, one of them does in the end: tokio polls its
\* tasks, and time passes.  The main task goes on, and systemd starts a bot that
\* has failed (Restart=on-failure).  Nobody has to give a command.
Fairness ==
  /\ WF_vars(\E m \in MuteIds :
              TimerReads(m) \/ TimerWrites(m) \/ TimerAppends(m) \/ Expire(m))
  /\ WF_vars(AppendEntry) /\ WF_vars(Start) /\ WF_vars(Recover) /\ WF_vars(Recovered)

FairSpec == Spec /\ Fairness

----------------------------------------------------------------------------
\* The variables keep their types.
TypeOK ==
  /\ level \in [Users -> Int] /\ cache \in [Users -> Int]
  /\ log \in Seq(Entries)
  /\ expired \subseteq Mutes
  /\ up \in {"down", "recovering", "running", "blind"}
  /\ task \in Entries \cup {Idle}
  /\ timers \in [DOMAIN timers -> {"asleep", "fetched", "restored"}]
  /\ DOMAIN timers \subseteq Mutes
  /\ fetched \in [DOMAIN fetched -> [Users -> Int]]
  /\ \A m \in DOMAIN timers : timers[m] = "fetched" => m \in DOMAIN fetched
  /\ todo \in [DOMAIN todo -> BOOLEAN] /\ DOMAIN todo \subseteq Mutes
  /\ commands \in 0 .. MaxCommands /\ crashes \in 0 .. MaxCrashes
  /\ trouble \subseteq {"failure", "odd"}

\* While the bot serves commands, every recorded mute that is still open and has
\* time left has its timer (spawn_auto_unmute, schedule_recovery_tasks), however
\* often the bot was restarted.  A recovery that cannot read the log is the
\* exception.
TimedWhileRunning ==
  up = "running" => \A m \in OpenMutes \ expired : m \in DOMAIN timers

\* If each command is apt (nobody is muted twice, nobody unmuted who was not
\* muted, nobody while his timer is between its write and its entry), no write sends
\* a map that is stale when it arrives, no timer releases a user whose mute is still
\* to be logged, nothing fails and no crash comes between a write and its entry,
\* then the levels are what the log says, whatever timers have fetched: a user with
\* an open mute is muted, every other has the level of before.
LevelsFollowLog ==
  trouble = {} /\ task = Idle /\ (\A m \in DOMAIN timers : timers[m] # "restored") =>
    \A u \in Users : level[u] = IF OpenOf(u) = {} THEN Original[u] ELSE MUTED_POWER_LEVEL

\* Every recorded mute ends (run_auto_unmute and, after a restart, the recovery),
\* unless a homeserver or database call fails: none of these is retried.  (The
\* entry that ends one mute of a user ends all the earlier ones.)
RecordedMuteEnds ==
  \A u \in Users : OpenOf(u) # {} ~> OpenOf(u) = {} \/ "failure" \in trouble

\* "the restore step can survive a bot restart" (mute.rs): a recovery undoes
\* mutes and mutes nobody, when all went well before the restart.
RecoveryMutesNobody ==
  [][up = "recovering" /\ trouble = {} => \A u \in Users :
        level'[u] = MUTED_POWER_LEVEL => level[u] = MUTED_POWER_LEVEL]_vars
=============================================================================
