------------------------------- MODULE FaqReload -------------------------------
(***************************************************************************)
(* The FAQ list of the FAQ bot: loaded at the start (main.rs), reloaded    *)
(* when the file changes (reload.rs), swapped whole into the store that    *)
(* the message handler reads.                                              *)
(*                                                                         *)
(* A change of the file is reported by inotify, taken by the thread of the *)
(* watcher, sent through a bounded channel and consumed by one task, which *)
(* waits a little and then reads the file.  The watch is on the inode:     *)
(* when the file is replaced or removed, it stays with the old one.        *)
(*                                                                         *)
(* An operator Mut... is a seeded error of the operator that follows it.   *)
(***************************************************************************)
EXTENDS Integers, Sequences, SequencesExt

CONSTANTS
  Lists,        \* FAQ lists: what a file that parses holds
  Broken,       \* any content that does not parse, half-written ones among them
  Missing,      \* no file at the path
  ChannelSize,  \* capacity of the channel (64)
  Faults,       \* what may go wrong: "crash", "watch", "notify", "read"
  MaxSaves,     \* bound: changes of the file
  MaxCrashes    \* bound: ends of the process

ASSUME ContentAssumption == Broken \notin Lists /\ Missing \notin Lists /\ Broken # Missing
ASSUME BoundAssumption == ChannelSize \in Nat \ {0} /\ MaxSaves \in Nat /\ MaxCrashes \in Nat

VARIABLES
  file,      \* what is at the path
  up,        \* the bot: down, loaded: the first list is read, running
  watching,  \* the watch is on the file at the path
  events,    \* inotify events that the watcher's thread has not taken
  channel,   \* the channel to the reload task
  task,      \* the reload task: waiting, debouncing, or with what it read
  served,    \* the list in the store
  unseen,    \* history: the last change of the file happened without a watch, or nothing
             \* is left of it since an event was dropped or a load could not read
  saves, crashes

fileVars == <<file, up, watching, events, channel, task, served, unseen, saves, crashes>>

Contents == Lists \cup {Broken, Missing}
Kinds == {"Modify", "Remove", "Access"}

Waiting == [at |-> "waiting"]
Debouncing == [at |-> "debouncing"]
Loaded(c) == [at |-> "loaded", content |-> c]

FileInit ==
  /\ file \in Contents \ {Missing}
  /\ up = "down" /\ watching = FALSE
  /\ events = << >> /\ channel = << >> /\ task = Waiting
  /\ served = Missing
  /\ unseen = FALSE
  /\ saves = 0 /\ crashes = 0

----------------------------------------------------------------------------
(* The file, the watch and the events they cause: inotify and notify.      *)

\* An event like the last one that is still unread is not reported again.
Report(kind, q) == IF q # << >> /\ Last(q) = kind THEN q ELSE Append(q, kind)

Change(c) ==
  /\ saves < MaxSaves /\ saves' = saves + 1
  /\ file' = c
  /\ unseen' = ~watching
  /\ UNCHANGED <<up, channel, task, served, crashes>>

\* A write in place, one of several perhaps: the content may be cut off.
Write(c) ==
  /\ file # Missing /\ c \in Contents \ {Missing}
  /\ Change(c)
  /\ events' = IF watching THEN Report("Modify", events) ELSE events
  /\ UNCHANGED watching

\* Another file is renamed to the path, or the file is removed: the watched inode
\* loses its link (a change of metadata, reported as Modify) and is gone.
Replace(c) ==
  /\ file # Missing
  /\ Change(c)
  /\ events' = IF watching THEN Report("Remove", Report("Modify", events)) ELSE events
  /\ watching' = FALSE

\* A file appears at the path.
Create(c) ==
  /\ file = Missing /\ c # Missing
  /\ Change(c)
  /\ UNCHANGED <<watching, events>>

----------------------------------------------------------------------------
(* The bot.                                                                *)

\* main loads the list first; if that fails, the process ends.
Start ==
  /\ up = "down"
  /\ file \in Lists
  /\ up' = "loaded"
  /\ served' = file
  /\ unseen' = FALSE
  /\ UNCHANGED <<file, watching, events, channel, task, saves, crashes>>

\* spawn_watcher; if the watch cannot be set up, the bot runs without one.
Watch ==
  /\ up = "loaded"
  /\ up' = "running"
  /\ \/ watching' = (file # Missing)
     \/ "watch" \in Faults /\ watching' = FALSE
  /\ UNCHANGED <<file, events, channel, task, served, unseen, saves, crashes>>

\* Every event makes the task load, those of its own reads too.
MutTriggers(kind) == kind # "Remove"

\* EventKind::Modify or Create.
Triggers(kind) == kind = "Modify"

\* A load is still to come.
HasTrigger(q) == \E i \in 1 .. Len(q) : Triggers(q[i])
Pending == HasTrigger(events) \/ HasTrigger(channel) \/ task = Debouncing

\* The watcher's thread: blocking_send waits while the channel is full.  When notify
\* reports an error in place of the event, nothing is sent.
Forward ==
  /\ events # << >>
  /\ events' = Tail(events)
  /\ UNCHANGED <<file, up, watching, task, served, saves, crashes>>
  /\ \/ /\ Len(channel) < ChannelSize
        /\ channel' = Append(channel, Head(events))
        /\ UNCHANGED unseen
     \/ /\ "notify" \in Faults
        /\ UNCHANGED channel
        /\ unseen' = (unseen \/ (Triggers(Head(events)) /\ ~Pending'))

\* rx.recv; an event of another kind is skipped.
Receive ==
  /\ up = "running" /\ task = Waiting /\ channel # << >>
  /\ channel' = Tail(channel)
  /\ task' = IF Triggers(Head(channel)) THEN Debouncing ELSE Waiting
  /\ UNCHANGED <<file, up, watching, events, served, unseen, saves, crashes>>

\* The sleep is over and load reads the file; the watcher may report the access.  When
\* the read fails, it is as if there were no file.
Read ==
  /\ task = Debouncing
  /\ UNCHANGED <<file, up, watching, channel, served, saves, crashes>>
  /\ \/ /\ task' = Loaded(file)
        /\ events' \in {events} \cup IF watching THEN {Report("Access", events)} ELSE {}
        /\ UNCHANGED unseen
     \/ /\ "read" \in Faults
        /\ task' = Loaded(Missing)
        /\ UNCHANGED events
        /\ unseen' = (unseen \/ ~Pending')

\* An unreadable file empties the store.
MutStored(c) == c

\* The list is stored, or the previous one kept when the file could not be read
\* or parsed.
Stored(c) == IF c \in Lists THEN c ELSE served

\* What came during the load is taken for its echo.
MutStore ==
  /\ task.at = "loaded"
  /\ task' = Waiting
  /\ served' = Stored(task.content)
  /\ channel' = << >>
  /\ UNCHANGED <<file, up, watching, events, unseen, saves, crashes>>

Store ==
  /\ task.at = "loaded"
  /\ task' = Waiting
  /\ served' = Stored(task.content)
  /\ UNCHANGED <<file, up, watching, events, channel, unseen, saves, crashes>>

\* The process ends, of itself or because the sync loop failed.
Crash ==
  /\ "crash" \in Faults /\ up # "down" /\ crashes < MaxCrashes
  /\ up' = "down" /\ watching' = FALSE
  /\ events' = << >> /\ channel' = << >> /\ task' = Waiting
  /\ served' = Missing
  /\ crashes' = crashes + 1
  /\ UNCHANGED <<file, unseen, saves>>

Reload == Forward \/ Receive \/ Read \/ Store

FileNext ==
  \/ \E c \in Contents : Write(c) \/ Replace(c) \/ Create(c)
  \/ Start \/ Watch \/ Reload \/ Crash

\* The reload task, the watcher's thread and main are run when they can go on; no
\* one has to start a bot or save a file.
FileFairness ==
  WF_fileVars(Watch) /\ WF_fileVars(Forward) /\ WF_fileVars(Receive) /\ WF_fileVars(Read)
    /\ WF_fileVars(Store)

FileSpec == FileInit /\ [][FileNext]_fileVars /\ FileFairness

----------------------------------------------------------------------------
(* Properties                                                              *)

\* The variables keep their types; a bot that is up serves a list.
FileTypeOK ==
  /\ file \in Contents
  /\ up \in {"down", "loaded", "running"} /\ watching \in BOOLEAN /\ unseen \in BOOLEAN
  /\ events \in Seq(Kinds) /\ channel \in Seq(Kinds) /\ Len(channel) <= ChannelSize
  /\ task \in {Waiting, Debouncing} \cup {Loaded(c) : c \in Contents}
  /\ served \in Lists \cup {Missing} /\ (up # "down" => served \in Lists)
  /\ saves \in 0 .. MaxSaves /\ crashes \in 0 .. MaxCrashes

\* Nothing of the last change is still under way.
Settled == up = "running" /\ task = Waiting /\ ~Pending

\* "laedt der Bot die Datei bei Aenderungen automatisch neu" (README.md of the bot):
\* when nothing is under way, a file that parses is the list that is served, in
\* whatever order changes, reads and stores came.  The exceptions are a last change
\* that no watch saw, before the watch began or after the file was replaced, and one
\* whose last event was dropped or whose last load could not read the file: the file
\* is not looked at again until it changes.
SettledIsCurrent == Settled /\ file \in Lists /\ ~unseen => served = file

\* A file that stays is served in the end: no change is lost between the queues,
\* and the task's own reads do not keep it busy for ever.
ServedInTheEnd ==
  \A l \in Lists :
    <>[](file = l /\ up = "running" /\ ~unseen) => <>[](served = l /\ task = Waiting)
=============================================================================
