----------------------------- MODULE MuteProofs -----------------------------
(***************************************************************************)
(* Theorems about Mute, for any users, faults and bounds: the types, and   *)
(* that a serving bot has a timer for every open mute with time left.      *)
(***************************************************************************)
EXTENDS Mute, WellFoundedInduction, TLAPS

\* The inductive invariant.  While the recovery is at work, the mutes without a
\* timer are those it still has before it; a timer that has fired, and a mute
\* recovered as overdue, have expired.
Covered ==
  /\ TimedWhileRunning
  /\ up = "recovering" => \A m \in OpenMutes \ expired : m \in DOMAIN timers \cup DOMAIN todo

Due ==
  /\ \A m \in DOMAIN timers : timers[m] # "asleep" => m \in expired
  /\ \A m \in DOMAIN todo : todo[m] => m \in expired

IInv == TypeOK /\ Covered /\ Due

-----------------------------------------------------------------------------
\* An entry appended to the log is a new mute or closes mutes; it opens none.
LEMMA AppendOpens ==
  ASSUME log \in Seq(Entries), NEW e \in Entries, log' = Append(log, e)
  PROVE  /\ Mutes \subseteq Mutes'
         /\ e.action = "user_muted" => Len(log) + 1 \in Mutes'
         /\ OpenMutes' \subseteq OpenMutes \cup
              (IF e.action = "user_muted" THEN {Len(log) + 1} ELSE {})
<1>1. /\ Len(log) \in Nat /\ DOMAIN log = 1 .. Len(log)
      /\ DOMAIN log' = 1 .. Len(log) + 1
      /\ log'[Len(log) + 1] = e
      /\ \A i \in DOMAIN log : log'[i] = log[i]
  OBVIOUS
<1>2. Mutes \subseteq Mutes' /\ (e.action = "user_muted" => Len(log) + 1 \in Mutes')
  BY <1>1 DEF Mutes
<1>3. ASSUME NEW m \in OpenMutes', m # Len(log) + 1
      PROVE  m \in OpenMutes
  BY <1>1, <1>3 DEF OpenMutes, Mutes
<1>4. ASSUME Len(log) + 1 \in OpenMutes'
      PROVE  e.action = "user_muted"
  BY <1>1, <1>4 DEF OpenMutes, Mutes
<1> QED
  BY <1>2, <1>3, <1>4

\* What the log does not change, it leaves as it was.
LEMMA SameLog ==
  ASSUME UNCHANGED log
  PROVE  Mutes' = Mutes /\ OpenMutes' = OpenMutes
BY DEF Mutes, OpenMutes

LEMMA OpenAreMutes == OpenMutes \subseteq Mutes
BY DEF OpenMutes

\* Every write of the bot keeps the levels integers, applied or not.
LEMMA WriteKeepsType ==
  ASSUME TypeOK, NEW map \in [Users -> Int], NEW u \in Users, NEW l \in Int,
         Write(map, u, l) \/ WriteFails(map, u, l)
  PROVE  level' \in [Users -> Int]
BY DEF TypeOK, Write, WriteFails, Written

\* What a timer has fetched is a map of levels.
LEMMA FetchedMap ==
  ASSUME TypeOK, NEW m \in DOMAIN timers, timers[m] = "fetched"
  PROVE  m \in DOMAIN fetched /\ fetched[m] \in [Users -> Int]
BY DEF TypeOK

\* A mute in the log names a user and a level.
LEMMA MuteEntry ==
  ASSUME TypeOK, NEW m \in Mutes
  PROVE  log[m] \in Entries /\ log[m].user \in Users /\ log[m].level \in Int
<1>1. log \in Seq(Entries) /\ m \in DOMAIN log
  BY DEF TypeOK, Mutes
<1>2. log[m] \in Entries
  BY <1>1
<1> QED
  BY <1>2 DEF Entries

\* A set of positions of the log has a latest one.
LEMMA LatestExists ==
  ASSUME NEW n \in Nat, NEW S \in SUBSET (1 .. n), S # {}
  PROVE  Max(S) \in S
<1> DEFINE T == {n - m : m \in S}
<1>1. T \subseteq Nat /\ T # {}
  <2>1. \A m \in S : n - m \in Nat
    OBVIOUS
  <2>2. PICK m \in S : TRUE
    OBVIOUS
  <2>3. n - m \in T
    BY <2>2
  <2> QED
    BY <2>1, <2>3, Zenon
<1>2. PICK t \in T : \A y \in T : ~ (<<y, t>> \in OpToRel(<, Nat))
  BY <1>1, NatLessThanWellFounded, WFMin
<1>3. PICK m \in S : t = n - m
  BY <1>2
<1>4. ASSUME NEW k \in S
      PROVE  m >= k
  <2>1. n - k \in T /\ n - k \in Nat /\ t \in Nat
    BY <1>1
  <2>2. ~ (n - k < t)
    BY <2>1, <1>2 DEF OpToRel
  <2>3. m \in Int /\ k \in Int
    OBVIOUS
  <2> HIDE DEF T
  <2> QED
    BY <2>1, <2>2, <2>3, <1>3
<1> QED
  BY <1>4 DEF Max

\* What is looked up for an unmute is a level.
LEMMA PreviousIsLevel ==
  ASSUME TypeOK, NEW u \in Users
  PROVE  PreviousLevel(u) \in Int
<1>1. CASE OpenOf(u) = {}
  BY <1>1 DEF PreviousLevel
<1>2. CASE OpenOf(u) # {}
  <2>1. Len(log) \in Nat /\ OpenOf(u) \subseteq 1 .. Len(log)
    <3>1. Len(log) \in Nat /\ DOMAIN log = 1 .. Len(log)
      <4>1. log \in Seq(Entries)
        BY DEF TypeOK
      <4> QED
        BY <4>1
    <3>2. OpenOf(u) \subseteq DOMAIN log
      BY Zenon DEF OpenOf, OpenMutes, Mutes
    <3> QED
      BY <3>1, <3>2
  <2>2. Max(OpenOf(u)) \in Mutes
    BY <1>2, <2>1, LatestExists DEF OpenOf, OpenMutes
  <2> QED
    BY <1>2, <2>2, MuteEntry DEF PreviousLevel
<1> QED
  BY <1>1, <1>2

-----------------------------------------------------------------------------
LEMMA InitInvariant == Init => IInv
BY LevelAssumption, BoundAssumption DEF Init, IInv, TypeOK, Covered, TimedWhileRunning, Due, Mutes, OpenMutes,
     Nothing, Idle, Entries

\* A command writes a level, and changes neither log nor timers.
LEMMA CommandStep ==
  ASSUME IInv, NEW u \in Users, MuteUser(u) \/ UnmuteUser(u)
  PROVE  IInv'
<1> USE DEF IInv
<1>0. /\ level' \in [Users -> Int] /\ task' \in Entries \cup {Idle}
      /\ commands' \in 0 .. MaxCommands
      /\ trouble' \subseteq {"failure", "odd"}
      /\ UNCHANGED <<cache, log, expired, up, timers, fetched, todo, crashes>>
  <2>1. commands' \in 0 .. MaxCommands
    <3>1. commands < MaxCommands /\ commands' = commands + 1
      BY DEF MuteUser, UnmuteUser, Command
    <3>2. commands \in 0 .. MaxCommands
      BY DEF TypeOK
    <3> QED
      BY <3>1, <3>2, BoundAssumption
  <2>2. CASE MuteUser(u)
    <3>1. MUTED_POWER_LEVEL \in Int /\ cache[u] \in Int /\ cache \in [Users -> Int]
      <4>1. cache \in [Users -> Int]
        BY DEF TypeOK
      <4> QED
        BY <4>1 DEF MUTED_POWER_LEVEL
    <3>2. level' \in [Users -> Int]
      BY <2>2, <3>1, WriteKeepsType DEF MuteUser
    <3>3. task' \in Entries \cup {Idle}
      BY <2>2, <3>1 DEF MuteUser, Entries, Muted
    <3> QED
      BY <2>1, <2>2, <3>2, <3>3 DEF MuteUser, TypeOK, Stale, Raced, Repeated
  <2>3. CASE UnmuteUser(u)
    <3>1. PICK lost \in {FALSE, Fails("database")} :
            LET l == IF lost THEN 0 ELSE PreviousLevel(u)
                odd == Stale(cache) \cup Raced(u) \cup Unfounded(u)
                         \cup (IF lost THEN {"failure"} ELSE {})
            IN \/ Write(cache, u, l) /\ task' = Unmuted(u, l) /\ trouble' = trouble \cup odd
               \/ WriteFails(cache, u, l) /\ task' = Idle /\ trouble' = trouble \cup odd \cup {"failure"}
      BY <2>3 DEF UnmuteUser
    <3> DEFINE l == IF lost THEN 0 ELSE PreviousLevel(u)
    <3>2. l \in Int
      BY PreviousIsLevel
    <3>3. /\ Write(cache, u, l) \/ WriteFails(cache, u, l)
          /\ task' = Unmuted(u, l) \/ task' = Idle
      BY <3>1, Zenon
    <3> HIDE DEF l
    <3>4. level' \in [Users -> Int]
      <4>1. cache \in [Users -> Int]
        BY DEF TypeOK
      <4> QED
        BY <3>2, <3>3, <4>1, WriteKeepsType
    <3>5. task' \in Entries \cup {Idle}
      BY <3>2, <3>3 DEF Entries, Unmuted
    <3>6. trouble' \subseteq {"failure", "odd"}
      BY <3>1 DEF TypeOK, Stale, Raced, Unfounded
    <3> QED
      BY <2>1, <2>3, <3>4, <3>5, <3>6 DEF UnmuteUser
  <2> QED
    BY <2>2, <2>3
<1>1. Mutes' = Mutes /\ OpenMutes' = OpenMutes
  BY <1>0, SameLog
<1>2. TypeOK'
  BY <1>0, <1>1 DEF TypeOK
<1>3. Covered' /\ Due'
  BY <1>0, <1>1 DEF Covered, TimedWhileRunning, Due
<1> QED
  BY <1>2, <1>3

\* The entry of a mute comes with its timer; that of an unmute opens nothing.
LEMMA AppendStep ==
  ASSUME IInv, AppendEntry
  PROVE  IInv'
<1> USE DEF IInv
<1>1. CASE UNCHANGED <<log, timers>>
  <2>1. Mutes' = Mutes /\ OpenMutes' = OpenMutes
    BY <1>1, SameLog
  <2>2. /\ task' = Idle
        /\ trouble' \subseteq {"failure", "odd"}
        /\ UNCHANGED <<level, cache, log, timers, fetched, expired, up, todo, commands, crashes>>
    BY <1>1 DEF AppendEntry, TypeOK
  <2>3. TypeOK'
    BY <2>1, <2>2 DEF TypeOK
  <2>4. Covered' /\ Due'
    BY <2>1, <2>2 DEF Covered, TimedWhileRunning, Due
  <2> QED
    BY <2>3, <2>4
<1>2. CASE log' = Append(log, task) /\ timers' = Started /\ UNCHANGED trouble
  <2>1. /\ task \in Entries /\ log \in Seq(Entries) /\ task' = Idle
        /\ UNCHANGED <<level, cache, expired, up, fetched, todo, commands, crashes, trouble>>
    BY <1>2 DEF AppendEntry, TypeOK
  <2>2. log' \in Seq(Entries)
    BY <1>2, <2>1
  <2>3. /\ Mutes \subseteq Mutes'
        /\ task.action = "user_muted" => Len(log) + 1 \in Mutes'
        /\ OpenMutes' \subseteq OpenMutes \cup
             (IF task.action = "user_muted" THEN {Len(log) + 1} ELSE {})
    BY <1>2, <2>1, AppendOpens
  <2>4. timers \in [DOMAIN timers -> {"asleep", "fetched", "restored"}]
    BY DEF TypeOK
  <2>5. /\ timers' \in [DOMAIN timers' -> {"asleep", "fetched", "restored"}]
        /\ DOMAIN timers \subseteq DOMAIN timers' /\ DOMAIN timers' \subseteq Mutes'
        /\ task.action = "user_muted" => Len(log) + 1 \in DOMAIN timers'
        /\ \A t \in DOMAIN timers' :
             timers'[t] # "asleep" => t \in DOMAIN timers /\ timers[t] = timers'[t]
    <3>1. CASE task.action = "user_muted"
      <4>1. timers' = With(Len(log) + 1, "asleep", timers)
        BY <1>2, <3>1 DEF Started
      <4>2. /\ DOMAIN timers' = DOMAIN timers \cup {Len(log) + 1}
            /\ timers' \in [DOMAIN timers' -> {"asleep", "fetched", "restored"}]
            /\ \A t \in DOMAIN timers' :
                 timers'[t] # "asleep" => t \in DOMAIN timers /\ timers[t] = timers'[t]
        BY <2>4, <4>1 DEF With
      <4>3. DOMAIN timers \subseteq Mutes
        BY DEF TypeOK
      <4> QED
        BY <2>3, <3>1, <4>2, <4>3
    <3>2. CASE task.action # "user_muted"
      BY <1>2, <2>3, <2>4, <3>2 DEF Started, TypeOK
    <3> QED
      BY <3>1, <3>2
  <2>6. TypeOK'
    BY <2>1, <2>2, <2>3, <2>5 DEF TypeOK
  <2>7. Covered' /\ Due'
    BY <2>1, <2>3, <2>5 DEF Covered, TimedWhileRunning, Due
  <2> QED
    BY <2>6, <2>7
<1> QED
  BY <1>1, <1>2 DEF AppendEntry

\* A timer reads the cache no earlier than its mute expires.
LEMMA TimerReadsStep ==
  ASSUME IInv, NEW m \in MuteIds, TimerReads(m)
  PROVE  IInv'
<1> USE DEF IInv
<1>1. /\ m \in DOMAIN timers /\ m \in expired
      /\ timers' = [timers EXCEPT ![m] = "fetched"] /\ fetched' = With(m, cache, fetched)
      /\ UNCHANGED <<level, cache, log, expired, up, task, todo, commands, crashes, trouble>>
  BY DEF TimerReads
<1>2. Mutes' = Mutes /\ OpenMutes' = OpenMutes
  BY <1>1, SameLog
<1>3. /\ timers \in [DOMAIN timers -> {"asleep", "fetched", "restored"}]
      /\ fetched \in [DOMAIN fetched -> [Users -> Int]] /\ cache \in [Users -> Int]
  BY DEF TypeOK
<1>4. /\ timers' \in [DOMAIN timers' -> {"asleep", "fetched", "restored"}]
      /\ DOMAIN timers' = DOMAIN timers
      /\ \A t \in DOMAIN timers \ {m} : timers'[t] = timers[t]
  BY <1>1, <1>3
<1>5. /\ DOMAIN fetched' = DOMAIN fetched \cup {m}
      /\ fetched' \in [DOMAIN fetched' -> [Users -> Int]]
  BY <1>1, <1>3 DEF With
<1>6. TypeOK'
  BY <1>1, <1>2, <1>4, <1>5 DEF TypeOK
<1>7. Covered' /\ Due'
  BY <1>1, <1>2, <1>4 DEF Covered, TimedWhileRunning, Due
<1> QED
  BY <1>6, <1>7

\* A timer whose write has failed is gone.
LEMMA TimerWritesStep ==
  ASSUME IInv, NEW m \in MuteIds, TimerWrites(m)
  PROVE  IInv'
<1> USE DEF IInv
<1>1. /\ m \in DOMAIN timers /\ timers[m] = "fetched" /\ m \in expired /\ m \in Mutes
      /\ fetched' = Without(m, fetched)
      /\ UNCHANGED <<cache, log, expired, up, task, todo, commands, crashes>>
  BY DEF TimerWrites, TypeOK, Due
<1>2. level' \in [Users -> Int]
  BY <1>1, MuteEntry, FetchedMap, WriteKeepsType DEF TimerWrites
<1>3. trouble' \subseteq {"failure", "odd"}
  BY DEF TimerWrites, TypeOK, Stale, Crossed
<1>4. Mutes' = Mutes /\ OpenMutes' = OpenMutes
  BY <1>1, SameLog
<1>5. timers \in [DOMAIN timers -> {"asleep", "fetched", "restored"}]
  BY DEF TypeOK
<1>6. /\ timers' \in [DOMAIN timers' -> {"asleep", "fetched", "restored"}]
      /\ DOMAIN timers' \subseteq DOMAIN timers
      /\ DOMAIN timers \ {m} \subseteq DOMAIN timers'
      /\ \A t \in DOMAIN timers' : t = m \/ timers'[t] = timers[t]
  <2>1. CASE timers' = [timers EXCEPT ![m] = "restored"]
    BY <1>1, <1>5, <2>1
  <2>2. CASE timers' = Without(m, timers)
    <3>1. /\ DOMAIN timers' = DOMAIN timers \ {m}
          /\ timers' = [t \in DOMAIN timers' |-> timers[t]]
      BY <2>2 DEF Without, Restrict
    <3> QED
      BY <1>5, <3>1
  <2> QED
    BY <2>1, <2>2 DEF TimerWrites
<1>9. /\ DOMAIN fetched' = DOMAIN fetched \ {m}
      /\ fetched' \in [DOMAIN fetched' -> [Users -> Int]]
      /\ \A t \in DOMAIN timers' : timers'[t] = "fetched" => t \in DOMAIN fetched'
  <2>1. DOMAIN fetched' = DOMAIN fetched \ {m} /\ fetched' = [t \in DOMAIN fetched' |-> fetched[t]]
    BY <1>1 DEF Without, Restrict
  <2>2. fetched \in [DOMAIN fetched -> [Users -> Int]]
    BY DEF TypeOK
  <2>3. m \in DOMAIN timers' => timers'[m] = "restored"
    BY <1>1 DEF TimerWrites, Without, Restrict
  <2>4. \A t \in DOMAIN timers : timers[t] = "fetched" => t \in DOMAIN fetched
    BY DEF TypeOK
  <2> QED
    BY <1>6, <2>1, <2>2, <2>3, <2>4
<1>7. TypeOK'
  BY <1>1, <1>2, <1>3, <1>4, <1>6, <1>9 DEF TypeOK
<1>8. Covered' /\ Due'
  BY <1>1, <1>4, <1>6 DEF Covered, TimedWhileRunning, Due
<1> QED
  BY <1>7, <1>8

\* The entry of a timer opens nothing; its mute has expired.
LEMMA TimerAppendsStep ==
  ASSUME IInv, NEW m \in MuteIds, TimerAppends(m)
  PROVE  IInv'
<1> USE DEF IInv
<1>1. /\ m \in DOMAIN timers /\ m \in expired /\ m \in Mutes
      /\ timers' = Without(m, timers)
      /\ UNCHANGED <<level, cache, expired, up, task, fetched, todo, commands, crashes>>
  BY DEF TimerAppends, TypeOK, Due
<1>2. /\ log' \in Seq(Entries) /\ Mutes \subseteq Mutes' /\ OpenMutes' \subseteq OpenMutes
  <2>1. CASE UNCHANGED log
    <3>1. log \in Seq(Entries)
      BY DEF TypeOK
    <3> QED
      BY <2>1, <3>1, SameLog
  <2>2. CASE log' = Append(log, Unmuted(log[m].user, log[m].level))
    <3> DEFINE e == Unmuted(log[m].user, log[m].level)
    <3>1. e \in Entries /\ e.action = "user_unmuted"
      BY <1>1, MuteEntry DEF Entries, Unmuted
    <3> HIDE DEF e
    <3>2. log \in Seq(Entries)
      BY DEF TypeOK
    <3>3. log' = Append(log, e)
      BY <2>2 DEF e
    <3>4. Mutes \subseteq Mutes' /\ OpenMutes' \subseteq OpenMutes
      BY <3>1, <3>2, <3>3, AppendOpens
    <3> QED
      BY <3>1, <3>2, <3>3, <3>4
  <2> QED
    BY <2>1, <2>2 DEF TimerAppends
<1>3. trouble' \subseteq {"failure", "odd"}
  BY DEF TimerAppends, TypeOK
<1>4. timers \in [DOMAIN timers -> {"asleep", "fetched", "restored"}]
  BY DEF TypeOK
<1>5. /\ timers' \in [DOMAIN timers' -> {"asleep", "fetched", "restored"}]
      /\ DOMAIN timers' = DOMAIN timers \ {m}
      /\ \A t \in DOMAIN timers' : timers'[t] = timers[t]
  <2>1. DOMAIN timers' = DOMAIN timers \ {m} /\ timers' = [t \in DOMAIN timers' |-> timers[t]]
    BY <1>1 DEF Without, Restrict
  <2> QED
    BY <1>4, <2>1
<1>6. TypeOK'
  BY <1>1, <1>2, <1>3, <1>5 DEF TypeOK
<1>7. Covered' /\ Due'
  BY <1>1, <1>2, <1>5 DEF Covered, TimedWhileRunning, Due
<1> QED
  BY <1>6, <1>7

\* Time passes, or the cache is filled.
LEMMA QuietStep ==
  ASSUME IInv, (\E m \in MuteIds : Expire(m)) \/ Sync \/ UNCHANGED vars
  PROVE  IInv'
<1> USE DEF IInv
<1>1. /\ expired \subseteq expired' /\ expired' \subseteq Mutes /\ cache' \in [Users -> Int]
      /\ UNCHANGED <<level, log, up, task, timers, fetched, todo, commands, crashes, trouble>>
  BY DEF TypeOK, Expire, Sync, vars
<1>2. Mutes' = Mutes /\ OpenMutes' = OpenMutes
  BY <1>1, SameLog
<1>3. TypeOK'
  BY <1>1, <1>2 DEF TypeOK
<1>4. Covered' /\ Due'
  BY <1>1, <1>2 DEF Covered, TimedWhileRunning, Due
<1> QED
  BY <1>3, <1>4

\* With the process, timers and recovery end; a bot that is down owes nothing.
LEMMA CrashStep ==
  ASSUME IInv, Crash
  PROVE  IInv'
<1> USE DEF IInv
<1>1. /\ up' = "down" /\ task' = Idle /\ timers' = Nothing /\ fetched' = Nothing
      /\ todo' = Nothing /\ UNCHANGED <<level, cache, log, expired, commands>>
  BY DEF Crash
<1>2. crashes' \in 0 .. MaxCrashes
  <2>1. crashes < MaxCrashes /\ crashes' = crashes + 1
    BY DEF Crash
  <2>2. crashes \in 0 .. MaxCrashes
    BY DEF TypeOK
  <2> QED
    BY <2>1, <2>2, BoundAssumption
<1>3. trouble' \subseteq {"failure", "odd"}
  BY DEF Crash, TypeOK
<1>4. Mutes' = Mutes
  BY <1>1, SameLog
<1>5. /\ DOMAIN Nothing = {} /\ Nothing \in [DOMAIN Nothing -> {"asleep", "fetched", "restored"}]
      /\ Nothing \in [DOMAIN Nothing -> BOOLEAN]
      /\ Nothing \in [DOMAIN Nothing -> [Users -> Int]]
  BY DEF Nothing
<1>6. TypeOK'
  BY <1>1, <1>2, <1>3, <1>4, <1>5 DEF TypeOK
<1>7. Covered' /\ Due'
  BY <1>1, <1>5 DEF Covered, TimedWhileRunning, Due
<1> QED
  BY <1>6, <1>7

\* A recovery begins with every open mute before it, or ends before it begins.
LEMMA StartStep ==
  ASSUME IInv, Start
  PROVE  IInv'
<1> USE DEF IInv
<1>1. UNCHANGED <<level, log, expired, task, timers, fetched, commands, crashes>> /\ cache' = level
  BY DEF Start
<1>2. Mutes' = Mutes /\ OpenMutes' = OpenMutes
  BY <1>1, SameLog
<1>3. /\ up' \in {"recovering", "blind"}
      /\ up' = "recovering" => DOMAIN todo' = OpenMutes
      /\ todo' \in [DOMAIN todo' -> BOOLEAN] /\ DOMAIN todo' \subseteq Mutes
      /\ \A m \in DOMAIN todo' : todo'[m] => m \in expired
  <2>1. CASE todo' = Recoverable /\ up' = "recovering"
    <3>1. todo' = [m \in OpenMutes |-> m \in expired]
      BY <2>1 DEF Recoverable
    <3>2. DOMAIN todo' = OpenMutes /\ todo' \in [OpenMutes -> BOOLEAN]
      BY <3>1
    <3>3. \A m \in OpenMutes : todo'[m] = (m \in expired)
      BY <3>1, Zenon
    <3> QED
      BY <2>1, <3>2, <3>3, OpenAreMutes, Zenon
  <2>2. CASE UNCHANGED todo /\ up' = "blind"
    BY <2>2 DEF TypeOK, Due
  <2> QED
    BY <2>1, <2>2 DEF Start
<1>4. trouble' \subseteq {"failure", "odd"}
  BY DEF Start, TypeOK
<1>5. TypeOK'
  BY <1>1, <1>2, <1>3, <1>4 DEF TypeOK
<1>6. Covered' /\ Due'
  BY <1>1, <1>2, <1>3 DEF Covered, TimedWhileRunning, Due
<1> QED
  BY <1>5, <1>6

\* A mute leaves the recovery with a timer, or because it has expired.
LEMMA RecoverStep ==
  ASSUME IInv, Recover
  PROVE  IInv'
<1> USE DEF IInv
<1>1. UNCHANGED <<cache, log, expired, up, fetched, commands, crashes>> /\ up = "recovering"
  BY DEF Recover
<1>2. PICK m \in DOMAIN todo :
        /\ todo' = Without(m, todo)
        /\ \/ /\ ~todo[m]
              /\ timers' = With(m, "asleep", timers)
              /\ UNCHANGED <<level, task, trouble>>
           \/ /\ todo[m]
              /\ Write(cache, log[m].user, log[m].level)
              /\ task' = Unmuted(log[m].user, log[m].level)
              /\ trouble' = trouble \cup Stale(cache)
              /\ UNCHANGED timers
           \/ /\ todo[m]
              /\ WriteFails(cache, log[m].user, log[m].level)
              /\ trouble' = trouble \cup {"failure"}
              /\ UNCHANGED <<task, timers>>
  BY DEF Recover
<1>3. Mutes' = Mutes /\ OpenMutes' = OpenMutes
  BY <1>1, SameLog
<1>4. m \in Mutes /\ log[m].user \in Users /\ log[m].level \in Int
  BY MuteEntry DEF TypeOK
<1>5. todo \in [DOMAIN todo -> BOOLEAN] /\ timers \in [DOMAIN timers -> {"asleep", "fetched", "restored"}]
  BY DEF TypeOK
<1>6. /\ todo' \in [DOMAIN todo' -> BOOLEAN]
      /\ DOMAIN todo' = DOMAIN todo \ {m}
      /\ \A t \in DOMAIN todo' : todo'[t] = todo[t]
  <2>1. DOMAIN todo' = DOMAIN todo \ {m} /\ todo' = [t \in DOMAIN todo' |-> todo[t]]
    BY <1>2 DEF Without, Restrict
  <2> QED
    BY <1>5, <2>1
<1>7. /\ level' \in [Users -> Int]
      /\ task' \in Entries \cup {Idle}
      /\ trouble' \subseteq {"failure", "odd"}
  <2>1. level' \in [Users -> Int]
    BY <1>2, <1>4, WriteKeepsType DEF TypeOK
  <2>2. task' \in Entries \cup {Idle}
    <3>1. Unmuted(log[m].user, log[m].level) \in Entries
      BY <1>4 DEF Entries, Unmuted
    <3>2. task' = Unmuted(log[m].user, log[m].level) \/ task' = task
      BY <1>2
    <3> QED
      BY <3>1, <3>2 DEF TypeOK
  <2>3. trouble' \subseteq {"failure", "odd"}
    BY <1>2 DEF TypeOK, Stale
  <2> QED
    BY <2>1, <2>2, <2>3
<1>8. /\ timers' \in [DOMAIN timers' -> {"asleep", "fetched", "restored"}]
      /\ DOMAIN timers \subseteq DOMAIN timers' /\ DOMAIN timers' \subseteq DOMAIN timers \cup {m}
      /\ m \in DOMAIN timers' \/ m \in expired
      /\ \A t \in DOMAIN timers' :
           timers'[t] # "asleep" => t \in DOMAIN timers /\ timers[t] = timers'[t]
  <2>1. CASE timers' = With(m, "asleep", timers)
    <3>1. /\ DOMAIN timers' = DOMAIN timers \cup {m}
          /\ timers' \in [DOMAIN timers' -> {"asleep", "fetched", "restored"}]
          /\ \A t \in DOMAIN timers' :
               timers'[t] # "asleep" => t \in DOMAIN timers /\ timers[t] = timers'[t]
      BY <1>5, <2>1 DEF With
    <3> QED
      BY <3>1
  <2>2. CASE todo[m] /\ UNCHANGED timers
    BY <1>5, <2>2 DEF Due
  <2> QED
    BY <1>2, <2>1, <2>2
<1>9. TypeOK'
  <2>1. DOMAIN timers' \subseteq Mutes /\ DOMAIN todo' \subseteq Mutes
    BY <1>4, <1>6, <1>8 DEF TypeOK
  <2> QED
    BY <1>1, <1>3, <1>6, <1>7, <1>8, <2>1 DEF TypeOK
<1>10. Covered' /\ Due'
  BY <1>1, <1>3, <1>6, <1>8 DEF Covered, TimedWhileRunning, Due
<1> QED
  BY <1>9, <1>10

\* A recovery that ends has nothing before it any more.
LEMMA RecoveredStep ==
  ASSUME IInv, Recovered
  PROVE  IInv'
<1> USE DEF IInv
<1>1. /\ up = "recovering" /\ up' = "running" /\ todo = Nothing /\ cache' = level
      /\ UNCHANGED <<level, log, expired, task, timers, fetched, todo, commands, crashes, trouble>>
  BY DEF Recovered
<1>2. Mutes' = Mutes /\ OpenMutes' = OpenMutes
  BY <1>1, SameLog
<1>3. TypeOK'
  BY <1>1, <1>2 DEF TypeOK
<1>4. DOMAIN todo = {}
  BY <1>1 DEF Nothing
<1>5. Covered' /\ Due'
  BY <1>1, <1>2, <1>4 DEF Covered, TimedWhileRunning, Due
<1> QED
  BY <1>3, <1>5

-----------------------------------------------------------------------------
LEMMA Invariance == Spec => []IInv
<1>1. IInv /\ [Next]_vars => IInv'
  <2> SUFFICES ASSUME IInv, [Next]_vars
               PROVE  IInv'
    OBVIOUS
  <2>1. CASE \E u \in Users : MuteUser(u) \/ UnmuteUser(u)
    BY <2>1, CommandStep
  <2>2. CASE \E m \in MuteIds : TimerReads(m) \/ TimerWrites(m)
    BY <2>2, TimerReadsStep, TimerWritesStep
  <2>3. CASE \E m \in MuteIds : TimerAppends(m)
    BY <2>3, TimerAppendsStep
  <2>4. CASE (\E m \in MuteIds : Expire(m)) \/ Sync \/ UNCHANGED vars
    BY <2>4, QuietStep
  <2>5. CASE AppendEntry
    BY <2>5, AppendStep
  <2>6. CASE Crash
    BY <2>6, CrashStep
  <2>7. CASE Start
    BY <2>7, StartStep
  <2>8. CASE Recover
    BY <2>8, RecoverStep
  <2>9. CASE Recovered
    BY <2>9, RecoveredStep
  <2> QED
    BY <2>1, <2>2, <2>3, <2>4, <2>5, <2>6, <2>7, <2>8, <2>9 DEF Next
<1> QED
  BY <1>1, InitInvariant, PTL DEF Spec

\* The variables keep their types, whatever users, faults and bounds there are.
THEOREM TypeCorrect == Spec => []TypeOK
<1>1. IInv => TypeOK
  BY DEF IInv
<1> QED
  BY <1>1, Invariance, PTL

\* A bot that serves commands after a recovery that could read the log has a
\* timer for every open mute with time left, through any number of crashes and
\* restarts, failed calls and commands.
THEOREM OpenMutesAreTimed == Spec => []TimedWhileRunning
<1>1. IInv => TimedWhileRunning
  BY DEF IInv, Covered
<1> QED
  BY <1>1, Invariance, PTL

-----------------------------------------------------------------------------
(* The levels and the log.                                                 *)

Restored(u) == \E m \in DOMAIN timers : timers[m] = "restored" /\ log[m].user = u

\* The user has its level back: no mute of it is open or about to be recorded, or
\* the open one has been undone already and the entry is still to come.
Released(u) ==
  \/ OpenOf(u) = {} /\ ~(task.action = "user_muted" /\ task.user = u)
  \/ Restored(u)
  \/ task.action = "user_unmuted" /\ task.user = u

LevelsRight ==
  \A u \in Users : level[u] = IF Released(u) THEN Original[u] ELSE MUTED_POWER_LEVEL

\* Each mute recorded the level of before; of a user one is open at most.
MutesRight ==
  /\ \A m \in Mutes : log[m].level = Original[log[m].user]
  /\ \A m, n \in OpenMutes : log[m].user = log[n].user => m = n

\* A task is that of a bot that is up; whom it mutes was not muted.
TaskRight ==
  task # Idle =>
    /\ up # "down"
    /\ task.action = "user_muted" =>
         /\ task.level = Original[task.user]
         /\ OpenOf(task.user) = {} /\ ~Restored(task.user)

\* A recovery has the mutes open then before it or in its hands, each once.
RecoveryRight ==
  /\ up = "down" => DOMAIN timers = {}
  /\ up = "recovering" =>
       /\ DOMAIN timers \cup DOMAIN todo \subseteq OpenMutes
       /\ DOMAIN timers \cap DOMAIN todo = {}
       /\ task # Idle =>
            /\ task.action = "user_unmuted"
            /\ \A m \in DOMAIN timers \cup DOMAIN todo : log[m].user # task.user

Right == LevelsRight /\ MutesRight /\ TaskRight /\ RecoveryRight

\* As long as nothing has happened that the code does not reckon with.
LInv == trouble = {} => Right

\* What an entry opens and closes.
LEMMA AppendedEntry ==
  ASSUME log \in Seq(Entries), NEW e \in Entries, log' = Append(log, e)
  PROVE  /\ \A m \in Mutes : log'[m] = log[m]
         /\ log'[Len(log) + 1] = e /\ Len(log) + 1 \notin Mutes
         /\ e.action = "user_muted" =>
              Mutes' = Mutes \cup {Len(log) + 1} /\ OpenMutes' = OpenMutes \cup {Len(log) + 1}
         /\ e.action = "user_unmuted" =>
              Mutes' = Mutes /\ OpenMutes' = {m \in OpenMutes : log[m].user # e.user}
<1>1. /\ Len(log) \in Nat /\ DOMAIN log = 1 .. Len(log)
      /\ DOMAIN log' = 1 .. Len(log) + 1
      /\ log'[Len(log) + 1] = e
      /\ \A i \in DOMAIN log : log'[i] = log[i]
  OBVIOUS
<1>2. (\A m \in Mutes : log'[m] = log[m]) /\ Len(log) + 1 \notin Mutes
  BY <1>1 DEF Mutes
<1>3. ASSUME e.action = "user_muted"
      PROVE  Mutes' = Mutes \cup {Len(log) + 1} /\ OpenMutes' = OpenMutes \cup {Len(log) + 1}
  BY <1>1, <1>3 DEF Mutes, OpenMutes
<1>4. ASSUME e.action = "user_unmuted"
      PROVE  Mutes' = Mutes /\ OpenMutes' = {m \in OpenMutes : log[m].user # e.user}
  <2>1. Mutes' = Mutes
    BY <1>1, <1>4 DEF Mutes
  <2>2. ASSUME NEW m \in Mutes
        PROVE  m \in OpenMutes' <=> m \in OpenMutes /\ log[m].user # e.user
    BY <1>1, <1>4, <2>1 DEF Mutes, OpenMutes
  <2> QED
    BY <2>1, <2>2 DEF OpenMutes
<1> QED
  BY <1>1, <1>2, <1>3, <1>4

\* Nothing that happened is forgotten.
LEMMA TroubleStays == ASSUME [Next]_vars, trouble' = {} PROVE trouble = {}
<1>1. ASSUME NEW u \in Users, MuteUser(u) \/ UnmuteUser(u) PROVE trouble = {}
  BY <1>1 DEF MuteUser, UnmuteUser
<1>2. ASSUME NEW m \in MuteIds, TimerReads(m) \/ TimerWrites(m) \/ TimerAppends(m) \/ Expire(m)
      PROVE  trouble = {}
  BY <1>2 DEF TimerReads, TimerWrites, TimerAppends, Expire
<1>3. CASE AppendEntry \/ Sync \/ Crash \/ Start \/ Recover \/ Recovered \/ UNCHANGED vars
  BY <1>3 DEF AppendEntry, Sync, Crash, Start, Recover, Recovered, vars
<1> QED
  BY <1>1, <1>2, <1>3 DEF Next

\* The level that an unmute looks up is that of before.
LEMMA PreviousIsOriginal ==
  ASSUME TypeOK, MutesRight, NEW u \in Users, OpenOf(u) # {}
  PROVE  PreviousLevel(u) = Original[u]
<1>1. Max(OpenOf(u)) \in OpenOf(u)
  <2>1. Len(log) \in Nat /\ DOMAIN log = 1 .. Len(log)
    <3>1. log \in Seq(Entries)
      BY DEF TypeOK
    <3> QED
      BY <3>1
  <2>2. OpenOf(u) \subseteq DOMAIN log
    BY Zenon DEF OpenOf, OpenMutes, Mutes
  <2> QED
    BY <2>1, <2>2, LatestExists
<1>2. Max(OpenOf(u)) \in Mutes /\ log[Max(OpenOf(u))].user = u
  BY <1>1 DEF OpenOf, OpenMutes
<1> QED
  BY <1>2 DEF PreviousLevel, MutesRight

LEMMA SameOpen ==
  ASSUME UNCHANGED log
  PROVE  Mutes' = Mutes /\ OpenMutes' = OpenMutes /\ \A u : OpenOf(u)' = OpenOf(u)
BY SameLog DEF OpenOf

LEMMA IdleTask == ASSUME task = Idle PROVE task.action = "none"
BY DEF Idle

\* A mute of who was not muted: muted, with the entry to come.
LEMMA MuteRight ==
  ASSUME TypeOK, Right, NEW u \in Users, MuteUser(u), trouble' = {}
  PROVE  Right'
<1>1. /\ level' = [cache EXCEPT ![u] = MUTED_POWER_LEVEL] /\ cache' = cache
      /\ task = Idle /\ task' = Muted(u, cache[u])
      /\ cache = level /\ ~Restored(u) /\ OpenOf(u) = {}
      /\ up \in {"running", "blind"}
      /\ UNCHANGED <<log, up, timers, todo>>
  <2>1. /\ Write(cache, u, MUTED_POWER_LEVEL)
        /\ task' = Muted(u, cache[u])
        /\ Stale(cache) = {} /\ Raced(u) = {} /\ Repeated(u) = {}
    BY DEF MuteUser
  <2> QED
    BY <2>1 DEF MuteUser, Command, Serving, Write, Written, Stale, Raced, Restored, Repeated
<1>2. level[u] = Original[u] /\ Original[u] \in Nat /\ level \in [Users -> Int]
  BY <1>1, LevelAssumption, IdleTask DEF Right, LevelsRight, Released, TypeOK
<1>3. OpenMutes' = OpenMutes /\ Mutes' = Mutes /\ (\A v : OpenOf(v)' = OpenOf(v))
      /\ \A v : Restored(v)' = Restored(v)
  BY <1>1, SameOpen DEF Restored
<1>4. level' # cache /\ task' # Idle
  BY <1>1, <1>2 DEF MUTED_POWER_LEVEL, Muted, Idle
<1>5. LevelsRight'
  <2>1. Released(u)' = FALSE
    BY <1>1, <1>3 DEF Released, Muted
  <2>2. \A v \in Users \ {u} : Released(v)' = Released(v) /\ level'[v] = level[v]
    BY <1>1, <1>2, <1>3, IdleTask DEF Released, Muted
  <2> QED
    BY <1>1, <1>2, <2>1, <2>2 DEF LevelsRight, Right
<1>6. MutesRight'
  BY <1>1, <1>3 DEF Right, MutesRight
<1>7. TaskRight' /\ RecoveryRight'
  BY <1>1, <1>2, <1>3, <1>4 DEF Right, TaskRight, RecoveryRight, Muted
<1> QED
  BY <1>5, <1>6, <1>7 DEF Right

\* An unmute of who was muted: the level of before, with the entry to come.
LEMMA UnmuteRight ==
  ASSUME TypeOK, Right, NEW u \in Users, UnmuteUser(u), trouble' = {}
  PROVE  Right'
<1>1. /\ level' = [cache EXCEPT ![u] = Original[u]] /\ cache' = cache
      /\ task = Idle /\ task' = Unmuted(u, Original[u])
      /\ cache = level /\ ~Restored(u) /\ OpenOf(u) # {}
      /\ up \in {"running", "blind"}
      /\ UNCHANGED <<log, up, timers, todo>>
  <2>1. PICK lost \in {FALSE, Fails("database")} :
          LET l == IF lost THEN 0 ELSE PreviousLevel(u)
              odd == Stale(cache) \cup Raced(u) \cup Unfounded(u) \cup (IF lost THEN {"failure"} ELSE {})
          IN \/ Write(cache, u, l) /\ task' = Unmuted(u, l) /\ trouble' = trouble \cup odd
             \/ WriteFails(cache, u, l) /\ task' = Idle /\ trouble' = trouble \cup odd \cup {"failure"}
    BY DEF UnmuteUser
  <2>2. ~lost /\ Stale(cache) = {} /\ Raced(u) = {} /\ Unfounded(u) = {}
    BY <2>1
  <2>3. OpenOf(u) # {} /\ PreviousLevel(u) = Original[u]
    BY <2>2, PreviousIsOriginal DEF Unfounded, Right
  <2>4. Write(cache, u, Original[u]) /\ task' = Unmuted(u, Original[u])
    BY <2>1, <2>2, <2>3
  <2> QED
    BY <2>2, <2>3, <2>4 DEF UnmuteUser, Command, Serving, Write, Written, Stale, Raced, Restored
<1>2. level[u] = MUTED_POWER_LEVEL /\ Original[u] \in Nat /\ level \in [Users -> Int]
  BY <1>1, LevelAssumption, IdleTask DEF Right, LevelsRight, Released, TypeOK
<1>3. OpenMutes' = OpenMutes /\ Mutes' = Mutes /\ (\A v : OpenOf(v)' = OpenOf(v))
      /\ \A v : Restored(v)' = Restored(v)
  BY <1>1, SameOpen DEF Restored
<1>4. level' # cache /\ task' # Idle
  BY <1>1, <1>2 DEF MUTED_POWER_LEVEL, Unmuted, Idle
<1>5. LevelsRight'
  <2>1. Released(u)' = TRUE
    BY <1>1, <1>3 DEF Released, Unmuted
  <2>2. \A v \in Users \ {u} : Released(v)' = Released(v) /\ level'[v] = level[v]
    BY <1>1, <1>2, <1>3, IdleTask DEF Released, Unmuted
  <2> QED
    BY <1>1, <1>2, <2>1, <2>2 DEF LevelsRight, Right
<1>6. MutesRight'
  BY <1>1, <1>3 DEF Right, MutesRight
<1>7. TaskRight' /\ RecoveryRight'
  BY <1>1, <1>2, <1>3, <1>4 DEF Right, TaskRight, RecoveryRight, Unmuted
<1> QED
  BY <1>5, <1>6, <1>7 DEF Right

\* The entry of the task: the mute is open, or closed.
LEMMA EntryRight ==
  ASSUME TypeOK, Right, AppendEntry, trouble' = {}
  PROVE  Right'
<1>1. /\ task \in Entries /\ task # Idle /\ task' = Idle /\ log \in Seq(Entries)
      /\ log' = Append(log, task) /\ timers' = Started
      /\ UNCHANGED <<level, cache, up, todo>>
  BY DEF AppendEntry, TypeOK
<1>2. DOMAIN timers \subseteq Mutes /\ DOMAIN todo \subseteq Mutes /\ OpenMutes \subseteq Mutes
  BY OpenAreMutes DEF TypeOK
<1>3. /\ \A m \in Mutes : log'[m] = log[m]
      /\ log'[Len(log) + 1] = task /\ Len(log) + 1 \notin Mutes
      /\ task.action = "user_muted" =>
           Mutes' = Mutes \cup {Len(log) + 1} /\ OpenMutes' = OpenMutes \cup {Len(log) + 1}
      /\ task.action = "user_unmuted" =>
           Mutes' = Mutes /\ OpenMutes' = {m \in OpenMutes : log[m].user # task.user}
  BY <1>1, AppendedEntry
<1>4. task'.action = "none"
  BY <1>1 DEF Idle
<1> PICK u \in Users : u = task.user
  BY <1>1 DEF Entries
<1>5. CASE task.action = "user_muted"
  <2>1. /\ DOMAIN timers' = DOMAIN timers \cup {Len(log) + 1}
        /\ timers'[Len(log) + 1] = "asleep" /\ \A m \in DOMAIN timers : timers'[m] = timers[m]
    BY <1>1, <1>2, <1>3, <1>5 DEF Started, With
  <2>2. \A v \in Users : Restored(v)' = Restored(v)
    BY <1>2, <1>3, <2>1 DEF Restored
  <2>3. /\ OpenOf(u)' = {Len(log) + 1}
        /\ \A v \in Users \ {u} : OpenOf(v)' = OpenOf(v)
    <3>1. OpenOf(u) = {}
      BY <1>1, <1>5 DEF Right, TaskRight
    <3> QED
      BY <1>2, <1>3, <1>5, <3>1 DEF OpenOf
  <2>4. LevelsRight'
    <3>1. Released(u) = FALSE
      BY <1>1, <1>5 DEF Right, TaskRight, Released
    <3>2. ~(OpenOf(u)' = {} \/ Restored(u)')
      BY <1>1, <1>4, <1>5, <2>2, <2>3 DEF Right, TaskRight
    <3>3. \A v \in Users : Released(v)' = Released(v)
      <4> TAKE v \in Users
      <4>1. Released(v)' = (OpenOf(v)' = {} \/ Restored(v)')
        BY <1>4 DEF Released
      <4>2. CASE v = u
        BY <3>1, <3>2, <4>1, <4>2
      <4>3. CASE v # u
        BY <1>5, <2>2, <2>3, <4>1, <4>3 DEF Released
      <4> QED
        BY <4>2, <4>3
    <3> QED
      BY <1>1, <3>3 DEF Right, LevelsRight
  <2>5. MutesRight'
    <3>1. task.level = Original[u] /\ OpenOf(u) = {}
      BY <1>1, <1>5 DEF Right, TaskRight
    <3>2. \A m \in OpenMutes : log[m].user # u
      BY <3>1 DEF OpenOf
    <3> QED
      BY <1>2, <1>3, <1>5, <3>1, <3>2 DEF Right, MutesRight
  <2>6. TaskRight'
    BY <1>1 DEF TaskRight
  <2>7. RecoveryRight'
    <3>1. up \notin {"down", "recovering"}
      BY <1>1, <1>5 DEF Right, TaskRight, RecoveryRight
    <3> QED
      BY <1>1, <3>1 DEF RecoveryRight
  <2> QED
    BY <2>4, <2>5, <2>6, <2>7 DEF Right
<1>6. CASE task.action = "user_unmuted"
  <2>1. timers' = timers
    BY <1>1, <1>6 DEF Started
  <2>2. \A v \in Users : Restored(v)' = Restored(v)
    BY <1>2, <1>3, <2>1 DEF Restored
  <2>3. /\ OpenOf(u)' = {}
        /\ \A v \in Users \ {u} : OpenOf(v)' = OpenOf(v)
    BY <1>2, <1>3, <1>6 DEF OpenOf
  <2>4. LevelsRight'
    <3>1. \A v \in Users : Released(v)' = Released(v)
      BY <1>4, <1>6, <2>2, <2>3 DEF Released
    <3> QED
      BY <1>1, <3>1 DEF Right, LevelsRight
  <2>5. MutesRight'
    BY <1>2, <1>3, <1>6 DEF Right, MutesRight
  <2>6. TaskRight'
    BY <1>1 DEF TaskRight
  <2>7. RecoveryRight'
    BY <1>1, <1>3, <1>6, <2>1 DEF Right, RecoveryRight
  <2> QED
    BY <2>4, <2>5, <2>6, <2>7 DEF Right
<1> QED
  BY <1>1, <1>5, <1>6 DEF Entries

\* A timer reads the cache: levels and log stay.
LEMMA ReadsRight ==
  ASSUME TypeOK, Right, NEW m \in MuteIds, TimerReads(m)
  PROVE  Right'
<1>1. /\ m \in DOMAIN timers /\ timers[m] = "asleep"
      /\ DOMAIN timers' = DOMAIN timers /\ timers'[m] = "fetched"
      /\ \A n \in DOMAIN timers \ {m} : timers'[n] = timers[n]
      /\ UNCHANGED <<level, log, up, task, todo>>
  BY DEF TimerReads
<1>2. Mutes' = Mutes /\ OpenMutes' = OpenMutes /\ \A v : OpenOf(v)' = OpenOf(v)
  BY <1>1, SameOpen
<1>3. \A v : Restored(v)' = Restored(v)
  BY <1>1 DEF Restored
<1>4. LevelsRight' /\ MutesRight'
  BY <1>1, <1>2, <1>3 DEF Right, LevelsRight, Released, MutesRight
<1>5. TaskRight' /\ RecoveryRight'
  BY <1>1, <1>2, <1>3 DEF Right, TaskRight, RecoveryRight
<1> QED
  BY <1>4, <1>5 DEF Right

\* A timer gives a level back, or confirms it: the map that it sends is the one in
\* force, and nobody is about to log a mute of the same user.
LEMMA WritesRight ==
  ASSUME TypeOK, Right, NEW m \in MuteIds, TimerWrites(m), trouble' = {}
  PROVE  Right'
<1> m \in Mutes /\ m \in DOMAIN timers
  BY DEF TimerWrites, TypeOK
<1> PICK u \in Users : u = log[m].user
  BY MuteEntry
<1>1. log[m].level = Original[u]
  BY DEF Right, MutesRight
<1>2. /\ level' = [level EXCEPT ![u] = Original[u]]
      /\ timers' = [timers EXCEPT ![m] = "restored"]
      /\ UNCHANGED <<cache, log, up, task, todo>>
  BY <1>1 DEF TimerWrites, Stale, Write, Written
<1>3. ~(task.action = "user_muted" /\ task.user = u)
  BY DEF TimerWrites, Crossed
<1>4. Mutes' = Mutes /\ OpenMutes' = OpenMutes /\ \A v : OpenOf(v)' = OpenOf(v)
  BY <1>2, SameOpen
<1>5. DOMAIN timers' = DOMAIN timers /\ timers'[m] = "restored"
      /\ \A n \in DOMAIN timers \ {m} : timers'[n] = timers[n]
  BY <1>1, <1>2
<1>6. Restored(u)' /\ \A v \in Users \ {u} : Restored(v)' = Restored(v)
  BY <1>1, <1>2, <1>5 DEF Restored
<1>7. LevelsRight'
  <2>1. level \in [Users -> Int]
    BY DEF TypeOK
  <2>2. Released(u)' /\ level'[u] = Original[u]
    BY <1>2, <1>6, <2>1 DEF Released
  <2>3. \A v \in Users \ {u} : Released(v)' = Released(v) /\ level'[v] = level[v]
    BY <1>2, <1>4, <1>6, <2>1 DEF Released
  <2> QED
    BY <2>2, <2>3 DEF Right, LevelsRight
<1>8. MutesRight'
  BY <1>2, <1>4 DEF Right, MutesRight
<1>9. TaskRight'
  <2>1. task # Idle => task.user \in Users
    BY DEF TypeOK, Entries
  <2> QED
    BY <1>2, <1>3, <1>4, <1>6, <2>1 DEF Right, TaskRight
<1>10. RecoveryRight'
  BY <1>2, <1>4, <1>5 DEF Right, RecoveryRight
<1> QED
  BY <1>7, <1>8, <1>9, <1>10 DEF Right

\* The entry of a timer: it closes the mutes of its user, who is released already.
LEMMA TimerEntryRight ==
  ASSUME TypeOK, Right, NEW m \in MuteIds, TimerAppends(m), trouble' = {}
  PROVE  Right'
<1> m \in Mutes
  BY DEF TimerAppends, TypeOK
<1> PICK u \in Users : u = log[m].user
  BY MuteEntry
<1> DEFINE e == Unmuted(u, log[m].level)
<1>1. /\ m \in DOMAIN timers /\ timers[m] = "restored"
      /\ timers' = Without(m, timers) /\ log' = Append(log, e)
      /\ UNCHANGED <<level, cache, up, task, todo>>
  BY DEF TimerAppends
<1>2. /\ DOMAIN timers \subseteq Mutes /\ DOMAIN todo \subseteq Mutes /\ OpenMutes \subseteq Mutes
      /\ log \in Seq(Entries)
  BY OpenAreMutes DEF TypeOK
<1>3. e \in Entries /\ e.action = "user_unmuted" /\ e.user = u
  BY <1>1, <1>2, MuteEntry DEF Entries, Unmuted
<1> HIDE DEF e
<1>4. /\ \A n \in Mutes : log'[n] = log[n]
      /\ Mutes' = Mutes /\ OpenMutes' = {n \in OpenMutes : log[n].user # u}
  BY <1>1, <1>2, <1>3, AppendedEntry
<1>5. DOMAIN timers' = DOMAIN timers \ {m} /\ \A n \in DOMAIN timers' : timers'[n] = timers[n]
  BY <1>1 DEF Without, Restrict
<1>6. /\ Restored(u)
      /\ \A v \in Users \ {u} : Restored(v)' = Restored(v)
      /\ \A v \in Users : Restored(v)' => Restored(v)
  BY <1>1, <1>2, <1>4, <1>5 DEF Restored
<1>7. OpenOf(u)' = {} /\ \A v \in Users \ {u} : OpenOf(v)' = OpenOf(v)
  BY <1>2, <1>4 DEF OpenOf
<1>8. ~(task.action = "user_muted" /\ task.user = u)
  BY <1>6 DEF Right, TaskRight, Idle
<1>9. LevelsRight'
  <2>1. Released(u) /\ Released(u)'
    BY <1>1, <1>6, <1>7, <1>8 DEF Released
  <2>2. \A v \in Users \ {u} : Released(v)' = Released(v)
    BY <1>1, <1>6, <1>7 DEF Released
  <2> QED
    BY <1>1, <2>1, <2>2 DEF Right, LevelsRight
<1>10. MutesRight'
  BY <1>2, <1>4 DEF Right, MutesRight
<1>11. TaskRight'
  <2>1. task \in Entries \cup {Idle}
    BY DEF TypeOK
  <2>2. task # Idle => task.user \in Users
    BY <2>1 DEF Entries
  <2> QED
    BY <1>1, <1>6, <1>7, <2>2 DEF Right, TaskRight
<1>12. RecoveryRight'
  <2>1. up = "recovering" => \A n \in DOMAIN timers' \cup DOMAIN todo : log[n].user # u
    BY <1>1, <1>5 DEF Right, RecoveryRight, MutesRight
  <2> QED
    BY <1>1, <1>2, <1>4, <1>5, <2>1 DEF Right, RecoveryRight
<1> QED
  BY <1>9, <1>10, <1>11, <1>12 DEF Right

\* Time passes, the cache is filled, a recovery ends: levels and log stay.
LEMMA QuietRight ==
  ASSUME TypeOK, Right, (\E m \in MuteIds : Expire(m)) \/ Sync \/ Recovered \/ UNCHANGED vars
  PROVE  Right'
<1>1. /\ UNCHANGED <<level, log, task, timers, todo>>
      /\ UNCHANGED cache \/ task = Idle
      /\ UNCHANGED up \/ up' = "running"
  BY DEF Expire, Sync, Recovered, Serving, vars
<1>2. Mutes' = Mutes /\ OpenMutes' = OpenMutes /\ \A v : OpenOf(v)' = OpenOf(v)
  BY <1>1, SameOpen
<1>3. \A v : Restored(v)' = Restored(v)
  BY <1>1 DEF Restored
<1>4. LevelsRight' /\ MutesRight'
  BY <1>1, <1>2, <1>3 DEF Right, LevelsRight, Released, MutesRight
<1>5. TaskRight' /\ RecoveryRight'
  BY <1>1, <1>2, <1>3 DEF Right, TaskRight, RecoveryRight
<1> QED
  BY <1>4, <1>5 DEF Right

\* A bot that ends with nothing under way leaves the levels and the log in accord.
LEMMA CrashRight ==
  ASSUME TypeOK, Right, Crash, trouble' = {}
  PROVE  Right'
<1>1. /\ task = Idle /\ task' = Idle /\ DOMAIN timers' = {} /\ up' = "down"
      /\ \A m \in DOMAIN timers : timers[m] = "asleep"
      /\ UNCHANGED <<level, cache, log>>
  BY DEF Crash, Quiet, Nothing
<1>2. Mutes' = Mutes /\ OpenMutes' = OpenMutes /\ \A v : OpenOf(v)' = OpenOf(v)
  BY <1>1, SameOpen
<1>3. \A v : ~Restored(v) /\ ~Restored(v)'
  BY <1>1 DEF Restored
<1>4. LevelsRight' /\ MutesRight'
  BY <1>1, <1>2, <1>3 DEF Right, LevelsRight, Released, MutesRight
<1>5. TaskRight' /\ RecoveryRight'
  BY <1>1 DEF TaskRight, RecoveryRight
<1> QED
  BY <1>4, <1>5 DEF Right

\* A recovery takes up the open mutes.
LEMMA StartRight ==
  ASSUME TypeOK, Right, Start, trouble' = {}
  PROVE  Right'
<1>1. /\ task = Idle /\ DOMAIN timers = {} /\ up' = "recovering" /\ DOMAIN todo' = OpenMutes
      /\ UNCHANGED <<level, log, task, timers>>
  BY DEF Start, Right, TaskRight, RecoveryRight, Recoverable
<1>2. Mutes' = Mutes /\ OpenMutes' = OpenMutes /\ \A v : OpenOf(v)' = OpenOf(v)
  BY <1>1, SameOpen
<1>3. \A v : Restored(v)' = Restored(v)
  BY <1>1 DEF Restored
<1>4. LevelsRight' /\ MutesRight'
  BY <1>1, <1>2, <1>3 DEF Right, LevelsRight, Released, MutesRight
<1>5. TaskRight' /\ RecoveryRight'
  BY <1>1, <1>2 DEF TaskRight, RecoveryRight
<1> QED
  BY <1>4, <1>5 DEF Right

\* The next open mute: a timer for it, or the level of before.
LEMMA RecoverRight ==
  ASSUME TypeOK, Right, Recover, trouble' = {}
  PROVE  Right'
<1>1. PICK m \in DOMAIN todo :
        /\ todo' = Without(m, todo)
        /\ \/ timers' = With(m, "asleep", timers) /\ UNCHANGED <<level, task>>
           \/ /\ Write(cache, log[m].user, log[m].level) /\ Stale(cache) = {}
              /\ task' = Unmuted(log[m].user, log[m].level) /\ UNCHANGED timers
  BY DEF Recover
<1>2. up = "recovering" /\ task = Idle /\ UNCHANGED <<cache, log, up>>
  BY DEF Recover
<1>3. Mutes' = Mutes /\ OpenMutes' = OpenMutes /\ \A v : OpenOf(v)' = OpenOf(v)
  BY <1>2, SameOpen
<1>4. DOMAIN todo' = DOMAIN todo \ {m}
  BY <1>1 DEF Without, Restrict
<1>5. /\ m \in OpenMutes /\ m \notin DOMAIN timers
      /\ DOMAIN timers \subseteq OpenMutes /\ DOMAIN todo \subseteq OpenMutes
      /\ DOMAIN timers \cap DOMAIN todo = {}
  BY <1>2 DEF Right, RecoveryRight
<1> m \in Mutes
  BY <1>5, OpenAreMutes
<1> PICK u \in Users : u = log[m].user
  BY MuteEntry
<1>6. log[m].level = Original[u] /\ Original[u] \in Nat
  BY LevelAssumption DEF Right, MutesRight
<1>7. \A n \in DOMAIN timers \cup DOMAIN todo' : log[n].user # u
  BY <1>4, <1>5 DEF Right, MutesRight
<1>8. MutesRight'
  BY <1>2, <1>3 DEF Right, MutesRight
<1>9. CASE timers' = With(m, "asleep", timers) /\ UNCHANGED <<level, task>>
  <2>1. /\ DOMAIN timers' = DOMAIN timers \cup {m} /\ timers'[m] = "asleep"
        /\ \A n \in DOMAIN timers : timers'[n] = timers[n]
    BY <1>5, <1>9 DEF With
  <2>2. \A v : Restored(v)' = Restored(v)
    BY <1>2, <1>5, <2>1 DEF Restored
  <2>3. LevelsRight' /\ TaskRight'
    BY <1>2, <1>3, <1>9, <2>2 DEF Right, LevelsRight, Released, TaskRight
  <2>4. RecoveryRight'
    BY <1>2, <1>3, <1>4, <1>5, <1>9, <2>1 DEF RecoveryRight
  <2> QED
    BY <1>8, <2>3, <2>4 DEF Right
<1>10. CASE /\ Write(cache, u, log[m].level) /\ Stale(cache) = {}
            /\ task' = Unmuted(u, log[m].level) /\ UNCHANGED timers
  <2>1. /\ cache = level /\ level' = [level EXCEPT ![u] = Original[u]]
        /\ task' = Unmuted(u, Original[u])
    BY <1>6, <1>10 DEF Stale, Write, Written
  <2>2. (\A v : Restored(v)' = Restored(v)) /\ ~Restored(u)
    BY <1>2, <1>7, <1>10 DEF Restored
  <2>3. OpenOf(u) # {} /\ level \in [Users -> Int]
    BY <1>5 DEF OpenOf, TypeOK
  <2>4. level[u] = MUTED_POWER_LEVEL
    BY <1>2, <1>6, <2>2, <2>3, IdleTask DEF Right, LevelsRight, Released
  <2>5. LevelsRight'
    <3>1. Released(u)' /\ level'[u] = Original[u]
      BY <1>6, <2>1, <2>3 DEF Released, Unmuted
    <3>2. \A v \in Users \ {u} : Released(v)' = Released(v) /\ level'[v] = level[v]
      BY <1>2, <1>3, <2>1, <2>2, <2>3, IdleTask DEF Released, Unmuted
    <3> QED
      BY <3>1, <3>2 DEF Right, LevelsRight
  <2>6. TaskRight'
    <3>1. cache' # level'
      BY <1>2, <1>6, <2>1, <2>3, <2>4 DEF MUTED_POWER_LEVEL
    <3> QED
      BY <1>2, <2>1, <3>1 DEF TaskRight, Unmuted
  <2>7. RecoveryRight'
    BY <1>2, <1>3, <1>4, <1>5, <1>7, <1>10, <2>1 DEF RecoveryRight, Unmuted
  <2> QED
    BY <1>8, <2>5, <2>6, <2>7 DEF Right
<1> QED
  BY <1>1, <1>9, <1>10

\* Nothing forgets what happened, and all that happens as reckoned keeps it right.
LEMMA RightStays == ASSUME IInv, LInv, [Next]_vars PROVE LInv'
<1> SUFFICES ASSUME trouble' = {} PROVE Right'
  BY DEF LInv
<1> TypeOK /\ Right
  BY TroubleStays DEF IInv, LInv
<1>1. CASE \E u \in Users : MuteUser(u) \/ UnmuteUser(u)
  BY <1>1, MuteRight, UnmuteRight
<1>2. CASE \E m \in MuteIds : TimerReads(m) \/ TimerWrites(m) \/ TimerAppends(m)
  BY <1>2, ReadsRight, WritesRight, TimerEntryRight
<1>3. CASE (\E m \in MuteIds : Expire(m)) \/ Sync \/ Recovered \/ UNCHANGED vars
  BY <1>3, QuietRight
<1>4. CASE AppendEntry \/ Crash \/ Start \/ Recover
  BY <1>4, EntryRight, CrashRight, StartRight, RecoverRight
<1> QED
  BY <1>1, <1>2, <1>3, <1>4 DEF Next

LEMMA InitRight == Init => LInv
<1> SUFFICES ASSUME Init PROVE Right
  BY DEF LInv
<1>1. /\ Mutes = {} /\ OpenMutes = {} /\ DOMAIN timers = {} /\ task = Idle /\ task.action = "none"
      /\ level = Original /\ up = "running"
  BY DEF Init, Mutes, OpenMutes, Nothing, Idle
<1> QED
  BY <1>1 DEF Right, LevelsRight, Released, OpenOf, MutesRight, TaskRight, RecoveryRight

\* For any users, levels and numbers of commands, crashes and restarts, and however long
\* timers take between reading the cache and sending what they read: while each command
\* is apt, no map is stale when it arrives, no timer releases a user whose mute is still
\* to be logged and nothing fails, the power levels are what the audit log says.
THEOREM LevelsAreAsLogged == Spec => []LevelsFollowLog
<1>1. ASSUME IInv, LInv PROVE LevelsFollowLog
  <2> SUFFICES ASSUME trouble = {}, task = Idle,
                      \A m \in DOMAIN timers : timers[m] # "restored",
                      NEW u \in Users
               PROVE  level[u] = IF OpenOf(u) = {} THEN Original[u] ELSE MUTED_POWER_LEVEL
    BY DEF LevelsFollowLog
  <2>1. Released(u) <=> OpenOf(u) = {}
    BY IdleTask DEF Released, Restored
  <2> QED
    BY <1>1, <2>1 DEF LInv, Right, LevelsRight
<1>2. IInv /\ LInv /\ [Next]_vars => LInv'
  BY RightStays
<1> QED
  BY <1>1, <1>2, InitRight, Invariance, PTL DEF Spec
=============================================================================
