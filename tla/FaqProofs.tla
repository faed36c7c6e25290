------------------------------- MODULE FaqProofs -------------------------------
(***************************************************************************)
(* Theorems about FaqReload and FaqBot, for any lists, messages and bounds.*)
(***************************************************************************)
EXTENDS FaqBot, SequenceTheorems, FiniteSetTheorems, WellFoundedInduction, TLAPS

\* The last change that the watch saw is in a queue, in the task's hands, or served.
NothingLost ==
  up # "down" /\ ~unseen /\ file \in Lists =>
    Pending \/ task = Loaded(file) \/ (task = Waiting /\ served = file)

\* Before the watch nothing is queued, and a watched file exists.
Quiescent ==
  /\ up # "running" =>
       ~watching /\ events = << >> /\ channel = << >> /\ task = Waiting
  /\ watching => file # Missing

FileInv == FileTypeOK /\ Quiescent /\ NothingLost

----------------------------------------------------------------------------
(* Queues.                                                                 *)

LEMMA AppendTrigger ==
  ASSUME NEW q \in Seq(Kinds), NEW k \in Kinds
  PROVE /\ Append(q, k) \in Seq(Kinds)
        /\ Len(Append(q, k)) = Len(q) + 1
        /\ HasTrigger(Append(q, k)) <=> HasTrigger(q) \/ Triggers(k)
<1>1. /\ Append(q, k) \in Seq(Kinds)
      /\ Len(Append(q, k)) = Len(q) + 1 /\ Len(q) \in Nat
      /\ \A i \in 1 .. Len(q) : Append(q, k)[i] = q[i]
      /\ Append(q, k)[Len(q) + 1] = k
  BY AppendProperties, LenProperties
<1>2. HasTrigger(Append(q, k)) <=> \E i \in 1 .. Len(q) + 1 : Triggers(Append(q, k)[i])
  BY <1>1 DEF HasTrigger
<1>3. ASSUME NEW i \in 1 .. Len(q) + 1 PROVE i \in 1 .. Len(q) \/ i = Len(q) + 1
  BY <1>1
<1>4. Len(q) + 1 \in 1 .. Len(q) + 1 /\ \A i \in 1 .. Len(q) : i \in 1 .. Len(q) + 1
  BY <1>1
<1> QED BY <1>1, <1>2, <1>3, <1>4 DEF HasTrigger

LEMMA ReportTrigger ==
  ASSUME NEW q \in Seq(Kinds), NEW k \in Kinds
  PROVE Report(k, q) \in Seq(Kinds) /\ (HasTrigger(Report(k, q)) <=> HasTrigger(q) \/ Triggers(k))
<1>1. CASE q # << >> /\ Last(q) = k
  <2>1. Len(q) \in 1 .. Len(q) /\ q[Len(q)] = k
    BY <1>1, EmptySeq DEF Last
  <2> QED BY <1>1, <2>1 DEF Report, HasTrigger
<1>2. CASE ~(q # << >> /\ Last(q) = k)
  BY <1>2, AppendTrigger DEF Report
<1> QED BY <1>1, <1>2

LEMMA TailTrigger ==
  ASSUME NEW q \in Seq(Kinds), q # << >>
  PROVE /\ Head(q) \in Kinds /\ Tail(q) \in Seq(Kinds) /\ Len(Tail(q)) = Len(q) - 1
        /\ HasTrigger(q) <=> HasTrigger(Tail(q)) \/ Triggers(Head(q))
<1>1. /\ Head(q) \in Kinds /\ Tail(q) \in Seq(Kinds) /\ Len(Tail(q)) = Len(q) - 1
      /\ \A i \in 1 .. Len(Tail(q)) : Tail(q)[i] = q[i + 1]
      /\ Head(q) = q[1] /\ Len(q) \in Nat \ {0}
  BY HeadTailProperties, EmptySeq
<1>2. ASSUME HasTrigger(q) PROVE HasTrigger(Tail(q)) \/ Triggers(Head(q))
  <2>1. PICK i \in 1 .. Len(q) : Triggers(q[i])
    BY <1>2 DEF HasTrigger
  <2>2. CASE i = 1
    BY <1>1, <2>1, <2>2
  <2>3. CASE i # 1
    <3>1. i - 1 \in 1 .. Len(Tail(q)) /\ Tail(q)[i - 1] = q[i]
      BY <1>1, <2>3
    <3> QED BY <2>1, <3>1 DEF HasTrigger
  <2> QED BY <2>2, <2>3
<1>3. ASSUME HasTrigger(Tail(q)) PROVE HasTrigger(q)
  <2>1. PICK i \in 1 .. Len(Tail(q)) : Triggers(Tail(q)[i])
    BY <1>3 DEF HasTrigger
  <2>2. i + 1 \in 1 .. Len(q) /\ q[i + 1] = Tail(q)[i]
    BY <1>1
  <2> QED BY <2>1, <2>2 DEF HasTrigger
<1>4. Triggers(Head(q)) => HasTrigger(q)
  BY <1>1 DEF HasTrigger
<1> QED BY <1>1, <1>2, <1>3, <1>4

LEMMA EmptyTrigger == ~HasTrigger(<< >>) /\ << >> \in Seq(Kinds)
  BY DEF HasTrigger

LEMMA TaskStates ==
  /\ Waiting # Debouncing
  /\ \A c \in Contents : Loaded(c) # Waiting /\ Loaded(c) # Debouncing /\ Loaded(c).content = c
  /\ \A c, d \in Contents : Loaded(c) = Loaded(d) => c = d
<1>1. /\ Waiting.at = "waiting" /\ Debouncing.at = "debouncing"
      /\ \A c : Loaded(c).at = "loaded" /\ Loaded(c).content = c
  BY DEF Waiting, Debouncing, Loaded
<1>2. \A c, d : Loaded(c) = Loaded(d) => Loaded(c).content = Loaded(d).content
  OBVIOUS
<1> QED BY <1>1, <1>2

----------------------------------------------------------------------------
LEMMA FileInitInv == FileInit => FileInv
<1> SUFFICES ASSUME FileInit PROVE FileInv
  OBVIOUS
<1>1. events \in Seq(Kinds) /\ channel \in Seq(Kinds) /\ Len(channel) = 0
  BY EmptyTrigger DEF FileInit
<1>2. FileTypeOK
  <2>1. file \in Contents /\ task \in {Waiting, Debouncing} \cup {Loaded(c) : c \in Contents}
    BY DEF FileInit
  <2>2. Len(channel) <= ChannelSize /\ saves \in 0 .. MaxSaves /\ crashes \in 0 .. MaxCrashes
    BY <1>1, BoundAssumption DEF FileInit
  <2> QED BY <1>1, <2>1, <2>2 DEF FileInit, FileTypeOK
<1>3. Quiescent /\ NothingLost
  BY DEF FileInit, Quiescent, NothingLost
<1> QED BY <1>2, <1>3 DEF FileInv

\* Whatever changes the file while it is watched leaves a trigger.
LEMMA ChangeStep ==
  ASSUME FileInv, NEW c \in Contents, Change(c),
         events' \in Seq(Kinds), watching' \in BOOLEAN, watching' => watching /\ c # Missing,
         watching => HasTrigger(events'),
         ~watching => events' = events
  PROVE FileInv'
<1>1. FileTypeOK'
  BY BoundAssumption DEF FileInv, FileTypeOK, Change
<1>2. Quiescent'
  BY DEF FileInv, Quiescent, Change
<1>3. NothingLost'
  BY DEF FileInv, FileTypeOK, NothingLost, Change, Pending, HasTrigger
<1> QED BY <1>1, <1>2, <1>3 DEF FileInv

LEMMA SaveStep ==
  ASSUME FileInv, NEW c \in Contents, Write(c) \/ Replace(c) \/ Create(c)
  PROVE FileInv'
<1>1. events \in Seq(Kinds) /\ "Modify" \in Kinds /\ "Remove" \in Kinds /\ Triggers("Modify")
  BY DEF FileInv, FileTypeOK, Kinds, Triggers
<1>2. /\ Report("Modify", events) \in Seq(Kinds) /\ HasTrigger(Report("Modify", events))
  BY <1>1, ReportTrigger
<1>3. CASE Write(c)
  BY <1>1, <1>2, <1>3, ChangeStep DEF Write, FileInv, FileTypeOK
<1>4. CASE Replace(c)
  <2>1. /\ Report("Remove", Report("Modify", events)) \in Seq(Kinds)
        /\ HasTrigger(Report("Remove", Report("Modify", events)))
    BY <1>1, <1>2, ReportTrigger
  <2> QED BY <1>1, <2>1, <1>4, ChangeStep DEF Replace
<1>5. CASE Create(c)
  BY <1>1, <1>5, ChangeStep DEF Create, FileInv, FileTypeOK, Quiescent
<1> QED BY <1>3, <1>4, <1>5

LEMMA BeginStep ==
  ASSUME FileInv, Start \/ Watch \/ Crash
  PROVE FileInv'
<1>1. CASE Start
  BY <1>1 DEF FileInv, FileTypeOK, Quiescent, NothingLost, Start
<1>2. CASE Watch
  <2>1. /\ watching' \in BOOLEAN /\ (watching' => file # Missing)
        /\ up = "loaded" /\ up' = "running"
        /\ UNCHANGED <<file, events, channel, task, served, unseen, saves, crashes>>
    BY <1>2 DEF Watch
  <2>2. FileTypeOK'
    BY <2>1 DEF FileInv, FileTypeOK
  <2>3. Quiescent'
    BY <2>1 DEF FileInv, Quiescent
  <2>4. ~HasTrigger(events) /\ ~HasTrigger(channel) /\ task = Waiting
    BY <2>1, EmptyTrigger DEF FileInv, Quiescent
  <2>5. task # Debouncing /\ (file \in Lists => task # Loaded(file))
    BY <2>4, TaskStates DEF Contents
  <2>6. NothingLost'
    BY <2>1, <2>4, <2>5 DEF FileInv, NothingLost, Pending
  <2> QED BY <2>2, <2>3, <2>6 DEF FileInv
<1>3. CASE Crash
  <2>1. /\ up' = "down" /\ ~watching' /\ events' = << >> /\ channel' = << >>
        /\ task' = Waiting /\ served' = Missing /\ crashes < MaxCrashes /\ crashes' = crashes + 1
        /\ UNCHANGED <<file, unseen, saves>> /\ watching' = FALSE
    BY <1>3 DEF Crash
  <2>2. FileTypeOK'
    <3>1. events' \in Seq(Kinds) /\ channel' \in Seq(Kinds) /\ Len(channel') = 0
      BY <2>1, EmptyTrigger
    <3>2. /\ Len(channel') <= ChannelSize /\ crashes' \in 0 .. MaxCrashes
      BY <2>1, <3>1, BoundAssumption DEF FileInv, FileTypeOK
    <3> QED BY <2>1, <3>1, <3>2 DEF FileInv, FileTypeOK
  <2>3. Quiescent' /\ NothingLost'
    BY <2>1 DEF Quiescent, NothingLost
  <2> QED BY <2>2, <2>3 DEF FileInv
<1> QED BY <1>1, <1>2, <1>3

LEMMA ForwardStep ==
  ASSUME FileInv, Forward
  PROVE FileInv'
<1>1. /\ events \in Seq(Kinds) /\ events # << >> /\ channel \in Seq(Kinds)
      /\ events' = Tail(events)
      /\ UNCHANGED <<file, up, watching, task, served, saves, crashes>>
      /\ \/ /\ channel' = Append(channel, Head(events)) /\ unseen' = unseen
            /\ Len(channel) < ChannelSize
         \/ /\ channel' = channel
            /\ unseen' = (unseen \/ (Triggers(Head(events)) /\ ~Pending'))
  BY DEF FileInv, FileTypeOK, Forward
<1>2. /\ Head(events) \in Kinds /\ Tail(events) \in Seq(Kinds)
      /\ HasTrigger(events) <=> HasTrigger(Tail(events)) \/ Triggers(Head(events))
  BY <1>1, TailTrigger
<1>3. /\ channel' \in Seq(Kinds) /\ Len(channel') <= ChannelSize
      /\ \/ HasTrigger(channel') <=> HasTrigger(channel) \/ Triggers(Head(events))
         \/ channel' = channel /\ unseen' = (unseen \/ (Triggers(Head(events)) /\ ~Pending'))
  <2>1. CASE channel' = Append(channel, Head(events)) /\ Len(channel) < ChannelSize
    <3>1. /\ channel' \in Seq(Kinds) /\ Len(channel') = Len(channel) + 1
          /\ HasTrigger(channel') <=> HasTrigger(channel) \/ Triggers(Head(events))
      BY <1>1, <1>2, <2>1, AppendTrigger
    <3>2. Len(channel) \in Nat
      BY <1>1, LenProperties
    <3> QED BY <2>1, <3>1, <3>2, BoundAssumption
  <2>2. CASE channel' = channel /\ unseen' = (unseen \/ (Triggers(Head(events)) /\ ~Pending'))
    BY <1>1, <2>2 DEF FileInv, FileTypeOK
  <2> QED BY <1>1, <2>1, <2>2
<1>4. FileTypeOK'
  <2>1. unseen' \in BOOLEAN
    BY <1>1 DEF FileInv, FileTypeOK
  <2> QED BY <1>1, <1>2, <1>3, <2>1 DEF FileInv, FileTypeOK
<1>5. Quiescent'
  BY <1>1 DEF FileInv, Quiescent, FileTypeOK
<1>6. /\ (HasTrigger(events))' <=> HasTrigger(Tail(events))
      /\ (HasTrigger(channel))' <=> HasTrigger(channel')
  BY <1>1 DEF HasTrigger, Triggers
<1>7. NothingLost'
  <2> SUFFICES ASSUME up # "down", ~unseen', file \in Lists, ~Pending'
               PROVE  task = Loaded(file) \/ (task = Waiting /\ served = file)
    BY <1>1 DEF NothingLost
  <2>1. ~HasTrigger(Tail(events)) /\ ~HasTrigger(channel') /\ task # Debouncing
    BY <1>1, <1>6 DEF Pending
  <2>2. ~unseen
    BY <1>1
  <2>3. ~Pending
    BY <1>1, <1>2, <1>3, <2>1 DEF Pending
  <2> QED BY <2>2, <2>3 DEF FileInv, NothingLost
<1> QED BY <1>4, <1>5, <1>7 DEF FileInv

LEMMA ReceiveStep ==
  ASSUME FileInv, Receive
  PROVE FileInv'
<1>1. /\ up = "running" /\ task = Waiting /\ channel # << >> /\ channel \in Seq(Kinds)
      /\ channel' = Tail(channel)
      /\ task' = IF Triggers(Head(channel)) THEN Debouncing ELSE Waiting
      /\ UNCHANGED <<file, up, watching, events, served, unseen, saves, crashes>>
  BY DEF FileInv, FileTypeOK, Receive
<1>2. /\ Tail(channel) \in Seq(Kinds) /\ Len(Tail(channel)) = Len(channel) - 1
      /\ HasTrigger(channel) <=> HasTrigger(Tail(channel)) \/ Triggers(Head(channel))
      /\ Len(channel) \in Nat
  BY <1>1, TailTrigger, LenProperties
<1>3. FileTypeOK'
  BY <1>1, <1>2, BoundAssumption DEF FileInv, FileTypeOK
<1>4. Quiescent'
  BY <1>1 DEF FileInv, Quiescent
<1>5. /\ (HasTrigger(channel))' <=> HasTrigger(Tail(channel))
      /\ (HasTrigger(events))' <=> HasTrigger(events)
  BY <1>1 DEF HasTrigger, Triggers
<1>6. NothingLost'
  <2>1. CASE Triggers(Head(channel))
    BY <1>1, <2>1 DEF NothingLost, Pending
  <2>2. CASE ~Triggers(Head(channel))
    <3>1. task' = task /\ ((HasTrigger(channel))' <=> HasTrigger(channel))
      BY <1>1, <1>2, <1>5, <2>2
    <3> QED BY <1>1, <1>5, <3>1 DEF FileInv, NothingLost, Pending
  <2> QED BY <2>1, <2>2
<1> QED BY <1>3, <1>4, <1>6 DEF FileInv

LEMMA ReadStep ==
  ASSUME FileInv, Read
  PROVE FileInv'
<1>1. /\ task = Debouncing /\ file \in Contents
      /\ UNCHANGED <<file, up, watching, channel, served, saves, crashes>>
      /\ events' = events \/ (watching /\ events' = Report("Access", events))
      /\ \/ task' = Loaded(file) /\ unseen' = unseen
         \/ task' = Loaded(Missing) /\ unseen' = (unseen \/ ~Pending')
  BY DEF FileInv, FileTypeOK, Read
<1>2. events' \in Seq(Kinds)
  BY <1>1, ReportTrigger DEF FileInv, FileTypeOK, Kinds
<1>3. FileTypeOK'
  <2>1. unseen' \in BOOLEAN /\ task' \in {Loaded(c) : c \in Contents}
    BY <1>1 DEF FileInv, FileTypeOK, Contents
  <2> QED BY <1>1, <1>2, <2>1 DEF FileInv, FileTypeOK
<1>4. Quiescent'
  BY <1>1, TaskStates DEF FileInv, Quiescent
<1>5. NothingLost'
  <2>1. CASE task' = Loaded(file)
    BY <1>1, <2>1 DEF NothingLost, Loaded
  <2>2. CASE unseen' = (unseen \/ ~Pending')
    BY <2>2 DEF NothingLost
  <2> QED BY <1>1, <2>1, <2>2
<1> QED BY <1>3, <1>4, <1>5 DEF FileInv

LEMMA StoreStep ==
  ASSUME FileInv, Store
  PROVE FileInv'
<1>1. PICK c \in Contents : task = Loaded(c) /\ task.content = c
  <2>1. task \notin {Waiting, Debouncing}
    BY DEF Store, Waiting, Debouncing
  <2> QED BY <2>1, TaskStates DEF FileInv, FileTypeOK
<1>2. /\ task' = Waiting /\ served' = Stored(c) /\ up = "running"
      /\ UNCHANGED <<file, up, watching, events, channel, unseen, saves, crashes>>
  BY <1>1, TaskStates DEF Store, FileInv, Quiescent, FileTypeOK
<1>3. FileTypeOK'
  BY <1>1, <1>2 DEF FileInv, FileTypeOK, Stored
<1>4. Quiescent'
  BY <1>2 DEF FileInv, Quiescent
<1>5. NothingLost'
  <2>1. SUFFICES ASSUME ~unseen, file \in Lists, ~HasTrigger(events), ~HasTrigger(channel)
                 PROVE served' = file
    BY <1>2 DEF NothingLost, Pending, HasTrigger, Triggers
  <2>2. task = Loaded(file)
    BY <1>1, <1>2, <2>1, TaskStates DEF FileInv, NothingLost, Pending
  <2>3. c = file
    BY <1>1, <2>2, TaskStates DEF FileInv, FileTypeOK
  <2> QED BY <1>2, <2>1, <2>3 DEF Stored
<1> QED BY <1>3, <1>4, <1>5 DEF FileInv

LEMMA FileStutter == FileInv /\ UNCHANGED fileVars => FileInv'
  BY DEF FileInv, FileTypeOK, Quiescent, NothingLost, Pending, HasTrigger, Triggers, fileVars

LEMMA FileStepKeepsInv == FileInv /\ [FileNext]_fileVars => FileInv'
<1> SUFFICES ASSUME FileInv, [FileNext]_fileVars PROVE FileInv'
  OBVIOUS
<1>1. CASE UNCHANGED fileVars
  BY <1>1, FileStutter
<1>2. CASE FileNext
  BY <1>2, SaveStep, BeginStep, ForwardStep, ReceiveStep, ReadStep, StoreStep DEF FileNext, Reload
<1> QED BY <1>1, <1>2

LEMMA LostNothingSettled == FileInv => SettledIsCurrent
<1> SUFFICES ASSUME FileInv, Settled, file \in Lists, ~unseen PROVE served = file
  BY DEF SettledIsCurrent
<1>1. DOMAIN events = 1 .. Len(events) /\ DOMAIN channel = 1 .. Len(channel)
  BY LenProperties DEF FileInv, FileTypeOK
<1>2. ~Pending /\ task = Waiting
  BY <1>1, TaskStates DEF Settled, Pending, HasTrigger
<1>3. task # Loaded(file)
  BY <1>2, TaskStates DEF FileInv, FileTypeOK
<1> QED BY <1>2, <1>3 DEF FileInv, NothingLost, Settled

----------------------------------------------------------------------------
(* What match_faq returns.  Its pass is a fold, which computes a function  *)
(* on the sets of positions, the set without its last element first: what  *)
(* the pass holds after the entries of a set s is described by BestIn(s),  *)
(* and a set for which this failed could be made smaller.                  *)

LEMMA MaxExists ==
  ASSUME NEW n \in Nat, NEW S \in SUBSET (1 .. n), S # {}
  PROVE  Max(S) \in S /\ \A k \in S : k <= Max(S)
<1> DEFINE T == {n - m : m \in S}
<1>1. T \subseteq Nat /\ T # {}
  <2>1. \A m \in S : n - m \in Nat
    OBVIOUS
  <2>2. PICK m \in S : n - m \in T
    OBVIOUS
  <2> QED BY <2>1, <2>2, Zenon
<1>2. PICK t \in T : \A y \in T : ~(<<y, t>> \in OpToRel(<, Nat))
  BY <1>1, NatLessThanWellFounded, WFMin
<1>3. PICK m \in S : t = n - m
  BY <1>2
<1>4. ASSUME NEW k \in S PROVE m >= k
  <2>1. n - k \in T /\ n - k \in Nat /\ t \in Nat
    BY <1>1
  <2>2. ~(n - k < t)
    BY <1>2, <2>1 DEF OpToRel
  <2> QED BY <1>3, <2>1, <2>2
<1>5. Max(S) \in S /\ \A k \in S : Max(S) >= k
  BY <1>4 DEF Max
<1> QED BY <1>5

\* What holds of the empty set, and of a set whenever it holds of the set without its
\* last element, holds of every set of positions.
LEMMA SubsetInduction ==
  ASSUME NEW n \in Nat, NEW Good, {} \in Good,
         \A s \in SUBSET (1 .. n) : s # {} /\ s \ {Max(s)} \in Good => s \in Good
  PROVE  \A s \in SUBSET (1 .. n) : s \in Good
<1> DEFINE Bad == {k \in 0 .. n : \E s \in SUBSET (1 .. k) : s \notin Good}
<1> SUFFICES ASSUME NEW s \in SUBSET (1 .. n), s \notin Good PROVE FALSE
  OBVIOUS
<1>1. n \in Bad /\ Bad \subseteq Nat
  OBVIOUS
<1>2. PICK k \in Bad : \A y \in Bad : ~(<<y, k>> \in OpToRel(<, Nat))
  <2> HIDE DEF Bad
  <2>1. Bad # {}
    BY <1>1
  <2> QED BY <1>1, <2>1, NatLessThanWellFounded, WFMin
<1>3. PICK r \in SUBSET (1 .. k) : r \notin Good
  BY <1>2
<1>4. k \in 0 .. n /\ r # {} /\ r \in SUBSET (1 .. n)
  <2>1. k \in 0 .. n
    OBVIOUS
  <2>2. 1 .. k \subseteq 1 .. n
    BY <2>1
  <2> HIDE DEF Bad
  <2> QED BY <1>3, <2>1, <2>2
<1>5. Max(r) \in r /\ \A i \in r : i <= Max(r)
  BY <1>4, MaxExists
<1>6. r \ {Max(r)} \in SUBSET (1 .. (Max(r) - 1)) /\ Max(r) - 1 \in 0 .. n /\ Max(r) - 1 < k
  <2> HIDE DEF Bad
  <2>1. Max(r) \in 1 .. k
    BY <1>3, <1>5
  <2>2. \A i \in r \ {Max(r)} : i \in 1 .. (Max(r) - 1)
    BY <1>4, <1>5, <2>1
  <2>3. Max(r) - 1 \in 0 .. n /\ Max(r) - 1 < k
    BY <1>4, <2>1
  <2>4. r \ {Max(r)} \subseteq 1 .. (Max(r) - 1)
    BY <2>2, Zenon
  <2> QED BY <2>3, <2>4
<1>7. Max(r) - 1 \notin Bad
  <2> HIDE DEF Bad
  <2>1. Max(r) - 1 \in Nat /\ k \in Nat
    BY <1>4, <1>6
  <2> QED BY <1>2, <1>6, <2>1 DEF OpToRel
<1>8. r \ {Max(r)} \in Good
  BY <1>6, <1>7
<1> QED BY <1>3, <1>4, <1>8

LEMMA ScoreIsNat ==
  ASSUME NEW entry \in Seq(STRING), NEW words
  PROVE  Score(entry, words) \in Nat
<1> DEFINE hits == {k \in DOMAIN entry : entry[k] # "" /\ entry[k] \in words}
<1>1. Len(entry) \in Nat /\ DOMAIN entry = 1 .. Len(entry)
  BY LenProperties
<1>2. IsFiniteSet(1 .. Len(entry))
  BY <1>1, FS_Interval
<1>3. hits \in SUBSET (1 .. Len(entry))
  BY <1>1
<1>4. IsFiniteSet(hits)
  BY <1>2, <1>3, FS_Subset
<1>5. Cardinality(hits) \in Nat
  BY <1>4, FS_CardinalityType
<1> QED BY <1>5 DEF Score

\* The best of the entries at the positions s.
BestIn(words, faqs, s) ==
  {i \in s :
     /\ Score(faqs[i], words) > 0
     /\ \A j \in s :
          \/ Score(faqs[j], words) < Score(faqs[i], words)
          \/ Score(faqs[j], words) = Score(faqs[i], words) /\ i <= j}

\* What the pass holds for them, where it is right.
Held(words, faqs, s, best) ==
  \/ /\ \A j \in s : Score(faqs[j], words) = 0
     /\ best = [index |-> 0, score |-> 0]
  \/ \E i \in BestIn(words, faqs, s) : best = [index |-> i, score |-> Score(faqs[i], words)]

Picked(words, faqs, best, i) ==
  IF Better(faqs[i], words, best) THEN [index |-> i, score |-> Score(faqs[i], words)] ELSE best

\* One step of the pass.
LEMMA PickHolds ==
  ASSUME NEW faqs \in Seq(Seq(STRING)), NEW words, NEW s \in SUBSET (1 .. Len(faqs)), s # {},
         NEW best, Held(words, faqs, s \ {Max(s)}, best)
  PROVE  Held(words, faqs, s, Picked(words, faqs, best, Max(s)))
<1> DEFINE m == Max(s)
           t == s \ {m}
<1>1. Len(faqs) \in Nat /\ \A j \in s : j \in Nat /\ Score(faqs[j], words) \in Nat
  <2>1. Len(faqs) \in Nat /\ \A j \in 1 .. Len(faqs) : faqs[j] \in Seq(STRING)
    BY ElementOfSeq, LenProperties
  <2> QED BY <2>1, ScoreIsNat
<1>2. m \in s /\ \A j \in s : j <= m
  BY <1>1, MaxExists
<1> HIDE DEF m
<1>3. CASE /\ \A j \in t : Score(faqs[j], words) = 0
           /\ best = [index |-> 0, score |-> 0]
  <2>1. CASE Score(faqs[m], words) > 0
    <3>1. m \in BestIn(words, faqs, s)
      BY <1>1, <1>2, <1>3, <2>1 DEF BestIn
    <3>2. Picked(words, faqs, best, m) = [index |-> m, score |-> Score(faqs[m], words)]
      BY <1>3, <2>1 DEF Picked, Better
    <3> QED BY <3>1, <3>2 DEF Held, m
  <2>2. CASE ~(Score(faqs[m], words) > 0)
    <3>1. Score(faqs[m], words) = 0
      BY <1>1, <1>2, <2>2
    <3>2. Picked(words, faqs, best, m) = best
      BY <1>3, <2>2 DEF Picked, Better
    <3> QED BY <1>3, <3>1, <3>2 DEF Held, m
  <2> QED BY <2>1, <2>2
<1>4. ASSUME NEW i \in BestIn(words, faqs, t), best = [index |-> i, score |-> Score(faqs[i], words)]
      PROVE  Held(words, faqs, s, Picked(words, faqs, best, m))
  <2>1. i \in s /\ Score(faqs[i], words) > 0
    BY DEF BestIn
  <2>2. \A j \in t : \/ Score(faqs[j], words) < Score(faqs[i], words)
                     \/ Score(faqs[j], words) = Score(faqs[i], words) /\ i <= j
    BY DEF BestIn
  <2>3. CASE Score(faqs[m], words) > Score(faqs[i], words)
    <3>1. \A j \in t : Score(faqs[j], words) < Score(faqs[m], words)
      BY <1>1, <1>2, <2>1, <2>2, <2>3
    <3>2. m \in BestIn(words, faqs, s)
      BY <1>1, <1>2, <2>1, <2>3, <3>1 DEF BestIn
    <3>3. Picked(words, faqs, best, m) = [index |-> m, score |-> Score(faqs[m], words)]
      BY <1>4, <2>3 DEF Picked, Better
    <3> QED BY <3>2, <3>3 DEF Held
  <2>4. CASE ~(Score(faqs[m], words) > Score(faqs[i], words))
    <3>1. \/ Score(faqs[m], words) < Score(faqs[i], words)
          \/ Score(faqs[m], words) = Score(faqs[i], words) /\ i <= m
      BY <1>1, <1>2, <2>1, <2>4
    <3>2. i \in BestIn(words, faqs, s)
      BY <2>1, <2>2, <3>1 DEF BestIn
    <3>3. Picked(words, faqs, best, m) = best
      BY <1>4, <2>4 DEF Picked, Better
    <3> QED BY <1>4, <3>2, <3>3 DEF Held
  <2> QED BY <2>3, <2>4
<1> QED BY <1>3, <1>4 DEF Held, m

\* What is held is determined by the positions.
LEMMA HeldIsUnique ==
  ASSUME NEW faqs \in Seq(Seq(STRING)), NEW words, NEW s \in SUBSET (1 .. Len(faqs)),
         NEW a, NEW b, Held(words, faqs, s, a), Held(words, faqs, s, b)
  PROVE  a = b
<1>1. \A j \in s : j \in Nat /\ Score(faqs[j], words) \in Nat
  <2>1. Len(faqs) \in Nat /\ \A j \in 1 .. Len(faqs) : faqs[j] \in Seq(STRING)
    BY ElementOfSeq, LenProperties
  <2> QED BY <2>1, ScoreIsNat
<1>2. \A i \in BestIn(words, faqs, s) :
        i \in s /\ Score(faqs[i], words) > 0 /\ ~(Score(faqs[i], words) = 0)
  BY <1>1 DEF BestIn
<1>3. ASSUME NEW i \in BestIn(words, faqs, s), NEW j \in BestIn(words, faqs, s) PROVE i = j
  <2>1. /\ i \in Nat /\ j \in Nat
        /\ Score(faqs[i], words) \in Nat /\ Score(faqs[j], words) \in Nat
    BY <1>1, <1>2
  <2>2. /\ \/ Score(faqs[j], words) < Score(faqs[i], words)
           \/ Score(faqs[j], words) = Score(faqs[i], words) /\ i <= j
        /\ \/ Score(faqs[i], words) < Score(faqs[j], words)
           \/ Score(faqs[i], words) = Score(faqs[j], words) /\ j <= i
    BY DEF BestIn
  <2> QED BY <2>1, <2>2
<1> QED BY <1>2, <1>3 DEF Held

\* The fold, written out: the function on sets of positions that it chooses.
Folded(words, faqs, f) ==
  [s \in SUBSET DOMAIN faqs |->
     IF s = {} THEN [index |-> 0, score |-> 0] ELSE Picked(words, faqs, f[s \ {Max(s)}], Max(s))]

LEMMA FoldWrittenOut ==
  ASSUME NEW faqs \in Seq(Seq(STRING)), NEW words
  PROVE  \E f : f = Folded(words, faqs, f) /\ MatchFaq(words, faqs) = f[DOMAIN faqs].index
<1> DEFINE n == Len(faqs)
           positions == [i \in DOMAIN faqs |-> i]
           Raw(f) == [s \in SUBSET DOMAIN positions |->
                        IF s = {} THEN [index |-> 0, score |-> 0]
                        ELSE IF Better(faqs[positions[Max(s)]], words, f[s \ {Max(s)}])
                             THEN [index |-> positions[Max(s)],
                                   score |-> Score(faqs[positions[Max(s)]], words)]
                             ELSE f[s \ {Max(s)}]]
           chosen == CHOOSE f : f = Raw(f)
           held == [s \in SUBSET DOMAIN faqs |-> CHOOSE best : Held(words, faqs, s, best)]
<1>1. MatchFaq(words, faqs) = chosen[DOMAIN positions].index
  BY DEF MatchFaq, FoldLeft, MapThenFoldSet
<1>2. n \in Nat /\ DOMAIN faqs = 1 .. n /\ DOMAIN positions = 1 .. n
  BY LenProperties
<1>3. \A s \in SUBSET (1 .. n) : s # {} => Max(s) \in s /\ Max(s) \in 1 .. n
  <2> HIDE DEF n
  <2>1. \A s \in SUBSET (1 .. n) : s # {} => Max(s) \in s
    BY <1>2, MaxExists
  <2> QED BY <2>1
<1>4. ASSUME NEW f PROVE Raw(f) = Folded(words, faqs, f)
  <2>1. ASSUME NEW s \in SUBSET (1 .. n), s # {} PROVE positions[Max(s)] = Max(s)
    BY <1>2, <1>3, <2>1
  <2> HIDE DEF positions, n
  <2>2. ASSUME NEW s \in SUBSET (1 .. n)
        PROVE  Raw(f)[s] = Folded(words, faqs, f)[s]
    BY <1>2, <2>1 DEF Folded, Picked
  <2> QED BY <1>2, <2>2 DEF Folded
<1>5. \A s \in SUBSET (1 .. n) : Held(words, faqs, s, held[s])
  <2> DEFINE Good == {s \in SUBSET (1 .. n) : Held(words, faqs, s, held[s])}
  <2>1. ASSUME NEW s \in SUBSET (1 .. n), NEW best, Held(words, faqs, s, best)
        PROVE  s \in Good
    BY <1>2, <2>1
  <2>2. {} \in Good
    BY <2>1 DEF Held
  <2>3. ASSUME NEW s \in SUBSET (1 .. n), s # {}, s \ {Max(s)} \in Good
        PROVE  s \in Good
    <3>1. Held(words, faqs, s \ {Max(s)}, held[s \ {Max(s)}])
      BY <2>3
    <3>2. Held(words, faqs, s, Picked(words, faqs, held[s \ {Max(s)}], Max(s)))
      BY <2>3, <3>1, PickHolds
    <3> HIDE DEF Good
    <3> QED BY <2>1, <3>2
  <2>4. \A s \in SUBSET (1 .. n) : s \in Good
    <3> HIDE DEF Good, n
    <3> QED BY <1>2, <2>2, <2>3, SubsetInduction
  <2> QED BY <2>4
<1>6. held = Folded(words, faqs, held)
  <2>1. ASSUME NEW s \in SUBSET (1 .. n)
        PROVE  held[s] = IF s = {} THEN [index |-> 0, score |-> 0]
                         ELSE Picked(words, faqs, held[s \ {Max(s)}], Max(s))
    <3>1. Held(words, faqs, s, held[s])
      BY <1>5
    <3> HIDE DEF held
    <3>2. CASE s = {}
      <4>1. Held(words, faqs, s, [index |-> 0, score |-> 0])
        BY <3>2 DEF Held
      <4> QED BY <3>1, <3>2, <4>1, HeldIsUnique
    <3>3. CASE s # {}
      <4>1. Held(words, faqs, s \ {Max(s)}, held[s \ {Max(s)}])
        BY <1>5
      <4>2. Held(words, faqs, s, Picked(words, faqs, held[s \ {Max(s)}], Max(s)))
        BY <3>3, <4>1, PickHolds
      <4> QED BY <3>1, <3>3, <4>2, HeldIsUnique
    <3> QED BY <3>2, <3>3
  <2>2. DOMAIN held = SUBSET (1 .. n) /\ held = [s \in SUBSET (1 .. n) |-> held[s]]
    BY <1>2
  <2> HIDE DEF held, n
  <2> QED BY <1>2, <2>1, <2>2 DEF Folded
<1>7. chosen = Folded(words, faqs, chosen)
  <2>1. held = Raw(held)
    BY <1>4, <1>6
  <2> HIDE DEF Raw, held
  <2>2. chosen = Raw(chosen)
    BY <2>1
  <2> QED BY <1>4, <2>2
<1> HIDE DEF chosen
<1> QED BY <1>1, <1>2, <1>7

\* What the pass ends with.
LEMMA MatchIsBest ==
  ASSUME NEW faqs \in Seq(Seq(STRING)), NEW words
  PROVE  IF Best(words, faqs) = {} THEN MatchFaq(words, faqs) = 0
         ELSE MatchFaq(words, faqs) # 0 /\ {MatchFaq(words, faqs)} = Best(words, faqs)
<1>1. PICK f : f = Folded(words, faqs, f) /\ MatchFaq(words, faqs) = f[DOMAIN faqs].index
  BY FoldWrittenOut
<1> DEFINE n == Len(faqs)
           Good == {s \in SUBSET (1 .. n) : Held(words, faqs, s, f[s])}
<1>2. n \in Nat /\ DOMAIN faqs = 1 .. n
  BY LenProperties
<1>3. \A s \in SUBSET (1 .. n) :
        f[s] = IF s = {} THEN [index |-> 0, score |-> 0]
               ELSE Picked(words, faqs, f[s \ {Max(s)}], Max(s))
  BY <1>1, <1>2 DEF Folded
<1>4. {} \in Good
  <2>1. f[{}] = [index |-> 0, score |-> 0]
    BY <1>3
  <2> QED BY <2>1 DEF Held
<1>5. ASSUME NEW s \in SUBSET (1 .. n), s # {}, s \ {Max(s)} \in Good
      PROVE  s \in Good
  <2>1. Held(words, faqs, s, Picked(words, faqs, f[s \ {Max(s)}], Max(s)))
    BY <1>5, PickHolds
  <2>2. f[s] = Picked(words, faqs, f[s \ {Max(s)}], Max(s))
    BY <1>3, <1>5
  <2> QED BY <2>1, <2>2
<1>6. Held(words, faqs, 1 .. n, f[1 .. n])
  <2>1. \A s \in SUBSET (1 .. n) : s \in Good
    <3> HIDE DEF Good, n
    <3> QED BY <1>2, <1>4, <1>5, SubsetInduction
  <2> QED BY <2>1
<1>7. Best(words, faqs) = BestIn(words, faqs, 1 .. n)
  BY <1>2 DEF Best, BestIn
<1>8. CASE /\ \A j \in 1 .. n : Score(faqs[j], words) = 0
           /\ f[1 .. n] = [index |-> 0, score |-> 0]
  <2>1. BestIn(words, faqs, 1 .. n) = {}
    BY <1>8 DEF BestIn
  <2> QED BY <1>1, <1>2, <1>7, <1>8, <2>1
<1>9. ASSUME NEW i \in BestIn(words, faqs, 1 .. n),
             f[1 .. n] = [index |-> i, score |-> Score(faqs[i], words)]
      PROVE  MatchFaq(words, faqs) = i /\ i # 0 /\ BestIn(words, faqs, 1 .. n) = {i}
  <2>1. MatchFaq(words, faqs) = i /\ i \in 1 .. n
    BY <1>1, <1>2, <1>9 DEF BestIn
  <2>2. ASSUME NEW j \in BestIn(words, faqs, 1 .. n) PROVE j = i
    <3> DEFINE bestI == [index |-> i, score |-> Score(faqs[i], words)]
               bestJ == [index |-> j, score |-> Score(faqs[j], words)]
    <3>1. Held(words, faqs, 1 .. n, bestI) /\ Held(words, faqs, 1 .. n, bestJ)
      BY DEF Held
    <3>2. bestI = bestJ
      <4> HIDE DEF bestI, bestJ
      <4> QED BY <3>1, HeldIsUnique
    <3> QED BY <3>2
  <2>3. BestIn(words, faqs, 1 .. n) = {i}
    BY <2>2
  <2>4. i # 0
    BY <1>2, <2>1
  <2> QED BY <2>1, <2>3, <2>4
<1> QED BY <1>6, <1>7, <1>8, <1>9 DEF Held

----------------------------------------------------------------------------
(* The messages.                                                           *)

Forms == {"slash", "mxid", "short", "dm"}
Asks == {message.asks[form] : message \in Messages, form \in Forms}
Replies == [to : Nat, ask : Asks, list : Lists,
            reply : {DecideReply(ask, l) : ask \in Asks, l \in Lists}]

MessageTypes ==
  /\ sent \in Seq(Messages) /\ Len(sent) <= MaxSent
  /\ session \in {"none", "syncing"} /\ (session = "syncing" => up = "running")
  /\ position \in 0 .. Len(sent)
  /\ replies \in Seq(Replies) /\ \A i \in 1 .. Len(replies) : replies[i].to \in 1 .. Len(sent)
  /\ unprimed \in BOOLEAN

\* What has been answered lies behind the session's position.
AnsweredBehind ==
  ~unprimed /\ session = "syncing" => \A i \in 1 .. Len(replies) : replies[i].to <= position

Increasing ==
  ~unprimed => \A i, j \in 1 .. Len(replies) : i < j => replies[i].to < replies[j].to

\* A reply is what was decided for its question over its list.
Decided ==
  \A i \in 1 .. Len(replies) :
    replies[i].reply = DecideReply(replies[i].ask, replies[i].list)

IInv == FileInv /\ MessageTypes /\ AnsweredBehind /\ Increasing /\ Decided

LEMMA InitInv == Init => IInv
<1> SUFFICES ASSUME Init PROVE IInv
  OBVIOUS
<1>1. /\ sent \in Seq(Messages) /\ replies \in Seq(Replies)
      /\ Len(sent) = 0 /\ Len(replies) = 0
  BY EmptySeq DEF Init
<1>2. \A i \in 1 .. Len(replies) : FALSE
  BY <1>1
<1>3. MessageTypes
  <2>1. Len(sent) <= MaxSent /\ position \in 0 .. Len(sent)
    BY <1>1, SentAssumption DEF Init
  <2> QED BY <1>1, <1>2, <2>1 DEF Init, MessageTypes
<1>4. AnsweredBehind /\ Increasing /\ Decided
  BY <1>2 DEF AnsweredBehind, Increasing, Decided
<1> QED BY <1>3, <1>4, FileInitInv DEF Init, IInv

LEMMA FileStepOfBot == ASSUME IInv, FileStep PROVE IInv'
<1>1. FileInv'
  BY FileStepKeepsInv DEF IInv, FileStep
<1>2. up' # "down" => (session = "syncing" => up' = "running")
  BY DEF FileStep, FileNext, Reload, IInv, MessageTypes, Write, Replace, Create, Change, Start,
         Watch, Forward, Receive, Read, Store, Crash
<1>3. MessageTypes'
  BY <1>2 DEF FileStep, IInv, MessageTypes
<1>4. AnsweredBehind' /\ Increasing' /\ Decided'
  BY DEF FileStep, IInv, AnsweredBehind, Increasing, Decided
<1> QED BY <1>1, <1>3, <1>4 DEF IInv

LEMMA SendStep == ASSUME IInv, NEW message \in Messages, Send(message) PROVE IInv'
<1>1. FileInv'
  BY FileStutter DEF IInv, Send
<1>2. sent' \in Seq(Messages) /\ Len(sent') = Len(sent) + 1 /\ Len(sent) \in Nat
  BY AppendProperties DEF Send, IInv, MessageTypes
<1>3. MessageTypes'
  BY <1>2, SentAssumption DEF IInv, MessageTypes, Send, fileVars
<1>4. AnsweredBehind' /\ Increasing' /\ Decided'
  BY DEF IInv, Send, AnsweredBehind, Increasing, Decided
<1> QED BY <1>1, <1>3, <1>4 DEF IInv

LEMMA PrimeStep == ASSUME IInv, Prime PROVE IInv'
<1>1. FileInv'
  BY FileStutter DEF IInv, Prime
<1>2. Len(sent) \in Nat
  BY DEF IInv, MessageTypes
<1>3. MessageTypes'
  <2>1. /\ position' \in 0 .. Len(sent) /\ session' = "syncing" /\ up' = "running"
        /\ UNCHANGED <<sent, replies>> /\ unprimed' \in BOOLEAN
    <3>1. \/ position' = Len(sent) /\ unprimed' = unprimed
          \/ position' = 0 /\ unprimed' = TRUE
      BY DEF Prime
    <3>2. position' \in 0 .. Len(sent)
      BY <1>2, <3>1
    <3>3. up' = "running" /\ session' = "syncing" /\ UNCHANGED <<sent, replies>>
      BY DEF Prime, fileVars
    <3> QED BY <3>1, <3>2, <3>3 DEF IInv, MessageTypes
  <2> QED BY <2>1 DEF IInv, MessageTypes
<1>4. AnsweredBehind' /\ Increasing' /\ Decided'
  BY <1>2 DEF IInv, MessageTypes, Prime, AnsweredBehind, Increasing, Decided
<1> QED BY <1>1, <1>3, <1>4 DEF IInv

LEMMA TriggerForms == \A message : IdentifyTrigger(message) \subseteq Forms
  BY DEF IdentifyTrigger, Forms

LEMMA OnMessageStep == ASSUME IInv, OnMessage PROVE IInv'
<1>1. FileInv'
  BY FileStutter DEF IInv, OnMessage
<1>2. /\ position \in Nat /\ Len(sent) \in Nat /\ Len(replies) \in Nat
      /\ position' = position + 1 /\ position + 1 \in 1 .. Len(sent)
      /\ sent[position + 1] \in Messages
      /\ UNCHANGED <<sent, session, unprimed, up>> /\ session = "syncing" /\ served \in Lists
  BY ElementOfSeq, LenProperties DEF IInv, MessageTypes, OnMessage, fileVars, FileInv, FileTypeOK
<1>3. CASE UNCHANGED replies
  <2>1. MessageTypes'
    BY <1>2, <1>3 DEF IInv, MessageTypes
  <2>2. AnsweredBehind'
    <3> SUFFICES ASSUME ~unprimed, NEW i \in 1 .. Len(replies)
                 PROVE replies[i].to <= position + 1
      BY <1>2, <1>3 DEF AnsweredBehind
    <3>1. replies[i].to <= position /\ replies[i].to \in 1 .. Len(sent)
      BY <1>2 DEF IInv, AnsweredBehind, MessageTypes
    <3> QED BY <1>2, <3>1
  <2>3. Increasing'
    BY <1>2, <1>3 DEF IInv, Increasing
  <2>4. Decided'
    BY <1>3 DEF IInv, Decided
  <2> QED BY <1>1, <2>1, <2>2, <2>3, <2>4 DEF IInv
<1>4. CASE replies' # replies
  <2>1. PICK form \in IdentifyTrigger(sent[position + 1]) :
          replies' = Append(replies,
            [to |-> position + 1, ask |-> sent[position + 1].asks[form], list |-> served,
             reply |-> DecideReply(sent[position + 1].asks[form], served)])
    BY <1>4 DEF OnMessage
  <2> DEFINE ask == sent[position + 1].asks[form]
             r == [to |-> position + 1, ask |-> ask, list |-> served,
                   reply |-> DecideReply(ask, served)]
  <2>2. ask \in Asks
    BY <1>2, TriggerForms DEF Asks
  <2>3. r \in Replies /\ r.to = position + 1 /\ r.reply = DecideReply(r.ask, r.list)
    BY <1>2, <2>2 DEF Replies
  <2> HIDE DEF r
  <2>4. replies' = Append(replies, r)
    BY <2>1 DEF r
  <2>5. /\ replies' \in Seq(Replies) /\ Len(replies') = Len(replies) + 1
        /\ \A i \in 1 .. Len(replies) : replies'[i] = replies[i]
        /\ replies'[Len(replies) + 1] = r
    BY <2>3, <2>4, AppendProperties DEF IInv, MessageTypes
  <2>6. \A i \in 1 .. Len(replies') : i \in 1 .. Len(replies) \/ i = Len(replies) + 1
    BY <1>2, <2>5
  <2>7. MessageTypes'
    BY <1>2, <2>3, <2>5, <2>6 DEF IInv, MessageTypes
  <2>8. ~unprimed => \A i \in 1 .. Len(replies) :
                       replies[i].to <= position /\ replies[i].to \in Nat
    BY <1>2 DEF IInv, AnsweredBehind, MessageTypes
  <2>9. AnsweredBehind'
    BY <1>2, <2>3, <2>5, <2>6, <2>8 DEF AnsweredBehind
  <2>10. Increasing'
    <3> SUFFICES ASSUME ~unprimed, NEW i \in 1 .. Len(replies'), NEW j \in 1 .. Len(replies'), i < j
                 PROVE replies'[i].to < replies'[j].to
      BY <1>2 DEF Increasing
    <3>1. i \in 1 .. Len(replies)
      BY <1>2, <2>5
    <3>2. CASE j \in 1 .. Len(replies)
      BY <2>5, <3>1, <3>2 DEF IInv, Increasing
    <3>3. CASE j = Len(replies) + 1
      BY <1>2, <2>3, <2>5, <2>8, <3>1, <3>3
    <3> QED BY <2>6, <3>2, <3>3
  <2>11. Decided'
    BY <2>3, <2>5, <2>6 DEF IInv, Decided
  <2> QED BY <1>1, <2>7, <2>9, <2>10, <2>11 DEF IInv
<1> QED BY <1>3, <1>4

LEMMA StepKeepsInv == IInv /\ [Next]_vars => IInv'
<1> SUFFICES ASSUME IInv, [Next]_vars PROVE IInv'
  OBVIOUS
<1>1. CASE UNCHANGED vars
  <2>1. UNCHANGED fileVars
    BY <1>1 DEF vars, fileVars
  <2> QED BY <1>1, <2>1, FileStutter
          DEF vars, IInv, MessageTypes, AnsweredBehind, Increasing, Decided
<1>2. CASE Next
  BY <1>2, FileStepOfBot, SendStep, PrimeStep, OnMessageStep DEF Next
<1> QED BY <1>1, <1>2

LEMMA InvHolds == Spec => []IInv
  BY InitInv, StepKeepsInv, PTL DEF Spec

\* When nothing is under way the served list is the file's (reload.rs), unless the last
\* change happened without a watch, its last event was dropped or its last load failed to
\* read the file.
THEOREM NoChangeLost == Spec => []SettledIsCurrent
<1>1. IInv => SettledIsCurrent
  BY LostNothingSettled DEF IInv
<1> QED BY <1>1, InvHolds, PTL

\* Replies go to ever later messages (run, on_message), so none is answered twice,
\* across restarts too, unless an initial sync failed.
THEOREM RepliesAdvance == Spec => []AnsweredOnce
<1>1. IInv => AnsweredOnce
  <2> SUFFICES ASSUME IInv PROVE AnsweredOnce
    OBVIOUS
  <2>1. DOMAIN replies = 1 .. Len(replies)
    BY LenProperties DEF IInv, MessageTypes
  <2> QED BY <2>1 DEF IInv, Increasing, AnsweredOnce
<1> QED BY <1>1, InvHolds, PTL

\* Every variable keeps its type; whoever serves a session serves a list.
THEOREM TypeCorrect == Spec => []TypeOK
<1>1. IInv => TypeOK
  <2> SUFFICES ASSUME IInv PROVE TypeOK
    OBVIOUS
  <2>1. DOMAIN replies = 1 .. Len(replies) /\ DOMAIN sent = 1 .. Len(sent)
    BY LenProperties DEF IInv, MessageTypes
  <2>2. \A i \in 1 .. Len(replies) : replies[i] \in Replies
    BY ElementOfSeq DEF IInv, MessageTypes
  <2>3. \A i \in 1 .. Len(replies) : replies[i].list \in Lists
    BY <2>2 DEF Replies
  <2> QED BY <2>1, <2>3 DEF IInv, FileInv, MessageTypes, TypeOK
<1> QED BY <1>1, InvHolds, PTL

\* Every question is answered with the entry of the list that has the most keywords of
\* the question, the first on a tie, and with "no match" only if no entry has one: what
\* the pass of match_faq is for, whatever the list, the question and the reloads.
THEOREM AnswersAreBest == Spec => []AnswersBest
<1>1. IInv => AnswersBest
  <2> SUFFICES ASSUME IInv, NEW r \in Range(replies), r.ask.kind = "question"
               PROVE  IF Best(r.ask.words, r.list) = {} THEN r.reply.kind = "no match"
                      ELSE r.reply.kind = "entry" /\ {r.reply.index} = Best(r.ask.words, r.list)
    BY DEF AnswersBest
  <2>1. DOMAIN replies = 1 .. Len(replies)
    BY LenProperties DEF IInv, MessageTypes
  <2>2. PICK i \in 1 .. Len(replies) : r = replies[i]
    BY <2>1 DEF Range
  <2>3. r \in Replies /\ r.reply = DecideReply(r.ask, r.list)
    BY <2>2, ElementOfSeq DEF IInv, MessageTypes, Decided
  <2>4. r.list \in Seq(Seq(STRING))
    BY <2>3, ListAssumption DEF Replies
  <2>5. PICK found : found = MatchFaq(r.ask.words, r.list)
    OBVIOUS
  <2>6. PICK best : best = Best(r.ask.words, r.list)
    OBVIOUS
  <2>7. IF best = {} THEN found = 0 ELSE found # 0 /\ {found} = best
    BY <2>4, <2>5, <2>6, MatchIsBest
  <2>8. r.reply = IF found = 0 THEN [kind |-> "no match"] ELSE [kind |-> "entry", index |-> found]
    BY <2>3, <2>5 DEF DecideReply
  <2>9. IF best = {} THEN r.reply.kind = "no match"
        ELSE r.reply.kind = "entry" /\ {r.reply.index} = best
    <3>1. CASE best = {}
      <4>1. r.reply = [kind |-> "no match"]
        BY <2>7, <2>8, <3>1
      <4>2. [kind |-> "no match"].kind = "no match"
        OBVIOUS
      <4>3. r.reply.kind = "no match"
        BY <4>1, <4>2, Zenon
      <4> QED BY <3>1, <4>3, Zenon
    <3>2. CASE best # {}
      <4>1. r.reply = [kind |-> "entry", index |-> found] /\ {found} = best
        BY <2>7, <2>8, <3>2
      <4> QED BY <3>2, <4>1
    <3> QED BY <3>1, <3>2
  <2> QED BY <2>6, <2>9
<1> QED BY <1>1, InvHolds, PTL
=============================================================================
