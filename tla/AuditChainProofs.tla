--------------------------- MODULE AuditChainProofs ---------------------------
(***************************************************************************)
(* For any number of concurrent appends, any hash function and any number  *)
(* of commits to other tables: the audit chain never splits or breaks, and *)
(* AuditLog::append is atomic.                                             *)
(***************************************************************************)
EXTENDS AuditChain, SequenceTheorems, TLAPS

----------------------------------------------------------------------------
(* Rows are of no fixed type, so sequences are described by their domain.  *)

IsSequence(s) == Len(s) \in Nat /\ s = [i \in 1 .. Len(s) |-> s[i]]

LEMMA AppendToSequence ==
  ASSUME NEW s, NEW d, IsSequence(s)
  PROVE  /\ Len(Append(s, d)) = Len(s) + 1
         /\ Append(s, d) = [i \in 1 .. Len(s) + 1 |-> IF i = Len(s) + 1 THEN d ELSE s[i]]
         /\ IsSequence(Append(s, d))
<1> DEFINE S == {s[i] : i \in 1 .. Len(s)} \cup {d}
<1>1. s \in Seq(S) /\ d \in S
  BY DEF IsSequence
<1>2. Append(s, d) \in Seq(S) /\ Len(Append(s, d)) = Len(s) + 1
  BY <1>1
<1>3. \A i \in 1 .. Len(s) + 1 :
        Append(s, d)[i] = IF i = Len(s) + 1 THEN d ELSE s[i]
  BY <1>1
<1>4. Append(s, d) \in [1 .. Len(s) + 1 -> S]
  BY <1>2, LenProperties
<1>5. Append(s, d) = [i \in 1 .. Len(s) + 1 |-> Append(s, d)[i]]
  BY <1>4
<1> QED
  BY <1>2, <1>3, <1>5 DEF IsSequence

LEMMA EmptySequence ==
  ASSUME NEW s, IsSequence(s)
  PROVE  s = <<>> <=> Len(s) = 0
<1>1. s \in Seq({s[i] : i \in 1 .. Len(s)})
  BY DEF IsSequence
<1> QED
  BY <1>1, EmptySeq

----------------------------------------------------------------------------
(* The inductive invariant.                                                *)

Types ==
  /\ IsSequence(log)
  /\ version \in Nat
  /\ pc \in [Appenders -> {"select", "insert", "update", "commit", "appended", "failed"}]
  /\ snapshot \in [Appenders -> Nat]
  /\ prev = [a \in Appenders |-> prev[a]]
  /\ draft = [a \in Appenders |-> draft[a]]

\* The write lock belongs to the one append between its INSERT and its COMMIT.
Locking ==
  /\ \A a \in Appenders : pc[a] \in {"update", "commit"} <=> writer = a
  /\ writer \in Appenders \cup {Nobody}

\* A snapshot that is still the latest version shows the end of the log.
Fresh ==
  \A a \in Appenders :
    /\ snapshot[a] <= version
    /\ pc[a] = "insert" /\ snapshot[a] = version => prev[a] = LastHash

Row(i, c, e, t, p, h) ==
  [id |-> i, created |-> c, entry |-> e, subject |-> t, prev |-> p, hash |-> h]

LEMMA FieldsOfRow ==
  ASSUME NEW i, NEW c, NEW e, NEW t, NEW p, NEW h
  PROVE  /\ Row(i, c, e, t, p, h).id = i /\ Row(i, c, e, t, p, h).created = c
         /\ Row(i, c, e, t, p, h).entry = e /\ Row(i, c, e, t, p, h).subject = t
         /\ Row(i, c, e, t, p, h).prev = p /\ Row(i, c, e, t, p, h).hash = h
BY DEF Row

\* An inserted row continues the log; it has its hash before the COMMIT.
Drafted ==
  \A a \in Appenders :
    pc[a] \in {"update", "commit"} =>
      /\ draft[a] = Row(Len(log) + 1, TimeOf[a], a, SubjectOf[a], LastHash, draft[a].hash)
      /\ pc[a] = "commit" => draft[a].hash = EntryHash(draft[a], draft[a].created)

IInv == Types /\ Locking /\ Fresh /\ Drafted /\ ChainIntact

LEMMA InitInv == Init => IInv
<1> SUFFICES ASSUME Init PROVE IInv
  OBVIOUS
<1>1. Types /\ log = <<>> /\ Len(log) = 0
  BY DEF Init, Types, IsSequence
<1>2. Locking /\ Fresh /\ Drafted
  BY NobodyIsNoAppender DEF Init, Locking, Fresh, Drafted, LastHash
<1>3. ChainIntact
  BY <1>1 DEF ChainIntact, Verified
<1> QED
  BY <1>1, <1>2, <1>3 DEF IInv

LEMMA SelectKeeps == ASSUME IInv, NEW a \in Appenders, SelectLatest(a) PROVE IInv'
<1>1. Types' /\ Locking'
  BY DEF IInv, SelectLatest, Types, Locking, IsSequence
<1>2. LastHash' = LastHash
  BY DEF SelectLatest, LastHash
<1>3. Fresh' /\ Drafted' /\ ChainIntact'
  BY <1>2 DEF IInv, SelectLatest, Types, Fresh, Drafted, ChainIntact, Verified, EntryHash
<1> QED
  BY <1>1, <1>3 DEF IInv

LEMMA InsertKeeps == ASSUME IInv, NEW a \in Appenders, InsertRow(a) PROVE IInv'
<1>1. Types' /\ Locking'
  BY NobodyIsNoAppender DEF IInv, InsertRow, MayWrite, Types, Locking, IsSequence
<1>2. LastHash' = LastHash /\ prev[a] = LastHash
  BY DEF IInv, Fresh, InsertRow, MayWrite, LastHash
<1>3. Fresh' /\ ChainIntact'
  BY <1>2 DEF IInv, InsertRow, Types, Fresh, ChainIntact, Verified, EntryHash
<1>4. Drafted'
  <2>1. draft'[a] = Row(Len(log) + 1, TimeOf[a], a, SubjectOf[a], LastHash, Placeholder)
        /\ pc'[a] = "update"
    BY <1>2 DEF IInv, InsertRow, Types, Row
  <2>2. \A b \in Appenders \ {a} : pc'[b] \notin {"update", "commit"}
    BY NobodyIsNoAppender DEF IInv, InsertRow, MayWrite, Types, Locking
  <2> QED
    BY <1>2, <2>1, <2>2, FieldsOfRow DEF Drafted, InsertRow
<1> QED
  BY <1>1, <1>3, <1>4 DEF IInv

LEMMA UpdateKeeps == ASSUME IInv, NEW a \in Appenders, UpdateHash(a) PROVE IInv'
<1>1. Types' /\ Locking'
  BY DEF IInv, UpdateHash, Types, Locking, IsSequence
<1>2. LastHash' = LastHash
  BY DEF UpdateHash, LastHash
<1>3. Fresh' /\ ChainIntact'
  BY <1>2 DEF IInv, UpdateHash, Types, Fresh, ChainIntact, Verified, EntryHash
<1>4. Drafted'
  <2> DEFINE row(h) == Row(Len(log) + 1, TimeOf[a], a, SubjectOf[a], LastHash, h)
             hash == EntryHash(draft[a], draft[a].created)
  <2>1. draft[a] = row(draft[a].hash)
    BY DEF IInv, UpdateHash, Drafted
  <2>2. draft'[a] = [draft[a] EXCEPT !.hash = hash]
    BY DEF IInv, UpdateHash, Types
  <2>3. \A h, k : [row(h) EXCEPT !.hash = k] = row(k)
    BY DEF Row
  <2>4. draft'[a] = row(hash)
    <3> HIDE DEF row, hash
    <3> QED BY <2>1, <2>2, <2>3
  <2>5. hash = EntryHash(draft'[a], draft'[a].created) /\ draft'[a].hash = hash
    <3>1. \A h : EntryHash(row(h), row(h).created) =
                  Hash(Len(log) + 1, TimeOf[a], a, Canonical(SubjectOf[a]), LastHash)
      BY FieldsOfRow DEF EntryHash
    <3>2. \A h : row(h).hash = h
      BY FieldsOfRow
    <3> HIDE DEF row
    <3> QED BY <2>1, <2>4, <3>1, <3>2
  <2>6. \A b \in Appenders \ {a} : pc'[b] = pc[b] /\ draft'[b] = draft[b]
    BY DEF IInv, UpdateHash, Types
  <2>7. Len(log') = Len(log) /\ EntryHash(draft'[a], draft'[a].created) =
                                 EntryHash(draft[a], draft[a].created)'
    BY DEF UpdateHash, EntryHash, Canonical
  <2> HIDE DEF hash
  <2> QED
    BY <1>2, <2>4, <2>5, <2>6, <2>7 DEF IInv, Drafted, UpdateHash, EntryHash
<1> QED
  BY <1>1, <1>3, <1>4 DEF IInv

LEMMA CommitKeeps == ASSUME IInv, NEW a \in Appenders, Commit(a) PROVE IInv'
<1> /\ pc[a] = "commit" /\ log' = Append(log, draft[a]) /\ IsSequence(log)
    /\ draft[a].prev = LastHash /\ draft[a].hash = EntryHash(draft[a], TimeOf[a])
    /\ draft[a].created = TimeOf[a]
  BY FieldsOfRow DEF IInv, Types, Drafted, Commit
<1>1. /\ Len(log') = Len(log) + 1 /\ IsSequence(log')
      /\ \A i \in 1 .. Len(log) : log'[i] = log[i]
      /\ log'[Len(log) + 1] = draft[a]
  BY AppendToSequence DEF IsSequence
<1>2. Types'
  BY <1>1 DEF IInv, Commit, Types
<1>3. Locking' /\ \A b \in Appenders : pc'[b] \notin {"update", "commit"}
  BY NobodyIsNoAppender DEF IInv, Commit, Types, Locking
<1>4. Fresh' /\ Drafted'
  BY <1>3 DEF IInv, Commit, Types, Fresh, Drafted
<1>5. ChainIntact'
  <2> SUFFICES ASSUME NEW i \in 1 .. Len(log) + 1
               PROVE  /\ Millis(log'[i].created) # Unparsable
                      /\ log'[i].prev = IF i = 1 THEN Genesis ELSE log'[i - 1].hash
                      /\ log'[i].hash = EntryHash(log'[i], Millis(log'[i].created))
    BY <1>1 DEF ChainIntact, Verified, EntryHash
  <2>1. CASE i = Len(log) + 1
    <3>1. LastHash = IF i = 1 THEN Genesis ELSE log'[i - 1].hash
      <4>1. Len(log) \in Nat /\ (log = <<>> <=> i = 1)
        BY <2>1, EmptySequence DEF IsSequence
      <4>2. i # 1 => i - 1 = Len(log) /\ log'[i - 1] = log[Len(log)]
        BY <1>1, <2>1, <4>1
      <4> QED
        BY <4>1, <4>2 DEF LastHash
    <3> QED
      BY <1>1, <2>1, <3>1, TimesAreWrittenToMillis
  <2>2. CASE i # Len(log) + 1
    <3>1. /\ i \in 1 .. Len(log) /\ log'[i] = log[i]
          /\ i # 1 => log'[i - 1] = log[i - 1]
      BY <1>1, <2>2 DEF IsSequence
    <3> QED
      BY <3>1 DEF IInv, ChainIntact, Verified
  <2> QED
    BY <2>1, <2>2
<1> QED
  BY <1>2, <1>3, <1>4, <1>5 DEF IInv

LEMMA RollbackKeeps == ASSUME IInv, NEW a \in Appenders, Rollback(a) PROVE IInv'
<1>1. Types' /\ Locking'
  BY NobodyIsNoAppender DEF IInv, Rollback, Types, Locking, IsSequence
<1>2. LastHash' = LastHash
  BY DEF Rollback, LastHash
<1>3. Fresh' /\ Drafted' /\ ChainIntact'
  BY <1>2 DEF IInv, Rollback, Types, Fresh, Drafted, ChainIntact, Verified, EntryHash
<1> QED
  BY <1>1, <1>3 DEF IInv

LEMMA OtherCommitKeeps == ASSUME IInv, OtherCommit PROVE IInv'
<1>1. Types' /\ Locking'
  BY DEF IInv, OtherCommit, Types, Locking, IsSequence
<1>2. LastHash' = LastHash
  BY DEF OtherCommit, LastHash
<1>3. Fresh' /\ Drafted' /\ ChainIntact'
  BY <1>2 DEF IInv, OtherCommit, Types, Fresh, Drafted, ChainIntact, Verified, EntryHash
<1> QED
  BY <1>1, <1>3 DEF IInv

LEMMA NextInv == IInv /\ [Next]_vars => IInv'
<1> SUFFICES ASSUME IInv, [Next]_vars PROVE IInv'
  OBVIOUS
<1>1. CASE Next
  BY <1>1, SelectKeeps, InsertKeeps, UpdateKeeps, CommitKeeps, RollbackKeeps, OtherCommitKeeps
     DEF Next
<1>2. CASE UNCHANGED vars
  BY <1>2 DEF vars, IInv, Types, Locking, Fresh, Drafted, ChainIntact, Verified, EntryHash,
       LastHash, IsSequence
<1> QED
  BY <1>1, <1>2

THEOREM Invariance == Spec => []IInv
<1> QED
  BY InitInv, NextInv, PTL DEF Spec

\* Whatever appends run, fail or commit concurrently, verify_chain accepts the
\* log.
THEOREM ChainStaysIntact == Spec => []ChainIntact
<1>1. IInv => ChainIntact
  BY DEF IInv
<1> QED
  BY <1>1, Invariance, PTL

----------------------------------------------------------------------------
(* Refinement of AtomicLog.                                                *)

LEMMA InitRefines == Init => Atomic!Init
BY DEF Init, Atomic!Init

LEMMA StepRefines == IInv /\ [Next]_vars => [Atomic!Next]_Atomic!vars
<1> SUFFICES ASSUME IInv, [Next]_vars PROVE [Atomic!Next]_Atomic!vars
  OBVIOUS
<1> DEFINE entriesOf == [i \in 1 .. Len(log) |-> log[i].entry]
           outcomeOf == [a \in Appenders |->
                           IF pc[a] \in {"appended", "failed"} THEN pc[a] ELSE "pending"]
<1>1. ASSUME NEW a \in Appenders, Commit(a) PROVE Atomic!Add(a)
  <2>1. IsSequence(log) /\ draft[a].entry = a /\ pc[a] = "commit" /\ pc' = [pc EXCEPT ![a] = "appended"]
    BY <1>1, FieldsOfRow DEF IInv, Types, Drafted, Commit
  <2>2. outcomeOf[a] = "pending" /\ outcomeOf' = [outcomeOf EXCEPT ![a] = "appended"]
    BY <2>1 DEF IInv, Types
  <2>3. /\ Len(log') = Len(log) + 1
        /\ \A i \in 1 .. Len(log) : log'[i] = log[i]
        /\ log'[Len(log) + 1] = draft[a]
    BY <1>1, <2>1, AppendToSequence DEF Commit, IsSequence
  <2>4. IsSequence(entriesOf) /\ Len(entriesOf) = Len(log)
    BY <2>1 DEF IsSequence
  <2>5. Append(entriesOf, a) =
          [i \in 1 .. Len(log) + 1 |-> IF i = Len(log) + 1 THEN a ELSE entriesOf[i]]
    BY <2>4, AppendToSequence
  <2>6. entriesOf' = Append(entriesOf, a)
    BY <2>1, <2>3, <2>5 DEF IsSequence
  <2> QED
    BY <2>2, <2>6 DEF Atomic!Add
<1>2. ASSUME NEW a \in Appenders, Rollback(a) PROVE Atomic!GiveUp(a)
  BY <1>2 DEF Rollback, Atomic!GiveUp, IInv, Types
<1>3. ASSUME NEW a \in Appenders, SelectLatest(a) \/ InsertRow(a) \/ UpdateHash(a)
      PROVE  UNCHANGED Atomic!vars
  BY <1>3 DEF SelectLatest, InsertRow, UpdateHash, Atomic!vars, IInv, Types
<1>4. CASE OtherCommit
  BY <1>4 DEF OtherCommit, Atomic!vars
<1>5. CASE UNCHANGED vars
  BY <1>5 DEF vars, Atomic!vars
<1> QED
  BY <1>1, <1>2, <1>3, <1>4, <1>5 DEF Next, Atomic!Next

\* append, seen from its callers, adds its entry to the end of the log in one
\* step and once, or leaves no trace.
THEOREM AppendIsAtomic == Spec => ImplementsAtomicLog
<1> QED
  BY InitRefines, StepRefines, Invariance, PTL DEF Spec, ImplementsAtomicLog, Atomic!Spec
----------------------------------------------------------------------------
(* What needs a hash without collisions.                                   *)

\* The row of an id is a record of that id, with the time, the entry and the subject of
\* one append.
Rows ==
  \A i \in 1 .. Len(log) :
    /\ log[i].entry \in Appenders
    /\ log[i].created = TimeOf[log[i].entry] /\ log[i].subject = SubjectOf[log[i].entry]
    /\ log[i] = Row(i, log[i].created, log[i].entry, log[i].subject, log[i].prev, log[i].hash)

LEMMA RowsKept == IInv /\ Rows /\ [Next]_vars => Rows'
<1> SUFFICES ASSUME IInv, Rows, [Next]_vars PROVE Rows'
  OBVIOUS
<1>1. CASE \E a \in Appenders : Commit(a)
  <2>1. PICK a \in Appenders : Commit(a)
    BY <1>1
  <2>2. /\ IsSequence(log) /\ log' = Append(log, draft[a])
        /\ draft[a] = Row(Len(log) + 1, TimeOf[a], a, SubjectOf[a], LastHash, draft[a].hash)
    BY <2>1 DEF IInv, Types, Drafted, Commit
  <2>3. /\ Len(log') = Len(log) + 1
        /\ \A i \in 1 .. Len(log) : log'[i] = log[i]
        /\ log'[Len(log) + 1] = draft[a]
    BY <2>2, AppendToSequence DEF IsSequence
  <2>4. \A i \in 1 .. Len(log') : i \in 1 .. Len(log) \/ i = Len(log) + 1
    BY <2>2, <2>3 DEF IsSequence
  <2>5. ASSUME NEW i \in 1 .. Len(log'), i = Len(log) + 1
        PROVE  /\ log'[i].entry = a
               /\ log'[i].created = TimeOf[a] /\ log'[i].subject = SubjectOf[a]
               /\ log'[i] = Row(i, log'[i].created, log'[i].entry, log'[i].subject,
                                log'[i].prev, log'[i].hash)
    <3> DEFINE row(p, h) == Row(Len(log) + 1, TimeOf[a], a, SubjectOf[a], p, h)
    <3>1. \A p, h : /\ row(p, h).entry = a /\ row(p, h).subject = SubjectOf[a]
                    /\ row(p, h).created = TimeOf[a]
                    /\ row(p, h).prev = p /\ row(p, h).hash = h
      BY FieldsOfRow
    <3>2. log'[i] = row(LastHash, draft[a].hash)
      BY <2>2, <2>3, <2>5
    <3> QED BY <2>5, <3>1, <3>2
  <2> QED BY <2>3, <2>4, <2>5 DEF Rows
<1>2. CASE UNCHANGED log
  BY <1>2 DEF Rows
<1> QED
  BY <1>1, <1>2 DEF Next, vars, SelectLatest, InsertRow, UpdateHash, Rollback, OtherCommit

LEMMA RowIds == ASSUME Rows, NEW i \in 1 .. Len(log) PROVE log[i].id = i
BY FieldsOfRow DEF Rows

LEMMA RowsHold == Spec => []Rows
<1>1. Init => Rows
  BY DEF Init, Rows
<1> QED
  BY <1>1, RowsKept, Invariance, PTL DEF Spec

\* The variables keep their types; the ids of the rows count them.
THEOREM TypeCorrect == Spec => []TypeOK
<1>1. IInv /\ Rows => TypeOK
  <2> SUFFICES ASSUME IInv, Rows PROVE TypeOK
    OBVIOUS
  <2>1. Len(log) \in Nat /\ DOMAIN log = 1 .. Len(log)
    BY DEF IInv, Types, IsSequence
  <2>2. ASSUME NEW i \in 1 .. Len(log) PROVE log[i].id = i /\ log[i].entry \in Appenders
    BY <2>2, RowIds DEF Rows
  <2> QED BY <2>1, <2>2 DEF IInv, Types, Locking, TypeOK
<1> QED
  BY <1>1, RowsHold, Invariance, PTL

\* No two hashed records have one hash, and none has the genesis hash.
CollisionFree ==
  /\ \A i, j, c, d, a, b, s, t, p, q :
       Hash(i, c, a, s, p) = Hash(j, d, b, t, q) =>
         i = j /\ c = d /\ a = b /\ s = t /\ p = q
  /\ \A i, c, a, s, p : Hash(i, c, a, s, p) # Genesis

LEMMA HashesDiffer ==
  ASSUME IInv, Rows, CollisionFree, NEW i \in 1 .. Len(log), NEW j \in 1 .. Len(log),
         log[i].hash = log[j].hash
  PROVE  i = j
<1>1. log[i].id = i /\ log[j].id = j
  BY RowIds
<1>2. EntryHash(log[i], Millis(log[i].created)) = EntryHash(log[j], Millis(log[j].created))
  BY DEF IInv, ChainIntact, Verified
<1> QED
  BY <1>1, <1>2 DEF CollisionFree, EntryHash

\* The comment at audit.rs 114 to 126 fears that two appends continue the same entry:
\* with a hash without collisions no two ever do.
THEOREM NeverSplit == ASSUME CollisionFree PROVE Spec => []NoSplit
<1>1. IInv /\ Rows => NoSplit
  <2> SUFFICES ASSUME IInv, Rows, NEW i \in 1 .. Len(log), NEW j \in 1 .. Len(log),
                      log[i].prev = log[j].prev, i # j
               PROVE FALSE
    BY DEF NoSplit
  <2>1. \A k \in 1 .. Len(log) :
          /\ log[k].prev = IF k = 1 THEN Genesis ELSE log[k - 1].hash
          /\ log[k].hash # Genesis
    BY DEF IInv, ChainIntact, Verified, EntryHash, CollisionFree
  <2>2. \A k \in 1 .. Len(log) : k # 1 => k - 1 \in 1 .. Len(log)
    BY DEF IInv, Types, IsSequence
  <2>3. CASE i = 1 \/ j = 1
    BY <2>1, <2>2, <2>3
  <2>4. CASE i # 1 /\ j # 1
    <3>1. i - 1 \in 1 .. Len(log) /\ j - 1 \in 1 .. Len(log) /\ log[i - 1].hash = log[j - 1].hash
      BY <2>1, <2>2, <2>4
    <3>2. i - 1 = j - 1
      BY <3>1, HashesDiffer
    <3> QED BY <3>2
  <2> QED BY <2>3, <2>4
<1> QED
  BY <1>1, RowsHold, Invariance, PTL

LEMMA AlteredRow ==
  ASSUME IInv, NEW i \in 1 .. Len(log), NEW row,
         row.hash # EntryHash(row, Millis(row.created))
  PROVE  ~Verified(Altered(i, row))
<1>1. IsSequence(log)
  BY DEF IInv, Types
<1>2. Altered(i, row) = [k \in 1 .. Len(log) |-> IF k = i THEN row ELSE log[k]]
  BY <1>1 DEF IsSequence, Altered
<1>3. Altered(i, row)[i] = row /\ DOMAIN Altered(i, row) = 1 .. Len(log)
  BY <1>2
<1>4. Len(Altered(i, row)) = Len(log)
  BY <1>1, <1>2 DEF IsSequence
<1> QED
  BY <1>3, <1>4 DEF Verified

LEMMA MissingRow ==
  ASSUME IInv, Rows, CollisionFree, NEW i \in 1 .. Len(log), i < Len(log)
  PROVE  ~Verified(Without(i))
<1>1. Len(log) \in Nat
  BY DEF IInv, Types, IsSequence
<1>2. Len(Without(i)) = Len(log) - 1 /\ i \in 1 .. Len(log) - 1
  BY <1>1 DEF Without
<1>3. Without(i)[i] = log[i + 1] /\ (i # 1 => Without(i)[i - 1] = log[i - 1])
  BY <1>1, <1>2 DEF Without
<1>4. i + 1 \in 1 .. Len(log) /\ log[i + 1].prev = log[i].hash /\ log[i].hash # Genesis
  BY <1>1 DEF IInv, ChainIntact, Verified, EntryHash, CollisionFree
<1>5. ASSUME i # 1 PROVE log[i - 1].hash # log[i].hash
  <2>1. i - 1 \in 1 .. Len(log) /\ i - 1 # i
    BY <1>1, <1>5
  <2> QED BY <2>1, HashesDiffer
<1> QED
  BY <1>2, <1>3, <1>4, <1>5 DEF Verified

\* "any tampering with old entries is detectable by walking the chain" (audit.rs): with
\* a hash without collisions, whatever row is altered or taken out, except for the
\* exchange of a NULL and an empty subject and of two texts of one millisecond.
THEOREM AlterationsAreDetected == ASSUME CollisionFree PROVE Spec => []AlterationsDetected
<1>1. IInv /\ Rows => AlterationsDetected
  <2> SUFFICES ASSUME IInv, Rows, NEW i \in 1 .. Len(log)
               PROVE
                 /\ \A b \in Appenders \ {log[i].entry} :
                      ~Verified(Altered(i, [log[i] EXCEPT !.entry = b]))
                 /\ \A s \in Subjects : Canonical(s) # Canonical(log[i].subject) =>
                      ~Verified(Altered(i, [log[i] EXCEPT !.subject = s]))
                 /\ \A c \in Texts : Millis(c) # Millis(log[i].created) =>
                      ~Verified(Altered(i, [log[i] EXCEPT !.created = c]))
                 /\ \A h \in Hashes \ {log[i].prev} :
                      ~Verified(Altered(i, [log[i] EXCEPT !.prev = h]))
                 /\ \A h \in Hashes \ {log[i].hash} :
                      ~Verified(Altered(i, [log[i] EXCEPT !.hash = h]))
                 /\ i < Len(log) => ~Verified(Without(i))
    BY DEF AlterationsDetected
  <2> DEFINE c == log[i].created
             e == log[i].entry
             t == log[i].subject
             p == log[i].prev
             h == log[i].hash
  <2>1. log[i] = Row(i, c, e, t, p, h)
    BY DEF Rows
  <2>2. \A x : /\ [log[i] EXCEPT !.created = x] = Row(i, x, e, t, p, h)
               /\ [log[i] EXCEPT !.entry = x] = Row(i, c, x, t, p, h)
               /\ [log[i] EXCEPT !.subject = x] = Row(i, c, e, x, p, h)
               /\ [log[i] EXCEPT !.prev = x] = Row(i, c, e, t, x, h)
               /\ [log[i] EXCEPT !.hash = x] = Row(i, c, e, t, p, x)
    <3> DEFINE r == log[i]
    <3> HIDE DEF r, c, e, t, p, h
    <3>1. r = Row(i, c, e, t, p, h)
      BY <2>1 DEF r
    <3>2. \A x : /\ [r EXCEPT !.created = x] = Row(i, x, e, t, p, h)
                 /\ [r EXCEPT !.entry = x] = Row(i, c, x, t, p, h)
                 /\ [r EXCEPT !.subject = x] = Row(i, c, e, x, p, h)
                 /\ [r EXCEPT !.prev = x] = Row(i, c, e, t, x, h)
                 /\ [r EXCEPT !.hash = x] = Row(i, c, e, t, p, x)
      BY <3>1 DEF Row
    <3> QED BY <3>2 DEF r
  <2>3. h = Hash(i, Millis(c), e, Canonical(t), p)
    <3>1. h = EntryHash(log[i], Millis(c))
      BY DEF IInv, ChainIntact, Verified
    <3>2. log[i].id = i
      BY RowIds
    <3> QED BY <3>1, <3>2 DEF EntryHash
  <2>4. \A c1, e1, t1, p1, h1 : h1 # Hash(i, Millis(c1), e1, Canonical(t1), p1) =>
          ~Verified(Altered(i, Row(i, c1, e1, t1, p1, h1)))
    <3> TAKE c1, e1, t1, p1, h1
    <3> HAVE h1 # Hash(i, Millis(c1), e1, Canonical(t1), p1)
    <3> DEFINE row == Row(i, c1, e1, t1, p1, h1)
    <3>1. row.hash # EntryHash(row, Millis(row.created))
      BY FieldsOfRow DEF EntryHash
    <3> HIDE DEF row
    <3>2. ~Verified(Altered(i, row))
      BY <3>1, AlteredRow
    <3> QED BY <3>2 DEF row
  <2> HIDE DEF c, e, t, p, h
  <2>5. \A x \in Appenders \ {e} : ~Verified(Altered(i, [log[i] EXCEPT !.entry = x]))
    <3> TAKE x \in Appenders \ {e}
    <3>1. h # Hash(i, Millis(c), x, Canonical(t), p)
      BY <2>3 DEF CollisionFree
    <3>2. ~Verified(Altered(i, Row(i, c, x, t, p, h)))
      BY <2>4, <3>1
    <3> QED BY <2>2, <3>2
  <2>6. \A x \in Subjects : Canonical(x) # Canonical(t) =>
          ~Verified(Altered(i, [log[i] EXCEPT !.subject = x]))
    <3> TAKE x \in Subjects
    <3> HAVE Canonical(x) # Canonical(t)
    <3>1. h # Hash(i, Millis(c), e, Canonical(x), p)
      BY <2>3 DEF CollisionFree
    <3>2. ~Verified(Altered(i, Row(i, c, e, x, p, h)))
      BY <2>4, <3>1
    <3> QED BY <2>2, <3>2
  <2>7. \A x \in Texts : Millis(x) # Millis(c) =>
          ~Verified(Altered(i, [log[i] EXCEPT !.created = x]))
    <3> TAKE x \in Texts
    <3> HAVE Millis(x) # Millis(c)
    <3>1. h # Hash(i, Millis(x), e, Canonical(t), p)
      BY <2>3 DEF CollisionFree
    <3>2. ~Verified(Altered(i, Row(i, x, e, t, p, h)))
      BY <2>4, <3>1
    <3> QED BY <2>2, <3>2
  <2>8. \A x \in Hashes \ {p} : ~Verified(Altered(i, [log[i] EXCEPT !.prev = x]))
    <3> TAKE x \in Hashes \ {p}
    <3>1. h # Hash(i, Millis(c), e, Canonical(t), x)
      BY <2>3 DEF CollisionFree
    <3>2. ~Verified(Altered(i, Row(i, c, e, t, x, h)))
      BY <2>4, <3>1
    <3> QED BY <2>2, <3>2
  <2>9. \A x \in Hashes \ {h} : ~Verified(Altered(i, [log[i] EXCEPT !.hash = x]))
    <3> TAKE x \in Hashes \ {h}
    <3>1. ~Verified(Altered(i, Row(i, c, e, t, p, x)))
      BY <2>3, <2>4
    <3> QED BY <2>2, <3>1
  <2> QED BY <2>5, <2>6, <2>7, <2>8, <2>9, MissingRow DEF c, e, t, p, h
<1> QED
  BY <1>1, RowsHold, Invariance, PTL
=============================================================================
