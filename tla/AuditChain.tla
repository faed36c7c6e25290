------------------------------ MODULE AuditChain ------------------------------
(***************************************************************************)
(* The hash-chained audit log (audit.rs): AuditLog::append as concurrent   *)
(* transactions of one SQLite file in WAL mode, and AuditLog::verify_chain. *)
(*                                                                         *)
(* sqlx begins a deferred transaction: its first SELECT fixes the snapshot *)
(* it reads, its first write asks for the one write lock of the file.  A   *)
(* transaction that reads first is refused the lock at once if another     *)
(* writer holds it or if any other table was committed to since its        *)
(* snapshot: SQLite then answers BUSY instead of waiting.                  *)
(*                                                                         *)
(* An operator Mut... is a seeded error of the operator that follows it.   *)
(***************************************************************************)
EXTENDS Naturals, Sequences

CONSTANTS
  Appenders,      \* calls of append, each with an entry of its own
  SubjectOf,      \* the subject of that entry
  NoSubject,      \* a NULL subject
  EmptySubject,   \* the empty string
  TimeOf,         \* the created_at that it writes: the clock, to milliseconds, with a Z
  Texts,          \* texts that an altered created_at may hold
  Millis(_),      \* the time of a text, formatted to milliseconds with a Z
  Unparsable,     \* what Millis gives for a text that is no RFC 3339 time
  Hash(_, _, _, _, _), \* SHA-256 of the length-prefixed fields
  Genesis,        \* genesis_hash()
  Placeholder,    \* "PENDING"
  Nobody,
  MaxOtherCommits \* bound: commits to the other tables of the file

ASSUME NobodyIsNoAppender == Nobody \notin Appenders

\* What to_rfc3339_opts(Millis, true) has written is read and formatted to itself.
ASSUME TimesAreWrittenToMillis ==
  \A a \in Appenders : Millis(TimeOf[a]) = TimeOf[a] /\ TimeOf[a] # Unparsable

VARIABLES
  log,      \* the committed rows of audit_log, by id
  version,  \* commits to the database file
  writer,   \* who holds the write lock
  pc,       \* the statement that each append executes next
  snapshot, \* the version that each append reads
  prev,     \* the prev_hash it has selected
  draft     \* the row it has inserted but not committed

vars == <<log, version, writer, pc, snapshot, prev, draft>>

NoRow == [id |-> 0, created |-> Unparsable, entry |-> Nobody, subject |-> NoSubject,
          prev |-> Genesis, hash |-> Placeholder]

LastHash == IF log = <<>> THEN Genesis ELSE log[Len(log)].hash

\* compute_entry_hash: a missing subject is hashed as an empty one.
Canonical(subject) == IF subject = NoSubject THEN EmptySubject ELSE subject

\* Actor, event type and payload are left out of the hash.
MutEntryHash(row, created) ==
  Hash(row.id, created, Nobody, Canonical(row.subject), row.prev)

EntryHash(row, created) ==
  Hash(row.id, created, row.entry, Canonical(row.subject), row.prev)

----------------------------------------------------------------------------
Init ==
  /\ log = <<>>
  /\ version = 0
  /\ writer = Nobody
  /\ pc = [a \in Appenders |-> "select"]
  /\ snapshot = [a \in Appenders |-> 0]
  /\ prev = [a \in Appenders |-> Genesis]
  /\ draft = [a \in Appenders |-> NoRow]

\* BEGIN and the SELECT of the latest entry_hash.
SelectLatest(a) ==
  /\ pc[a] = "select"
  /\ pc' = [pc EXCEPT ![a] = "insert"]
  /\ snapshot' = [snapshot EXCEPT ![a] = version]
  /\ prev' = [prev EXCEPT ![a] = LastHash]
  /\ UNCHANGED <<log, version, writer, draft>>

\* A lock that neither excludes other writers nor checks the snapshot.
MutMayWrite(a) == writer \in Appenders \cup {Nobody}

MayWrite(a) == writer = Nobody /\ snapshot[a] = version

\* INSERT ... RETURNING id, with "PENDING" in place of the hash.
MutInsertRow(a) ==
  /\ pc[a] = "insert"
  /\ writer = Nobody
  /\ writer' = a
  /\ pc' = [pc EXCEPT ![a] = "update"]
  /\ draft' = [draft EXCEPT ![a] =
       [id |-> Len(log) + 1, created |-> TimeOf[a], entry |-> a, subject |-> SubjectOf[a],
        prev |-> prev[a], hash |-> Placeholder]]
  /\ UNCHANGED <<log, version, snapshot, prev>>

InsertRow(a) ==
  /\ pc[a] = "insert"
  /\ MayWrite(a)
  /\ writer' = a
  /\ pc' = [pc EXCEPT ![a] = "update"]
  /\ draft' = [draft EXCEPT ![a] =
       [id |-> Len(log) + 1, created |-> TimeOf[a], entry |-> a, subject |-> SubjectOf[a],
        prev |-> prev[a], hash |-> Placeholder]]
  /\ UNCHANGED <<log, version, snapshot, prev>>

\* UPDATE audit_log SET entry_hash, over created_at as it was written.
UpdateHash(a) ==
  /\ pc[a] = "update"
  /\ pc' = [pc EXCEPT ![a] = "commit"]
  /\ draft' = [draft EXCEPT ![a].hash = EntryHash(draft[a], draft[a].created)]
  /\ UNCHANGED <<log, version, writer, snapshot, prev>>

MutCommit(a) ==
  /\ pc[a] = "commit"
  /\ pc' = [pc EXCEPT ![a] = "select"]
  /\ log' = Append(log, draft[a])
  /\ version' = version + 1
  /\ writer' = Nobody
  /\ UNCHANGED <<snapshot, prev, draft>>

Commit(a) ==
  /\ pc[a] = "commit"
  /\ pc' = [pc EXCEPT ![a] = "appended"]
  /\ log' = Append(log, draft[a])
  /\ version' = version + 1
  /\ writer' = Nobody
  /\ UNCHANGED <<snapshot, prev, draft>>

\* BUSY, another database error, a dropped future or the end of the process:
\* the transaction rolls back.
Rollback(a) ==
  /\ pc[a] \in {"select", "insert", "update", "commit"}
  /\ pc' = [pc EXCEPT ![a] = "failed"]
  /\ writer' = IF writer = a THEN Nobody ELSE writer
  /\ UNCHANGED <<log, version, snapshot, prev, draft>>

\* A statement on accounts, webhook_nonces, capability_jtis or b2c_*.
OtherCommit ==
  /\ writer = Nobody
  /\ version < Len(log) + MaxOtherCommits
  /\ version' = version + 1
  /\ UNCHANGED <<log, writer, pc, snapshot, prev, draft>>

Next ==
  \/ \E a \in Appenders :
       SelectLatest(a) \/ InsertRow(a) \/ UpdateHash(a) \/ Commit(a) \/ Rollback(a)
  \/ OtherCommit

Spec == Init /\ [][Next]_vars

----------------------------------------------------------------------------
(* Properties                                                              *)

\* verify_chain: into_entry can read every created_at, and the walk from the genesis
\* hash finds every prev_hash equal to the entry_hash before it and every entry_hash
\* equal to its recomputation, over created_at as read and formatted again.
Verified(rows) ==
  \A i \in 1 .. Len(rows) :
    /\ Millis(rows[i].created) # Unparsable
    /\ rows[i].prev = IF i = 1 THEN Genesis ELSE rows[i - 1].hash
    /\ rows[i].hash = EntryHash(rows[i], Millis(rows[i].created))

Subjects == {SubjectOf[a] : a \in Appenders} \cup {NoSubject, EmptySubject}
Hashes == {log[i].hash : i \in 1 .. Len(log)} \cup {Genesis, Placeholder}

TypeOK ==
  /\ Len(log) \in Nat /\ DOMAIN log = 1 .. Len(log)
  /\ \A i \in 1 .. Len(log) : log[i].id = i /\ log[i].entry \in Appenders
  /\ version \in Nat
  /\ writer \in Appenders \cup {Nobody}
  /\ pc \in [Appenders -> {"select", "insert", "update", "commit", "appended", "failed"}]
  /\ snapshot \in [Appenders -> Nat]

\* Concurrent appends, failed ones and commits to other tables never leave a
\* log that verify_chain rejects: the chain does not split.
ChainIntact == Verified(log)

\* No two entries follow the same entry.
NoSplit ==
  \A i, j \in 1 .. Len(log) : log[i].prev = log[j].prev => i = j

\* append, seen from its callers, is atomic and happens at most once.
Atomic == INSTANCE AtomicLog WITH
  entries <- [i \in 1 .. Len(log) |-> log[i].entry],
  outcome <- [a \in Appenders |->
                IF pc[a] \in {"appended", "failed"} THEN pc[a] ELSE "pending"]

ImplementsAtomicLog == Atomic!Spec

Altered(i, row) == [log EXCEPT ![i] = row]
Without(i) == [j \in 1 .. Len(log) - 1 |-> IF j < i THEN log[j] ELSE log[j + 1]]

\* "any tampering with old entries is detectable by walking the chain": another
\* entry, subject, time, prev_hash or entry_hash in any row, or a row missing before
\* the last.  verify_chain hashes what it reads and not the row's text, so two edits
\* go unnoticed, which the two implications leave out: a NULL subject for an empty one
\* or the reverse, and another text of the same millisecond in created_at (digits
\* below the millisecond, another offset).
AlterationsDetected ==
  \A i \in 1 .. Len(log) :
    /\ \A b \in Appenders \ {log[i].entry} :
         ~Verified(Altered(i, [log[i] EXCEPT !.entry = b]))
    /\ \A s \in Subjects : Canonical(s) # Canonical(log[i].subject) =>
         ~Verified(Altered(i, [log[i] EXCEPT !.subject = s]))
    /\ \A c \in Texts : Millis(c) # Millis(log[i].created) =>
         ~Verified(Altered(i, [log[i] EXCEPT !.created = c]))
    /\ \A h \in Hashes \ {log[i].prev} :
         ~Verified(Altered(i, [log[i] EXCEPT !.prev = h]))
    /\ \A h \in Hashes \ {log[i].hash} :
         ~Verified(Altered(i, [log[i] EXCEPT !.hash = h]))
    /\ i < Len(log) => ~Verified(Without(i))
=============================================================================
