--------------------------- MODULE CapabilityProofs ---------------------------
(***************************************************************************)
(* Theorems about Capability, for any tokens, presentations and bounds.    *)
(***************************************************************************)
EXTENDS Capability, SequenceTheorems, TLAPS

Rows == [jti : {JtiOf[t] : t \in Tokens}, expires : Int]

LastsUntil(t) == ExpOf[t] + Leeway

\* The row of a token that expires before the year 10000.
RowOf(t) == [jti |-> JtiOf[t], expires |-> LastsUntil(t)]

\* In every version the jti is a key.
OneRow == \A i \in 1 .. Len(versions) : \A r, s \in versions[i] : r.jti = s.jti => r = s

\* The presentations that verify let through to the table.
Admitted == {p \in Presentations : pc[p] \in {"verified", "inserting", "accepted", "token_replay"}}

AdmittedSigned == \A p \in Admitted : token[p] \in Signed

\* Every row, of whatever version, was written for a signed token by a presentation
\* that was accepted or cut off.
RowsFounded ==
  \A i \in 1 .. Len(versions) : \A row \in versions[i] :
    \E q \in Presentations :
      /\ pc[q] \in {"accepted", "dropped"}
      /\ token[q] \in Signed
      /\ row.jti = Jti(q)
      /\ Lasting(token[q]) => row = RowOf(token[q])

\* The row of an accepted token stays until it has expired.
AcceptedKept ==
  \A p \in Presentations :
    /\ pc[p] = "accepted" /\ Jti(p) \notin lost
    /\ Lasting(token[p]) /\ now <= LastsUntil(token[p])
    => RowOf(token[p]) \in Table

Types ==
  /\ now \in Nat
  /\ versions \in Seq(SUBSET Rows) \ {<< >>}
  /\ pc \in [Presentations -> {"idle"} \cup Running \cup Answers]
  /\ token \in [Presentations -> Tokens]
  /\ arrived \in [Presentations -> 0 .. now]
  /\ clock \in [Presentations -> 0 .. now]
  /\ lost \subseteq {JtiOf[t] : t \in Tokens}

IInv == Types /\ now <= Horizon /\ OneRow /\ AdmittedSigned /\ RowsFounded /\ AcceptedKept
        /\ AcceptedOnce /\ ReplayIsReplay

----------------------------------------------------------------------------
LEMMA ExpiryTyped ==
  ASSUME Types
  PROVE /\ \A t \in Tokens : LastsUntil(t) \in Int
        /\ \A p \in Presentations : Expiry(p) \in Int
<1>1. \A t \in Tokens : LastsUntil(t) \in Int
  BY ClockAssumption, ClaimAssumption DEF LastsUntil
<1>2. \A p \in Presentations : Expiry(p) \in Int
  BY <1>1 DEF Expiry, LastsUntil, Types
<1> QED BY <1>1, <1>2

\* The row that a presentation of a lasting token writes.
LEMMA ExpiryLasts ==
  ASSUME Types, NEW p \in Presentations, Lasting(token[p])
  PROVE Expiry(p) = LastsUntil(token[p])
<1>1. LastsUntil(token[p]) <= LastMoment
  <2>1. LastsUntil(token[p]) \in Int /\ LastsUntil(token[p]) <= LastSorted
    BY ExpiryTyped DEF Types, Lasting, LastsUntil
  <2> QED BY <2>1, ClockAssumption
<1>2. LastsUntil(token[p]) \in Int
  BY ExpiryTyped DEF Types
<1> QED BY <1>1, <1>2, ClockAssumption DEF Expiry, LastsUntil

\* The invariant gives the type invariant that the run checks.
LEMMA TypesSuffice == IInv => TypeOK
  BY ClockAssumption DEF IInv, Types, TypeOK, Rows, OneRow

LEMMA TableTyped == Types => Table \in SUBSET Rows /\ Len(versions) \in Nat \ {0}
  BY EmptySeq DEF Types, Table

\* What a transaction leaves.
LEMMA RecordedTyped ==
  ASSUME Types, NEW p \in Presentations
  PROVE Recorded(p) \in SUBSET Rows /\ Collected(p) \subseteq Table
<1>1. Collected(p) \subseteq Table
  BY DEF Collected
<1>2. [jti |-> Jti(p), expires |-> Expiry(p)] \in Rows
  BY ExpiryTyped DEF Types, Rows, Jti
<1> QED BY <1>1, <1>2, TableTyped DEF Recorded

LEMMA Appended ==
  ASSUME Types, NEW T \in SUBSET Rows, versions' = Append(versions, T)
  PROVE /\ versions' \in Seq(SUBSET Rows) \ {<< >>}
        /\ Table' = T
        /\ Len(versions') = Len(versions) + 1
        /\ \A i \in 1 .. Len(versions') :
             versions'[i] = IF i = Len(versions') THEN T ELSE versions[i]
  BY AppendProperties DEF Types, Table

\* A row that has not expired survives the collection.
LEMMA KeptByCollection ==
  ASSUME Types, NEW p \in Presentations, NEW t \in Tokens,
         RowOf(t) \in Table, now <= LastsUntil(t)
  PROVE RowOf(t) \in Collected(p)
<1>1. clock[p] <= now /\ clock[p] \in Nat /\ now \in Nat /\ LastsUntil(t) \in Int
  BY ExpiryTyped DEF Types
<1> QED BY <1>1 DEF Collected, RowOf

----------------------------------------------------------------------------
LEMMA InitInv == Init => IInv
<1> SUFFICES ASSUME Init PROVE IInv
  OBVIOUS
<1>1. versions = <<{}>> /\ Len(versions) = 1 /\ versions[1] = {} /\ versions # << >>
  BY DEF Init
<1>2. Types /\ now <= Horizon
  BY <1>1, ClockAssumption DEF Init, Types, Running, Answers
<1>3. RowsFounded /\ OneRow
  BY <1>1 DEF RowsFounded, OneRow
<1>4. AdmittedSigned /\ AcceptedKept /\ AcceptedOnce /\ ReplayIsReplay
  BY DEF Init, AdmittedSigned, Admitted, AcceptedKept, AcceptedOnce, ReplayIsReplay
<1> QED BY <1>2, <1>3, <1>4 DEF IInv

\* Steps that change no table and answer neither accepted nor replay.
LEMMA QuietStep ==
  ASSUME IInv, Types', now' <= Horizon, now <= now',
         UNCHANGED <<versions, token>>, lost \subseteq lost',
         AdmittedSigned',
         \A p \in Presentations :
           /\ pc[p] = "accepted" <=> pc'[p] = "accepted"
           /\ pc[p] = "dropped" => pc'[p] = "dropped"
           /\ pc'[p] = "token_replay" => pc[p] = "token_replay"
  PROVE IInv'
<1>1. now \in Nat /\ now' \in Nat
  BY DEF IInv, Types
<1>2. \A p \in Presentations : token[p] \in Tokens /\ LastsUntil(token[p]) \in Int
  BY ExpiryTyped DEF IInv, Types
<1>3. RowsFounded' /\ OneRow'
  BY DEF IInv, RowsFounded, OneRow, RowOf, LastsUntil, Lasting, Jti
<1>4. AcceptedKept'
  BY <1>1, <1>2 DEF IInv, AcceptedKept, RowOf, Jti, Table, LastsUntil, Lasting
<1>5. AcceptedOnce'
  BY <1>1, <1>2 DEF IInv, AcceptedOnce, Jti, LastsUntil, Lasting
<1>6. ReplayIsReplay'
  BY DEF IInv, ReplayIsReplay
<1> QED BY <1>3, <1>4, <1>5, <1>6 DEF IInv

LEMMA VerifyStep ==
  ASSUME IInv, NEW p \in Presentations, Verify(p)
  PROVE IInv'
<1>1. Verdict(token[p]) \in {"verified", "invalid_token", "token_iat_too_old", "missing_capability"}
  BY DEF Verdict
<1>2. Verdict(token[p]) = "verified" => token[p] \in Signed
  BY DEF Verdict, Valid
<1>3. Types'
  BY <1>1 DEF IInv, Types, Verify, Running, Answers
<1>4. AdmittedSigned'
  <2> SUFFICES ASSUME NEW q \in Admitted' PROVE token'[q] \in Signed
    BY DEF AdmittedSigned
  <2>1. CASE q = p
    BY <2>1, <1>1, <1>2 DEF Verify, Admitted, IInv, Types
  <2>2. CASE q # p
    BY <2>2 DEF Verify, Admitted, IInv, Types, AdmittedSigned
  <2> QED BY <2>1, <2>2
<1>5. \A q \in Presentations :
           /\ pc[q] = "accepted" <=> pc'[q] = "accepted"
           /\ pc[q] = "dropped" => pc'[q] = "dropped"
           /\ pc'[q] = "token_replay" => pc[q] = "token_replay"
  BY <1>1 DEF Verify, IInv, Types
<1>6. now' = now /\ now \in Nat /\ UNCHANGED <<versions, token>> /\ lost' = lost /\ now <= Horizon
  BY DEF Verify, IInv, Types
<1> QED BY <1>3, <1>4, <1>5, <1>6, QuietStep

\* ReadClock, InsertFails, Restart and Tick.
LEMMA OtherQuietSteps ==
  ASSUME IInv,
         \/ \E p \in Presentations : ReadClock(p) \/ InsertFails(p)
         \/ Restart
         \/ Tick
  PROVE IInv'
<1>1. CASE \E p \in Presentations : ReadClock(p) \/ InsertFails(p)
  <2>1. PICK p \in Presentations : ReadClock(p) \/ InsertFails(p)
    BY <1>1
  <2>2. Types' /\ now' = now /\ now \in Nat /\ UNCHANGED <<versions, token>> /\ lost' = lost
    <3>1. CASE ReadClock(p)
      BY <3>1 DEF IInv, Types, ReadClock, Running
    <3>2. CASE InsertFails(p)
      BY <3>2 DEF IInv, Types, InsertFails, Answers
    <3> QED BY <2>1, <3>1, <3>2
  <2>3. AdmittedSigned'
    BY <2>1 DEF IInv, Types, ReadClock, InsertFails, AdmittedSigned, Admitted
  <2>4. \A q \in Presentations :
           /\ pc[q] = "accepted" <=> pc'[q] = "accepted"
           /\ pc[q] = "dropped" => pc'[q] = "dropped"
           /\ pc'[q] = "token_replay" => pc[q] = "token_replay"
    BY <2>1 DEF IInv, Types, ReadClock, InsertFails
  <2> QED BY <2>2, <2>3, <2>4, QuietStep DEF IInv
<1>2. CASE Restart
  <2>1. Types' /\ now' = now /\ now \in Nat /\ UNCHANGED <<versions, token>> /\ lost' = lost
    BY <1>2 DEF IInv, Types, Restart, Cut, Running, Answers
  <2>2. AdmittedSigned'
    BY <1>2 DEF IInv, Types, Restart, Cut, Running, AdmittedSigned, Admitted
  <2>3. \A q \in Presentations :
           /\ pc[q] = "accepted" <=> pc'[q] = "accepted"
           /\ pc[q] = "dropped" => pc'[q] = "dropped"
           /\ pc'[q] = "token_replay" => pc[q] = "token_replay"
    BY <1>2 DEF IInv, Types, Restart, Cut, Running
  <2> QED BY <2>1, <2>2, <2>3, QuietStep DEF IInv
<1>3. CASE Tick
  <2>1. now' = now + 1 /\ now \in Nat /\ now < Horizon /\ Horizon \in Nat
    BY <1>3, ClockAssumption DEF IInv, Types, Tick
  <2>2. UNCHANGED <<versions, pc, token, arrived, clock, lost>>
    BY <1>3 DEF Tick
  <2>3. Types'
    BY <2>1, <2>2 DEF IInv, Types
  <2>4. AdmittedSigned'
    BY <2>2 DEF IInv, AdmittedSigned, Admitted
  <2> QED BY <2>1, <2>2, <2>3, <2>4, QuietStep DEF IInv
<1> QED BY <1>1, <1>2, <1>3

----------------------------------------------------------------------------
\* What holds of the table that a commit of p leaves behind.
LEMMA CommitKeeps ==
  ASSUME IInv, NEW p \in Presentations, pc[p] = "inserting", token[p] \in Signed,
         versions' = Append(versions, Recorded(p)),
         UNCHANGED <<now, token, lost>>,
         pc'[p] \in {"accepted", "token_replay", "dropped"},
         pc'[p] = "token_replay" => Seen(p),
         \A q \in Presentations \ {p} : pc'[q] = pc[q]
  PROVE OneRow' /\ RowsFounded' /\ AcceptedKept'
<1>1. Types
  BY DEF IInv
<1>2. /\ Table' = Recorded(p)
      /\ \A i \in 1 .. Len(versions') :
           versions'[i] = IF i = Len(versions') THEN Recorded(p) ELSE versions[i]
      /\ Len(versions') = Len(versions) + 1 /\ Len(versions) \in Nat \ {0}
  BY <1>1, RecordedTyped, TableTyped, Appended
<1>3. \A t : (RowOf(t))' = RowOf(t) /\ (Lasting(t))' = Lasting(t) /\ (LastsUntil(t))' = LastsUntil(t)
  BY DEF RowOf, Lasting, LastsUntil
<1>4. RowsFounded'
  <2> SUFFICES ASSUME NEW i \in 1 .. Len(versions'), NEW row \in versions'[i]
               PROVE \E q \in Presentations :
                       pc'[q] \in {"accepted", "dropped"} /\ token[q] \in Signed
                         /\ row.jti = Jti(q) /\ (Lasting(token[q]) => row = RowOf(token[q]))
    BY <1>3 DEF RowsFounded, Jti
  <2>1. CASE \E j \in 1 .. Len(versions) : row \in versions[j]
    <3>1. PICK q \in Presentations :
             /\ pc[q] \in {"accepted", "dropped"} /\ token[q] \in Signed
             /\ row.jti = Jti(q) /\ (Lasting(token[q]) => row = RowOf(token[q]))
      BY <2>1 DEF IInv, RowsFounded
    <3>2. q # p
      BY <3>1
    <3> QED BY <3>1, <3>2
  <2>2. CASE ~\E j \in 1 .. Len(versions) : row \in versions[j]
    <3>1. row \in Recorded(p) /\ row \notin Table
      <4>1. i \notin 1 .. Len(versions)
        BY <1>2, <2>2
      <4>2. i = Len(versions')
        BY <1>2, <4>1
      <4> QED BY <1>2, <4>2, <2>2 DEF Table
    <3>2. row = [jti |-> Jti(p), expires |-> Expiry(p)] /\ ~Seen(p)
      BY <3>1 DEF Recorded, Collected
    <3>3. Lasting(token[p]) => row = RowOf(token[p])
      BY <1>1, <3>2, ExpiryLasts DEF RowOf, Jti
    <3> QED BY <3>2, <3>3
  <2> QED BY <2>1, <2>2
<1>5. AcceptedKept'
  <2> SUFFICES ASSUME NEW q \in Presentations, pc'[q] = "accepted",
                      Lasting(token[q]), now <= LastsUntil(token[q]), Jti(q) \notin lost
               PROVE RowOf(token[q]) \in Recorded(p)
    BY <1>2, <1>3 DEF AcceptedKept, Jti
  <2>1. CASE q # p
    <3>1. RowOf(token[q]) \in Table
      BY <2>1 DEF IInv, AcceptedKept
    <3>2. RowOf(token[q]) \in Collected(p)
      BY <1>1, <3>1, KeptByCollection DEF Types
    <3> QED BY <3>2 DEF Recorded
  <2>2. CASE q = p
    <3>1. CASE Seen(p)
      <4>1. PICK row \in Collected(p) : row.jti = Jti(p)
        BY <3>1 DEF Seen
      <4>2. row \in versions[Len(versions)] /\ Len(versions) \in 1 .. Len(versions)
        BY <1>2, <4>1 DEF Collected, Table
      <4>3. PICK r \in Presentations :
               /\ token[r] \in Signed /\ row.jti = Jti(r)
               /\ Lasting(token[r]) => row = RowOf(token[r])
        BY <4>2 DEF IInv, RowsFounded
      <4>4. token[r] = token[p]
        BY <4>1, <4>3, JtiAssumption DEF Jti
      <4> QED BY <2>2, <3>1, <4>1, <4>3, <4>4 DEF Recorded
    <3>2. CASE ~Seen(p)
      BY <1>1, <2>2, <3>2, ExpiryLasts DEF Recorded, RowOf, Jti
    <3> QED BY <3>1, <3>2
  <2> QED BY <2>1, <2>2
<1>6. OneRow'
  <2> SUFFICES ASSUME NEW i \in 1 .. Len(versions'), NEW r \in versions'[i],
                      NEW s \in versions'[i], r.jti = s.jti
               PROVE r = s
    BY DEF OneRow
  <2>1. CASE i # Len(versions')
    <3>1. i \in 1 .. Len(versions) /\ r \in versions[i] /\ s \in versions[i]
      BY <1>2, <2>1
    <3> QED BY <3>1 DEF IInv, OneRow
  <2>2. CASE i = Len(versions')
    <3>1. r \in Recorded(p) /\ s \in Recorded(p)
      BY <1>2, <2>2
    <3>2. Len(versions) \in 1 .. Len(versions) /\ Collected(p) \subseteq versions[Len(versions)]
      BY <1>2 DEF Collected, Table
    <3>3. r \in Collected(p) /\ s \in Collected(p) => r = s
      BY <3>2 DEF IInv, OneRow
    <3>4. CASE Seen(p)
      BY <3>1, <3>3, <3>4 DEF Recorded
    <3>5. CASE ~Seen(p)
      BY <3>1, <3>3, <3>5 DEF Recorded, Seen
    <3> QED BY <3>4, <3>5
  <2> QED BY <2>1, <2>2
<1> QED BY <1>4, <1>5, <1>6

LEMMA InsertStep ==
  ASSUME IInv, NEW p \in Presentations, InsertJti(p)
  PROVE IInv'
<1>1. Types /\ pc[p] = "inserting" /\ token[p] \in Signed
  BY DEF IInv, InsertJti, AdmittedSigned, Admitted
<1>2. /\ UNCHANGED <<now, token, arrived, clock, lost>>
      /\ versions' = Append(versions, Recorded(p))
      /\ pc' = [pc EXCEPT ![p] = IF Seen(p) THEN "token_replay" ELSE "accepted"]
  BY DEF InsertJti
<1>3. /\ pc'[p] = IF Seen(p) THEN "token_replay" ELSE "accepted"
      /\ \A q \in Presentations \ {p} : pc'[q] = pc[q]
  BY <1>1, <1>2 DEF Types
<1>4. Types'
  <2>1. versions' \in Seq(SUBSET Rows) \ {<< >>}
    BY <1>1, <1>2, RecordedTyped, Appended
  <2>2. pc' \in [Presentations -> {"idle"} \cup Running \cup Answers]
    BY <1>1, <1>2 DEF Types, Answers
  <2> QED BY <1>1, <1>2, <2>1, <2>2 DEF Types
<1>5. AdmittedSigned'
  BY <1>1, <1>2, <1>3 DEF IInv, AdmittedSigned, Admitted
<1>6. OneRow' /\ RowsFounded' /\ AcceptedKept'
  BY <1>1, <1>2, <1>3, CommitKeeps
<1>7. AcceptedOnce'
  <2> SUFFICES ASSUME NEW q \in Presentations, NEW r \in Presentations,
                      pc'[q] = "accepted", pc'[r] = "accepted", token[q] = token[r],
                      Lasting(token[q]), now <= LastsUntil(token[q]), Jti(q) \notin lost, q # r
               PROVE FALSE
    BY <1>2 DEF AcceptedOnce, Jti, Lasting, LastsUntil
  <2>1. CASE q # p /\ r # p
    BY <1>3, <2>1 DEF IInv, AcceptedOnce, LastsUntil
  <2>2. CASE q = p \/ r = p
    <3>1. PICK s \in Presentations \ {p} : pc[s] = "accepted" /\ token[s] = token[p] /\ s \in {q, r}
      BY <1>3, <2>2
    <3>2. RowOf(token[s]) \in Table
      BY <3>1, <2>2 DEF IInv, AcceptedKept, Jti
    <3>3. RowOf(token[p]) \in Collected(p)
      BY <1>1, <3>1, <3>2, <2>2, KeptByCollection DEF Types
    <3>4. Seen(p)
      BY <3>3 DEF Seen, RowOf, Jti
    <3> QED BY <1>3, <2>2, <3>4
  <2> QED BY <2>1, <2>2
<1>8. ReplayIsReplay'
  <2> SUFFICES ASSUME NEW q \in Presentations, pc'[q] = "token_replay"
               PROVE \E r \in Presentations \ {q} :
                       token[r] = token[q] /\ pc'[r] \in {"accepted", "dropped"}
    BY <1>2 DEF ReplayIsReplay
  <2>1. CASE q # p
    <3>1. PICK r \in Presentations \ {q} : token[r] = token[q] /\ pc[r] \in {"accepted", "dropped"}
      BY <1>3, <2>1 DEF IInv, ReplayIsReplay
    <3>2. r # p
      BY <1>1, <3>1
    <3> QED BY <1>3, <3>1, <3>2
  <2>2. CASE q = p
    <3>1. PICK row \in Collected(p) : row.jti = Jti(p)
      BY <1>3, <2>2 DEF Seen
    <3>2. row \in versions[Len(versions)] /\ Len(versions) \in 1 .. Len(versions)
      BY <1>1, <3>1, TableTyped DEF Collected, Table
    <3>3. PICK r \in Presentations :
             pc[r] \in {"accepted", "dropped"} /\ token[r] \in Signed /\ row.jti = Jti(r)
      BY <3>2 DEF IInv, RowsFounded
    <3>4. token[r] = token[p] /\ r # p
      BY <1>1, <3>1, <3>3, JtiAssumption DEF Jti
    <3> QED BY <1>3, <2>2, <3>3, <3>4
  <2> QED BY <2>1, <2>2
<1> QED BY <1>2, <1>4, <1>5, <1>6, <1>7, <1>8 DEF IInv

LEMMA DropStep ==
  ASSUME IInv, NEW p \in Presentations, Drop(p)
  PROVE IInv'
<1>1. Types /\ pc[p] \in Running /\ token[p] \in Signed
  BY DEF IInv, Drop, AdmittedSigned, Admitted, Running
<1>2. /\ UNCHANGED <<now, token, arrived, clock, lost>>
      /\ pc'[p] = "dropped"
      /\ \A q \in Presentations \ {p} : pc'[q] = pc[q]
      /\ pc' \in [Presentations -> {"idle"} \cup Running \cup Answers]
  BY <1>1 DEF Drop, Types, Answers
<1>3. AdmittedSigned'
  BY <1>1, <1>2 DEF IInv, AdmittedSigned, Admitted
<1>4. CASE UNCHANGED versions
  <2>1. Types' /\ now <= Horizon /\ now \in Nat
    BY <1>1, <1>2, <1>4 DEF Types, IInv
  <2>2. \A q \in Presentations :
           /\ pc[q] = "accepted" <=> pc'[q] = "accepted"
           /\ pc[q] = "dropped" => pc'[q] = "dropped"
           /\ pc'[q] = "token_replay" => pc[q] = "token_replay"
    BY <1>1, <1>2 DEF Running
  <2> QED BY <1>2, <1>3, <1>4, <2>1, <2>2, QuietStep
<1>5. CASE pc[p] = "inserting" /\ versions' = Append(versions, Recorded(p))
  <2>1. versions' \in Seq(SUBSET Rows) \ {<< >>}
    BY <1>1, <1>5, RecordedTyped, Appended
  <2>2. Types'
    BY <1>1, <1>2, <2>1 DEF Types
  <2>3. OneRow' /\ RowsFounded' /\ AcceptedKept'
    BY <1>1, <1>2, <1>5, CommitKeeps
  <2>4. AcceptedOnce'
    BY <1>2 DEF IInv, AcceptedOnce, Jti, Lasting
  <2>5. ReplayIsReplay'
    BY <1>2 DEF IInv, ReplayIsReplay
  <2> QED BY <1>2, <1>3, <2>2, <2>3, <2>4, <2>5 DEF IInv
<1> QED BY <1>4, <1>5 DEF Drop

LEMMA PowerStep ==
  ASSUME IInv, PowerFailure
  PROVE IInv'
<1>1. PICK k \in 1 .. Len(versions) - 1 :
        /\ versions' = SubSeq(versions, 1, k)
        /\ lost' = lost \cup {row.jti : row \in Table \ versions[k]}
  BY DEF PowerFailure
<1>2. UNCHANGED <<now, token, arrived, clock>> /\ pc' = Cut
  BY DEF PowerFailure
<1>3. Types /\ Len(versions) \in Nat \ {0} /\ Table \in SUBSET Rows
  BY TableTyped DEF IInv
<1>4. /\ versions' \in Seq(SUBSET Rows)
      /\ Len(versions') = k
      /\ \A i \in 1 .. k : versions'[i] = versions[i]
      /\ k \in 1 .. Len(versions)
  BY <1>1, <1>3, SubSeqProperties DEF Types
<1>5. \A p \in Presentations :
        /\ pc'[p] = IF pc[p] \in Running THEN "dropped" ELSE pc[p]
        /\ pc[p] = "accepted" <=> pc'[p] = "accepted"
        /\ pc[p] = "dropped" => pc'[p] = "dropped"
        /\ pc'[p] = "token_replay" => pc[p] = "token_replay"
  BY <1>2 DEF Cut, Running
<1>6. Types'
  <2>1. versions' # << >>
    BY <1>4
  <2>2. {row.jti : row \in Table \ versions[k]} \subseteq {JtiOf[t] : t \in Tokens}
    BY <1>3 DEF Rows
  <2>3. pc' \in [Presentations -> {"idle"} \cup Running \cup Answers]
    BY <1>2, <1>3 DEF Types, Cut, Answers
  <2> QED BY <1>1, <1>2, <1>3, <1>4, <2>1, <2>2, <2>3 DEF Types
<1>7. AdmittedSigned'
  BY <1>2, <1>5 DEF IInv, AdmittedSigned, Admitted, Running
<1>8. \A t : (RowOf(t))' = RowOf(t) /\ (Lasting(t))' = Lasting(t) /\ (LastsUntil(t))' = LastsUntil(t)
  BY DEF RowOf, Lasting, LastsUntil
<1>9. RowsFounded'
  <2> SUFFICES ASSUME NEW i \in 1 .. Len(versions'), NEW row \in versions'[i]
               PROVE \E q \in Presentations :
                       pc'[q] \in {"accepted", "dropped"} /\ token[q] \in Signed
                         /\ row.jti = Jti(q) /\ (Lasting(token[q]) => row = RowOf(token[q]))
    BY <1>2, <1>8 DEF RowsFounded, Jti
  <2>1. i \in 1 .. Len(versions) /\ row \in versions[i]
    BY <1>4
  <2> QED BY <1>2, <1>5, <2>1 DEF IInv, RowsFounded
<1>10. AcceptedKept'
  <2> SUFFICES ASSUME NEW p \in Presentations, pc[p] = "accepted",
                      Lasting(token[p]), now <= LastsUntil(token[p]), Jti(p) \notin lost'
               PROVE RowOf(token[p]) \in Table'
    BY <1>2, <1>5, <1>8 DEF AcceptedKept, Jti
  <2>1. RowOf(token[p]) \in Table
    BY <1>1 DEF IInv, AcceptedKept
  <2>2. RowOf(token[p]) \in versions[k]
    BY <1>1, <2>1 DEF RowOf, Jti
  <2> QED BY <1>4, <2>2 DEF Table
<1>11. AcceptedOnce'
  BY <1>1, <1>2, <1>5 DEF IInv, AcceptedOnce, Jti, Lasting
<1>12. ReplayIsReplay'
  BY <1>2, <1>5 DEF IInv, ReplayIsReplay
<1>13. OneRow'
  BY <1>4 DEF IInv, OneRow
<1> QED BY <1>2, <1>6, <1>7, <1>9, <1>10, <1>11, <1>12, <1>13 DEF IInv

LEMMA StepKeepsInv == IInv /\ [Next]_vars => IInv'
<1> SUFFICES ASSUME IInv, [Next]_vars PROVE IInv'
  OBVIOUS
<1>1. CASE UNCHANGED vars
  BY <1>1 DEF vars, IInv, Types, AdmittedSigned, Admitted, RowsFounded, AcceptedKept,
              AcceptedOnce, ReplayIsReplay, OneRow, RowOf, LastsUntil, Lasting, Jti, Table
<1>2. CASE Next
  BY <1>2, VerifyStep, OtherQuietSteps, InsertStep, DropStep, PowerStep DEF Next
<1> QED BY <1>1, <1>2

LEMMA InvHolds == Spec => []IInv
  BY InitInv, StepKeepsInv, PTL DEF Spec

\* A capability token is accepted once while its row must stand: to exp + 60 s, when
\* that is not past the year 9999, and as long as no power failure took the row
\* (insert_jti_if_fresh).
THEOREM AcceptedOnceInTime == Spec => []AcceptedOnce
<1>1. IInv => AcceptedOnce
  BY DEF IInv
<1> QED BY <1>1, InvHolds, PTL

\* A token refused as a replay was presented before and recorded; what verify
\* turned down records nothing.
THEOREM ReplaysAreReplays == Spec => []ReplayIsReplay
<1>1. IInv => ReplayIsReplay
  BY DEF IInv
<1> QED BY <1>1, InvHolds, PTL

\* Every variable keeps its type, and a jti has one row.
THEOREM TypeCorrect == Spec => []TypeOK
  BY TypesSuffice, InvHolds, PTL
=============================================================================
