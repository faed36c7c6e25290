------------------------------ MODULE Capability ------------------------------
(***************************************************************************)
(* Capability tokens in front of POST /v1/b2c/rooms:                       *)
(* CapabilityVerifier::verify (capability.rs) over the table               *)
(* capability_jti_cache.  A token may be presented any number of times,    *)
(* its presentations handled concurrently; the process may restart, and    *)
(* after a power failure the database may have lost its last commits       *)
(* (synchronous = NORMAL in db.rs).                                        *)
(*                                                                         *)
(* Time is counted in ticks, Second of them to a second, as in             *)
(* WebhookGate: the claims are compared with whole seconds, the rows of    *)
(* the table with ticks (milliseconds).  The clock never steps back.       *)
(*                                                                         *)
(* An operator Mut... is a seeded error of the operator that follows it.   *)
(***************************************************************************)
EXTENDS Integers, Sequences

CONSTANTS
  Tokens,         \* distinct tokens: header, claims and signature
  JtiOf, IatOf, ExpOf, \* the claims; the times in ticks, whole seconds
  Signed,         \* the tokens with a registered kid, EdDSA and a valid signature
  Granted,        \* the tokens whose caps contain b2c.create_room
  Presentations,  \* calls of verify
  Second,         \* ticks per second
  Leeway,         \* validation.leeway and the margin of a row: 60 s, in ticks
  MaxAge,         \* of a token since iat: 24 h, in ticks
  Timeout,        \* request_timeout_secs, in ticks
  LastSorted,     \* the last moment whose RFC 3339 text sorts by time: the year 9999
  LastMoment,     \* the last moment that chrono has
  Horizon         \* bound: the clock stops there

ASSUME ClockAssumption ==
  Second \in Nat \ {0} /\ Leeway \in Nat /\ MaxAge \in Nat /\ Timeout \in Nat /\ Horizon \in Nat
  /\ LastSorted \in Int /\ LastMoment \in Int /\ LastSorted <= LastMoment
ASSUME ClaimAssumption == IatOf \in [Tokens -> Int] /\ ExpOf \in [Tokens -> Int]
\* The license server gives every token a jti of its own (UUID v4).
ASSUME JtiAssumption == \A s, t \in Signed : JtiOf[s] = JtiOf[t] => s = t
ASSUME SignedAssumption == Signed \subseteq Tokens

VARIABLES
  now,       \* the clock
  versions,  \* capability_jti_cache as of each commit, the current one last
  pc,        \* where each presentation stands, at last with its answer
  token,     \* the token it presents
  arrived,   \* when verify read the clock for the claims
  clock,     \* when insert_jti_if_fresh read it
  lost       \* history: the jtis whose row a power failure took

vars == <<now, versions, pc, token, arrived, clock, lost>>

Running == {"verified", "inserting"}
Answers == {"accepted", "invalid_token", "token_iat_too_old", "missing_capability",
            "token_replay", "internal_error", "dropped"}

WholeSecond(t) == t - (t % Second)
Table == versions[Len(versions)]
Jti(p) == JtiOf[token[p]]

----------------------------------------------------------------------------
Init ==
  /\ now = 0
  /\ versions = <<{}>>
  /\ pc = [p \in Presentations |-> "idle"]
  /\ token \in [Presentations -> Tokens]
  /\ arrived = [p \in Presentations |-> 0]
  /\ clock = [p \in Presentations |-> 0]
  /\ lost = {}

\* jsonwebtoken: exp against the clock less the leeway, in whole seconds.
Valid(t) == t \in Signed /\ ExpOf[t] >= WholeSecond(now) - Leeway

\* The jti is recorded before the signature is checked.
MutVerdict(t) ==
  IF WholeSecond(now) - IatOf[t] > MaxAge THEN "token_iat_too_old"
  ELSE IF t \notin Granted THEN "missing_capability"
  ELSE "verified"

\* Signature, issuer and expiry; the age; the capability.
Verdict(t) ==
  IF ~Valid(t) THEN "invalid_token"
  ELSE IF WholeSecond(now) - IatOf[t] > MaxAge THEN "token_iat_too_old"
  ELSE IF t \notin Granted THEN "missing_capability"
  ELSE "verified"

\* The synchronous part of verify.
Verify(p) ==
  /\ pc[p] = "idle"
  /\ pc' = [pc EXCEPT ![p] = Verdict(token[p])]
  /\ arrived' = [arrived EXCEPT ![p] = now]
  /\ UNCHANGED <<now, versions, token, clock, lost>>

\* insert_jti_if_fresh takes its `now`, then waits for the database.
ReadClock(p) ==
  /\ pc[p] = "verified"
  /\ pc' = [pc EXCEPT ![p] = "inserting"]
  /\ clock' = [clock EXCEPT ![p] = now]
  /\ UNCHANGED <<now, versions, token, arrived, lost>>

\* The expiry of a token whose row outlives it.
Lasting(t) == ExpOf[t] + Leeway <= LastSorted

\* The row expires with the token, without the leeway.
MutExpiry(p) == ExpOf[token[p]]

\* expires_at of the row that a presentation writes.  The column is text: a year
\* past 9999 is written with a sign and sorts before every moment; a moment that
\* chrono does not have is replaced by the time of the insert.
Expiry(p) ==
  LET expires == ExpOf[token[p]] + Leeway
  IN IF expires > LastMoment THEN clock[p]
     ELSE IF Lasting(token[p]) THEN expires
     ELSE -1

\* DELETE FROM capability_jti_cache WHERE expires_at < ?
Collected(p) == {row \in Table : row.expires >= clock[p]}

Seen(p) == \E row \in Collected(p) : row.jti = Jti(p)

\* The jti is no key, and a row lives as long as a nonce.
MutRecorded(p) ==
  Collected(p) \cup {[jti |-> Jti(p), expires |-> clock[p] + Leeway]}

\* INSERT OR IGNORE: the jti is the primary key.
Recorded(p) ==
  IF Seen(p) THEN Collected(p)
  ELSE Collected(p) \cup {[jti |-> Jti(p), expires |-> Expiry(p)]}

\* The transaction: its first statement writes, so it waits for the write lock
\* and reads what is committed.
InsertJti(p) ==
  /\ pc[p] = "inserting"
  /\ versions' = Append(versions, Recorded(p))
  /\ pc' = [pc EXCEPT ![p] = IF Seen(p) THEN "token_replay" ELSE "accepted"]
  /\ UNCHANGED <<now, token, arrived, clock, lost>>

\* A database error: the transaction rolls back.
InsertFails(p) ==
  /\ pc[p] = "inserting"
  /\ pc' = [pc EXCEPT ![p] = "internal_error"]
  /\ UNCHANGED <<now, versions, token, arrived, clock, lost>>

\* The request is cut off by the timeout layer or the client; a COMMIT already
\* handed to the database may still take effect.
Drop(p) ==
  /\ pc[p] \in Running
  /\ pc' = [pc EXCEPT ![p] = "dropped"]
  /\ \/ UNCHANGED versions
     \/ pc[p] = "inserting" /\ versions' = Append(versions, Recorded(p))
  /\ UNCHANGED <<now, token, arrived, clock, lost>>

\* Every request in flight ends with the process.
Cut == [p \in Presentations |-> IF pc[p] \in Running THEN "dropped" ELSE pc[p]]

\* The process stops and starts again: the table survives.
Restart ==
  /\ Cut # pc
  /\ pc' = Cut
  /\ UNCHANGED <<now, versions, token, arrived, clock, lost>>

\* The machine stops: the database is what it was after some earlier commit.
PowerFailure ==
  /\ \E k \in 1 .. Len(versions) - 1 :
       /\ versions' = SubSeq(versions, 1, k)
       /\ lost' = lost \cup {row.jti : row \in Table \ versions[k]}
  /\ pc' = Cut
  /\ UNCHANGED <<now, token, arrived, clock>>

\* The timeout layer lets no request run longer than Timeout.
Tick ==
  /\ now < Horizon
  /\ \A p \in Presentations : pc[p] \in Running => now < arrived[p] + Timeout
  /\ now' = now + 1
  /\ UNCHANGED <<versions, pc, token, arrived, clock, lost>>

Next ==
  \/ \E p \in Presentations :
       \/ Verify(p) \/ ReadClock(p) \/ InsertJti(p) \/ InsertFails(p) \/ Drop(p)
  \/ Restart
  \/ PowerFailure
  \/ Tick

Spec == Init /\ [][Next]_vars

----------------------------------------------------------------------------
(* Properties                                                              *)

\* The variables keep their types; in every version of the table each jti has
\* one row.
TypeOK ==
  /\ now \in 0 .. Horizon
  /\ versions \in Seq(SUBSET [jti : {JtiOf[t] : t \in Tokens}, expires : Int]) \ {<< >>}
  /\ \A i \in 1 .. Len(versions) : \A r, s \in versions[i] : r.jti = s.jti => r = s
  /\ pc \in [Presentations -> {"idle"} \cup Running \cup Answers]
  /\ token \in [Presentations -> Tokens]
  /\ arrived \in [Presentations -> 0 .. now]
  /\ clock \in [Presentations -> 0 .. now]
  /\ lost \subseteq {JtiOf[t] : t \in Tokens}

\* Until the moment its row expires (exp + 60 s), a token is accepted at most once,
\* however its presentations overlap and across restarts, unless a power failure
\* took its row.  After that moment the row may be collected, although verify lets
\* the token in to the end of that second, and later still a request that arrived
\* in time; and a token to expire after the year 9999 has a row that is collected at
\* once.
AcceptedOnce ==
  \A p, q \in Presentations :
    /\ pc[p] = "accepted" /\ pc[q] = "accepted" /\ token[p] = token[q]
    /\ Lasting(token[p]) /\ now <= ExpOf[token[p]] + Leeway
    /\ Jti(p) \notin lost
    => p = q

\* A token is refused as a replay only if it was presented before and got as far
\* as the table: a forged one with its jti, or a presentation without the
\* capability, out of its time or rolled back, does not use it up.
ReplayIsReplay ==
  \A p \in Presentations : pc[p] = "token_replay" =>
    \E q \in Presentations \ {p} : token[q] = token[p] /\ pc[q] \in {"accepted", "dropped"}
=============================================================================
