------------------------------ MODULE WebhookGate ------------------------------
(***************************************************************************)
(* The gate in front of the license webhook: WebhookVerifier::verify       *)
(* (webhook.rs) over the persistent NonceStore (nonce_store.rs).  A signed *)
(* request may be delivered any number of times, its deliveries handled    *)
(* concurrently, and the process may restart at any moment.                *)
(*                                                                         *)
(* Time is counted in ticks, Second of them to a second: the timestamp     *)
(* check reads whole seconds, the nonce store reads ticks (milliseconds).  *)
(* The clock never steps back.                                             *)
(*                                                                         *)
(* An operator Mut... is a seeded error of the operator that follows it.   *)
(***************************************************************************)
EXTENDS Integers, FiniteSets

CONSTANTS
  Requests,    \* distinct requests: timestamp, nonce, key id, body and signature
  StampOf,     \* X-Imogo-Timestamp, in ticks
  NonceOf,     \* X-Imogo-Nonce
  Signed,      \* the requests whose signature verifies under a registered key
  Deliveries,  \* calls of verify
  Second,      \* ticks per second
  Skew,        \* max_timestamp_skew_secs, in ticks
  Ttl,         \* nonce_ttl_secs, in ticks
  Timeout,     \* request_timeout_secs, in ticks
  Horizon      \* bound: the clock stops there

ASSUME ClockAssumption ==
  /\ Second \in Nat \ {0}
  /\ Skew \in Nat /\ Ttl \in Int /\ Timeout \in Nat /\ Horizon \in Nat
ASSUME RequestAssumption ==
  StampOf \in [Requests -> Int] /\ Signed \subseteq Requests

VARIABLES
  now,      \* the clock
  nonces,   \* webhook_nonces: the nonce and expires_at of each row
  pc,       \* where each delivery stands, at last with its answer
  request,  \* the request it delivers
  arrived,  \* when verify read the clock for the timestamp check
  clock     \* when try_insert read it

vars == <<now, nonces, pc, request, arrived, clock>>

Running == {"verified", "inserting"}
Answers == {"accepted", "timestamp_out_of_range", "unauthorized", "nonce_replay",
            "internal_error", "dropped"}

WholeSecond(t) == t - (t % Second)

\* NonceStore::new: a TTL below one second is one second.
Lifetime == IF Ttl < Second THEN Second ELSE Ttl

----------------------------------------------------------------------------
Init ==
  /\ now = 0
  /\ nonces = {}
  /\ pc = [d \in Deliveries |-> "idle"]
  /\ request \in [Deliveries -> Requests]
  /\ arrived = [d \in Deliveries |-> 0]
  /\ clock = [d \in Deliveries |-> 0]

InWindow(r) ==
  LET age == WholeSecond(now) - StampOf[r] IN -Skew <= age /\ age <= Skew

\* The signature is not checked before the nonce is recorded.
MutVerify(d) ==
  /\ pc[d] = "idle"
  /\ pc' = [pc EXCEPT ![d] = IF InWindow(request[d]) THEN "verified"
                             ELSE "timestamp_out_of_range"]
  /\ arrived' = [arrived EXCEPT ![d] = now]
  /\ UNCHANGED <<now, nonces, request, clock>>

\* The synchronous part of verify: timestamp window, key id, signature.
Verify(d) ==
  /\ pc[d] = "idle"
  /\ pc' = [pc EXCEPT ![d] =
       IF ~InWindow(request[d]) THEN "timestamp_out_of_range"
       ELSE IF request[d] \notin Signed THEN "unauthorized"
       ELSE "verified"]
  /\ arrived' = [arrived EXCEPT ![d] = now]
  /\ UNCHANGED <<now, nonces, request, clock>>

\* try_insert takes its `now`, then waits for the database.
ReadClock(d) ==
  /\ pc[d] = "verified"
  /\ pc' = [pc EXCEPT ![d] = "inserting"]
  /\ clock' = [clock EXCEPT ![d] = now]
  /\ UNCHANGED <<now, nonces, request, arrived>>

\* DELETE FROM webhook_nonces WHERE expires_at < ?
Collected(d) == {n \in nonces : n.expires >= clock[d]}

Seen(d) == \E n \in Collected(d) : n.nonce = NonceOf[request[d]]

\* INSERT OR IGNORE: the nonce is the primary key.
Recorded(d) ==
  IF Seen(d) THEN Collected(d)
  ELSE Collected(d) \cup {[nonce |-> NonceOf[request[d]], expires |-> clock[d] + Lifetime]}

\* INSERT OR REPLACE instead, whose row count is always 1.
MutTryInsert(d) ==
  /\ pc[d] = "inserting"
  /\ nonces' = Collected(d) \cup {[nonce |-> NonceOf[request[d]], expires |-> clock[d] + Lifetime]}
  /\ pc' = [pc EXCEPT ![d] = "accepted"]
  /\ UNCHANGED <<now, request, arrived, clock>>

\* The transaction: its first statement writes, so it waits for the write lock
\* and reads what is committed.
TryInsert(d) ==
  /\ pc[d] = "inserting"
  /\ nonces' = Recorded(d)
  /\ pc' = [pc EXCEPT ![d] = IF Seen(d) THEN "nonce_replay" ELSE "accepted"]
  /\ UNCHANGED <<now, request, arrived, clock>>

\* A database error: 401 internal_error, the transaction rolls back.
InsertFails(d) ==
  /\ pc[d] = "inserting"
  /\ pc' = [pc EXCEPT ![d] = "internal_error"]
  /\ UNCHANGED <<now, nonces, request, arrived, clock>>

\* The request is cut off by the timeout layer or the client; a COMMIT already
\* handed to the database may still take effect.
Drop(d) ==
  /\ pc[d] \in Running
  /\ pc' = [pc EXCEPT ![d] = "dropped"]
  /\ \/ UNCHANGED nonces
     \/ pc[d] = "inserting" /\ nonces' = Recorded(d)
  /\ UNCHANGED <<now, request, arrived, clock>>

\* The in-memory cache that the table replaced: a restart forgets the nonces.
MutRestart ==
  /\ \E d \in Deliveries : pc[d] \in Running
  /\ pc' = [d \in Deliveries |-> IF pc[d] \in Running THEN "dropped" ELSE pc[d]]
  /\ nonces' = {}
  /\ UNCHANGED <<now, request, arrived, clock>>

\* The process stops and starts again: the table survives.
Restart ==
  /\ \E d \in Deliveries : pc[d] \in Running
  /\ pc' = [d \in Deliveries |-> IF pc[d] \in Running THEN "dropped" ELSE pc[d]]
  /\ UNCHANGED <<now, nonces, request, arrived, clock>>

\* The timeout layer lets no request run longer than Timeout.
Tick ==
  /\ now < Horizon
  /\ \A d \in Deliveries : pc[d] \in Running => now < arrived[d] + Timeout
  /\ now' = now + 1
  /\ UNCHANGED <<nonces, pc, request, arrived, clock>>

Next ==
  \/ \E d \in Deliveries :
       \/ Verify(d) \/ ReadClock(d) \/ TryInsert(d) \/ InsertFails(d) \/ Drop(d)
  \/ Restart
  \/ Tick

Spec == Init /\ [][Next]_vars

----------------------------------------------------------------------------
(* Properties                                                              *)

\* Each row of webhook_nonces has a nonce of its own, and no row outlives the
\* lifetime counted from the last moment that could have written it.
TypeOK ==
  /\ now \in 0 .. Horizon
  /\ nonces \subseteq [nonce : {NonceOf[r] : r \in Requests}, expires : Nat]
  /\ \A m, n \in nonces : m.nonce = n.nonce => m = n
  /\ \A n \in nonces : n.expires <= now + Lifetime
  /\ pc \in [Deliveries -> {"idle"} \cup Running \cup Answers]
  /\ request \in [Deliveries -> Requests]
  /\ arrived \in [Deliveries -> 0 .. now]
  /\ clock \in [Deliveries -> 0 .. now]

\* The last tick at which a delivery of a request reaches the table: the end of its
\* window, the second that the timestamp check cuts off and the slowest delivery.
LastInsert(r) == StampOf[r] + Skew + (Second - 1) + Timeout

\* The request was so far ahead of the server's clock that its nonce may be collected
\* while it is still in its window.  With the defaults (skew 300 s, lifetime 600 s) that
\* is a request in the first second, and the request timeout, of its window.
TooEarly(d) == arrived[d] + Lifetime < LastInsert(request[d])

\* A request is accepted at most once, however often, in whatever order and across
\* whatever restarts it is delivered, unless one of the two deliveries came too early.
AcceptedOnce ==
  \A d, e \in Deliveries :
    pc[d] = "accepted" /\ pc[e] = "accepted" /\ request[d] = request[e] =>
      d = e \/ TooEarly(d) \/ TooEarly(e)

\* A request is refused as a replay only if it was delivered before: one that
\* was refused itself, for its signature or its age, uses up no nonce.
ReplayIsReplay ==
  \A d \in Deliveries : pc[d] = "nonce_replay" =>
    \E e \in Deliveries \ {d} : request[e] = request[d] /\ pc[e] \in {"accepted", "dropped"}
=============================================================================
