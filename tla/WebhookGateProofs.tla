-------------------------- MODULE WebhookGateProofs --------------------------
(***************************************************************************)
(* Whatever the requests, their nonces and keys, the number of deliveries, *)
(* the resolution of the clocks and the configured times: no request is    *)
(* accepted twice unless it came too early, which a long enough lifetime   *)
(* excludes.                                                               *)
(***************************************************************************)
EXTENDS WebhookGate, TLAPS

----------------------------------------------------------------------------
(* The inductive invariant.                                                *)

Types ==
  /\ now \in Nat
  /\ nonces \subseteq [nonce : {NonceOf[r] : r \in Requests}, expires : Int]
  /\ pc \in [Deliveries -> {"idle"} \cup Running \cup Answers]
  /\ request \in [Deliveries -> Requests]
  /\ arrived \in [Deliveries -> Nat]
  /\ clock \in [Deliveries -> Nat]

\* A delivery on its way arrived in the window of its request, and not long ago.
Timely(d) ==
  pc[d] \in Running =>
    /\ StampOf[request[d]] - Skew <= arrived[d]
    /\ arrived[d] < StampOf[request[d]] + Skew + Second
    /\ arrived[d] <= now /\ now <= arrived[d] + Timeout
    /\ pc[d] = "inserting" => arrived[d] <= clock[d] /\ clock[d] <= now

\* Until then the nonce of a delivery that was accepted stays recorded.
SpentUntil(d) == arrived[d] + Lifetime

Spent(d) ==
  pc[d] = "accepted" =>
    \/ SpentUntil(d) < now
    \/ \E n \in nonces : n.nonce = NonceOf[request[d]] /\ SpentUntil(d) <= n.expires

IInv ==
  /\ Types
  /\ \A d \in Deliveries : Timely(d) /\ Spent(d)
  /\ AcceptedOnce

----------------------------------------------------------------------------
LEMMA Times ==
  /\ Second \in Nat /\ Second > 0 /\ Skew \in Nat /\ Timeout \in Nat /\ Lifetime \in Nat
  /\ \A r \in Requests : StampOf[r] \in Int /\ LastInsert(r) \in Int
  /\ \A t \in Nat : WholeSecond(t) \in Int /\ WholeSecond(t) <= t /\ t < WholeSecond(t) + Second
<1>1. Second \in Nat /\ Second > 0 /\ Skew \in Nat /\ Timeout \in Nat /\ Lifetime \in Nat
  BY ClockAssumption DEF Lifetime
<1>2. \A r \in Requests : StampOf[r] \in Int /\ LastInsert(r) \in Int
  BY <1>1, RequestAssumption DEF LastInsert
<1>3. ASSUME NEW t \in Nat
      PROVE  WholeSecond(t) \in Int /\ WholeSecond(t) <= t /\ t < WholeSecond(t) + Second
  <2>1. t % Second \in 0 .. Second - 1
    BY <1>1
  <2> QED
    BY <1>1, <2>1 DEF WholeSecond
<1> QED
  BY <1>1, <1>2, <1>3

LEMMA InitInv == Init => IInv
<1> SUFFICES ASSUME Init PROVE IInv
  OBVIOUS
<1>1. Types
  BY DEF Init, Types, Running, Answers
<1>2. \A d \in Deliveries : Timely(d) /\ Spent(d)
  BY DEF Init, Timely, Spent, Running
<1>3. AcceptedOnce
  BY DEF Init, AcceptedOnce
<1> QED
  BY <1>1, <1>2, <1>3 DEF IInv

\* A step that accepts no request and records no nonce: only its effect on the
\* deliveries on their way has to be looked at.
LEMMA NothingAccepted ==
  ASSUME IInv, Types', \A d \in Deliveries : Timely(d)',
         now <= now', nonces \subseteq nonces', UNCHANGED request,
         \A d \in Deliveries :
           pc'[d] = "accepted" => pc[d] = "accepted" /\ arrived'[d] = arrived[d]
  PROVE  IInv'
<1>1. \A d \in Deliveries : Spent(d)'
  <2> SUFFICES ASSUME NEW d \in Deliveries, pc'[d] = "accepted" PROVE Spent(d)'
    BY DEF Spent
  <2>1. /\ pc[d] = "accepted" /\ Spent(d) /\ SpentUntil(d)' = SpentUntil(d)
        /\ SpentUntil(d) \in Int /\ now \in Int /\ now' \in Int
    BY Times DEF SpentUntil, IInv, Types
  <2>2. CASE SpentUntil(d) < now
    BY <2>1, <2>2 DEF Spent
  <2>3. CASE ~(SpentUntil(d) < now)
    BY <2>1, <2>3 DEF Spent
  <2> QED
    BY <2>2, <2>3
<1>2. AcceptedOnce'
  BY DEF IInv, AcceptedOnce, TooEarly
<1> QED
  BY <1>1, <1>2 DEF IInv

LEMMA VerifyKeeps == ASSUME IInv, NEW d \in Deliveries, Verify(d) PROVE IInv'
<1>1. Types'
  BY DEF IInv, Types, Verify, Running, Answers
<1>2. ASSUME NEW e \in Deliveries PROVE Timely(e)'
  <2>1. CASE e = d
    <3> SUFFICES ASSUME pc'[d] = "verified" PROVE Timely(d)'
      BY <2>1 DEF Timely, IInv, Types, Verify, Running
    <3>1. InWindow(request[d]) /\ arrived'[d] = now /\ now' = now /\ request' = request
      BY DEF Verify, IInv, Types
    <3>2. now \in Nat /\ StampOf[request[d]] \in Int
      BY Times DEF IInv, Types
    <3>3. StampOf[request[d]] - Skew <= now /\ now < StampOf[request[d]] + Skew + Second
      BY <3>1, <3>2, Times DEF InWindow
    <3> QED
      BY <3>1, <3>2, <3>3, Times DEF Timely
  <2>2. CASE e # d
    BY <2>2 DEF IInv, Types, Timely, Verify, Running
  <2> QED
    BY <2>1, <2>2
<1>3. now' = now /\ now \in Nat /\ nonces' = nonces /\ request' = request
      /\ \A e \in Deliveries :
           pc'[e] = "accepted" => pc[e] = "accepted" /\ arrived'[e] = arrived[e]
  BY DEF IInv, Types, Verify
<1> QED
  BY <1>1, <1>2, <1>3, NothingAccepted

LEMMA ReadClockKeeps == ASSUME IInv, NEW d \in Deliveries, ReadClock(d) PROVE IInv'
<1>1. Types'
  BY DEF IInv, Types, ReadClock, Running, Answers
<1>2. \A e \in Deliveries : Timely(e)'
  BY DEF IInv, Types, Timely, ReadClock, Running
<1>3. now' = now /\ now \in Nat /\ nonces' = nonces /\ request' = request
      /\ \A e \in Deliveries :
           pc'[e] = "accepted" => pc[e] = "accepted" /\ arrived'[e] = arrived[e]
  BY DEF IInv, Types, ReadClock
<1> QED
  BY <1>1, <1>2, <1>3, NothingAccepted

\* Recording a nonce loses only rows that have expired.
LEMMA RecordedKeeps ==
  ASSUME IInv, NEW d \in Deliveries, pc[d] = "inserting"
  PROVE  /\ Recorded(d) \subseteq [nonce : {NonceOf[r] : r \in Requests}, expires : Int]
         /\ \A n \in nonces : n \in Recorded(d) \/ n.expires < now
         /\ ~Seen(d) => \E n \in Recorded(d) : /\ n.nonce = NonceOf[request[d]]
                                               /\ SpentUntil(d) <= n.expires
<1> DEFINE row == [nonce |-> NonceOf[request[d]], expires |-> clock[d] + Lifetime]
<1>1. /\ clock[d] \in Nat /\ clock[d] <= now /\ now \in Nat /\ request[d] \in Requests
      /\ SpentUntil(d) <= clock[d] + Lifetime
  <2>1. Timely(d) /\ clock[d] \in Nat /\ now \in Nat /\ arrived[d] \in Nat /\ request[d] \in Requests
    BY DEF IInv, Types
  <2> QED
    BY <2>1, Times DEF Timely, Running, SpentUntil
<1>2. /\ Collected(d) \subseteq nonces
      /\ \A n \in nonces : n \in Collected(d) \/ n.expires < now
  BY <1>1 DEF IInv, Types, Collected
<1>3. /\ row \in [nonce : {NonceOf[r] : r \in Requests}, expires : Int]
      /\ row.nonce = NonceOf[request[d]] /\ row.expires = clock[d] + Lifetime
  BY <1>1, Times
<1>4. Recorded(d) = IF Seen(d) THEN Collected(d) ELSE Collected(d) \cup {row}
  BY DEF Recorded
<1>5. nonces \subseteq [nonce : {NonceOf[r] : r \in Requests}, expires : Int]
  BY DEF IInv, Types
<1> HIDE DEF row
<1> QED
  BY <1>1, <1>2, <1>3, <1>4, <1>5

\* An earlier acceptance keeps its mark, whatever is recorded after it.
LEMMA SpentKept ==
  ASSUME IInv, NEW d \in Deliveries, pc[d] = "inserting", nonces' = Recorded(d),
         UNCHANGED <<now, request, arrived>>,
         NEW e \in Deliveries, pc[e] = "accepted"
  PROVE  Spent(e)'
<1>1. /\ Spent(e) /\ SpentUntil(e) \in Int /\ now \in Int
      /\ SpentUntil(e)' = SpentUntil(e)
  BY Times DEF IInv, Types, SpentUntil
<1>2. CASE SpentUntil(e) < now
  BY <1>1, <1>2 DEF Spent
<1>3. CASE \E n \in nonces : n.nonce = NonceOf[request[e]] /\ SpentUntil(e) <= n.expires
  <2>1. PICK n \in nonces : n.nonce = NonceOf[request[e]] /\ SpentUntil(e) <= n.expires
    BY <1>3
  <2>2. CASE n \in Recorded(d)
    BY <1>1, <2>1, <2>2 DEF Spent
  <2>3. CASE n.expires < now
    <3>1. n.expires \in Int
      BY DEF IInv, Types
    <3>2. SpentUntil(e) < now
      BY <1>1, <2>1, <2>3, <3>1
    <3> QED
      BY <1>1, <3>2 DEF Spent
  <2> QED
    BY <2>2, <2>3, RecordedKeeps
<1> QED
  BY <1>1, <1>2, <1>3 DEF Spent

LEMMA TryInsertKeeps == ASSUME IInv, NEW d \in Deliveries, TryInsert(d) PROVE IInv'
<1> pc[d] = "inserting" /\ nonces' = Recorded(d) /\ UNCHANGED <<now, request, arrived, clock>>
  BY DEF TryInsert
<1>1. Types'
  BY RecordedKeeps DEF IInv, Types, TryInsert, Answers
<1>2. \A e \in Deliveries : Timely(e)'
  BY DEF IInv, Types, Timely, TryInsert, Running
<1>3. CASE Seen(d)
  <2>1. \A e \in Deliveries : pc'[e] = "accepted" <=> pc[e] = "accepted"
    BY <1>3 DEF TryInsert, IInv, Types
  <2>2. \A e \in Deliveries : Spent(e)'
    BY <2>1, SpentKept DEF Spent
  <2>3. AcceptedOnce'
    BY <2>1 DEF IInv, AcceptedOnce, TooEarly
  <2> QED
    BY <1>1, <1>2, <2>2, <2>3 DEF IInv
<1>4. CASE ~Seen(d)
  <2>1. \A e \in Deliveries : pc'[e] = "accepted" <=> (e = d \/ pc[e] = "accepted")
    BY <1>4 DEF TryInsert, IInv, Types
  <2>2. Spent(d)'
    BY <1>4, RecordedKeeps DEF Spent, SpentUntil
  <2>3. \A e \in Deliveries : Spent(e)'
    BY <2>1, <2>2, SpentKept DEF Spent
  <2>4. ASSUME NEW e \in Deliveries, pc[e] = "accepted", request[e] = request[d]
        PROVE  TooEarly(e)
    <3> SUFFICES ASSUME ~TooEarly(e) PROVE FALSE
      OBVIOUS
    <3>1. /\ now <= SpentUntil(e) /\ SpentUntil(e) \in Int
          /\ clock[d] <= now /\ clock[d] \in Nat /\ now \in Nat
      <4>1. /\ Timely(d) /\ arrived[d] \in Nat /\ arrived[e] \in Nat /\ clock[d] \in Nat
            /\ now \in Nat /\ request[d] \in Requests
        BY DEF IInv, Types
      <4>2. /\ now <= arrived[d] + Timeout /\ clock[d] <= now
            /\ arrived[d] < StampOf[request[d]] + Skew + Second
        BY <4>1 DEF Timely, Running
      <4>3. now <= LastInsert(request[d])
        BY <4>1, <4>2, Times DEF LastInsert
      <4>4. LastInsert(request[d]) <= SpentUntil(e)
        BY <2>4, <4>1, Times DEF TooEarly, SpentUntil
      <4> QED
        BY <4>1, <4>2, <4>3, <4>4, Times DEF SpentUntil
    <3>2. PICK n \in nonces : n.nonce = NonceOf[request[d]] /\ SpentUntil(e) <= n.expires
      BY <2>4, <3>1 DEF IInv, Spent
    <3>3. n.expires \in Int
      BY DEF IInv, Types
    <3>4. n \in Collected(d)
      BY <3>1, <3>2, <3>3 DEF Collected
    <3> QED
      BY <1>4, <3>2, <3>4 DEF Seen
  <2>5. AcceptedOnce'
    BY <2>1, <2>4 DEF IInv, AcceptedOnce, TooEarly
  <2> QED
    BY <1>1, <1>2, <2>3, <2>5 DEF IInv
<1> QED
  BY <1>3, <1>4

LEMMA InsertFailsKeeps == ASSUME IInv, NEW d \in Deliveries, InsertFails(d) PROVE IInv'
<1>1. Types'
  BY DEF IInv, Types, InsertFails, Answers
<1>2. \A e \in Deliveries : Timely(e)'
  BY DEF IInv, Types, Timely, InsertFails, Running
<1>3. now' = now /\ now \in Nat /\ nonces' = nonces /\ request' = request
      /\ \A e \in Deliveries :
           pc'[e] = "accepted" => pc[e] = "accepted" /\ arrived'[e] = arrived[e]
  BY DEF IInv, Types, InsertFails
<1> QED
  BY <1>1, <1>2, <1>3, NothingAccepted

LEMMA DropKeeps == ASSUME IInv, NEW d \in Deliveries, Drop(d) PROVE IInv'
<1>1. Types'
  BY RecordedKeeps DEF IInv, Types, Drop, Answers
<1>2. \A e \in Deliveries : Timely(e)'
  BY DEF IInv, Types, Timely, Drop, Running
<1>3. /\ now' = now /\ now \in Nat /\ request' = request /\ arrived' = arrived
      /\ \A e \in Deliveries : pc'[e] = "accepted" <=> pc[e] = "accepted"
  BY DEF IInv, Types, Drop, Running
<1>4. CASE nonces' = nonces
  BY <1>1, <1>2, <1>3, <1>4, NothingAccepted
<1>5. CASE pc[d] = "inserting" /\ nonces' = Recorded(d)
  <2>1. \A e \in Deliveries : Spent(e)'
    BY <1>3, <1>5, SpentKept DEF Spent
  <2>2. AcceptedOnce'
    BY <1>3 DEF IInv, AcceptedOnce, TooEarly
  <2> QED
    BY <1>1, <1>2, <2>1, <2>2 DEF IInv
<1> QED
  BY <1>4, <1>5 DEF Drop

LEMMA RestartKeeps == ASSUME IInv, Restart PROVE IInv'
<1>1. Types'
  BY DEF IInv, Types, Restart, Answers, Running
<1>2. \A e \in Deliveries : Timely(e)'
  BY DEF IInv, Types, Timely, Restart, Running
<1>3. now' = now /\ now \in Nat /\ nonces' = nonces /\ request' = request
      /\ \A e \in Deliveries :
           pc'[e] = "accepted" => pc[e] = "accepted" /\ arrived'[e] = arrived[e]
  BY DEF IInv, Types, Restart, Running
<1> QED
  BY <1>1, <1>2, <1>3, NothingAccepted

LEMMA TickKeeps == ASSUME IInv, Tick PROVE IInv'
<1>1. Types' /\ now' = now + 1 /\ now \in Nat
  BY DEF IInv, Types, Tick
<1>2. \A e \in Deliveries : Timely(e)'
  BY <1>1, Times DEF IInv, Types, Timely, Tick
<1>3. nonces' = nonces /\ request' = request
      /\ \A e \in Deliveries :
           pc'[e] = "accepted" => pc[e] = "accepted" /\ arrived'[e] = arrived[e]
  BY DEF Tick
<1> QED
  BY <1>1, <1>2, <1>3, NothingAccepted

LEMMA NextInv == IInv /\ [Next]_vars => IInv'
<1> SUFFICES ASSUME IInv, [Next]_vars PROVE IInv'
  OBVIOUS
<1>1. CASE Next
  BY <1>1, VerifyKeeps, ReadClockKeeps, TryInsertKeeps, InsertFailsKeeps, DropKeeps,
     RestartKeeps, TickKeeps DEF Next
<1>2. CASE UNCHANGED vars
  BY <1>2 DEF vars, IInv, Types, Timely, Spent, SpentUntil, AcceptedOnce, TooEarly
<1> QED
  BY <1>1, <1>2

LEMMA Invariance == Spec => []IInv
BY InitInv, NextInv, PTL DEF Spec

\* Whatever the configured times, verify accepts no request twice, not concurrently, not
\* after garbage collection and not after a restart, unless it first came so early that
\* its nonce expires before its window closes.
THEOREM NeverAcceptedTwice == Spec => []AcceptedOnce
<1>1. IInv => AcceptedOnce
  BY DEF IInv
<1> QED
  BY <1>1, Invariance, PTL

\* The lifetime with which no delivery in the window is too early.
LongEnough == Lifetime >= 2 * Skew + (Second - 1) + Timeout

\* What was accepted arrived in its window.
InTime ==
  \A d \in Deliveries : pc[d] = "accepted" => StampOf[request[d]] - Skew <= arrived[d]

\* With a lifetime of two skews, a second and the request timeout (600 s with the default
\* of 300 s for the skew is short of it) verify accepts no request twice at all.
COROLLARY NeverAcceptedTwiceIfLongEnough ==
  ASSUME LongEnough
  PROVE  Spec => [](\A d, e \in Deliveries :
           pc[d] = "accepted" /\ pc[e] = "accepted" /\ request[d] = request[e] => d = e)
<1>1. Init => InTime
  BY DEF Init, InTime
<1>2. IInv /\ InTime /\ [Next]_vars => InTime'
  <2> SUFFICES ASSUME IInv, InTime, [Next]_vars, NEW d \in Deliveries, pc'[d] = "accepted"
               PROVE  StampOf[request'[d]] - Skew <= arrived'[d]
    BY DEF InTime
  <2>1. /\ pc[d] = "accepted" \/ pc[d] = "inserting"
        /\ request' = request /\ arrived'[d] = arrived[d]
    BY DEF IInv, Types, Next, vars, Verify, ReadClock, TryInsert, InsertFails, Drop, Restart,
           Tick, Running
  <2> QED BY <2>1 DEF IInv, InTime, Timely, Running
<1>3. IInv /\ InTime /\ AcceptedOnce =>
        \A d, e \in Deliveries :
          pc[d] = "accepted" /\ pc[e] = "accepted" /\ request[d] = request[e] => d = e
  <2> SUFFICES ASSUME IInv, InTime, NEW d \in Deliveries, pc[d] = "accepted"
               PROVE  ~TooEarly(d)
    BY DEF AcceptedOnce
  <2>1. /\ arrived[d] \in Nat /\ request[d] \in Requests
        /\ StampOf[request[d]] - Skew <= arrived[d]
    BY DEF IInv, Types, InTime
  <2> QED BY <2>1, Times DEF TooEarly, LastInsert, LongEnough
<1> QED
  BY <1>1, <1>2, <1>3, Invariance, NeverAcceptedTwice, PTL DEF Spec
----------------------------------------------------------------------------
(* Types, and the founding of the rows; these hold whatever the lifetime.  *)

LEMMA RecordedRows ==
  ASSUME TypeOK, NEW d \in Deliveries
  PROVE  /\ Recorded(d) \subseteq [nonce : {NonceOf[r] : r \in Requests}, expires : Nat]
         /\ \A m, n \in Recorded(d) : m.nonce = n.nonce => m = n
         /\ \A n \in Recorded(d) : n.expires <= now + Lifetime
         /\ \A n \in Recorded(d) : n \in nonces \/ n.nonce = NonceOf[request[d]]
<1> DEFINE row == [nonce |-> NonceOf[request[d]], expires |-> clock[d] + Lifetime]
<1>1. clock[d] \in Nat /\ clock[d] <= now /\ now \in Nat /\ request[d] \in Requests
  BY ClockAssumption DEF TypeOK
<1>2. /\ row \in [nonce : {NonceOf[r] : r \in Requests}, expires : Nat]
      /\ row.nonce = NonceOf[request[d]] /\ row.expires <= now + Lifetime
  BY <1>1, Times
<1>3. /\ Collected(d) \subseteq nonces
      /\ Recorded(d) = IF Seen(d) THEN Collected(d) ELSE Collected(d) \cup {row}
      /\ ~Seen(d) => \A n \in Collected(d) : n.nonce # row.nonce
  BY DEF Collected, Recorded, Seen
<1> HIDE DEF row
<1> QED
  BY <1>2, <1>3 DEF TypeOK

LEMMA TypesInit == Init => TypeOK
  BY ClockAssumption DEF Init, TypeOK, Running, Answers

LEMMA TypesKept == TypeOK /\ [Next]_vars => TypeOK'
<1> SUFFICES ASSUME TypeOK, [Next]_vars PROVE TypeOK'
  OBVIOUS
<1> now \in Nat /\ Horizon \in Nat
  BY ClockAssumption DEF TypeOK
<1>1. ASSUME NEW d \in Deliveries, Verify(d) PROVE TypeOK'
  BY <1>1 DEF TypeOK, Verify, Running, Answers
<1>2. ASSUME NEW d \in Deliveries, ReadClock(d) PROVE TypeOK'
  BY <1>2 DEF TypeOK, ReadClock, Running, Answers
<1>3. ASSUME NEW d \in Deliveries, TryInsert(d) PROVE TypeOK'
  <2>1. nonces' = Recorded(d) /\ UNCHANGED <<now, request, arrived, clock>>
    BY <1>3 DEF TryInsert
  <2>2. pc' \in [Deliveries -> {"idle"} \cup Running \cup Answers]
    BY <1>3 DEF TryInsert, TypeOK, Answers
  <2> QED BY <2>1, <2>2, RecordedRows DEF TypeOK
<1>4. ASSUME NEW d \in Deliveries, InsertFails(d) PROVE TypeOK'
  BY <1>4 DEF TypeOK, InsertFails, Running, Answers
<1>5. ASSUME NEW d \in Deliveries, Drop(d) PROVE TypeOK'
  <2>1. nonces' \in {nonces, Recorded(d)} /\ UNCHANGED <<now, request, arrived, clock>>
    BY <1>5 DEF Drop
  <2>2. pc' \in [Deliveries -> {"idle"} \cup Running \cup Answers]
    BY <1>5 DEF Drop, TypeOK, Answers
  <2>3. CASE nonces' = nonces
    BY <2>1, <2>2, <2>3 DEF TypeOK
  <2>4. CASE nonces' = Recorded(d)
    BY <2>1, <2>2, <2>4, RecordedRows DEF TypeOK
  <2> QED BY <2>1, <2>3, <2>4
<1>6. CASE Restart
  BY <1>6 DEF TypeOK, Restart, Running, Answers
<1>7. CASE Tick
  <2>1. now' = now + 1 /\ now' \in 0 .. Horizon /\ UNCHANGED <<nonces, pc, request, arrived, clock>>
    BY <1>7 DEF Tick
  <2>2. \A n \in nonces : n.expires <= now' + Lifetime
    <3> SUFFICES ASSUME NEW n \in nonces PROVE n.expires <= now' + Lifetime
      OBVIOUS
    <3>1. n.expires \in Nat /\ n.expires <= now + Lifetime
      BY DEF TypeOK
    <3> QED BY <2>1, <3>1, Times
  <2>3. arrived \in [Deliveries -> 0 .. now'] /\ clock \in [Deliveries -> 0 .. now']
    BY <2>1 DEF TypeOK
  <2> QED BY <2>1, <2>2, <2>3 DEF TypeOK
<1>8. CASE UNCHANGED vars
  BY <1>8 DEF TypeOK, vars
<1> QED
  BY <1>1, <1>2, <1>3, <1>4, <1>5, <1>6, <1>7, <1>8 DEF Next

\* The variables keep their types; the nonce is a key of its table, and no row outlives
\* the lifetime counted from now.
THEOREM TypeCorrect == Spec => []TypeOK
  BY TypesInit, TypesKept, PTL DEF Spec

\* What gets as far as the table is signed; each row comes from a delivery that was
\* accepted or cut off.
Founded ==
  /\ \A d \in Deliveries : pc[d] \in Running => request[d] \in Signed
  /\ \A n \in nonces : \E d \in Deliveries :
       pc[d] \in {"accepted", "dropped"} /\ request[d] \in Signed /\ n.nonce = NonceOf[request[d]]

\* Senders draw a nonce for each request, and none draws another's.
DistinctNonces == \A r, s \in Signed : NonceOf[r] = NonceOf[s] => r = s

\* A step that keeps what was accepted or dropped founds the old rows anew.
LEMMA FoundedKept == TypeOK /\ Founded /\ [Next]_vars => Founded'
<1> SUFFICES ASSUME TypeOK, Founded, [Next]_vars PROVE Founded'
  OBVIOUS
<1>1. \A d \in Deliveries : pc'[d] \in Running => request'[d] \in Signed
  BY DEF Founded, TypeOK, Next, vars, Verify, ReadClock, TryInsert, InsertFails, Drop, Restart,
         Tick, Running
<1>2. \A d \in Deliveries : pc[d] \in {"accepted", "dropped"} =>
        pc'[d] = pc[d] /\ request'[d] = request[d]
  BY DEF TypeOK, Next, vars, Verify, ReadClock, TryInsert, InsertFails, Drop, Restart, Tick, Running
<1>3. \A n \in nonces' : n \in nonces \/ \E d \in Deliveries :
        /\ pc'[d] \in {"accepted", "dropped"} /\ request'[d] \in Signed
        /\ n.nonce = NonceOf[request'[d]]
  <2>1. ASSUME NEW d \in Deliveries, pc[d] = "inserting", nonces' = Recorded(d),
               pc'[d] \in {"accepted", "dropped"} \/ Seen(d), request' = request,
               NEW n \in nonces', n \notin nonces
        PROVE  /\ pc'[d] \in {"accepted", "dropped"} /\ request'[d] \in Signed
               /\ n.nonce = NonceOf[request'[d]]
    <3>1. n.nonce = NonceOf[request[d]] /\ ~Seen(d)
      BY <2>1, RecordedRows DEF Recorded, Collected
    <3> QED BY <2>1, <3>1 DEF Founded, Running
  <2>2. ASSUME NEW d \in Deliveries, TryInsert(d)
        PROVE  /\ pc[d] = "inserting" /\ nonces' = Recorded(d) /\ request' = request
               /\ pc'[d] \in {"accepted", "dropped"} \/ Seen(d)
    BY <2>2 DEF TryInsert, TypeOK
  <2>3. ASSUME NEW d \in Deliveries, Drop(d)
        PROVE  \/ nonces' = nonces
               \/ /\ pc[d] = "inserting" /\ nonces' = Recorded(d) /\ request' = request
                  /\ pc'[d] \in {"accepted", "dropped"}
    BY <2>3 DEF Drop, TypeOK
  <2>4. \/ nonces' = nonces
        \/ \E d \in Deliveries : TryInsert(d) \/ Drop(d)
    BY DEF Next, vars, Verify, ReadClock, InsertFails, Restart, Tick
  <2> QED BY <2>1, <2>2, <2>3, <2>4
<1>4. \A n \in nonces' : \E d \in Deliveries :
        pc'[d] \in {"accepted", "dropped"} /\ request'[d] \in Signed /\ n.nonce = NonceOf[request'[d]]
  BY <1>2, <1>3 DEF Founded
<1> QED
  BY <1>1, <1>4 DEF Founded

LEMMA ReplayKept ==
  ASSUME DistinctNonces, TypeOK, Founded, ReplayIsReplay, [Next]_vars
  PROVE  ReplayIsReplay'
<1>1. \A d \in Deliveries : pc[d] \in {"accepted", "dropped"} =>
        pc'[d] = pc[d] /\ request'[d] = request[d]
  BY DEF TypeOK, Next, vars, Verify, ReadClock, TryInsert, InsertFails, Drop, Restart, Tick, Running
<1>2. ASSUME NEW d \in Deliveries, pc'[d] = "nonce_replay"
      PROVE  pc[d] = "nonce_replay" \/ (TryInsert(d) /\ Seen(d))
  BY <1>2 DEF TypeOK, Next, vars, Verify, ReadClock, TryInsert, InsertFails, Drop, Restart, Tick
<1>3. request' = request
  BY DEF Next, vars, Verify, ReadClock, TryInsert, InsertFails, Drop, Restart, Tick
<1>4. ASSUME NEW d \in Deliveries, TryInsert(d), Seen(d)
      PROVE  \E e \in Deliveries \ {d} : request[e] = request[d] /\ pc[e] \in {"accepted", "dropped"}
  <2>1. pc[d] = "inserting" /\ request[d] \in Signed
    BY <1>4 DEF TryInsert, Founded, Running
  <2>2. PICK n \in nonces : n.nonce = NonceOf[request[d]]
    BY <1>4 DEF Seen, Collected
  <2>3. PICK e \in Deliveries : /\ pc[e] \in {"accepted", "dropped"} /\ request[e] \in Signed
                                /\ n.nonce = NonceOf[request[e]]
    BY DEF Founded
  <2>4. request[e] = request[d] /\ e # d
    BY <2>1, <2>2, <2>3 DEF DistinctNonces
  <2> QED BY <2>3, <2>4
<1> QED
  BY <1>1, <1>2, <1>3, <1>4 DEF ReplayIsReplay

\* A request refused as a replay has itself got as far as the table before: a forged or
\* late one with its nonce does not use it up, if senders' nonces differ.
THEOREM ReplaysAreReplays == ASSUME DistinctNonces PROVE Spec => []ReplayIsReplay
<1>1. Init => Founded /\ ReplayIsReplay
  BY DEF Init, Founded, ReplayIsReplay, Running
<1>2. TypeOK /\ Founded /\ ReplayIsReplay /\ [Next]_vars => Founded' /\ ReplayIsReplay'
  BY FoundedKept, ReplayKept
<1> QED
  BY <1>1, <1>2, TypeCorrect, PTL DEF Spec
=============================================================================
