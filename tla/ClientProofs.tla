---------------------------- MODULE ClientProofs ----------------------------
(***************************************************************************)
(* What holds of every client, whatever the number of its requests and of  *)
(* its sockets, and whenever the application calls connect().              *)
(***************************************************************************)
EXTENDS Client, SequenceTheorems, FiniteSetTheorems, TLAPS

-----------------------------------------------------------------------------
(* Inductive invariants.                                                   *)

Bit(b) == IF b THEN 1 ELSE 0
InState(S) == {s \in Sockets : readyState[s] \in S}

\* Sockets are created in order; this.socket is one whose onclose is installed
\* and has not run.
SocketShape ==
    /\ \E n \in 0 .. MaxSockets : \A s \in Sockets : readyState[s] # "none" <=> s <= n
    /\ \A s \in onclose : readyState[s] # "none"
    /\ socket # NoSocket =>
        socket \in onclose /\ readyState[socket] \in {"CONNECTING", "OPEN", "CLOSING"}

\* A reconnect timer is armed by a close event, a ping interval by an open one.
TimersCounted ==
    /\ lostReconnects + Bit(reconnectTimer) <= Cardinality(InState({"CLOSED"}))
    /\ lostPings + Bit(pingTimer) <= Cardinality(InState({"OPEN", "CLOSING", "CLOSED"}))

\* Ids are used in order: a request that was not issued yet is unknown.
Issued == \A r \in Requests : call[r] = "none" <=> r >= nextStreamId

\* The frames of a request leave once, and a request that waits has none.
SentApart ==
    /\ \A i \in DOMAIN wire : wire[i].req < nextStreamId
    /\ \A i \in DOMAIN wire : wire[i].req \notin ToSet(pendingRequests)
    /\ \A i \in DOMAIN wire : readyState[wire[i].sock] \in {"OPEN", "CLOSING", "CLOSED"}

\* The queue is in issue order and ahead of it is only what a callback issued.
QueueOrder ==
    /\ \A i, j \in DOMAIN pendingRequests : i < j => pendingRequests[i] < pendingRequests[j]
    /\ \A i \in DOMAIN wire, r \in ToSet(pendingRequests) :
          wire[i].req < r \/ wire[i].req \in early

\* While reconnection is on there is a socket or a timer.
SomethingComes ==
    reconnectionEnabled => socket # NoSocket \/ reconnectTimer \/ lostReconnects > 0

\* What one call of connect() leaves true.
ConnectedOnce ==
    /\ app = "fresh" => /\ socket = NoSocket /\ ~reconnectionEnabled
                        /\ ~pingTimer /\ ~reconnectTimer
                        /\ \A s \in Sockets : readyState[s] = "none"
    /\ app = "disconnected" => /\ socket = NoSocket /\ ~pingTimer /\ ~reconnectTimer
    /\ OneSocket
    /\ \A s \in onclose : readyState[s] = "CLOSING" => s = socket \/ app = "disconnected"
    /\ lostReconnects = 0 /\ lostPings = 0
    /\ reconnectTimer => socket = NoSocket
    /\ pingTimer => connected
    /\ connected => socket # NoSocket /\ readyState[socket] # "CONNECTING"

-----------------------------------------------------------------------------
(* Lemmas about the operators of the model.                                *)

\* Counting sockets.
LEMMA SomeSockets ==
  ASSUME NEW A, NEW B \in SUBSET Sockets, A \subseteq B
  PROVE  /\ IsFiniteSet(A) /\ IsFiniteSet(B)
         /\ Cardinality(A) \in Nat /\ Cardinality(B) \in Nat
         /\ Cardinality(A) <= Cardinality(B) /\ Cardinality(B) <= MaxSockets
         /\ \A s \in B \ A : Cardinality(A) + 1 <= Cardinality(B)
<1>1. IsFiniteSet(Sockets) /\ Cardinality(Sockets) = MaxSockets
  BY ClientAssumption, FS_Interval DEF Sockets
<1>2. /\ IsFiniteSet(B) /\ Cardinality(B) \in Nat /\ Cardinality(B) <= MaxSockets
      /\ IsFiniteSet(A) /\ Cardinality(A) \in Nat /\ Cardinality(A) <= Cardinality(B)
  BY <1>1, FS_Subset, FS_CardinalityType
<1>3. ASSUME NEW s \in B \ A PROVE Cardinality(A) + 1 <= Cardinality(B)
  <2>1. IsFiniteSet(A \cup {s}) /\ Cardinality(A \cup {s}) = Cardinality(A) + 1
    BY <1>2, FS_AddElement
  <2> QED BY <1>2, <1>3, <2>1, FS_Subset
<1> QED BY <1>2, <1>3

\* attemptConnection() takes the first socket that was not created yet.
LEMMA Attempt ==
  ASSUME TypeOK, SocketShape, NEW ready, NEW handlers, AttemptConnection(ready, handlers)
  PROVE  \E s \in Sockets :
            /\ \A t \in Sockets : readyState[t] # "none" <=> t < s
            /\ socket' = s /\ readyState' = [ready EXCEPT ![s] = "CONNECTING"]
            /\ onclose' = handlers \cup {s}
<1>1. PICK n \in 0 .. MaxSockets : \A s \in Sockets : readyState[s] # "none" <=> s <= n
  BY DEF SocketShape
<1>2. {s \in Sockets : readyState[s] # "none"} = 1 .. n
  BY <1>1, ClientAssumption DEF Sockets
<1>3. Created = n
  <2>1. n \in Nat
    BY ClientAssumption
  <2>2. Cardinality(1 .. n) = n
    BY <2>1, FS_Interval
  <2> QED BY <1>2, <2>2 DEF Created
<1>4. /\ n + 1 \in Sockets /\ socket' = n + 1
      /\ readyState' = [ready EXCEPT ![n + 1] = "CONNECTING"]
      /\ onclose' = handlers \cup {n + 1}
  BY <1>3 DEF AttemptConnection
<1>5. \A t \in Sockets : readyState[t] # "none" <=> t < n + 1
  BY <1>1, ClientAssumption DEF Sockets
<1> QED BY <1>4, <1>5

\* What the requests of a queue are after the first k of it have left, or one
\* of it was removed: the others, in the order in which they were.
InOrderOf(p, q) ==
    \A i, j \in DOMAIN p : i < j => \E k, l \in DOMAIN q : k < l /\ p[i] = q[k] /\ p[j] = q[l]

\* What flushPendingRequests puts back when send() throws.
LEMMA RequeuedFacts ==
  ASSUME NEW q \in Seq(Requests), IsInjective(q), NEW k \in 0 .. Len(q)
  PROVE  /\ Requeued(q, k) \in Seq(Requests) /\ Len(Requeued(q, k)) = Len(q) - k
         /\ \A i \in DOMAIN Requeued(q, k) : Requeued(q, k)[i] = q[i + k]
         /\ IsInjective(Requeued(q, k)) /\ InOrderOf(Requeued(q, k), q)
         /\ ToSet(Requeued(q, k)) = ToSet(q) \ {q[i] : i \in 1 .. k}
<1> DEFINE p == Requeued(q, k)
<1>1. p \in Seq(Requests) /\ Len(p) = Len(q) - k /\ \A i \in 1 .. Len(p) : p[i] = q[i + k]
  BY DEF Requeued
<1>2. DOMAIN p = 1 .. (Len(q) - k) /\ DOMAIN q = 1 .. Len(q)
  BY <1>1
<1> HIDE DEF p
<1>a. \A i \in DOMAIN p : i \in Nat /\ i + k \in DOMAIN q /\ i + k > k /\ p[i] = q[i + k]
  BY <1>1, <1>2
<1>3. IsInjective(p) /\ InOrderOf(p, q)
  <2>1. ASSUME NEW i \in DOMAIN p, NEW j \in DOMAIN p, p[i] = p[j] PROVE i = j
    <3>1. i + k = j + k
      BY <2>1, <1>a DEF IsInjective
    <3> QED BY <3>1, <1>a
  <2>2. ASSUME NEW i \in DOMAIN p, NEW j \in DOMAIN p, i < j
        PROVE  \E g, h \in DOMAIN q : g < h /\ p[i] = q[g] /\ p[j] = q[h]
    <3>1. i + k < j + k
      BY <2>2, <1>a
    <3> QED BY <3>1, <1>a
  <2> QED BY <2>1, <2>2 DEF IsInjective, InOrderOf
<1>4. \A x : x \in ToSet(p) <=> x \in ToSet(q) \ {q[i] : i \in 1 .. k}
  <2>1. ASSUME NEW i \in DOMAIN p PROVE p[i] \in ToSet(q) \ {q[h] : h \in 1 .. k}
    <3>1. \A h \in 1 .. k : h \in DOMAIN q /\ h # i + k
      BY <1>2, <1>a
    <3> QED BY <3>1, <1>a DEF IsInjective, ToSet
  <2>2. ASSUME NEW i \in DOMAIN q, q[i] \notin {q[h] : h \in 1 .. k} PROVE q[i] \in ToSet(p)
    <3>1. i \notin 1 .. k
      BY <2>2
    <3>2. i - k \in DOMAIN p /\ p[i - k] = q[i]
      BY <3>1, <1>1, <1>2
    <3> QED BY <3>2 DEF ToSet
  <2> QED BY <2>1, <2>2 DEF ToSet
<1> QED BY <1>1, <1>2, <1>3, <1>4 DEF p

\* What removePendingRequest leaves.
LEMMA RemovedFacts ==
  ASSUME NEW q \in Seq(Requests), IsInjective(q), NEW r \in Requests
  PROVE  /\ RemoveFirst(q, r) \in Seq(Requests)
         /\ IsInjective(RemoveFirst(q, r)) /\ InOrderOf(RemoveFirst(q, r), q)
         /\ ToSet(RemoveFirst(q, r)) = ToSet(q) \ {r}
<1> DEFINE p == RemoveFirst(q, r)
<1>1. CASE r \notin ToSet(q)
  <2>1. p = q
    BY <1>1 DEF RemoveFirst, ToSet
  <2> QED BY <1>1, <2>1 DEF InOrderOf
<1>2. CASE r \in ToSet(q)
  <2>1. PICK k \in 1 .. Len(q) : q[k] = r
    BY <1>2 DEF ToSet
  <2>2. SelectInSeq(q, LAMBDA e : e = r) = k
    <3>1. {i \in 1 .. Len(q) : q[i] = r} = {k}
      BY <2>1 DEF IsInjective
    <3>2. Min({k}) = k
      BY DEF Min
    <3> QED BY <3>1, <3>2 DEF SelectInSeq
  <2>3. p = SubSeq(q, 1, k - 1) \o SubSeq(q, k + 1, Len(q))
    BY <2>1, <2>2 DEF RemoveFirst, RemoveAt
  <2>4. /\ p \in Seq(Requests) /\ Len(p) = Len(q) - 1
        /\ \A i \in 1 .. Len(p) : p[i] = IF i < k THEN q[i] ELSE q[i + 1]
    <3> DEFINE a == SubSeq(q, 1, k - 1)
               b == SubSeq(q, k + 1, Len(q))
    <3>1. /\ a \in Seq(Requests) /\ Len(a) = k - 1 /\ \A i \in 1 .. (k - 1) : a[i] = q[i]
      BY <2>1
    <3>2. /\ b \in Seq(Requests) /\ Len(b) = Len(q) - k
          /\ \A i \in 1 .. (Len(q) - k) : b[i] = q[i + k]
      BY <2>1
    <3> HIDE DEF a, b
    <3> DEFINE c == a \o b
    <3>3. /\ c \in Seq(Requests) /\ Len(c) = Len(a) + Len(b)
          /\ \A i \in 1 .. (Len(a) + Len(b)) : c[i] = IF i <= Len(a) THEN a[i] ELSE b[i - Len(a)]
      BY <3>1, <3>2, ConcatProperties
    <3> HIDE DEF c
    <3>4. Len(c) = Len(q) - 1 /\ k \in Nat /\ Len(q) \in Nat
      BY <2>1, <3>1, <3>2, <3>3
    <3>5. ASSUME NEW i \in 1 .. Len(c) PROVE c[i] = IF i < k THEN q[i] ELSE q[i + 1]
      <4>1. CASE i < k
        BY <4>1, <2>1, <3>1, <3>2, <3>3, <3>4
      <4>2. CASE i >= k
        <5>1. i - (k - 1) \in 1 .. (Len(q) - k) /\ i - (k - 1) + k = i + 1
          BY <4>2, <2>1, <3>4
        <5>2. c[i] = b[i - (k - 1)]
          BY <4>2, <2>1, <3>1, <3>2, <3>3, <3>4
        <5>3. b[i - (k - 1)] = q[i + 1]
          BY <3>2, <5>1
        <5> QED BY <4>2, <5>2, <5>3, <3>4
      <4> QED BY <4>1, <4>2, <3>4
    <3> QED BY <2>3, <3>3, <3>4, <3>5 DEF a, b, c
  <2>5. DOMAIN p = 1 .. (Len(q) - 1) /\ DOMAIN q = 1 .. Len(q)
    BY <2>4
  <2> HIDE DEF p
  <2>a. \A i \in DOMAIN p : \E h \in DOMAIN q :
          p[i] = q[h] /\ h = (IF i < k THEN i ELSE i + 1) /\ i \in Nat
    BY <2>1, <2>4, <2>5
  <2>6. IsInjective(p) /\ InOrderOf(p, q)
    <3>1. ASSUME NEW i \in DOMAIN p, NEW j \in DOMAIN p, p[i] = p[j] PROVE i = j
      BY <3>1, <2>1, <2>a DEF IsInjective
    <3>2. ASSUME NEW i \in DOMAIN p, NEW j \in DOMAIN p, i < j
          PROVE  \E g, h \in DOMAIN q : g < h /\ p[i] = q[g] /\ p[j] = q[h]
      BY <3>2, <2>1, <2>a
    <3> QED BY <3>1, <3>2 DEF IsInjective, InOrderOf
  <2>7. ASSUME NEW i \in DOMAIN p PROVE p[i] \in ToSet(q) \ {r}
    <3>1. PICK h \in DOMAIN q : p[i] = q[h] /\ h = (IF i < k THEN i ELSE i + 1) /\ i \in Nat
      BY <2>a
    <3>2. h # k /\ k \in DOMAIN q
      BY <3>1, <2>1, <2>5
    <3>3. q[h] # r
      BY <3>2, <2>1 DEF IsInjective
    <3> QED BY <3>1, <3>3 DEF ToSet
  <2>8. ASSUME NEW i \in DOMAIN q, q[i] # r PROVE q[i] \in ToSet(p)
    <3>1. CASE i < k
      <4>1. i \in DOMAIN p /\ p[i] = q[i]
        BY <3>1, <2>1, <2>4, <2>5
      <4> QED BY <4>1 DEF ToSet
    <3>2. CASE i > k
      <4>1. i - 1 \in DOMAIN p /\ p[i - 1] = q[i]
        BY <3>2, <2>1, <2>4, <2>5
      <4> QED BY <4>1 DEF ToSet
    <3> QED BY <2>1, <2>8, <3>1, <3>2
  <2>9. ToSet(p) = ToSet(q) \ {r}
    BY <2>7, <2>8 DEF ToSet
  <2> QED BY <2>4, <2>6, <2>9 DEF p
<1> QED BY <1>1, <1>2

\* An element of two sequences put together is one of the first or of the second.
LEMMA JoinedAt ==
  ASSUME NEW p \in Seq(Requests), NEW q \in Seq(Requests)
  PROVE  /\ DOMAIN (p \o q) = 1 .. (Len(p) + Len(q))
         /\ Len(p) \in Nat /\ Len(q) \in Nat
         /\ \A i \in 1 .. (Len(p) + Len(q)) :
              \/ i <= Len(p) /\ i \in DOMAIN p /\ (p \o q)[i] = p[i]
              \/ i > Len(p) /\ i - Len(p) \in DOMAIN q /\ (p \o q)[i] = q[i - Len(p)]
<1> DEFINE c == p \o q
<1>1. /\ c \in Seq(Requests) /\ Len(c) = Len(p) + Len(q)
      /\ \A i \in 1 .. (Len(p) + Len(q)) : c[i] = IF i <= Len(p) THEN p[i] ELSE q[i - Len(p)]
  BY ConcatProperties
<1> HIDE DEF c
<1>2. /\ DOMAIN p = 1 .. Len(p) /\ DOMAIN q = 1 .. Len(q) /\ DOMAIN c = 1 .. (Len(p) + Len(q))
      /\ Len(p) \in Nat /\ Len(q) \in Nat
  BY <1>1
<1> QED BY <1>1, <1>2 DEF c

\* A queue with what a callback issued before or behind it.
LEMMA JoinedFacts ==
  ASSUME NEW p \in Seq(Requests), NEW q \in Seq(Requests),
         IsInjective(p), IsInjective(q), ToSet(p) \cap ToSet(q) = {}
  PROVE  /\ p \o q \in Seq(Requests) /\ Len(p \o q) = Len(p) + Len(q)
         /\ \A i \in 1 .. Len(p) : (p \o q)[i] = p[i]
         /\ \A i \in 1 .. Len(q) : (p \o q)[Len(p) + i] = q[i]
         /\ IsInjective(p \o q) /\ ToSet(p \o q) = ToSet(p) \cup ToSet(q)
<1> DEFINE c == p \o q
<1>1. /\ c \in Seq(Requests) /\ Len(c) = Len(p) + Len(q)
      /\ \A i \in 1 .. (Len(p) + Len(q)) : c[i] = IF i <= Len(p) THEN p[i] ELSE q[i - Len(p)]
  BY ConcatProperties
<1> HIDE DEF c
<1>2. /\ DOMAIN p = 1 .. Len(p) /\ DOMAIN q = 1 .. Len(q) /\ DOMAIN c = 1 .. (Len(p) + Len(q))
      /\ Len(p) \in Nat /\ Len(q) \in Nat
  BY <1>1
<1>3. \A i \in 1 .. Len(p) : i \in DOMAIN c /\ c[i] = p[i]
  BY <1>1, <1>2
<1>4. ASSUME NEW i \in 1 .. Len(q) PROVE Len(p) + i \in DOMAIN c /\ c[Len(p) + i] = q[i]
  BY <1>1, <1>2
<1>5. ASSUME NEW i \in DOMAIN c, i > Len(p)
      PROVE  \E j \in 1 .. Len(q) : i = Len(p) + j /\ c[i] = q[j]
  <2>1. i - Len(p) \in 1 .. Len(q) /\ i = Len(p) + (i - Len(p))
    BY <1>2, <1>5
  <2> QED BY <2>1, <1>4
<1>6. IsInjective(c)
  <2> SUFFICES ASSUME NEW i \in DOMAIN c, NEW j \in DOMAIN c, c[i] = c[j] PROVE i = j
    BY DEF IsInjective
  <2>1. CASE i <= Len(p) /\ j <= Len(p)
    BY <2>1, <1>2, <1>3 DEF IsInjective
  <2>2. CASE i > Len(p) /\ j > Len(p)
    BY <2>2, <1>2, <1>5 DEF IsInjective
  <2>3. CASE i <= Len(p) /\ j > Len(p)
    <3>1. c[i] \in ToSet(p)
      BY <2>3, <1>2, <1>3 DEF ToSet
    <3>2. c[j] \in ToSet(q)
      BY <2>3, <1>2, <1>5 DEF ToSet
    <3> QED BY <3>1, <3>2
  <2>4. CASE i > Len(p) /\ j <= Len(p)
    <3>1. c[j] \in ToSet(p)
      BY <2>4, <1>2, <1>3 DEF ToSet
    <3>2. c[i] \in ToSet(q)
      BY <2>4, <1>2, <1>5 DEF ToSet
    <3> QED BY <3>1, <3>2
  <2> QED BY <2>1, <2>2, <2>3, <2>4, <1>2
<1>7. ToSet(c) = ToSet(p) \cup ToSet(q)
  <2>1. \A i \in DOMAIN c : c[i] \in ToSet(p) \cup ToSet(q)
    BY <1>2, <1>3, <1>5 DEF ToSet
  <2>2. \A i \in DOMAIN p : p[i] \in ToSet(c)
    BY <1>2, <1>3 DEF ToSet
  <2>3. \A i \in DOMAIN q : q[i] \in ToSet(c)
    BY <1>2, <1>4 DEF ToSet
  <2> QED BY <2>1, <2>2, <2>3 DEF ToSet
<1> QED BY <1>1, <1>3, <1>4, <1>6, <1>7 DEF c
-----------------------------------------------------------------------------
(* What the steps do, as the proofs below see it.                          *)

\* A request and an onopen: cb is issued and Flushed(cb, ready) is sent, n of it
\* whole and one more in part if cut is 1.  A request made on an OPEN socket
\* finds an empty queue, so that it is a flush of its own.
Opened(s) == [readyState EXCEPT ![s] = "OPEN"]
Flush(cb, ready, n, cut) ==
    LET queue == Flushed(cb, ready) IN
    /\ cb \in CallbackRequests
    /\ \/ ready = readyState
       \/ \E s \in Sockets : readyState[s] = "CONNECTING" /\ ready = Opened(s)
    /\ n \in 0 .. Len(queue) /\ cut \in {0, 1} /\ n + cut <= Len(queue)
    /\ wire' = wire \o [i \in 1 .. (n + cut) |-> [req |-> queue[i], sock |-> socket]]
    /\ streamMap' = streamMap \cup {queue[i] : i \in 1 .. n}
    /\ pendingRequests' = IF n + cut = 0 THEN pendingRequests \o cb ELSE Requeued(queue, n + cut)
    /\ call' = [r \in Requests |->
                  IF r \in {queue[i] : i \in (n + 1) .. (n + cut)} THEN "failed"
                  ELSE IF r \in ToSet(cb) THEN "waiting" ELSE call[r]]
    /\ readyState' = IF n < Len(queue) THEN [ready EXCEPT ![socket] = "CLOSING"] ELSE ready
    /\ nextStreamId' = nextStreamId + Len(cb)
    /\ \/ early' = early \cup ToSet(cb)
       \/ early' = early /\ (pendingRequests = <<>> \/ queue = <<>>)
    /\ UNCHANGED <<socket, onclose, resets, reconnectTimer, lostReconnects, wishes>>

\* request() on an OPEN socket sends that one request, or queues it.
LEMMA OpenStreamFlushes ==
  ASSUME TypeOK, QueueEmptyWhenOpen, OpenStream
  PROVE  \E n \in Nat, cut \in {0, 1} :
            /\ Flush(<<nextStreamId>>, readyState, n, cut)
            /\ nextStreamId \in Requests /\ UNCHANGED <<connected, pingTimer, lostPings>>
<1> DEFINE r == nextStreamId
           cb == <<r>>
           queue == Flushed(cb, readyState)
<1>1. r \in Requests /\ cb \in CallbackRequests /\ cb \in Seq(Requests) /\ Len(cb) = 1
  <2>1. r \in Requests
    <3>1. IdsLeft
      BY DEF OpenStream
    <3> QED BY <3>1, ClientAssumption DEF IdsLeft, TypeOK, Requests
  <2> QED BY <2>1 DEF CallbackRequests
<1>2. pendingRequests \in Seq(Requests)
  BY DEF TypeOK
<1>3. queue = (IF IsOpen(socket, readyState) THEN <<r>> ELSE <<>>) /\ Len(queue) \in Nat
  <2>1. CASE IsOpen(socket, readyState)
    <3>1. pendingRequests = <<>>
      BY <2>1 DEF QueueEmptyWhenOpen
    <3> QED BY <2>1, <3>1, <1>1, ConcatEmptySeq DEF Flushed
  <2>2. CASE ~IsOpen(socket, readyState)
    BY <2>2 DEF Flushed
  <2> QED BY <2>1, <2>2
<1> DEFINE unsent == [k \in {0, 1} |-> pendingRequests \o Requeued(<<r>>, k)]
<1>b. Dispatch(queue, unsent, readyState,
               Settle({r}, "waiting"))
  BY <1>3 DEF OpenStream
<1> HIDE DEF queue, unsent
<1>c. Len(queue) <= 1
  <2>1. queue = <<r>> \/ queue = <<>>
    BY <1>3
  <2>2. CASE queue = <<r>>
    BY <2>2
  <2>3. CASE queue = <<>>
    BY <2>3
  <2> QED BY <2>1, <2>2, <2>3
<1>d. PICK n \in 0 .. Len(queue), cut \in {0, 1} :
        /\ n + cut <= Len(queue)
        /\ wire' = wire \o [i \in 1 .. (n + cut) |-> [req |-> queue[i], sock |-> socket]]
        /\ streamMap' = streamMap \cup {queue[i] : i \in 1 .. n}
        /\ pendingRequests' = unsent[n + cut]
        /\ call' = [q \in Requests |-> IF q \in {queue[i] : i \in (n + 1) .. (n + cut)}
                                       THEN "failed" ELSE Settle({r}, "waiting")[q]]
        /\ readyState' = IF n < Len(queue) THEN [readyState EXCEPT ![socket] = "CLOSING"]
                                           ELSE readyState
  BY <1>b DEF Dispatch, Gone
<1>4. /\ n + cut <= Len(queue)
      /\ wire' = wire \o [i \in 1 .. (n + cut) |-> [req |-> queue[i], sock |-> socket]]
      /\ streamMap' = streamMap \cup {queue[i] : i \in 1 .. n}
      /\ pendingRequests' = pendingRequests \o Requeued(<<r>>, n + cut)
      /\ call' = [q \in Requests |-> IF q \in {queue[i] : i \in (n + 1) .. (n + cut)}
                                     THEN "failed" ELSE Settle({r}, "waiting")[q]]
      /\ readyState' = IF n < Len(queue) THEN [readyState EXCEPT ![socket] = "CLOSING"]
                                         ELSE readyState
  <2>1. n + cut \in {0, 1}
    BY <1>3, <1>c, <1>d
  <2>2. unsent[n + cut] = pendingRequests \o Requeued(<<r>>, n + cut)
    BY <2>1 DEF unsent
  <2> QED BY <1>d, <2>2
<1>5. pendingRequests' = IF n + cut = 0 THEN pendingRequests \o cb ELSE Requeued(queue, n + cut)
  <2>1. CASE n + cut = 0
    <3>1. Requeued(<<r>>, 0) = <<r>>
      <4>1. SubSeq(cb, 1, Len(cb)) = cb
        BY <1>1, SubSeqFull
      <4>2. 0 + 1 = 1
        OBVIOUS
      <4> QED BY <4>1, <4>2 DEF Requeued
    <3> QED BY <2>1, <3>1, <1>4
  <2>2. CASE n + cut # 0
    <3>1. IsOpen(socket, readyState)
      BY <2>2, <1>3, <1>4
    <3>2. pendingRequests = <<>> /\ queue = <<r>>
      BY <3>1, <1>3 DEF QueueEmptyWhenOpen
    <3>3. Requeued(<<r>>, n + cut) \in Seq(Requests)
      <4>1. n + cut = 1
        BY <2>2, <3>2, <1>4
      <4> QED BY <4>1, <1>1, SubSeqEmpty DEF Requeued
    <3> QED BY <2>2, <3>2, <3>3, <1>4, ConcatEmptySeq
  <2> QED BY <2>1, <2>2
<1>6. call' = [q \in Requests |->
                  IF q \in {queue[i] : i \in (n + 1) .. (n + cut)} THEN "failed"
                  ELSE IF q \in ToSet(cb) THEN "waiting" ELSE call[q]]
  <2>1. ToSet(cb) = {r}
    BY <1>1 DEF ToSet
  <2> QED BY <2>1, <1>4 DEF Settle
<1>7. queue = <<>> \/ pendingRequests = <<>>
  BY <1>3 DEF QueueEmptyWhenOpen
<1>8. /\ nextStreamId' = nextStreamId + Len(cb)
      /\ UNCHANGED <<early, socket, onclose, resets, reconnectTimer, lostReconnects, wishes>>
      /\ UNCHANGED <<connected, pingTimer, lostPings>>
  BY <1>1 DEF OpenStream, timers
<1> HIDE DEF cb
<1>9. Flush(cb, readyState, n, cut)
  BY <1>1, <1>4, <1>5, <1>6, <1>7, <1>8 DEF Flush, queue
<1> QED BY <1>1, <1>3, <1>4, <1>8, <1>9 DEF cb

\* The open handler sends the request of its callback, then the queue.
LEMMA OnOpenFlushes ==
  ASSUME TypeOK, NEW s \in Sockets, OnOpen(s)
  PROVE  \E cb : \E n \in Nat, cut \in {0, 1} :
            /\ Flush(cb, Opened(s), n, cut)
            /\ readyState[s] = "CONNECTING" /\ connected' = TRUE /\ pingTimer' = TRUE
            /\ lostPings' = Plus(lostPings, pingTimer)
<1> DEFINE ready == Opened(s)
           unsent(cb) == [k \in 0 .. Len(Flushed(cb, ready)) |->
                             IF k = 0 THEN pendingRequests \o cb ELSE Requeued(Flushed(cb, ready), k)]
<1>a. PICK cb \in CallbackRequests :
        /\ Dispatch(Flushed(cb, ready), unsent(cb), ready, Settle(ToSet(cb), "waiting"))
        /\ nextStreamId' = nextStreamId + Len(cb)
        /\ early' = early \cup ToSet(cb)
  BY DEF OnOpen, Opened
<1>b. Len(Flushed(cb, ready)) \in Nat
  <2>1. pendingRequests \in Seq(Requests)
    BY DEF TypeOK
  <2>2. cb \in Seq(Requests)
    <3>1. cb = <<>> \/ \E r \in Requests : cb = <<r>>
      BY DEF CallbackRequests
    <3>2. CASE cb = <<>>
      BY <3>2
    <3>3. ASSUME NEW r \in Requests, cb = <<r>> PROVE cb \in Seq(Requests)
      BY <3>3
    <3> QED BY <3>1, <3>2, <3>3
  <2> QED BY <2>1, <2>2 DEF Flushed
<1> HIDE DEF unsent
<1>c. PICK n \in 0 .. Len(Flushed(cb, ready)), cut \in {0, 1} :
        /\ n + cut <= Len(Flushed(cb, ready))
        /\ wire' = wire \o [i \in 1 .. (n + cut) |-> [req |-> Flushed(cb, ready)[i], sock |-> socket]]
        /\ streamMap' = streamMap \cup {Flushed(cb, ready)[i] : i \in 1 .. n}
        /\ pendingRequests' = unsent(cb)[n + cut]
        /\ call' = [r \in Requests |->
                      IF r \in {Flushed(cb, ready)[i] : i \in (n + 1) .. (n + cut)} THEN "failed"
                      ELSE Settle(ToSet(cb), "waiting")[r]]
        /\ readyState' = IF n < Len(Flushed(cb, ready)) THEN [ready EXCEPT ![socket] = "CLOSING"]
                                                        ELSE ready
  BY <1>a DEF Dispatch, Gone
<1>1. /\ n + cut <= Len(Flushed(cb, ready))
      /\ wire' = wire \o [i \in 1 .. (n + cut) |-> [req |-> Flushed(cb, ready)[i], sock |-> socket]]
      /\ streamMap' = streamMap \cup {Flushed(cb, ready)[i] : i \in 1 .. n}
      /\ pendingRequests' = IF n + cut = 0 THEN pendingRequests \o cb
                            ELSE Requeued(Flushed(cb, ready), n + cut)
      /\ call' = [r \in Requests |->
                    IF r \in {Flushed(cb, ready)[i] : i \in (n + 1) .. (n + cut)} THEN "failed"
                    ELSE Settle(ToSet(cb), "waiting")[r]]
      /\ readyState' = IF n < Len(Flushed(cb, ready)) THEN [ready EXCEPT ![socket] = "CLOSING"]
                                                      ELSE ready
  <2>1. n + cut \in 0 .. Len(Flushed(cb, ready))
    BY <1>b, <1>c
  <2>2. unsent(cb)[n + cut] = IF n + cut = 0 THEN pendingRequests \o cb
                              ELSE Requeued(Flushed(cb, ready), n + cut)
    BY <2>1 DEF unsent
  <2> QED BY <1>c, <2>2
<1>2. /\ readyState[s] = "CONNECTING" /\ connected' = TRUE /\ pingTimer' = TRUE
      /\ lostPings' = Plus(lostPings, pingTimer)
      /\ UNCHANGED <<socket, onclose, resets, reconnectTimer, lostReconnects, wishes>>
  BY DEF OnOpen
<1> HIDE DEF ready
<1>3. call' = [r \in Requests |->
                  IF r \in {Flushed(cb, ready)[i] : i \in (n + 1) .. (n + cut)} THEN "failed"
                  ELSE IF r \in ToSet(cb) THEN "waiting" ELSE call[r]]
  BY <1>1 DEF Settle
<1>4. Flush(cb, ready, n, cut)
  BY <1>a, <1>1, <1>2, <1>3 DEF Flush, ready
<1>5. n \in Nat
  BY <1>1
<1> QED BY <1>2, <1>4, <1>5 DEF ready

\* What is queued after a flush: what was, with what was issued, without that
\* of which a frame left.
LEMMA FlushFacts ==
  ASSUME TypeOK, Issued, NoCallLost, NEW cb, NEW ready, NEW n \in Nat, NEW cut \in {0, 1},
         Flush(cb, ready, n, cut),
         NEW queue, queue = Flushed(cb, ready), NEW k, k = n + cut
  PROVE  /\ cb \in Seq(Requests) /\ Len(cb) \in {0, 1}
         /\ \A r \in ToSet(cb) : r = nextStreamId /\ r \in Requests /\ call[r] = "none"
         /\ nextStreamId' = nextStreamId \/ nextStreamId' = nextStreamId + 1
         /\ \A r \in Requests : r \in ToSet(cb) <=> nextStreamId <= r /\ r < nextStreamId'
         /\ ToSet(cb) \cap (ToSet(pendingRequests) \cup streamMap) = {}
         /\ queue = <<>> \/ (IsOpen(socket, ready) /\ queue = cb \o pendingRequests)
         /\ queue \in Seq(Requests) /\ IsInjective(queue) /\ k \in 0 .. Len(queue)
         /\ ToSet(queue) \subseteq ToSet(pendingRequests) \cup ToSet(cb)
         /\ pendingRequests' \in Seq(Requests) /\ IsInjective(pendingRequests')
         /\ ToSet(pendingRequests') =
               (ToSet(pendingRequests) \cup ToSet(cb)) \ {queue[i] : i \in 1 .. k}
         /\ InOrderOf(pendingRequests', pendingRequests \o cb)
<1>1. cb \in CallbackRequests
  BY DEF Flush
<1>2. /\ cb \in Seq(Requests) /\ Len(cb) \in {0, 1} /\ IsInjective(cb)
      /\ \/ Len(cb) = 0 /\ ToSet(cb) = {}
         \/ Len(cb) = 1 /\ ToSet(cb) = {nextStreamId} /\ nextStreamId \in Requests
  <2>1. CASE cb = <<>>
    BY <2>1 DEF IsInjective, ToSet
  <2>2. CASE cb = <<nextStreamId>> /\ nextStreamId \in Requests
    BY <2>2 DEF IsInjective, ToSet
  <2> QED BY <2>1, <2>2, <1>1 DEF CallbackRequests
<1>3. /\ \A r \in ToSet(cb) : r = nextStreamId /\ r \in Requests /\ call[r] = "none"
      /\ ToSet(cb) \cap (ToSet(pendingRequests) \cup streamMap) = {}
      /\ ToSet(cb) \cap ToSet(pendingRequests) = {}
  BY <1>2 DEF Issued, NoCallLost, TypeOK
<1>4. pendingRequests \in Seq(Requests) /\ IsInjective(pendingRequests)
  BY DEF TypeOK, NoCallLost
<1>5. queue = <<>> \/ (IsOpen(socket, ready) /\ queue = cb \o pendingRequests)
  BY DEF Flushed
<1>6. /\ queue \in Seq(Requests) /\ IsInjective(queue)
      /\ ToSet(queue) \subseteq ToSet(pendingRequests) \cup ToSet(cb)
  <2>1. CASE queue = <<>>
    BY <2>1 DEF IsInjective, ToSet
  <2>2. CASE queue = cb \o pendingRequests
    BY <2>2, <1>2, <1>3, <1>4, JoinedFacts
  <2> QED BY <1>5, <2>1, <2>2
<1>7. k \in 0 .. Len(queue)
  BY DEF Flush
<1>8. pendingRequests' = IF k = 0 THEN pendingRequests \o cb ELSE Requeued(queue, k)
  BY DEF Flush
<1>9. /\ pendingRequests' \in Seq(Requests) /\ IsInjective(pendingRequests')
      /\ ToSet(pendingRequests') =
            (ToSet(pendingRequests) \cup ToSet(cb)) \ {queue[i] : i \in 1 .. k}
      /\ InOrderOf(pendingRequests', pendingRequests \o cb)
  <2>1. CASE k = 0
    <3>1. pendingRequests' = pendingRequests \o cb
      BY <2>1, <1>8
    <3>2. {queue[i] : i \in 1 .. k} = {}
      BY <2>1
    <3>3. InOrderOf(pendingRequests', pendingRequests \o cb)
      BY <3>1 DEF InOrderOf
    <3> DEFINE all == pendingRequests \o cb
    <3>4. all \in Seq(Requests) /\ IsInjective(all) /\ ToSet(all) = ToSet(pendingRequests) \cup ToSet(cb)
      BY <1>2, <1>3, <1>4, JoinedFacts
    <3>5. pendingRequests' = all
      BY <3>1
    <3> HIDE DEF all
    <3> QED BY <3>2, <3>3, <3>4, <3>5
  <2>2. CASE k # 0
    <3>1. pendingRequests' = Requeued(queue, k)
      BY <2>2, <1>8
    <3>2. queue = cb \o pendingRequests
      BY <2>2, <1>5, <1>7
    <3>3. ToSet(queue) = ToSet(cb) \cup ToSet(pendingRequests)
      BY <3>2, <1>2, <1>3, <1>4, JoinedFacts
    <3>4. /\ pendingRequests' \in Seq(Requests) /\ Len(pendingRequests') = Len(queue) - k
          /\ \A i \in DOMAIN pendingRequests' : pendingRequests'[i] = queue[i + k]
          /\ IsInjective(pendingRequests')
          /\ ToSet(pendingRequests') = ToSet(queue) \ {queue[i] : i \in 1 .. k}
      BY <3>1, <1>6, <1>7, RequeuedFacts
    <3> DEFINE all == pendingRequests \o cb
               m == Len(pendingRequests)
    <3>5. /\ Len(queue) = Len(cb) + m /\ m \in Nat
          /\ \A i \in 1 .. m : queue[Len(cb) + i] = pendingRequests[i]
      <4>1. m \in Nat
        BY <1>4
      <4> QED BY <4>1, <3>2, <1>2, <1>3, <1>4, JoinedFacts
    <3>6. all \in Seq(Requests) /\ Len(all) = m + Len(cb) /\ \A i \in 1 .. m : all[i] = pendingRequests[i]
      BY <1>2, <1>3, <1>4, JoinedFacts
    <3> HIDE DEF all, m
    <3>7. ASSUME NEW i \in DOMAIN pendingRequests'
          PROVE  LET h == i + k - Len(cb) IN
                 i \in Nat /\ h \in DOMAIN all /\ pendingRequests'[i] = all[h]
      <4> DEFINE h == i + k - Len(cb)
      <4>1. i \in 1 .. (Len(queue) - k) /\ i \in Nat
        BY <3>4
      <4>2. h \in 1 .. m /\ Len(cb) + h = i + k
        <5>1. k \in Nat /\ k >= 1 /\ k <= Len(cb) + m /\ m \in Nat
          BY <3>5, <2>2, <1>2, <1>7
        <5>2. i \in Nat /\ i >= 1 /\ i <= Len(cb) + m - k
          BY <5>1, <4>1, <3>5, <1>2
        <5>3. CASE Len(cb) = 0
          BY <5>1, <5>2, <5>3
        <5>4. CASE Len(cb) = 1
          BY <5>1, <5>2, <5>4
        <5> QED BY <5>3, <5>4, <1>2
      <4>3. pendingRequests'[i] = all[h]
        <5>1. pendingRequests'[i] = queue[Len(cb) + h]
          BY <4>2, <3>4
        <5>2. queue[Len(cb) + h] = pendingRequests[h] /\ all[h] = pendingRequests[h]
          BY <4>2, <3>5, <3>6
        <5> QED BY <5>1, <5>2
      <4>4. h \in DOMAIN all
        BY <4>2, <3>5, <3>6, <1>2
      <4> QED BY <4>1, <4>3, <4>4
    <3>8. InOrderOf(pendingRequests', all)
      <4> SUFFICES ASSUME NEW i \in DOMAIN pendingRequests', NEW j \in DOMAIN pendingRequests', i < j
                   PROVE  \E g, h \in DOMAIN all :
                            g < h /\ pendingRequests'[i] = all[g] /\ pendingRequests'[j] = all[h]
        BY DEF InOrderOf
      <4>1. i + k - Len(cb) < j + k - Len(cb)
        BY <3>7, <1>2, <1>7
      <4> QED BY <4>1, <3>7
    <3> QED BY <3>3, <3>4, <3>8 DEF all
  <2> QED BY <2>1, <2>2
<1>10. /\ nextStreamId' = nextStreamId \/ nextStreamId' = nextStreamId + 1
       /\ \A r \in Requests : r \in ToSet(cb) <=> nextStreamId <= r /\ r < nextStreamId'
  <2>1. nextStreamId' = nextStreamId + Len(cb) /\ nextStreamId \in Nat
    BY ClientAssumption DEF Flush, TypeOK
  <2>2. \A r \in Requests : r \in Nat
    BY ClientAssumption DEF Requests
  <2>3. \/ Len(cb) = 0 /\ ToSet(cb) = {}
        \/ Len(cb) = 1 /\ ToSet(cb) = {nextStreamId}
    BY <1>2
  <2>4. CASE Len(cb) = 0 /\ ToSet(cb) = {}
    BY <2>1, <2>2, <2>4
  <2>5. CASE Len(cb) = 1 /\ ToSet(cb) = {nextStreamId}
    BY <2>1, <2>2, <2>5
  <2> QED BY <2>3, <2>4, <2>5
<1> QED BY <1>2, <1>3, <1>5, <1>6, <1>7, <1>9, <1>10

\* What is on the wire after a flush: behind what was, the first k of the queue.
LEMMA WireFacts ==
  ASSUME TypeOK, Issued, NoCallLost, NEW cb, NEW ready, NEW n \in Nat, NEW cut \in {0, 1},
         Flush(cb, ready, n, cut),
         NEW queue, queue = Flushed(cb, ready), NEW k, k = n + cut
  PROVE  /\ wire' \in Seq([req : Requests, sock : Sockets])
         /\ k # 0 => socket \in Sockets /\ ready[socket] = "OPEN"
         /\ DOMAIN wire' = 1 .. (Len(wire) + k) /\ DOMAIN wire = 1 .. Len(wire)
         /\ \A i \in DOMAIN wire : i \in DOMAIN wire' /\ wire'[i] = wire[i]
         /\ \A i \in DOMAIN wire' \ DOMAIN wire :
              \E j \in 1 .. k : /\ i = Len(wire) + j
                                /\ wire'[i].req = queue[j] /\ wire'[i].sock = socket
         /\ \A j \in 1 .. k : /\ Len(wire) + j \in DOMAIN wire' \ DOMAIN wire
                              /\ wire'[Len(wire) + j].req = queue[j]
                              /\ wire'[Len(wire) + j].sock = socket
<1> DEFINE Rec == [req : Requests, sock : Sockets]
           new == [i \in 1 .. k |-> [req |-> queue[i], sock |-> socket]]
<1>1. /\ queue \in Seq(Requests) /\ k \in 0 .. Len(queue)
      /\ queue = <<>> \/ IsOpen(socket, ready)
  BY FlushFacts
<1>2. k # 0 => socket \in Sockets /\ ready[socket] = "OPEN"
  <2>1. k # 0 => queue # <<>>
    BY <1>1
  <2> QED BY <2>1, <1>1 DEF IsOpen, TypeOK
<1>3. wire' = wire \o new
  BY DEF Flush
<1>4. wire \in Seq(Rec)
  BY DEF TypeOK
<1>5. new \in Seq(Rec) /\ Len(new) = k /\ k \in Nat
  <2>1. \A i \in 1 .. k : [req |-> queue[i], sock |-> socket] \in Rec
    BY <1>1, <1>2
  <2>2. k \in Nat
    BY <1>1
  <2>3. new \in [1 .. k -> Rec] /\ DOMAIN new = 1 .. k
    BY <2>1
  <2> HIDE DEF new, Rec
  <2>4. new \in Seq(Rec)
    BY <2>2, <2>3, SeqDef
  <2> QED BY <2>2, <2>3, <2>4, LenProperties
<1>6. \A i \in 1 .. k : new[i].req = queue[i] /\ new[i].sock = socket
  OBVIOUS
<1> HIDE DEF new, Rec
<1>7. /\ wire' \in Seq(Rec) /\ Len(wire') = Len(wire) + k
      /\ \A i \in 1 .. (Len(wire) + k) :
            wire'[i] = IF i <= Len(wire) THEN wire[i] ELSE new[i - Len(wire)]
  <2>1. /\ wire \o new \in Seq(Rec) /\ Len(wire \o new) = Len(wire) + Len(new)
        /\ \A i \in 1 .. (Len(wire) + Len(new)) :
              (wire \o new)[i] = IF i <= Len(wire) THEN wire[i] ELSE new[i - Len(wire)]
    BY <1>4, <1>5, ConcatProperties
  <2> QED BY <2>1, <1>3, <1>5
<1>8. DOMAIN wire' = 1 .. (Len(wire) + k) /\ DOMAIN wire = 1 .. Len(wire) /\ Len(wire) \in Nat
  BY <1>4, <1>7
<1>9. \A i \in DOMAIN wire : i \in DOMAIN wire' /\ wire'[i] = wire[i]
  <2> SUFFICES ASSUME NEW i \in 1 .. Len(wire) PROVE i \in DOMAIN wire' /\ wire'[i] = wire[i]
    BY <1>8
  <2>1. i \in 1 .. (Len(wire) + k) /\ i <= Len(wire)
    BY <1>5, <1>8
  <2> QED BY <2>1, <1>7, <1>8
<1>10. ASSUME NEW j \in 1 .. k
       PROVE  /\ Len(wire) + j \in DOMAIN wire' \ DOMAIN wire
              /\ wire'[Len(wire) + j] = new[j]
  <2> DEFINE i == Len(wire) + j
  <2>1. /\ i \in 1 .. (Len(wire) + k) /\ i \notin 1 .. Len(wire)
        /\ ~(i <= Len(wire)) /\ i - Len(wire) = j
    BY <1>5, <1>8
  <2> HIDE DEF i
  <2>2. wire'[i] = new[j]
    BY <2>1, <1>7
  <2>3. i \in DOMAIN wire' \ DOMAIN wire
    BY <2>1, <1>8
  <2> QED BY <2>2, <2>3 DEF i
<1>11. ASSUME NEW i \in DOMAIN wire' \ DOMAIN wire
       PROVE  \E j \in 1 .. k : i = Len(wire) + j
  <2>1. i - Len(wire) \in 1 .. k /\ i = Len(wire) + (i - Len(wire))
    BY <1>5, <1>8
  <2> QED BY <2>1
<1>12. \A j \in 1 .. k : /\ Len(wire) + j \in DOMAIN wire' \ DOMAIN wire
                         /\ wire'[Len(wire) + j].req = queue[j]
                         /\ wire'[Len(wire) + j].sock = socket
  BY <1>6, <1>10
<1>13. \A i \in DOMAIN wire' \ DOMAIN wire :
          \E j \in 1 .. k : /\ i = Len(wire) + j
                            /\ wire'[i].req = queue[j] /\ wire'[i].sock = socket
  BY <1>11, <1>12
<1>14. wire' \in Seq([req : Requests, sock : Sockets])
  BY <1>7 DEF Rec
<1> QED BY <1>2, <1>8, <1>9, <1>12, <1>13, <1>14

-----------------------------------------------------------------------------
(* Types.                                                                  *)

TypeInv == TypeOK /\ SocketShape /\ QueueEmptyWhenOpen /\ Issued /\ NoCallLost

\* A flush keeps the types of the queue, the calls and the wire.
LEMMA FlushTypes ==
  ASSUME TypeInv, NEW cb, NEW ready, NEW n \in Nat, NEW cut \in {0, 1}, Flush(cb, ready, n, cut)
  PROVE  /\ wire' \in Seq([req : Requests, sock : Sockets])
         /\ pendingRequests' \in Seq(Requests) /\ streamMap' \subseteq Requests
         /\ call' \in [Requests -> {"none", "waiting", "ok", "failed", "cancelled"}]
         /\ readyState' \in [Sockets -> ReadyStates \cup {"none"}]
         /\ nextStreamId' \in 1 .. (LastRequest + 1) /\ early' \subseteq Requests
<1> DEFINE queue == Flushed(cb, ready)
           k == n + cut
<1>a. n \in 0 .. Len(queue)
  BY DEF Flush
<1>1. /\ queue \in Seq(Requests)
      /\ pendingRequests' \in Seq(Requests)
      /\ \A r \in ToSet(cb) : r = nextStreamId /\ r \in Requests
      /\ nextStreamId' = nextStreamId \/ nextStreamId' = nextStreamId + 1
      /\ \A r \in Requests : r \in ToSet(cb) <=> nextStreamId <= r /\ r < nextStreamId'
      /\ cb \in Seq(Requests) /\ Len(cb) \in {0, 1}
  BY FlushFacts DEF TypeInv
<1>2. wire' \in Seq([req : Requests, sock : Sockets])
  BY WireFacts DEF TypeInv
<1>3. streamMap' \subseteq Requests
  <2>1. \A i \in 1 .. n : queue[i] \in Requests
    BY <1>1, <1>a
  <2> QED BY <2>1 DEF Flush, TypeInv, TypeOK
<1>4. call' \in [Requests -> {"none", "waiting", "ok", "failed", "cancelled"}]
  BY DEF Flush, TypeInv, TypeOK
<1>5. readyState' \in [Sockets -> ReadyStates \cup {"none"}]
  <2>1. ready \in [Sockets -> ReadyStates \cup {"none"}]
    BY DEF Flush, Opened, TypeInv, TypeOK, ReadyStates
  <2> QED BY <2>1 DEF Flush, Opened, ReadyStates
<1>6. nextStreamId' \in 1 .. (LastRequest + 1)
  <2>1. CASE nextStreamId' = nextStreamId
    BY <2>1 DEF TypeInv, TypeOK
  <2>2. CASE nextStreamId' = nextStreamId + 1 /\ Len(cb) = 1
    <3>1. cb[1] = nextStreamId /\ nextStreamId \in Requests
      BY <2>2, <1>1 DEF ToSet
    <3> QED BY <3>1, <2>2, ClientAssumption DEF Requests
  <2>3. nextStreamId' = nextStreamId + Len(cb)
    BY DEF Flush
  <2> QED BY <1>1, <2>1, <2>2, <2>3 DEF TypeInv, TypeOK
<1>7. early' \subseteq Requests
  BY <1>1 DEF Flush, TypeInv, TypeOK
<1> QED BY <1>1, <1>2, <1>3, <1>4, <1>5, <1>6, <1>7

\* The steps, one by one.
LEMMA Steps ==
  ASSUME [Next]_vars
  PROVE  \/ \E b \in BOOLEAN : Connect(b)
         \/ Disconnect \/ Reconnect \/ OpenStream \/ Exhausted
         \/ \E r \in Requests : Subscribe(r) \/ Unsubscribe(r)
         \/ \E s \in Sockets : OnOpen(s)
         \/ \E s \in Sockets : OnClose(s)
         \/ \E s \in Sockets : OnPong(s) \/ PeerCloses(s) \/ PeerGoesSilent(s)
         \/ \E s \in Sockets, r \in Requests, outcome \in {"ok", "failed"} : OnEnd(s, r, outcome)
         \/ ReconnectFires \/ PingFires \/ WatchdogFires
         \/ UNCHANGED vars
BY DEF Next, App, Browser, Timers

\* A socket's readyState only ever moves on, whoever moves it.
LEMMA Forward ==
  ASSUME TypeInv, [Next]_vars, NEW s \in Sockets
  PROVE  /\ readyState[s] # "none" => readyState'[s] # "none"
         /\ readyState[s] \in {"OPEN", "CLOSING", "CLOSED"}
               => readyState'[s] \in {"OPEN", "CLOSING", "CLOSED"}
         /\ readyState[s] \in {"CLOSING", "CLOSED"} => readyState'[s] \in {"CLOSING", "CLOSED"}
         /\ readyState[s] = "CLOSED" => readyState'[s] = "CLOSED"
         /\ readyState'[s] \in ReadyStates \cup {"none"}
<1> DEFINE Onward(ready) ==
      /\ readyState[s] # "none" => ready[s] # "none"
      /\ readyState[s] \in {"OPEN", "CLOSING", "CLOSED"} => ready[s] \in {"OPEN", "CLOSING", "CLOSED"}
      /\ readyState[s] \in {"CLOSING", "CLOSED"} => ready[s] \in {"CLOSING", "CLOSED"}
      /\ readyState[s] = "CLOSED" => ready[s] = "CLOSED"
      /\ ready[s] \in ReadyStates \cup {"none"}
<1>1. readyState \in [Sockets -> ReadyStates \cup {"none"}] /\ socket \in Sockets \cup {NoSocket}
  BY DEF TypeInv, TypeOK
<1>2. /\ Onward(readyState)
      /\ Onward(Closing(socket)) /\ Closing(socket) \in [Sockets -> ReadyStates \cup {"none"}]
  BY <1>1 DEF Closing, Live, ReadyStates
<1>3. ASSUME NEW handlers, NEW ready \in {readyState, Closing(socket)},
             AttemptConnection(ready, handlers)
      PROVE  Onward(readyState')
  <2>1. PICK t \in Sockets : /\ \A u \in Sockets : readyState[u] # "none" <=> u < t
                             /\ readyState' = [ready EXCEPT ![t] = "CONNECTING"]
    BY <1>3, Attempt DEF TypeInv
  <2>2. readyState[t] = "none"
    BY <2>1, ClientAssumption DEF Sockets
  <2> QED BY <1>1, <1>2, <2>1, <2>2 DEF ReadyStates
<1>4. ASSUME NEW cb, NEW ready, NEW n \in Nat, NEW cut \in {0, 1}, Flush(cb, ready, n, cut)
      PROVE  Onward(readyState')
  <2>1. ready \in [Sockets -> ReadyStates \cup {"none"}] /\ Onward(ready)
    BY <1>1, <1>4 DEF Flush, Opened, ReadyStates
  <2>2. n < Len(Flushed(cb, ready)) => socket \in Sockets /\ ready[socket] = "OPEN"
    BY <1>1 DEF Flushed, IsOpen
  <2> QED BY <1>4, <2>1, <2>2 DEF Flush, Opened, ReadyStates
<1> USE DEF sockets, timers, streams, issued, sent, wishes, server
<1>5. ASSUME NEW b \in BOOLEAN, Connect(b) PROVE Onward(readyState')
  BY <1>5, <1>3 DEF Connect
<1>6. CASE Disconnect \/ Exhausted \/ WatchdogFires
  BY <1>6, <1>2 DEF Disconnect, Exhausted, WatchdogFires
<1>7. CASE Reconnect
  BY <1>7, <1>3 DEF Reconnect
<1>8. CASE OpenStream
  BY <1>8, <1>4, OpenStreamFlushes DEF TypeInv
<1>9. ASSUME NEW r \in Requests, Subscribe(r) \/ Unsubscribe(r) PROVE Onward(readyState')
  BY <1>9, <1>2 DEF Subscribe, Unsubscribe
<1>10. ASSUME NEW t \in Sockets, OnOpen(t) PROVE Onward(readyState')
  <2>1. PICK cb : \E n \in Nat, cut \in {0, 1} : Flush(cb, Opened(t), n, cut)
    BY <1>10, OnOpenFlushes DEF TypeInv
  <2> HIDE DEF Onward
  <2> QED BY <1>4, <2>1
<1>11. ASSUME NEW t \in Sockets, OnClose(t) \/ PeerCloses(t) PROVE Onward(readyState')
  BY <1>11, <1>1 DEF OnClose, PeerCloses, ReadyStates
<1>12. ASSUME NEW t \in Sockets, OnPong(t) \/ PeerGoesSilent(t) PROVE Onward(readyState')
  BY <1>12, <1>2 DEF OnPong, PeerGoesSilent
<1>13. ASSUME NEW t \in Sockets, NEW r \in Requests, NEW outcome, OnEnd(t, r, outcome)
       PROVE  Onward(readyState')
  BY <1>13, <1>2 DEF OnEnd
<1>14. CASE ReconnectFires
  BY <1>14, <1>2, <1>3 DEF ReconnectFires
<1>15. CASE PingFires \/ UNCHANGED vars
  BY <1>15, <1>2 DEF PingFires, vars
<1> QED BY <1>5, <1>6, <1>7, <1>8, <1>9, <1>10, <1>11, <1>12, <1>13, <1>14, <1>15, Steps

\* Every step keeps what is known of the sockets.
LEMMA ShapeStep ==
  ASSUME TypeInv, [Next]_vars PROVE SocketShape'
<1> USE DEF sockets, timers, streams, issued, sent, wishes, server
<1>1. /\ readyState \in [Sockets -> ReadyStates \cup {"none"}] /\ socket \in Sockets \cup {NoSocket}
      /\ onclose \subseteq Sockets /\ SocketShape
  BY DEF TypeInv, TypeOK
\* No socket is created, and this.socket stays as it is or is let go.
<1>2. ASSUME \A s \in Sockets : readyState'[s] # "none" => readyState[s] # "none",
             onclose' = onclose, socket' \in {socket, NoSocket},
             socket' # NoSocket => readyState'[socket] # "CLOSED"
      PROVE  SocketShape'
  <2>1. \A s \in Sockets : readyState'[s] # "none" <=> readyState[s] # "none"
    BY <1>2, Forward
  <2>2. ASSUME socket' # NoSocket
        PROVE  socket' \in onclose' /\ readyState'[socket'] \in {"CONNECTING", "OPEN", "CLOSING"}
    <3>1. socket' = socket /\ socket \in Sockets /\ socket \in onclose /\ readyState[socket] # "none"
      BY <1>1, <1>2, <2>2 DEF SocketShape
    <3>2. readyState'[socket] \in ReadyStates
      BY <3>1, Forward
    <3> QED BY <3>1, <3>2, <1>2, <2>2 DEF ReadyStates
  <2>3. PICK m \in 0 .. MaxSockets : \A s \in Sockets : readyState[s] # "none" <=> s <= m
    BY <1>1 DEF SocketShape
  <2>4. \E m1 \in 0 .. MaxSockets : \A s \in Sockets : readyState'[s] # "none" <=> s <= m1
    BY <2>1, <2>3
  <2>5. \A s \in onclose' : readyState'[s] # "none"
    BY <1>1, <1>2, Forward DEF SocketShape
  <2> QED BY <2>2, <2>4, <2>5 DEF SocketShape
<1>3. ASSUME NEW handlers \in SUBSET onclose, NEW ready \in {readyState, Closing(socket)},
             AttemptConnection(ready, handlers)
      PROVE  SocketShape'
  <2>1. PICK t \in Sockets : /\ \A s \in Sockets : readyState[s] # "none" <=> s < t
                             /\ socket' = t /\ readyState' = [ready EXCEPT ![t] = "CONNECTING"]
                             /\ onclose' = handlers \cup {t}
    BY <1>3, Attempt DEF TypeInv
  <2>2. /\ ready \in [Sockets -> ReadyStates \cup {"none"}]
        /\ \A s \in Sockets : ready[s] # "none" <=> readyState[s] # "none"
    BY <1>1 DEF Closing, Live, ReadyStates
  <2>3. t \in 0 .. MaxSockets /\ \A s \in Sockets : readyState'[s] # "none" <=> s <= t
    BY <2>1, <2>2, ClientAssumption DEF Sockets
  <2>4. \A s \in onclose' : readyState'[s] # "none"
    BY <1>1, <2>1, <2>2 DEF SocketShape
  <2> QED BY <2>1, <2>2, <2>3, <2>4 DEF SocketShape
<1>4. /\ \A s \in Sockets : Closing(socket)[s] # "none" => readyState[s] # "none"
      /\ socket # NoSocket => readyState[socket] # "CLOSED" /\ Closing(socket)[socket] # "CLOSED"
  BY <1>1 DEF Closing, Live, SocketShape
<1>5. ASSUME NEW cb, NEW ready, NEW n \in Nat, NEW cut \in {0, 1}, Flush(cb, ready, n, cut)
      PROVE  SocketShape'
  <2>1. /\ ready \in [Sockets -> ReadyStates \cup {"none"}]
        /\ \A s \in Sockets : ready[s] # "none" => readyState[s] # "none"
        /\ socket # NoSocket => ready[socket] # "CLOSED"
    BY <1>1, <1>4, <1>5 DEF Flush, Opened, ReadyStates
  <2>2. n < Len(Flushed(cb, ready)) => socket \in Sockets /\ ready[socket] = "OPEN"
    BY <1>1 DEF Flushed, IsOpen
  <2>3. /\ \A s \in Sockets : readyState'[s] # "none" => readyState[s] # "none"
        /\ socket # NoSocket => readyState'[socket] # "CLOSED"
    BY <1>1, <1>5, <2>1, <2>2 DEF Flush
  <2> QED BY <1>2, <1>5, <2>3 DEF Flush
<1>6. ASSUME NEW b \in BOOLEAN, Connect(b) PROVE SocketShape'
  BY <1>6, <1>3 DEF Connect
<1>7. CASE Disconnect \/ Exhausted \/ WatchdogFires
  BY <1>7, <1>2, <1>4 DEF Disconnect, Exhausted, WatchdogFires
<1>8. CASE Reconnect
  BY <1>8, <1>3 DEF Reconnect, Forget
<1>9. CASE OpenStream
  BY <1>9, <1>5, OpenStreamFlushes DEF TypeInv
<1>10. ASSUME NEW r \in Requests, Subscribe(r) \/ Unsubscribe(r) PROVE SocketShape'
  BY <1>10, <1>2, <1>4 DEF Subscribe, Unsubscribe
<1>11. ASSUME NEW t \in Sockets, OnOpen(t) PROVE SocketShape'
  BY <1>11, <1>5, OnOpenFlushes DEF TypeInv
<1>12. ASSUME NEW t \in Sockets, OnClose(t) \/ PeerCloses(t) PROVE SocketShape'
  <2>1. t # socket \/ t \in onclose
    BY <1>1 DEF SocketShape, NoSocket, Sockets
  <2> QED BY <1>1, <1>2, <1>4, <1>12, <2>1 DEF OnClose, PeerCloses
<1>13. ASSUME NEW t \in Sockets, OnPong(t) \/ PeerGoesSilent(t) PROVE SocketShape'
  BY <1>13, <1>2, <1>4 DEF OnPong, PeerGoesSilent
<1>14. ASSUME NEW t \in Sockets, NEW r \in Requests, NEW outcome, OnEnd(t, r, outcome)
       PROVE  SocketShape'
  BY <1>14, <1>2, <1>4 DEF OnEnd
<1>15. CASE ReconnectFires
  BY <1>15, <1>2, <1>3, <1>4 DEF ReconnectFires
<1>16. CASE PingFires \/ UNCHANGED vars
  BY <1>16, <1>2, <1>4 DEF PingFires, vars
<1> QED BY <1>6, <1>7, <1>8, <1>9, <1>10, <1>11, <1>12, <1>13, <1>14, <1>15, <1>16, Steps

\* A reconnect timer is armed by a close event only, an interval by an open one.
LEMMA CountStep ==
  ASSUME TypeInv, TimersCounted, [Next]_vars
  PROVE  TimersCounted' /\ {lostReconnects', lostPings'} \subseteq 0 .. MaxSockets
<1> USE DEF sockets, timers, streams, issued, sent, wishes, server
<1> DEFINE C == InState({"CLOSED"})
           O == InState({"OPEN", "CLOSING", "CLOSED"})
           R == lostReconnects + Bit(reconnectTimer)
           P == lostPings + Bit(pingTimer)
<1>1. /\ {reconnectTimer, pingTimer} \subseteq BOOLEAN
      /\ lostReconnects \in Nat /\ lostPings \in Nat
      /\ readyState \in [Sockets -> ReadyStates \cup {"none"}]
  BY DEF TypeInv, TypeOK
<1>2. C \subseteq C' /\ O \subseteq O' /\ C' \in SUBSET Sockets /\ O' \in SUBSET Sockets
  BY Forward DEF InState
<1>3. /\ Cardinality(C) \in Nat /\ Cardinality(C') \in Nat /\ Cardinality(C) <= Cardinality(C')
      /\ Cardinality(C') <= MaxSockets
      /\ \A s \in C' \ C : Cardinality(C) + 1 <= Cardinality(C')
  BY <1>2, SomeSockets
<1>4. /\ Cardinality(O) \in Nat /\ Cardinality(O') \in Nat /\ Cardinality(O) <= Cardinality(O')
      /\ Cardinality(O') <= MaxSockets
      /\ \A s \in O' \ O : Cardinality(O) + 1 <= Cardinality(O')
  BY <1>2, SomeSockets
<1> DEFINE Fewer == /\ lostReconnects' \in Nat /\ lostPings' \in Nat
                    /\ R' <= R \/ (R' <= R + 1 /\ \E s \in C' \ C : TRUE)
                    /\ P' <= P \/ (P' <= P + 1 /\ \E s \in O' \ O : TRUE)
<1>5. ASSUME UNCHANGED <<reconnectTimer, lostReconnects, pingTimer, lostPings>> PROVE Fewer
  BY <1>1, <1>5 DEF Bit
<1>6. ASSUME Disconnect \/ Reconnect PROVE Fewer
  BY <1>1, <1>6 DEF Disconnect, Reconnect, StopPing, ClearReconnect, Bit
<1>7. ASSUME OpenStream PROVE Fewer
  <2>1. UNCHANGED <<reconnectTimer, lostReconnects, pingTimer, lostPings>>
    BY <1>7, OpenStreamFlushes DEF TypeInv, Flush
  <2> QED BY <2>1, <1>5
<1>8. ASSUME NEW s \in Sockets, OnOpen(s) PROVE Fewer
  <2>1. /\ readyState[s] = "CONNECTING" /\ pingTimer' = TRUE
        /\ lostPings' = Plus(lostPings, pingTimer)
        /\ UNCHANGED <<reconnectTimer, lostReconnects>>
    BY <1>8 DEF OnOpen
  <2>2. s \in O' \ O
    <3>1. PICK cb : \E n \in Nat, cut \in {0, 1} : Flush(cb, Opened(s), n, cut)
      BY <1>8, OnOpenFlushes DEF TypeInv
    <3>2. readyState'[s] \in {"OPEN", "CLOSING"}
      BY <1>1, <3>1 DEF Flush, Opened
    <3> QED BY <2>1, <3>2 DEF InState
  <2>3. lostPings' \in Nat /\ P' <= P + 1
    BY <2>1, <1>1 DEF Plus, Bit
  <2>4. R' <= R /\ lostReconnects' \in Nat
    BY <2>1, <1>1 DEF Bit
  <2> HIDE DEF C, O, R, P
  <2> QED BY <2>2, <2>3, <2>4
<1>9. ASSUME NEW s \in Sockets, OnClose(s) PROVE Fewer
  <2>1. s \in C' \ C
    BY <1>1, <1>9 DEF OnClose, InState
  <2>2. /\ lostReconnects' \in Nat /\ R' <= R + 1
        /\ lostPings' \in Nat /\ P' <= P
    BY <1>1, <1>9 DEF OnClose, StopPing, Plus, Bit, WillRetry, TypeInv, TypeOK
  <2> HIDE DEF C, O, R, P
  <2> QED BY <2>1, <2>2
<1>10. ASSUME ReconnectFires PROVE Fewer
  <2>1. R' <= R /\ lostReconnects' \in Nat
    BY <1>1, <1>10 DEF ReconnectFires, Bit
  <2>2. UNCHANGED <<pingTimer, lostPings>>
    BY <1>10 DEF ReconnectFires
  <2>3. P' <= P /\ lostPings' \in Nat
    BY <1>1, <2>2 DEF Bit
  <2> HIDE DEF C, O, R, P
  <2> QED BY <2>1, <2>3
<1>11. ASSUME NEW s \in Sockets, OnPong(s) \/ PeerCloses(s) \/ PeerGoesSilent(s) PROVE Fewer
  BY <1>5, <1>11 DEF OnPong, PeerCloses, PeerGoesSilent
<1>12. ASSUME NEW s \in Sockets, NEW r \in Requests, NEW outcome, OnEnd(s, r, outcome) PROVE Fewer
  BY <1>5, <1>12 DEF OnEnd
<1>13. ASSUME NEW b \in BOOLEAN, Connect(b) PROVE Fewer
  BY <1>5, <1>13 DEF Connect
<1>14. ASSUME NEW r \in Requests, Subscribe(r) \/ Unsubscribe(r) PROVE Fewer
  BY <1>5, <1>14 DEF Subscribe, Unsubscribe
<1>15. ASSUME Exhausted \/ PingFires \/ WatchdogFires \/ UNCHANGED vars PROVE Fewer
  BY <1>5, <1>15 DEF Exhausted, PingFires, WatchdogFires, vars
<1>16. Fewer
  <2> HIDE DEF Fewer
  <2> QED BY <1>6, <1>7, <1>8, <1>9, <1>10, <1>11, <1>12, <1>13, <1>14, <1>15, Steps
<1>17. R <= Cardinality(C) /\ P <= Cardinality(O) /\ R \in Nat /\ P \in Nat
  BY <1>1 DEF TimersCounted, Bit
<1>18. R' \in Nat /\ P' \in Nat /\ lostReconnects' <= R' /\ lostPings' <= P'
  <2>1. lostReconnects' \in Nat /\ lostPings' \in Nat
    BY <1>16
  <2>2. Bit(reconnectTimer)' \in {0, 1} /\ Bit(pingTimer)' \in {0, 1}
    BY DEF Bit
  <2> QED BY <2>1, <2>2
<1>19. R' <= Cardinality(C') /\ P' <= Cardinality(O')
  <2>1. /\ R' <= R \/ (R' <= R + 1 /\ \E s \in C' \ C : TRUE)
        /\ P' <= P \/ (P' <= P + 1 /\ \E s \in O' \ O : TRUE)
    BY <1>16
  <2> HIDE DEF C, O, R, P
  <2> QED BY <1>3, <1>4, <1>17, <1>18, <2>1
<1>20. MaxSockets \in Nat
  BY ClientAssumption
<1>21. lostReconnects' \in 0 .. MaxSockets /\ lostPings' \in 0 .. MaxSockets
  <2>1. lostReconnects' \in Nat /\ lostPings' \in Nat
    BY <1>16
  <2> HIDE DEF C, O, R, P
  <2> QED BY <2>1, <1>3, <1>4, <1>18, <1>19, <1>20
<1> QED BY <1>19, <1>21 DEF TimersCounted

\* Every step keeps the types.
LEMMA TypeStep ==
  ASSUME TypeInv, TimersCounted, [Next]_vars PROVE TypeOK'
<1> USE DEF sockets, timers, streams, issued, sent, wishes, server
<1>1. TypeOK
  BY DEF TypeInv
<1>2. {lostReconnects', lostPings'} \subseteq 0 .. MaxSockets
  BY CountStep
<1>3. /\ Closing(socket) \in [Sockets -> ReadyStates \cup {"none"}]
      /\ \A R \in SUBSET Requests, o \in {"waiting", "ok", "failed", "cancelled"} :
            Settle(R, o) \in [Requests -> {"none", "waiting", "ok", "failed", "cancelled"}]
      /\ ToSet(pendingRequests) \subseteq Requests /\ <<>> \in Seq(Requests)
      /\ "Connected" \in {"Connected", "Disconnected", "Reconnecting"}
  BY <1>1 DEF TypeOK, Closing, Settle, ReadyStates, ToSet
<1>4. ASSUME NEW r \in Requests, Teardown(r) PROVE resets' \subseteq Requests \X Sockets
  BY <1>1, <1>4 DEF TypeOK, Teardown, IsOpen
<1>5. ASSUME NEW handlers \in SUBSET Sockets, NEW ready \in {readyState, Closing(socket)},
             AttemptConnection(ready, handlers)
      PROVE  /\ socket' \in Sockets /\ onclose' \subseteq Sockets
             /\ readyState' \in [Sockets -> ReadyStates \cup {"none"}]
  <2>1. PICK s \in Sockets : /\ socket' = s /\ readyState' = [ready EXCEPT ![s] = "CONNECTING"]
                             /\ onclose' = handlers \cup {s}
    BY <1>5, Attempt DEF TypeInv
  <2>2. ready \in [Sockets -> ReadyStates \cup {"none"}]
    BY <1>1, <1>3 DEF TypeOK
  <2> QED BY <2>1, <2>2 DEF ReadyStates
<1>6. ASSUME NEW b \in BOOLEAN, Connect(b) PROVE TypeOK'
  BY <1>1, <1>2, <1>5, <1>6 DEF Connect, TypeOK, AppStates
<1>7. CASE Disconnect
  BY <1>1, <1>2, <1>3, <1>7 DEF Disconnect, StopPing, ClearReconnect, TypeOK, AppStates
<1>8. CASE Reconnect
  <2>1. call' \in [Requests -> {"none", "waiting", "ok", "failed", "cancelled"}] /\ streamMap' \subseteq Requests
    BY <1>1, <1>3, <1>8 DEF Reconnect, ErrorOutActiveStreams, TypeOK
  <2>2. Forget(socket) \in SUBSET Sockets
    BY <1>1 DEF Forget, TypeOK
  <2>3. /\ socket' \in Sockets /\ onclose' \subseteq Sockets
        /\ readyState' \in [Sockets -> ReadyStates \cup {"none"}]
    BY <1>5, <1>8, <2>2 DEF Reconnect
  <2> QED BY <1>1, <1>2, <1>8, <2>1, <2>3 DEF Reconnect, StopPing, ClearReconnect, TypeOK, AppStates
<1>9. CASE OpenStream
  <2>1. PICK n \in Nat, cut \in {0, 1} : Flush(<<nextStreamId>>, readyState, n, cut)
    BY <1>9, OpenStreamFlushes DEF TypeInv
  <2>2. nextStreamId \in Requests
    BY <1>9, OpenStreamFlushes DEF TypeInv
  <2>3. UNCHANGED <<socket, onclose, connected, connectionState, timers, resets, wishes, server>>
    BY <1>9 DEF OpenStream
  <2>4. subscribed' \subseteq Requests
    BY <1>1, <1>9, <2>2 DEF OpenStream, Subscribing, TypeOK
  <2>5. /\ wire' \in Seq([req : Requests, sock : Sockets])
        /\ pendingRequests' \in Seq(Requests) /\ streamMap' \subseteq Requests
        /\ call' \in [Requests -> {"none", "waiting", "ok", "failed", "cancelled"}]
        /\ readyState' \in [Sockets -> ReadyStates \cup {"none"}]
        /\ nextStreamId' \in 1 .. (LastRequest + 1) /\ early' \subseteq Requests
    BY <2>1, FlushTypes
  <2> QED BY <1>1, <1>2, <2>3, <2>4, <2>5 DEF TypeOK
<1>10. ASSUME NEW s \in Sockets, OnOpen(s) PROVE TypeOK'
  <2>1. PICK cb : \E n \in Nat, cut \in {0, 1} : Flush(cb, Opened(s), n, cut)
    BY <1>10, OnOpenFlushes DEF TypeInv
  <2>2. /\ connected' = TRUE /\ connectionState' = "Connected" /\ pingTimer' = TRUE
        /\ UNCHANGED <<socket, onclose, reconnectTimer, watchdog, resets, wishes, server>>
        /\ \E cb1 \in CallbackRequests : Subscribing(ToSet(cb1))
    BY <1>10 DEF OnOpen
  <2>3. subscribed' \subseteq Requests
    <3>1. \A cb1 \in CallbackRequests : ToSet(cb1) \subseteq Requests
      BY DEF CallbackRequests, ToSet
    <3> QED BY <1>1, <2>2, <3>1 DEF Subscribing, TypeOK
  <2>4. /\ wire' \in Seq([req : Requests, sock : Sockets])
        /\ pendingRequests' \in Seq(Requests) /\ streamMap' \subseteq Requests
        /\ call' \in [Requests -> {"none", "waiting", "ok", "failed", "cancelled"}]
        /\ readyState' \in [Sockets -> ReadyStates \cup {"none"}]
        /\ nextStreamId' \in 1 .. (LastRequest + 1) /\ early' \subseteq Requests
    BY <2>1, FlushTypes
  <2> QED BY <1>1, <1>2, <2>2, <2>3, <2>4 DEF TypeOK
<1>11. ASSUME NEW r \in Requests, Subscribe(r) PROVE TypeOK'
  BY <1>1, <1>2, <1>4, <1>11 DEF Subscribe, TypeOK
<1>12. ASSUME NEW r \in Requests, Unsubscribe(r) PROVE TypeOK'
  <2>1. pendingRequests' \in Seq(Requests)
    BY <1>1, <1>12, RemovedFacts DEF Unsubscribe, TypeInv, NoCallLost, TypeOK
  <2> QED BY <1>1, <1>2, <1>3, <1>4, <1>12, <2>1 DEF Unsubscribe, TypeOK
<1>13. ASSUME NEW s \in Sockets, OnClose(s) PROVE TypeOK'
  <2>1. call' \in [Requests -> {"none", "waiting", "ok", "failed", "cancelled"}] /\ streamMap' \subseteq Requests
    BY <1>1, <1>3, <1>13 DEF OnClose, ErrorOutActiveStreams, TypeOK
  <2> QED BY <1>1, <1>2, <1>13, <2>1 DEF OnClose, StopPing, WillRetry, TypeOK, ReadyStates
<1>14. ASSUME NEW s \in Sockets, OnPong(s) \/ PeerCloses(s) \/ PeerGoesSilent(s) PROVE TypeOK'
  BY <1>1, <1>2, <1>14 DEF OnPong, PeerCloses, PeerGoesSilent, TypeOK, ReadyStates
<1>15. ASSUME NEW s \in Sockets, NEW r \in Requests, NEW outcome \in {"ok", "failed"}, OnEnd(s, r, outcome)
       PROVE  TypeOK'
  BY <1>1, <1>2, <1>3, <1>4, <1>15 DEF OnEnd, TypeOK
<1>16. CASE ReconnectFires
  BY <1>1, <1>2, <1>5, <1>16 DEF ReconnectFires, TypeOK
<1>17. CASE PingFires
  BY <1>1, <1>2, <1>17 DEF PingFires, IsOpen, TypeOK
<1>18. CASE Exhausted \/ WatchdogFires
  BY <1>1, <1>2, <1>3, <1>18 DEF Exhausted, WatchdogFires, TypeOK
<1>19. CASE UNCHANGED vars
  BY <1>1, <1>19 DEF vars, TypeOK
<1> QED BY <1>6, <1>7, <1>8, <1>9, <1>10, <1>11, <1>12, <1>13, <1>14, <1>15, <1>16, <1>17, <1>18, <1>19, Steps

\* An OPEN socket has been flushed onto: n falls short of the queue only when
\* send() throws, and then the socket is not OPEN any more.
LEMMA EmptyStep ==
  ASSUME TypeInv, [Next]_vars PROVE QueueEmptyWhenOpen'
<1> USE DEF sockets, timers, streams, issued, sent, wishes, server
<1>1. /\ readyState \in [Sockets -> ReadyStates \cup {"none"}] /\ socket \in Sockets \cup {NoSocket}
      /\ pendingRequests \in Seq(Requests) /\ IsInjective(pendingRequests)
      /\ QueueEmptyWhenOpen /\ TypeOK /\ Issued /\ NoCallLost
  BY DEF TypeInv, TypeOK, NoCallLost
\* What is OPEN afterwards was OPEN before, with a queue that has not grown.
<1>2. ASSUME IsOpen(socket', readyState') => IsOpen(socket, readyState),
             pendingRequests' = pendingRequests
      PROVE  QueueEmptyWhenOpen'
  BY <1>1, <1>2 DEF QueueEmptyWhenOpen
<1>3. ASSUME NEW handlers, NEW ready \in {readyState, Closing(socket)},
             AttemptConnection(ready, handlers)
      PROVE  ~IsOpen(socket', readyState')
  <2>1. ready \in [Sockets -> ReadyStates \cup {"none"}]
    BY <1>1 DEF Closing, Live, ReadyStates
  <2>2. PICK t \in Sockets : socket' = t /\ readyState' = [ready EXCEPT ![t] = "CONNECTING"]
    BY <1>3, Attempt DEF TypeInv
  <2> QED BY <2>1, <2>2 DEF IsOpen
<1>4. ASSUME NEW cb, NEW ready, NEW n \in Nat, NEW cut \in {0, 1}, Flush(cb, ready, n, cut)
      PROVE  QueueEmptyWhenOpen'
  <2> DEFINE queue == Flushed(cb, ready)
             k == n + cut
  <2>1. /\ queue \in Seq(Requests) /\ IsInjective(queue) /\ k \in 0 .. Len(queue)
        /\ queue = <<>> \/ (IsOpen(socket, ready) /\ queue = cb \o pendingRequests)
        /\ cb \in Seq(Requests)
    BY <1>1, <1>4, FlushFacts
  <2>2. ready \in [Sockets -> ReadyStates \cup {"none"}]
    BY <1>1, <1>4 DEF Flush, Opened, ReadyStates
  <2>3. /\ pendingRequests' = IF k = 0 THEN pendingRequests \o cb ELSE Requeued(queue, k)
        /\ socket' = socket /\ k <= Len(queue) /\ n <= Len(queue)
        /\ readyState' = IF n < Len(queue) THEN [ready EXCEPT ![socket] = "CLOSING"] ELSE ready
    BY <1>4 DEF Flush
  <2>4. queue = IF IsOpen(socket, ready) THEN cb \o pendingRequests ELSE <<>>
    BY DEF Flushed
  <2> HIDE DEF queue
  <2> SUFFICES ASSUME IsOpen(socket, readyState') PROVE pendingRequests' = <<>>
    BY <2>3 DEF QueueEmptyWhenOpen
  <2>5. IsOpen(socket, ready) /\ n = Len(queue) /\ k = Len(queue)
    BY <1>1, <2>1, <2>2, <2>3 DEF IsOpen, NoSocket
  <2>6. CASE k = 0
    <3>1. queue = <<>> /\ queue = cb \o pendingRequests
      BY <2>1, <2>4, <2>5, <2>6
    <3>2. cb = <<>> /\ pendingRequests = <<>>
      BY <3>1, <2>1, <1>1, ConcatEqualIffEmpty
    <3>3. pendingRequests' = <<>> \o <<>>
      BY <3>2, <2>3, <2>6
    <3> QED BY <3>3
  <2>7. CASE k # 0
    <3>1. pendingRequests' = Requeued(queue, k) /\ Len(Requeued(queue, k)) = 0
      BY <2>1, <2>3, <2>5, <2>7, RequeuedFacts
    <3>2. Requeued(queue, k) \in Seq(Requests)
      BY <2>1, RequeuedFacts
    <3> QED BY <3>1, <3>2
  <2> QED BY <2>6, <2>7
<1>5. /\ ~IsOpen(NoSocket, readyState')
      /\ IsOpen(socket, Closing(socket)) => IsOpen(socket, readyState)
  BY <1>1 DEF IsOpen, Closing, Live
<1>6. ASSUME NEW b \in BOOLEAN, Connect(b) PROVE QueueEmptyWhenOpen'
  BY <1>3, <1>6 DEF Connect, QueueEmptyWhenOpen
<1>7. CASE Disconnect
  BY <1>7 DEF Disconnect, QueueEmptyWhenOpen
<1>8. CASE Reconnect
  BY <1>3, <1>8 DEF Reconnect, QueueEmptyWhenOpen
<1>9. CASE OpenStream
  BY <1>4, <1>9, OpenStreamFlushes DEF TypeInv
<1>10. ASSUME NEW s \in Sockets, OnOpen(s) PROVE QueueEmptyWhenOpen'
  BY <1>4, <1>10, OnOpenFlushes DEF TypeInv
<1>11. ASSUME NEW r \in Requests, Subscribe(r) PROVE QueueEmptyWhenOpen'
  BY <1>2, <1>11 DEF Subscribe
<1>12. ASSUME NEW r \in Requests, Unsubscribe(r) PROVE QueueEmptyWhenOpen'
  <2>1. pendingRequests = <<>> => RemoveFirst(pendingRequests, r) = <<>>
    BY DEF RemoveFirst
  <2> QED BY <1>1, <1>12, <2>1 DEF Unsubscribe, QueueEmptyWhenOpen
<1>13. ASSUME NEW s \in Sockets, OnClose(s) PROVE QueueEmptyWhenOpen'
  <2>1. IsOpen(socket', readyState') => IsOpen(socket, readyState)
    BY <1>1, <1>13 DEF OnClose, IsOpen
  <2> QED BY <1>2, <1>13, <2>1 DEF OnClose
<1>14. ASSUME NEW s \in Sockets, OnPong(s) \/ PeerCloses(s) \/ PeerGoesSilent(s) PROVE QueueEmptyWhenOpen'
  BY <1>1, <1>2, <1>14 DEF OnPong, PeerCloses, PeerGoesSilent, IsOpen
<1>15. ASSUME NEW s \in Sockets, NEW r \in Requests, NEW outcome, OnEnd(s, r, outcome)
       PROVE  QueueEmptyWhenOpen'
  BY <1>2, <1>15 DEF OnEnd
<1>16. CASE ReconnectFires
  BY <1>2, <1>3, <1>16 DEF ReconnectFires, QueueEmptyWhenOpen
<1>17. CASE Exhausted \/ WatchdogFires
  BY <1>2, <1>5, <1>17 DEF Exhausted, WatchdogFires
<1>18. CASE PingFires \/ UNCHANGED vars
  BY <1>2, <1>18 DEF PingFires, vars
<1> QED BY <1>6, <1>7, <1>8, <1>9, <1>10, <1>11, <1>12, <1>13, <1>14, <1>15, <1>16, <1>17, <1>18, Steps

-----------------------------------------------------------------------------
(* The queue and the streams.                                              *)

\* Every other step settles some of the requests that wait, or none: they leave
\* the queue, whose order is kept, and the stream map.
Settles(R) ==
    /\ R \subseteq ToSet(pendingRequests) \cup streamMap
    /\ streamMap' = streamMap \ R /\ ToSet(pendingRequests') = ToSet(pendingRequests) \ R
    /\ pendingRequests' \in Seq(Requests)
    /\ IsInjective(pendingRequests') /\ InOrderOf(pendingRequests', pendingRequests)
    /\ \A r \in Requests \ R : call'[r] = call[r]
    /\ \A r \in R : \/ call'[r] \in {"failed", "cancelled"}
                    \/ call'[r] = "ok" /\ r \in streamMap
    /\ UNCHANGED <<wire, nextStreamId, early>>

\* As far as queue and wire go, a step is a flush or settles some calls.
LEMMA QueueSteps ==
  ASSUME TypeInv, [Next]_vars
  PROVE  \/ \E cb, ready : \E n \in Nat, cut \in {0, 1} : Flush(cb, ready, n, cut)
         \/ \E R \in SUBSET Requests : Settles(R)
<1> USE DEF sockets, timers, streams, issued, sent, wishes, server
<1> DEFINE Goal == \/ \E cb, ready : \E n \in Nat, cut \in {0, 1} : Flush(cb, ready, n, cut)
                   \/ \E R \in SUBSET Requests : Settles(R)
<1>1. /\ pendingRequests \in Seq(Requests) /\ IsInjective(pendingRequests)
      /\ streamMap \in SUBSET Requests /\ ToSet(pendingRequests) \in SUBSET Requests
      /\ call \in [Requests -> {"none", "waiting", "ok", "failed", "cancelled"}]
      /\ ToSet(pendingRequests) \cap streamMap = {}
      /\ {r \in Requests : call[r] = "waiting"} = ToSet(pendingRequests) \cup streamMap
  BY DEF TypeInv, TypeOK, NoCallLost, ToSet
<1>2. InOrderOf(pendingRequests, pendingRequests)
  BY DEF InOrderOf
<1>3. ASSUME UNCHANGED <<pendingRequests, streamMap, call, wire, nextStreamId, early>> PROVE Goal
  <2>1. Settles({})
    BY <1>1, <1>2, <1>3 DEF Settles
  <2> QED BY <2>1
<1>4. ASSUME ErrorOutActiveStreams, UNCHANGED <<pendingRequests, wire, nextStreamId, early>>
      PROVE  Goal
  <2>1. Settles(streamMap)
    BY <1>1, <1>2, <1>4 DEF Settles, ErrorOutActiveStreams, Settle
  <2> QED BY <1>1, <2>1
<1>5. ASSUME NEW b \in BOOLEAN, Connect(b) PROVE Goal
  BY <1>3, <1>5 DEF Connect
<1>6. ASSUME Disconnect PROVE Goal
  <2>1. /\ pendingRequests' = <<>> /\ streamMap' = streamMap
        /\ call' = Settle(ToSet(pendingRequests), "failed")
        /\ UNCHANGED <<wire, nextStreamId, early>>
    BY <1>6 DEF Disconnect
  <2>2. /\ <<>> \in Seq(Requests) /\ ToSet(<<>>) = {} /\ IsInjective(<<>>)
        /\ InOrderOf(<<>>, pendingRequests)
    BY DEF ToSet, IsInjective, InOrderOf
  <2>3. Settles(ToSet(pendingRequests))
    BY <1>1, <2>1, <2>2 DEF Settles, Settle
  <2> QED BY <1>1, <2>3
<1>7. ASSUME Reconnect PROVE Goal
  BY <1>3, <1>4, <1>7 DEF Reconnect
<1>8. ASSUME OpenStream PROVE Goal
  BY <1>8, OpenStreamFlushes DEF TypeInv
<1>9. ASSUME NEW s \in Sockets, OnOpen(s) PROVE Goal
  BY <1>9, OnOpenFlushes DEF TypeInv
<1>10. ASSUME NEW r \in Requests, Subscribe(r) PROVE Goal
  BY <1>3, <1>10 DEF Subscribe
<1>11. ASSUME NEW r \in Requests, Unsubscribe(r) PROVE Goal
  <2>1. /\ pendingRequests' \in Seq(Requests) /\ IsInjective(pendingRequests')
        /\ InOrderOf(pendingRequests', pendingRequests)
        /\ ToSet(pendingRequests') = ToSet(pendingRequests) \ {r}
    BY <1>1, <1>11, RemovedFacts DEF Unsubscribe
  <2>2. Settles({r})
    BY <1>1, <1>11, <2>1 DEF Settles, Unsubscribe, Settle
  <2> QED BY <2>2
<1>12. ASSUME NEW s \in Sockets, OnClose(s) PROVE Goal
  BY <1>3, <1>4, <1>12 DEF OnClose
<1>13. ASSUME NEW s \in Sockets, OnPong(s) \/ PeerCloses(s) \/ PeerGoesSilent(s) PROVE Goal
  BY <1>3, <1>13 DEF OnPong, PeerCloses, PeerGoesSilent
<1>14. ASSUME NEW s \in Sockets, NEW r \in Requests, NEW outcome \in {"ok", "failed"}, OnEnd(s, r, outcome)
       PROVE  Goal
  <2>1. Settles({r})
    BY <1>1, <1>2, <1>14 DEF Settles, OnEnd, Settle
  <2> QED BY <2>1
<1>15. ASSUME ReconnectFires \/ PingFires \/ WatchdogFires \/ Exhausted \/ UNCHANGED vars PROVE Goal
  BY <1>3, <1>15 DEF ReconnectFires, PingFires, WatchdogFires, Exhausted, vars
<1> HIDE DEF Goal
<1>16. Goal
  BY <1>5, <1>6, <1>7, <1>8, <1>9, <1>10, <1>11, <1>12, <1>13, <1>14, <1>15, Steps
<1> QED BY <1>16 DEF Goal

\* A request is unknown until its id is taken, and waits where it is sent from.
LEMMA NoCallLostStep ==
  ASSUME TypeInv, [Next]_vars PROVE Issued' /\ NoCallLost'
<1>1. /\ pendingRequests \in Seq(Requests) /\ IsInjective(pendingRequests)
      /\ streamMap \in SUBSET Requests /\ ToSet(pendingRequests) \in SUBSET Requests
      /\ call \in [Requests -> {"none", "waiting", "ok", "failed", "cancelled"}]
      /\ ToSet(pendingRequests) \cap streamMap = {}
      /\ \A r \in Requests : call[r] = "waiting" <=> r \in ToSet(pendingRequests) \cup streamMap
  BY DEF TypeInv, TypeOK, NoCallLost, ToSet
<1>2. nextStreamId \in Nat /\ Requests \subseteq Nat /\ \A r \in Requests : call[r] = "none" <=> r >= nextStreamId
  BY ClientAssumption DEF TypeInv, TypeOK, Issued, Requests
<1>3. ASSUME NEW cb, NEW ready, NEW n \in Nat, NEW cut \in {0, 1}, Flush(cb, ready, n, cut)
      PROVE  Issued' /\ NoCallLost'
  <2> DEFINE queue == Flushed(cb, ready)
             k == n + cut
             whole == {queue[i] : i \in 1 .. n}
             part == {queue[i] : i \in (n + 1) .. k}
             gone == {queue[i] : i \in 1 .. k}
  <2>1. /\ queue \in Seq(Requests) /\ IsInjective(queue) /\ k \in 0 .. Len(queue)
        /\ ToSet(queue) \subseteq ToSet(pendingRequests) \cup ToSet(cb)
        /\ ToSet(cb) \cap (ToSet(pendingRequests) \cup streamMap) = {}
        /\ IsInjective(pendingRequests')
        /\ ToSet(pendingRequests') = (ToSet(pendingRequests) \cup ToSet(cb)) \ gone
    BY <1>3, FlushFacts DEF TypeInv
  <2>2. /\ \A r \in ToSet(cb) : r = nextStreamId /\ r \in Requests
        /\ nextStreamId' = nextStreamId \/ nextStreamId' = nextStreamId + 1
        /\ \A r \in Requests : r \in ToSet(cb) <=> nextStreamId <= r /\ r < nextStreamId'
    BY <1>3, FlushFacts DEF TypeInv
  <2>3. /\ streamMap' = streamMap \cup whole
        /\ call' = [r \in Requests |->
                      IF r \in part THEN "failed" ELSE IF r \in ToSet(cb) THEN "waiting" ELSE call[r]]
    BY <1>3 DEF Flush
  <2>4. /\ gone = whole \cup part /\ whole \cap part = {}
        /\ gone \subseteq ToSet(queue)
    <3>1. /\ DOMAIN queue = 1 .. Len(queue) /\ k <= Len(queue) /\ k \in Nat /\ n <= k
      BY <2>1
    <3>2. 1 .. k = (1 .. n) \cup ((n + 1) .. k) /\ 1 .. k \subseteq DOMAIN queue
      BY <3>1
    <3>3. (1 .. n) \cap ((n + 1) .. k) = {}
      BY <3>1
    <3> HIDE DEF queue, k
    <3>4. gone = whole \cup part
      BY <3>2
    <3>5. gone \subseteq ToSet(queue)
      BY <3>2 DEF ToSet
    <3>6. \A i \in 1 .. n, j \in (n + 1) .. k : queue[i] # queue[j]
      BY <2>1, <3>2, <3>3 DEF IsInjective
    <3> QED BY <3>4, <3>5, <3>6
  <2> HIDE DEF queue, k, whole, part, gone
  <2>5. NoCallLost'
    <3>1. \A r \in Requests : call'[r] = "waiting" <=> r \in ToSet(pendingRequests') \cup streamMap'
      BY <1>1, <2>1, <2>2, <2>3, <2>4
    <3>2. ToSet(pendingRequests') \cap streamMap' = {}
      BY <1>1, <2>1, <2>3, <2>4
    <3>3. ToSet(pendingRequests') \subseteq Requests /\ streamMap' \subseteq Requests
      BY <1>1, <2>1, <2>2, <2>3, <2>4
    <3> QED BY <2>1, <3>1, <3>2, <3>3 DEF NoCallLost
  <2>6. Issued'
    <3>1. \A r \in part : call[r] # "none" \/ r \in ToSet(cb)
      BY <1>1, <2>1, <2>4
    <3>2. \A r \in Requests : call'[r] = "none" <=> call[r] = "none" /\ r \notin ToSet(cb)
      BY <1>1, <2>3, <3>1
    <3> QED BY <1>2, <2>2, <3>2 DEF Issued
  <2> QED BY <2>5, <2>6
<1>4. ASSUME NEW R \in SUBSET Requests, Settles(R) PROVE Issued' /\ NoCallLost'
  <2>1. \A r \in Requests : call'[r] = "waiting" <=> r \in ToSet(pendingRequests') \cup streamMap'
    BY <1>1, <1>4 DEF Settles
  <2>2. ToSet(pendingRequests') \cap streamMap' = {} /\ ToSet(pendingRequests') \cup streamMap' \subseteq Requests
    BY <1>1, <1>4 DEF Settles
  <2>3. \A r \in Requests : call'[r] = "none" <=> call[r] = "none"
    BY <1>1, <1>4 DEF Settles
  <2> QED BY <1>2, <1>4, <2>1, <2>2, <2>3 DEF Settles, Issued, NoCallLost
<1> QED BY <1>3, <1>4, QueueSteps

-----------------------------------------------------------------------------
(* The wire.                                                               *)

WireInv == SentOnce /\ SentApart

\* Elements of the wire and of the queue.
LEMMA Elements ==
  ASSUME TypeInv
  PROVE  /\ DOMAIN wire = 1 .. Len(wire) /\ Len(wire) \in Nat
         /\ \A i \in DOMAIN wire : wire[i].req \in Requests /\ wire[i].sock \in Sockets
         /\ pendingRequests \in Seq(Requests) /\ Len(pendingRequests) \in Nat
         /\ DOMAIN pendingRequests = 1 .. Len(pendingRequests)
         /\ \A i \in DOMAIN pendingRequests : pendingRequests[i] \in ToSet(pendingRequests)
         /\ \A r \in ToSet(pendingRequests) : \E i \in DOMAIN pendingRequests : r = pendingRequests[i]
         /\ \A r \in ToSet(pendingRequests) : r \in Requests /\ r < nextStreamId
         /\ nextStreamId \in Nat /\ \A r \in Requests : r \in Nat
<1>1. nextStreamId \in Nat /\ \A r \in Requests : r \in Nat
  BY ClientAssumption DEF TypeInv, TypeOK, Requests
<1>2. /\ DOMAIN wire = 1 .. Len(wire) /\ Len(wire) \in Nat
      /\ \A i \in DOMAIN wire : wire[i].req \in Requests /\ wire[i].sock \in Sockets
  <2> DEFINE Rec == [req : Requests, sock : Sockets]
  <2>1. wire \in Seq(Rec)
    BY DEF TypeInv, TypeOK
  <2>2. \A e \in Rec : e.req \in Requests /\ e.sock \in Sockets
    OBVIOUS
  <2> HIDE DEF Rec
  <2>3. DOMAIN wire = 1 .. Len(wire) /\ Len(wire) \in Nat /\ \A i \in 1 .. Len(wire) : wire[i] \in Rec
    BY <2>1
  <2> QED BY <2>2, <2>3
<1>3. /\ pendingRequests \in Seq(Requests) /\ Len(pendingRequests) \in Nat
      /\ DOMAIN pendingRequests = 1 .. Len(pendingRequests)
  <2>1. pendingRequests \in Seq(Requests)
    BY DEF TypeInv, TypeOK
  <2> QED BY <2>1
<1>4. /\ \A i \in DOMAIN pendingRequests : pendingRequests[i] \in ToSet(pendingRequests)
      /\ \A r \in ToSet(pendingRequests) : \E i \in DOMAIN pendingRequests : r = pendingRequests[i]
  BY DEF ToSet
<1>5. \A r \in ToSet(pendingRequests) : r \in Requests /\ r < nextStreamId
  <2>1. \A r \in ToSet(pendingRequests) : r \in Requests /\ call[r] = "waiting"
    BY DEF TypeInv, NoCallLost
  <2>2. \A r \in Requests : r >= nextStreamId => call[r] = "none"
    BY DEF TypeInv, Issued
  <2>3. ASSUME NEW r \in ToSet(pendingRequests) PROVE r \in Requests /\ r < nextStreamId
    <3>1. r \in Requests /\ r \in Nat /\ ~(r >= nextStreamId)
      BY <1>1, <2>1, <2>2
    <3> QED BY <1>1, <3>1
  <2> QED BY <2>3
<1> QED BY <1>1, <1>2, <1>3, <1>4, <1>5

\* No step sends a request twice, nor queues one that was sent.
LEMMA WireStep ==
  ASSUME TypeInv, WireInv, [Next]_vars PROVE WireInv'
<1>1. /\ nextStreamId \in Nat /\ \A r \in Requests : r \in Nat
      /\ \A r \in ToSet(pendingRequests) : r \in Requests /\ r < nextStreamId
      /\ \A i, j \in DOMAIN wire : i # j => wire[i].req # wire[j].req
      /\ \A i \in DOMAIN wire : /\ wire[i].req < nextStreamId /\ wire[i].req \in Requests
                                /\ wire[i].sock \in Sockets
                                /\ wire[i].req \notin ToSet(pendingRequests)
  BY Elements DEF WireInv, SentOnce, SentApart
<1>2. \A s \in Sockets : readyState[s] \in {"OPEN", "CLOSING", "CLOSED"}
                            => readyState'[s] \in {"OPEN", "CLOSING", "CLOSED"}
  BY Forward
<1>3. ASSUME NEW cb, NEW ready, NEW n \in Nat, NEW cut \in {0, 1}, Flush(cb, ready, n, cut)
      PROVE  WireInv'
  <2> DEFINE queue == Flushed(cb, ready)
             k == n + cut
             gone == {queue[i] : i \in 1 .. k}
  <2>1. /\ queue \in Seq(Requests) /\ IsInjective(queue) /\ k \in 0 .. Len(queue)
        /\ ToSet(queue) \subseteq ToSet(pendingRequests) \cup ToSet(cb)
        /\ ToSet(pendingRequests') = (ToSet(pendingRequests) \cup ToSet(cb)) \ gone
        /\ nextStreamId' = nextStreamId \/ nextStreamId' = nextStreamId + 1
    BY <1>3, FlushFacts DEF TypeInv
  <2>2. \A r \in ToSet(cb) : r \in Requests /\ r >= nextStreamId /\ r < nextStreamId'
    <3>1. /\ \A r \in ToSet(cb) : r \in Requests
          /\ \A r \in Requests : r \in ToSet(cb) <=> nextStreamId <= r /\ r < nextStreamId'
      BY <1>3, FlushFacts DEF TypeInv
    <3> QED BY <1>1, <3>1
  <2>3. /\ k # 0 => socket \in Sockets /\ ready[socket] = "OPEN"
        /\ \A i \in DOMAIN wire : i \in DOMAIN wire' /\ wire'[i] = wire[i]
        /\ \A i \in DOMAIN wire' \ DOMAIN wire :
              \E j \in 1 .. k : /\ i = Len(wire) + j
                                /\ wire'[i].req = queue[j] /\ wire'[i].sock = socket
    BY <1>3, WireFacts DEF TypeInv
  <2>4. readyState' = IF n < Len(queue) THEN [ready EXCEPT ![socket] = "CLOSING"] ELSE ready
    BY <1>3 DEF Flush
  <2>5. ready \in [Sockets -> ReadyStates \cup {"none"}]
    BY <1>3 DEF Flush, Opened, TypeInv, TypeOK, ReadyStates
  <2>6. \A j \in 1 .. k : j \in DOMAIN queue
    BY <2>1
  <2>7. \A j \in 1 .. k : queue[j] \in ToSet(queue) /\ queue[j] \in gone
    BY <2>6 DEF ToSet
  <2> HIDE DEF queue, k, gone
  <2>8. \A j \in 1 .. k : /\ queue[j] \in Requests /\ queue[j] < nextStreamId'
                          /\ queue[j] \notin ToSet(pendingRequests')
                          /\ \A i \in DOMAIN wire : wire[i].req # queue[j]
    BY <1>1, <2>1, <2>2, <2>7
  <2>9. \A i \in DOMAIN wire : wire[i].req < nextStreamId' /\ wire[i].req \notin ToSet(pendingRequests')
    BY <1>1, <2>1, <2>2
  <2>10. k # 0 => readyState'[socket] \in {"OPEN", "CLOSING", "CLOSED"}
    BY <2>3, <2>4, <2>5
  <2>11. SentApart'
    <3> SUFFICES ASSUME NEW i \in DOMAIN wire'
                 PROVE  /\ wire'[i].req < nextStreamId' /\ wire'[i].req \notin ToSet(pendingRequests')
                        /\ readyState'[wire'[i].sock] \in {"OPEN", "CLOSING", "CLOSED"}
      BY DEF SentApart
    <3>1. CASE i \in DOMAIN wire
      BY <3>1, <1>1, <1>2, <2>3, <2>9 DEF WireInv, SentApart
    <3>2. CASE i \notin DOMAIN wire
      <4>1. PICK j \in 1 .. k : wire'[i].req = queue[j] /\ wire'[i].sock = socket
        BY <3>2, <2>3
      <4>2. k # 0
        BY <4>1, <2>1
      <4> QED BY <4>1, <4>2, <2>8, <2>10
    <3> QED BY <3>1, <3>2
  <2>12. SentOnce'
    <3> SUFFICES ASSUME NEW i \in DOMAIN wire', NEW j \in DOMAIN wire', i # j
                 PROVE  wire'[i].req # wire'[j].req
      BY DEF SentOnce
    <3>1. CASE i \in DOMAIN wire /\ j \in DOMAIN wire
      BY <3>1, <1>1, <2>3
    <3>2. CASE i \in DOMAIN wire /\ j \notin DOMAIN wire
      BY <3>2, <2>3, <2>8
    <3>3. CASE i \notin DOMAIN wire /\ j \in DOMAIN wire
      BY <3>3, <2>3, <2>8
    <3>4. CASE i \notin DOMAIN wire /\ j \notin DOMAIN wire
      BY <3>4, <2>1, <2>3, <2>6 DEF IsInjective
    <3> QED BY <3>1, <3>2, <3>3, <3>4
  <2> QED BY <2>11, <2>12 DEF WireInv
<1>4. ASSUME NEW R \in SUBSET Requests, Settles(R) PROVE WireInv'
  BY <1>1, <1>2, <1>4 DEF Settles, WireInv, SentOnce, SentApart
<1> QED BY <1>3, <1>4, QueueSteps

OrderInv == IssueOrder /\ QueueOrder

\* No step sends, or queues, a later request before an earlier one.
LEMMA OrderStep ==
  ASSUME TypeInv, WireInv, OrderInv, [Next]_vars PROVE OrderInv'
<1>1. /\ pendingRequests \in Seq(Requests)
      /\ nextStreamId \in Nat /\ \A r \in Requests : r \in Nat
  BY Elements
<1>a. \A i \in DOMAIN pendingRequests : /\ pendingRequests[i] \in Requests
                                        /\ pendingRequests[i] < nextStreamId
                                        /\ pendingRequests[i] \in ToSet(pendingRequests)
  BY Elements
<1>b. \A r \in ToSet(pendingRequests) : \E i \in DOMAIN pendingRequests : r = pendingRequests[i]
  BY Elements
<1>c. \A i \in DOMAIN wire : wire[i].req < nextStreamId /\ wire[i].req \in Requests
  BY Elements DEF WireInv, SentApart
<1>2. /\ \A i, j \in DOMAIN pendingRequests : i < j => pendingRequests[i] < pendingRequests[j]
      /\ \A i \in DOMAIN wire, r \in ToSet(pendingRequests) : wire[i].req < r \/ wire[i].req \in early
      /\ \A i, j \in DOMAIN wire : i < j => wire[i].req < wire[j].req \/ wire[i].req \in early
  BY DEF OrderInv, IssueOrder, QueueOrder
<1>3. ASSUME NEW cb, NEW ready, NEW n \in Nat, NEW cut \in {0, 1}, Flush(cb, ready, n, cut)
      PROVE  OrderInv'
  <2> DEFINE queue == Flushed(cb, ready)
             k == n + cut
             gone == {queue[i] : i \in 1 .. k}
             all == pendingRequests \o cb
             c == Len(cb)
             m == Len(pendingRequests)
  <2>1. /\ queue \in Seq(Requests) /\ IsInjective(queue) /\ k \in 0 .. Len(queue)
        /\ ToSet(pendingRequests') = (ToSet(pendingRequests) \cup ToSet(cb)) \ gone
        /\ ToSet(cb) \cap ToSet(pendingRequests) = {}
        /\ queue = <<>> \/ queue = cb \o pendingRequests
        /\ InOrderOf(pendingRequests', all)
    BY <1>3, FlushFacts DEF TypeInv
  <2>a. cb \in Seq(Requests) /\ c \in {0, 1}
    BY <1>3, FlushFacts DEF TypeInv
  <2>b. \A r \in ToSet(cb) : r = nextStreamId
    BY <1>3, FlushFacts DEF TypeInv
  <2>c. DOMAIN queue = 1 .. Len(queue) /\ Len(queue) \in Nat /\ k \in Nat /\ k <= Len(queue)
    BY <2>1
  <2>d. \A i \in DOMAIN cb : i = 1 /\ i <= c /\ cb[i] \in ToSet(cb) /\ cb[i] = nextStreamId
    <3>1. \A i \in DOMAIN cb : i = 1 /\ i <= c
      BY <2>a
    <3>2. \A i \in DOMAIN cb : cb[i] \in ToSet(cb)
      BY DEF ToSet
    <3> QED BY <2>b, <3>1, <3>2
  <2>2. /\ \A i \in DOMAIN wire : i \in DOMAIN wire' /\ wire'[i] = wire[i]
        /\ DOMAIN wire' = 1 .. (Len(wire) + k) /\ DOMAIN wire = 1 .. Len(wire)
        /\ \A i \in DOMAIN wire' \ DOMAIN wire : \E j \in 1 .. k : i = Len(wire) + j /\ wire'[i].req = queue[j]
    BY <1>3, WireFacts DEF TypeInv
  <2>3. early \subseteq early' /\ (ToSet(cb) \subseteq early' \/ pendingRequests = <<>> \/ queue = <<>>)
    BY <1>3 DEF Flush
  \* Where a request of the queue comes from.
  <2>4. ASSUME NEW j \in DOMAIN queue
        PROVE  \/ j = 1 /\ c = 1 /\ queue[j] \in ToSet(cb) /\ queue[j] = nextStreamId
               \/ j > c /\ j - c \in DOMAIN pendingRequests /\ queue[j] = pendingRequests[j - c]
    <3>1. queue = cb \o pendingRequests
      <4>1. queue # <<>>
        BY <2>4, <2>c
      <4> QED BY <4>1, <2>1
    <3>2. \/ j <= c /\ j \in DOMAIN cb /\ queue[j] = cb[j]
          \/ j > c /\ j - c \in DOMAIN pendingRequests /\ queue[j] = pendingRequests[j - c]
      <4> DEFINE q == cb \o pendingRequests
      <4>1. queue = q
        BY <3>1
      <4>2. \A i \in DOMAIN q : \/ i <= c /\ i \in DOMAIN cb /\ q[i] = cb[i]
                                \/ i > c /\ i - c \in DOMAIN pendingRequests /\ q[i] = pendingRequests[i - c]
        BY <1>1, <2>a, JoinedAt
      <4> HIDE DEF q, queue, c
      <4> QED BY <2>4, <4>1, <4>2
    <3>3. \A i \in DOMAIN cb : c = 1
      BY <2>a
    <3> HIDE DEF queue, c
    <3> QED BY <3>2, <3>3, <2>d
  <2>e. \A i \in DOMAIN all : \/ i <= m /\ i \in DOMAIN pendingRequests /\ all[i] = pendingRequests[i]
                              \/ i > m /\ i = m + 1 /\ all[i] = nextStreamId
    <3>1. \A i \in DOMAIN all : \/ i <= m /\ i \in DOMAIN pendingRequests /\ all[i] = pendingRequests[i]
                                \/ i > m /\ i - m \in DOMAIN cb /\ all[i] = cb[i - m]
      BY <1>1, <2>a, JoinedAt
    <3>2. \A i \in DOMAIN all : i \in Nat
      BY <1>1, <2>a, JoinedAt
    <3>3. m \in Nat
      BY <1>1
    <3> HIDE DEF all, m
    <3> QED BY <3>1, <3>2, <3>3, <2>d
  <2>f. m \in Nat /\ \A i \in DOMAIN all : i \in Nat
    BY <1>1, <2>a, JoinedAt
  <2> HIDE DEF queue, k, c, all, m, gone
  <2>5. ASSUME NEW a \in DOMAIN queue, NEW b \in DOMAIN queue, a < b
        PROVE  queue[a] < queue[b] \/ queue[a] \in early'
    <3>1. CASE queue[a] \in ToSet(cb)
      <4>1. CASE ToSet(cb) \subseteq early'
        BY <3>1, <4>1
      <4>2. CASE pendingRequests = <<>>
        <5>1. DOMAIN pendingRequests = {}
          BY <4>2
        <5>2. a = 1 /\ b = 1
          BY <5>1, <2>4
        <5> QED BY <5>2, <2>5
      <4>3. queue # <<>>
        BY <2>5
      <4> QED BY <4>1, <4>2, <4>3, <2>3
    <3>2. CASE queue[a] \notin ToSet(cb)
      <4>a. a \in Nat /\ b \in Nat /\ c \in Nat
        BY <2>a, <2>c, <2>5
      <4>1. a > c /\ a - c \in DOMAIN pendingRequests /\ queue[a] = pendingRequests[a - c]
        BY <3>2, <2>4
      <4>2. b > c /\ b - c \in DOMAIN pendingRequests /\ queue[b] = pendingRequests[b - c]
        <5>1. b # 1 \/ c # 1
          BY <4>a, <4>1, <2>5
        <5> QED BY <5>1, <2>4
      <4>3. a - c < b - c
        BY <4>a, <2>5
      <4> QED BY <4>1, <4>2, <4>3, <1>2
    <3> QED BY <3>1, <3>2
  <2>6. ASSUME NEW i \in DOMAIN wire, NEW j \in DOMAIN queue
        PROVE  wire[i].req < queue[j] \/ wire[i].req \in early'
    <3>1. CASE queue[j] = nextStreamId
      BY <3>1, <1>c
    <3>2. CASE j - c \in DOMAIN pendingRequests /\ queue[j] = pendingRequests[j - c]
      BY <3>2, <2>3, <1>a, <1>2
    <3> QED BY <3>1, <3>2, <2>4
  <2>7. IssueOrder'
    <3> SUFFICES ASSUME NEW i \in DOMAIN wire', NEW j \in DOMAIN wire', i < j
                 PROVE  wire'[i].req < wire'[j].req \/ wire'[i].req \in early'
      BY DEF IssueOrder
    <3>a. \A b \in 1 .. k : b \in DOMAIN queue /\ b \in Nat
      BY <2>c
    <3>1. CASE i \in DOMAIN wire /\ j \in DOMAIN wire
      BY <3>1, <1>2, <2>2, <2>3
    <3>2. CASE i \in DOMAIN wire /\ j \notin DOMAIN wire
      <4>1. PICK b \in 1 .. k : wire'[j].req = queue[b]
        BY <3>2, <2>2
      <4> QED BY <3>2, <3>a, <4>1, <2>2, <2>6
    <3>3. CASE i \notin DOMAIN wire
      <4>b. Len(wire) \in Nat
        BY Elements
      <4>1. j \notin DOMAIN wire
        BY <3>3, <4>b, <2>2, <2>c
      <4>2. PICK a \in 1 .. k : i = Len(wire) + a /\ wire'[i].req = queue[a]
        BY <3>3, <2>2
      <4>3. PICK b \in 1 .. k : j = Len(wire) + b /\ wire'[j].req = queue[b]
        BY <4>1, <2>2
      <4>4. a < b
        BY <3>a, <4>2, <4>3, <4>b
      <4> QED BY <3>a, <4>2, <4>3, <4>4, <2>5
    <3> QED BY <3>1, <3>2, <3>3
  <2>8. \A i, j \in DOMAIN pendingRequests' : i < j => pendingRequests'[i] < pendingRequests'[j]
    <3>1. ASSUME NEW i \in DOMAIN all, NEW j \in DOMAIN all, i < j PROVE all[i] < all[j]
      <4>1. i <= m /\ i \in DOMAIN pendingRequests /\ all[i] = pendingRequests[i]
        <5>1. i # m + 1 \/ j # m + 1
          BY <3>1, <2>f
        <5>2. CASE j # m + 1
          <6>1. j <= m
            BY <5>2, <2>e
          <6>2. ~(i > m)
            BY <6>1, <3>1, <2>f
          <6> QED BY <6>2, <2>e
        <5>3. CASE i # m + 1
          BY <5>3, <2>e
        <5> QED BY <5>1, <5>2, <5>3
      <4>2. CASE j <= m /\ j \in DOMAIN pendingRequests /\ all[j] = pendingRequests[j]
        BY <4>1, <4>2, <3>1, <1>2
      <4>3. CASE all[j] = nextStreamId
        BY <4>1, <4>3, <1>a
      <4> QED BY <4>2, <4>3, <2>e
    <3> QED BY <2>1, <3>1 DEF InOrderOf
  <2>9. ASSUME NEW i \in DOMAIN wire', NEW r \in ToSet(pendingRequests')
        PROVE  wire'[i].req < r \/ wire'[i].req \in early'
    <3>1. CASE i \in DOMAIN wire
      <4>1. CASE r \in ToSet(pendingRequests)
        BY <3>1, <4>1, <1>2, <2>2, <2>3
      <4>2. CASE r \in ToSet(cb)
        BY <3>1, <4>2, <1>c, <2>2, <2>b
      <4> QED BY <4>1, <4>2, <2>1, <2>9
    <3>2. CASE i \notin DOMAIN wire
      <4>1. PICK a \in 1 .. k : wire'[i].req = queue[a]
        BY <3>2, <2>2
      <4>2. a \in DOMAIN queue /\ queue # <<>>
        BY <4>1, <2>c
      <4>3. ToSet(queue) = ToSet(cb) \cup ToSet(pendingRequests)
        <5>1. queue = cb \o pendingRequests
          BY <4>2, <2>1
        <5>2. IsInjective(pendingRequests)
          BY DEF TypeInv, NoCallLost
        <5>3. IsInjective(cb)
          BY <2>d DEF IsInjective
        <5> QED BY <5>1, <5>2, <5>3, <1>1, <2>1, <2>a, JoinedFacts
      <4>4. r \in ToSet(queue) /\ r \notin gone
        BY <4>3, <2>1, <2>9
      <4>5. PICK b \in DOMAIN queue : r = queue[b]
        BY <4>4 DEF ToSet
      <4>6. b \notin 1 .. k
        BY <4>4, <4>5 DEF gone
      <4>7. a < b
        BY <4>1, <4>5, <4>6, <2>c
      <4> QED BY <4>1, <4>2, <4>5, <4>7, <2>5
    <3> QED BY <3>1, <3>2
  <2> QED BY <2>7, <2>8, <2>9 DEF OrderInv, QueueOrder
<1>4. ASSUME NEW R \in SUBSET Requests, Settles(R) PROVE OrderInv'
  <2>1. /\ UNCHANGED <<wire, early>> /\ ToSet(pendingRequests') \subseteq ToSet(pendingRequests)
        /\ InOrderOf(pendingRequests', pendingRequests)
    BY <1>4 DEF Settles
  <2>2. \A i, j \in DOMAIN pendingRequests' : i < j => pendingRequests'[i] < pendingRequests'[j]
    BY <1>2, <2>1 DEF InOrderOf
  <2> QED BY <1>2, <2>1, <2>2 DEF OrderInv, IssueOrder, QueueOrder
<1> QED BY <1>3, <1>4, QueueSteps

-----------------------------------------------------------------------------
(* Connections.                                                            *)

\* A registered stream keeps a carrier: a handler is dropped, and a socket with
\* a handler closes, only in a step that fails every registered stream.
LEMMA CarrierStep ==
  ASSUME TypeInv, CarrierCanEnd, [Next]_vars PROVE CarrierCanEnd'
<1> USE DEF sockets, timers, streams, issued, sent, wishes, server
<1>1. /\ readyState \in [Sockets -> ReadyStates \cup {"none"}] /\ socket \in Sockets \cup {NoSocket}
      /\ onclose \subseteq Sockets
      /\ socket # NoSocket => socket \in onclose
      /\ \A i \in DOMAIN wire : wire[i].sock \in Sockets
      /\ streamMap \subseteq Requests
  BY Elements DEF TypeInv, TypeOK, SocketShape
<1> DEFINE Carries(s) == s \in onclose /\ readyState[s] \in {"OPEN", "CLOSING"}
           CarriesNext(s) == s \in onclose' /\ readyState'[s] \in {"OPEN", "CLOSING"}
<1>2. ASSUME streamMap' \subseteq streamMap, wire' = wire, \A s \in Sockets : Carries(s) => CarriesNext(s)
      PROVE  CarrierCanEnd'
  BY <1>1, <1>2 DEF CarrierCanEnd
<1>3. ASSUME streamMap' = {} PROVE CarrierCanEnd'
  BY <1>3 DEF CarrierCanEnd
<1>4. ASSUME NEW cb, NEW ready, NEW n \in Nat, NEW cut \in {0, 1}, Flush(cb, ready, n, cut)
      PROVE  CarrierCanEnd'
  <2> DEFINE queue == Flushed(cb, ready)
             k == n + cut
  <2>1. /\ n \in 0 .. Len(queue) /\ k \in Nat /\ n <= k /\ onclose' = onclose /\ socket' = socket
        /\ streamMap' = streamMap \cup {queue[i] : i \in 1 .. n}
        /\ readyState' = IF n < Len(queue) THEN [ready EXCEPT ![socket] = "CLOSING"] ELSE ready
    BY <1>4 DEF Flush
  <2>2. /\ k # 0 => socket \in Sockets /\ ready[socket] = "OPEN"
        /\ \A i \in DOMAIN wire : i \in DOMAIN wire' /\ wire'[i] = wire[i]
        /\ \A j \in 1 .. k : /\ Len(wire) + j \in DOMAIN wire' \ DOMAIN wire
                             /\ wire'[Len(wire) + j].req = queue[j]
                             /\ wire'[Len(wire) + j].sock = socket
    <3>1. /\ k # 0 => socket \in Sockets /\ ready[socket] = "OPEN"
          /\ \A i \in DOMAIN wire : i \in DOMAIN wire' /\ wire'[i] = wire[i]
      BY <1>4, WireFacts DEF TypeInv
    <3>2. \A j \in 1 .. k : /\ Len(wire) + j \in DOMAIN wire' \ DOMAIN wire
                             /\ wire'[Len(wire) + j].req = queue[j]
                             /\ wire'[Len(wire) + j].sock = socket
      BY <1>4, WireFacts DEF TypeInv
    <3> QED BY <3>1, <3>2
  <2>3. /\ ready \in [Sockets -> ReadyStates \cup {"none"}]
        /\ \A s \in Sockets : readyState[s] \in {"OPEN", "CLOSING"} => ready[s] \in {"OPEN", "CLOSING"}
    BY <1>1, <1>4 DEF Flush, Opened, ReadyStates
  <2> HIDE DEF queue, k
  <2>4. \A s \in Sockets : ready[s] \in {"OPEN", "CLOSING"} => readyState'[s] \in {"OPEN", "CLOSING"}
    BY <2>1, <2>3
  <2> SUFFICES ASSUME NEW r \in streamMap'
               PROVE  \E i \in DOMAIN wire' : wire'[i].req = r /\ CarriesNext(wire'[i].sock)
    BY DEF CarrierCanEnd
  <2>5. CASE r \in streamMap
    <3>1. PICK i \in DOMAIN wire : wire[i].req = r /\ Carries(wire[i].sock)
      BY <2>5 DEF CarrierCanEnd
    <3> QED BY <3>1, <1>1, <2>1, <2>2, <2>3, <2>4
  <2>6. ASSUME NEW j \in 1 .. n, r = queue[j]
        PROVE  \E i \in DOMAIN wire' : wire'[i].req = r /\ CarriesNext(wire'[i].sock)
    <3>1. j \in 1 .. k /\ k # 0
      BY <2>1, <2>6
    <3>2. socket \in onclose
      BY <1>1, <2>2, <3>1, ClientAssumption DEF NoSocket, Sockets
    <3> QED BY <2>1, <2>2, <2>4, <2>6, <3>1, <3>2
  <2> QED BY <2>1, <2>5, <2>6
<1>5. Closing(socket) \in [Sockets -> ReadyStates \cup {"none"}]
      /\ \A s \in Sockets : readyState[s] \in {"OPEN", "CLOSING"} => Closing(socket)[s] \in {"OPEN", "CLOSING"}
  BY <1>1 DEF Closing, Live, ReadyStates
<1>6. ASSUME NEW handlers, NEW ready \in {readyState, Closing(socket)}, onclose \subseteq handlers,
             AttemptConnection(ready, handlers), wire' = wire, streamMap' \subseteq streamMap
      PROVE  CarrierCanEnd'
  <2>1. PICK t \in Sockets : /\ \A u \in Sockets : readyState[u] # "none" <=> u < t
                             /\ readyState' = [ready EXCEPT ![t] = "CONNECTING"]
                             /\ onclose' = handlers \cup {t}
    BY <1>6, Attempt DEF TypeInv
  <2>2. readyState[t] = "none"
    BY <2>1, ClientAssumption DEF Sockets
  <2>3. ASSUME NEW s \in Sockets, Carries(s) PROVE CarriesNext(s)
    BY <1>1, <1>5, <1>6, <2>1, <2>2, <2>3
  <2> QED BY <1>2, <1>6, <2>3
<1>7. ASSUME NEW b \in BOOLEAN, Connect(b) PROVE CarrierCanEnd'
  BY <1>6, <1>7 DEF Connect
<1>8. CASE Disconnect \/ Exhausted \/ WatchdogFires
  BY <1>1, <1>2, <1>5, <1>8 DEF Disconnect, Exhausted, WatchdogFires
<1>9. CASE Reconnect
  <2>1. CASE socket = NoSocket
    <3>1. onclose \subseteq Forget(socket)
      BY <1>1, <2>1, ClientAssumption DEF Forget, NoSocket, Sockets
    <3> QED BY <1>6, <1>9, <2>1, <3>1 DEF Reconnect
  <2>2. CASE socket # NoSocket
    BY <1>3, <1>9, <2>2 DEF Reconnect, ErrorOutActiveStreams
  <2> QED BY <2>1, <2>2
<1>10. CASE OpenStream
  BY <1>4, <1>10, OpenStreamFlushes DEF TypeInv
<1>11. ASSUME NEW r \in Requests, Subscribe(r) \/ Unsubscribe(r) PROVE CarrierCanEnd'
  BY <1>2, <1>11 DEF Subscribe, Unsubscribe
<1>12. ASSUME NEW s \in Sockets, OnOpen(s) PROVE CarrierCanEnd'
  BY <1>4, <1>12, OnOpenFlushes DEF TypeInv
<1>13. ASSUME NEW s \in Sockets, OnClose(s) PROVE CarrierCanEnd'
  BY <1>1, <1>2, <1>3, <1>13 DEF OnClose, ErrorOutActiveStreams
<1>14. ASSUME NEW s \in Sockets, OnPong(s) \/ PeerCloses(s) \/ PeerGoesSilent(s) PROVE CarrierCanEnd'
  BY <1>1, <1>2, <1>14 DEF OnPong, PeerCloses, PeerGoesSilent
<1>15. ASSUME NEW s \in Sockets, NEW r \in Requests, NEW outcome, OnEnd(s, r, outcome)
       PROVE  CarrierCanEnd'
  BY <1>2, <1>15 DEF OnEnd
<1>16. CASE ReconnectFires
  <2>1. CASE WillRetry
    BY <1>6, <1>16, <2>1 DEF ReconnectFires
  <2>2. CASE ~WillRetry
    BY <1>2, <1>16, <2>2 DEF ReconnectFires
  <2> QED BY <2>1, <2>2
<1>17. CASE PingFires \/ UNCHANGED vars
  BY <1>2, <1>17 DEF PingFires, vars
<1> QED BY <1>7, <1>8, <1>9, <1>10, <1>11, <1>12, <1>13, <1>14, <1>15, <1>16, <1>17, Steps

\* What is left of reconnection after disconnect(), and what keeps it going.
RetryInv == SomethingComes /\ (app = "disconnected" => ~reconnectionEnabled)

\* Every step leaves something to come for a client that wants a connection.
LEMMA RetryStep ==
  ASSUME TypeInv, RetryInv, [Next]_vars PROVE RetryInv'
<1> USE DEF sockets, timers, streams, issued, sent, wishes, server
<1>1. ASSUME UNCHANGED wishes,
             socket' = socket, reconnectTimer' = reconnectTimer, lostReconnects' = lostReconnects
      PROVE  RetryInv'
  BY <1>1 DEF RetryInv, SomethingComes
<1>2. ASSUME NEW handlers, NEW ready, AttemptConnection(ready, handlers)
      PROVE  socket' # NoSocket
  BY <1>2, ClientAssumption DEF AttemptConnection, NoSocket, Sockets
<1>3. ASSUME NEW b \in BOOLEAN, Connect(b) PROVE RetryInv'
  BY <1>2, <1>3 DEF Connect, RetryInv, SomethingComes
<1>4. CASE Disconnect
  BY <1>4 DEF Disconnect, RetryInv, SomethingComes
<1>5. CASE Reconnect
  BY <1>2, <1>5 DEF Reconnect, RetryInv, SomethingComes
<1>6. CASE OpenStream
  BY <1>1, <1>6 DEF OpenStream
<1>7. ASSUME NEW s \in Sockets, OnOpen(s) PROVE RetryInv'
  BY <1>1, <1>7 DEF OnOpen
<1>8. ASSUME NEW s \in Sockets, OnClose(s) PROVE RetryInv'
  <2>1. CASE s \in onclose
    BY <1>8, <2>1 DEF OnClose, WillRetry, RetryInv, SomethingComes
  <2>2. CASE s \notin onclose
    BY <1>1, <1>8, <2>2 DEF OnClose
  <2> QED BY <2>1, <2>2
<1>9. CASE ReconnectFires
  <2>1. CASE WillRetry
    BY <1>2, <1>9, <2>1 DEF ReconnectFires, RetryInv, SomethingComes
  <2>2. CASE ~WillRetry
    BY <1>9, <2>2 DEF ReconnectFires, WillRetry, RetryInv, SomethingComes
  <2> QED BY <2>1, <2>2
<1>10. ASSUME NEW r \in Requests, Subscribe(r) \/ Unsubscribe(r) PROVE RetryInv'
  BY <1>1, <1>10 DEF Subscribe, Unsubscribe
<1>11. ASSUME NEW s \in Sockets, OnPong(s) \/ PeerCloses(s) \/ PeerGoesSilent(s) PROVE RetryInv'
  BY <1>1, <1>11 DEF OnPong, PeerCloses, PeerGoesSilent
<1>12. ASSUME NEW s \in Sockets, NEW r \in Requests, NEW outcome, OnEnd(s, r, outcome) PROVE RetryInv'
  BY <1>1, <1>12 DEF OnEnd
<1>13. CASE PingFires \/ WatchdogFires \/ Exhausted \/ UNCHANGED vars
  BY <1>1, <1>13 DEF PingFires, WatchdogFires, Exhausted, vars
<1> QED BY <1>3, <1>4, <1>5, <1>6, <1>7, <1>8, <1>9, <1>10, <1>11, <1>12, <1>13, Steps

\* That connect() was called again is not forgotten.
LEMMA AgainStays ==
  ASSUME [Next]_vars, again PROVE again'
<1>1. CASE UNCHANGED again
  BY <1>1
<1>2. CASE ~UNCHANGED again
  BY <1>2, Steps DEF Connect, Disconnect, Reconnect, OpenStream, Exhausted, Subscribe, Unsubscribe,
     OnOpen, OnClose, OnPong, PeerCloses, PeerGoesSilent, OnEnd, ReconnectFires, PingFires,
     WatchdogFires, vars, wishes
<1> QED BY <1>1, <1>2

\* One call of connect(): a socket that connects or is open is this.socket, so
\* that no handler of another one runs while there is a connection.
LEMMA OnceStep ==
  ASSUME TypeInv, RetryInv, again \/ ConnectedOnce, [Next]_vars PROVE again' \/ ConnectedOnce'
<1> USE DEF sockets, timers, streams, issued, sent, wishes, server
<1> SUFFICES ASSUME ~again, ~again', ConnectedOnce PROVE ConnectedOnce'
  BY AgainStays
<1>1. /\ readyState \in [Sockets -> ReadyStates \cup {"none"}] /\ socket \in Sockets \cup {NoSocket}
      /\ onclose \subseteq Sockets /\ app \in AppStates
      /\ socket # NoSocket => socket \in onclose /\ readyState[socket] \in {"CONNECTING", "OPEN", "CLOSING"}
      /\ \A s \in onclose : readyState[s] # "none"
  BY DEF TypeInv, TypeOK, SocketShape
<1>2. NoSocket \notin Sockets
  BY ClientAssumption DEF NoSocket, Sockets
<1>3. app = "disconnected" => ~reconnectionEnabled
  BY DEF RetryInv
\* The socket the client creates is the only one that lives.
<1>4. ASSUME NEW handlers \in SUBSET Sockets, NEW ready \in [Sockets -> ReadyStates \cup {"none"}],
             AttemptConnection(ready, handlers),
             \A s \in Sockets : ready[s] \notin {"CONNECTING", "OPEN"},
             \A s \in handlers : ready[s] # "CLOSING"
      PROVE  \E t \in Sockets :
               /\ socket' = t /\ readyState' = [ready EXCEPT ![t] = "CONNECTING"]
               /\ OneSocket' /\ \A s \in onclose' : readyState'[s] # "CLOSING"
  <2>1. PICK t \in Sockets : /\ socket' = t /\ readyState' = [ready EXCEPT ![t] = "CONNECTING"]
                             /\ onclose' = handlers \cup {t}
    BY <1>4, Attempt DEF TypeInv
  <2>2. \A s \in Sockets : s # t => readyState'[s] = ready[s]
    BY <2>1
  <2> QED BY <1>4, <2>1, <2>2 DEF OneSocket, Live
\* A step that moves sockets on and leaves the rest of the connection alone.
<1>5. ASSUME UNCHANGED <<app, reconnectionEnabled, socket, reconnectTimer, lostReconnects, connected,
                         pingTimer, lostPings, onclose>>,
             readyState' \in [Sockets -> ReadyStates \cup {"none"}],
             \A s \in Sockets : \/ readyState'[s] = readyState[s]
                                \/ s = socket /\ readyState'[s] = "CLOSING"
                                \/ /\ s \notin onclose /\ readyState[s] # "none"
                                   /\ readyState'[s] = "CLOSED"
      PROVE  ConnectedOnce'
  <2>1. \A s \in Sockets : readyState'[s] = "none" <=> readyState[s] = "none"
    BY <1>1, <1>2, <1>5
  <2>2. OneSocket'
    BY <1>1, <1>5 DEF ConnectedOnce, OneSocket, Live
  <2>3. \A s \in onclose' : readyState'[s] = "CLOSING" => s = socket' \/ app' = "disconnected"
    BY <1>1, <1>5 DEF ConnectedOnce
  <2>4. connected' => socket' # NoSocket /\ readyState'[socket'] # "CONNECTING"
    BY <1>1, <1>5 DEF ConnectedOnce
  <2> QED BY <1>5, <2>1, <2>2, <2>3, <2>4 DEF ConnectedOnce
<1>6. ASSUME NEW b \in BOOLEAN, Connect(b) PROVE ConnectedOnce'
  <2>1. app = "fresh" /\ app' = "live" /\ AttemptConnection(readyState, onclose)
    BY <1>6 DEF Connect
  <2>2. /\ \A s \in Sockets : readyState[s] = "none"
        /\ onclose = {} /\ socket = NoSocket /\ ~pingTimer /\ ~reconnectTimer /\ ~connected
    BY <1>1, <2>1 DEF ConnectedOnce
  <2>3. PICK t \in Sockets : /\ socket' = t /\ OneSocket' /\ \A s \in onclose' : readyState'[s] # "CLOSING"
    BY <1>1, <1>4, <2>1, <2>2
  <2>4. UNCHANGED <<connected, reconnectTimer, lostReconnects, pingTimer, lostPings>>
    BY <1>6 DEF Connect
  <2> QED BY <2>1, <2>2, <2>3, <2>4 DEF ConnectedOnce
<1>7. ASSUME Disconnect PROVE ConnectedOnce'
  <2>1. /\ app' = IF app = "fresh" THEN "fresh" ELSE "disconnected"
        /\ ~reconnectionEnabled' /\ ~pingTimer' /\ ~reconnectTimer' /\ socket' = NoSocket
        /\ readyState' = Closing(socket) /\ connected' = (connected /\ socket = NoSocket)
        /\ UNCHANGED <<onclose, lostReconnects, lostPings>>
    BY <1>7 DEF Disconnect, StopPing, ClearReconnect
  <2>2. /\ \A s \in Sockets : readyState'[s] \notin {"CONNECTING", "OPEN"}
        /\ \A s \in Sockets : readyState[s] = "none" => readyState'[s] = "none"
    BY <1>1, <1>2, <2>1 DEF ConnectedOnce, OneSocket, Live, Closing
  <2> QED BY <1>1, <2>1, <2>2 DEF ConnectedOnce, OneSocket, Live
<1>8. ASSUME Reconnect PROVE ConnectedOnce'
  <2>1. /\ app = "live" /\ app' = "live" /\ ~pingTimer' /\ ~reconnectTimer' /\ UNCHANGED <<lostPings, lostReconnects>>
        /\ AttemptConnection(Closing(socket), Forget(socket))
        /\ IF socket = NoSocket THEN connected' = connected ELSE connected' = FALSE
    BY <1>8 DEF Reconnect, StopPing, ClearReconnect
  <2>2. /\ Closing(socket) \in [Sockets -> ReadyStates \cup {"none"}]
        /\ \A s \in Sockets : Closing(socket)[s] \notin {"CONNECTING", "OPEN"}
        /\ \A s \in Sockets : s # socket => Closing(socket)[s] = readyState[s]
    BY <1>1, <1>2 DEF ConnectedOnce, OneSocket, Live, Closing, ReadyStates
  <2>3. \A s \in Forget(socket) : Closing(socket)[s] # "CLOSING"
    BY <1>1, <2>1, <2>2 DEF ConnectedOnce, Forget
  <2>4. PICK t \in Sockets : /\ socket' = t /\ OneSocket' /\ \A s \in onclose' : readyState'[s] # "CLOSING"
    BY <1>1, <1>4, <2>1, <2>2, <2>3 DEF Forget
  <2>5. ~connected'
    BY <2>1 DEF ConnectedOnce
  <2> QED BY <1>2, <2>1, <2>4, <2>5 DEF ConnectedOnce
<1>9. ASSUME OpenStream PROVE ConnectedOnce'
  <2>1. PICK n \in Nat, cut \in {0, 1} :
          /\ Flush(<<nextStreamId>>, readyState, n, cut)
          /\ UNCHANGED <<connected, pingTimer, lostPings>>
    BY <1>9, OpenStreamFlushes DEF TypeInv
  <2>2. /\ UNCHANGED <<socket, onclose, reconnectTimer, lostReconnects, app, reconnectionEnabled>>
        /\ readyState' = readyState \/ readyState' = [readyState EXCEPT ![socket] = "CLOSING"]
    BY <2>1 DEF Flush
  <2> QED BY <1>1, <1>5, <2>1, <2>2 DEF ReadyStates
<1>10. ASSUME NEW s \in Sockets, OnOpen(s) PROVE ConnectedOnce'
  <2>1. PICK cb : \E n \in Nat, cut \in {0, 1} :
          /\ Flush(cb, Opened(s), n, cut)
          /\ readyState[s] = "CONNECTING" /\ connected' = TRUE /\ pingTimer' = TRUE
          /\ lostPings' = Plus(lostPings, pingTimer)
    BY <1>10, OnOpenFlushes DEF TypeInv
  <2>2. s = socket /\ app = "live" /\ ~connected /\ ~pingTimer /\ ~reconnectTimer
    BY <1>1, <1>2, <2>1 DEF ConnectedOnce, OneSocket, Live, AppStates
  <2>3. /\ UNCHANGED <<socket, onclose, reconnectTimer, lostReconnects, app, reconnectionEnabled>>
        /\ \/ readyState' = Opened(s)
           \/ readyState' = [Opened(s) EXCEPT ![socket] = "CLOSING"]
    BY <2>1 DEF Flush
  <2>4. /\ \A t \in Sockets : t # s => readyState'[t] = readyState[t]
        /\ readyState'[s] \in {"OPEN", "CLOSING"}
    BY <1>1, <2>2, <2>3 DEF Opened
  <2>5. connected' = TRUE /\ pingTimer' = TRUE /\ lostPings' = 0
    BY <2>1, <2>2 DEF ConnectedOnce, Plus
  <2> QED BY <1>1, <1>2, <2>2, <2>3, <2>4, <2>5 DEF ConnectedOnce, OneSocket, Live
<1>11. ASSUME NEW s \in Sockets, OnClose(s) PROVE ConnectedOnce'
  <2>1. /\ readyState[s] \in {"CONNECTING", "OPEN", "CLOSING"}
        /\ readyState' = [readyState EXCEPT ![s] = "CLOSED"]
        /\ UNCHANGED <<onclose, app, reconnectionEnabled>>
    BY <1>11 DEF OnClose
  <2>2. CASE s \notin onclose
    <3>1. UNCHANGED <<socket, connected, timers>>
      BY <1>11, <2>2 DEF OnClose
    <3> QED BY <1>1, <1>5, <2>1, <2>2, <3>1 DEF ReadyStates
  <2>3. CASE s \in onclose
    <3>1. /\ connected' = FALSE /\ socket' = NoSocket /\ ~pingTimer' /\ UNCHANGED lostPings
          /\ reconnectTimer' = (reconnectTimer \/ reconnectionEnabled)
          /\ lostReconnects' = Plus(lostReconnects, reconnectTimer /\ reconnectionEnabled)
      BY <1>11, <2>3 DEF OnClose, StopPing, WillRetry
    <3>2. s = socket \/ app = "disconnected"
      BY <2>1, <2>3 DEF ConnectedOnce, OneSocket, Live
    <3>3. app # "fresh" /\ ~(reconnectTimer /\ reconnectionEnabled)
      BY <1>2, <1>3, <2>1, <3>2 DEF ConnectedOnce
    <3>4. \A t \in Sockets : readyState'[t] = IF t = s THEN "CLOSED" ELSE readyState[t]
      BY <1>1, <2>1
    <3>5. OneSocket' /\ \A t \in onclose' : readyState'[t] = "CLOSING" => app' = "disconnected"
      BY <1>1, <1>2, <2>1, <3>2, <3>4 DEF ConnectedOnce, OneSocket, Live
    <3>6. lostReconnects' = 0
      BY <3>1, <3>3 DEF ConnectedOnce, Plus
    <3>7. app = "disconnected" => ~reconnectTimer'
      BY <1>3, <3>1 DEF ConnectedOnce
    <3> QED BY <2>1, <3>1, <3>3, <3>5, <3>6, <3>7 DEF ConnectedOnce
  <2> QED BY <2>2, <2>3
<1>12. ASSUME ReconnectFires PROVE ConnectedOnce'
  <2>1. /\ reconnectTimer /\ reconnectTimer' = FALSE
        /\ UNCHANGED <<lostReconnects, connected, pingTimer, lostPings, app, reconnectionEnabled>>
        /\ socket = NoSocket /\ app = "live" /\ ~connected /\ ~pingTimer
    <3>1. reconnectTimer /\ reconnectTimer' = FALSE /\ UNCHANGED lostReconnects
      BY <1>12 DEF ReconnectFires, ConnectedOnce
    <3> QED BY <1>1, <1>12, <3>1 DEF ReconnectFires, ConnectedOnce, AppStates
  <2>2. \A t \in Sockets : readyState[t] \notin {"CONNECTING", "OPEN"}
    BY <1>2, <2>1 DEF ConnectedOnce, OneSocket, Live
  <2>3. \A t \in onclose : readyState[t] # "CLOSING"
    BY <1>1, <1>2, <2>1 DEF ConnectedOnce
  <2>4. CASE WillRetry
    <3>1. PICK t \in Sockets : /\ socket' = t /\ OneSocket' /\ \A u \in onclose' : readyState'[u] # "CLOSING"
      BY <1>1, <1>4, <1>12, <2>2, <2>3, <2>4 DEF ReconnectFires
    <3> QED BY <2>1, <3>1 DEF ConnectedOnce
  <2>5. CASE ~WillRetry
    <3>1. UNCHANGED <<socket, readyState, onclose>>
      BY <1>12, <2>5 DEF ReconnectFires
    <3> QED BY <2>1, <3>1 DEF ConnectedOnce, OneSocket, Live
  <2> QED BY <2>4, <2>5
<1>13. ASSUME NEW s \in Sockets, PeerCloses(s) PROVE ConnectedOnce'
  <2>1. s = socket
    BY <1>13 DEF PeerCloses, ConnectedOnce, OneSocket, Live
  <2> QED BY <1>1, <1>5, <1>13, <2>1 DEF PeerCloses, ReadyStates
<1>14. ASSUME Exhausted \/ WatchdogFires PROVE ConnectedOnce'
  <2>1. /\ UNCHANGED <<app, reconnectionEnabled, socket, reconnectTimer, lostReconnects, connected,
                       pingTimer, lostPings, onclose>>
        /\ readyState' = Closing(socket)
    BY <1>14 DEF Exhausted, WatchdogFires
  <2> QED BY <1>1, <1>5, <2>1 DEF Closing, ReadyStates
<1>15. ASSUME UNCHANGED <<app, reconnectionEnabled, reconnectTimer, lostReconnects, pingTimer, lostPings>>,
              UNCHANGED sockets
       PROVE  ConnectedOnce'
  BY <1>1, <1>5, <1>15
<1>16. ASSUME NEW r \in Requests, Subscribe(r) \/ Unsubscribe(r) PROVE ConnectedOnce'
  BY <1>15, <1>16 DEF Subscribe, Unsubscribe
<1>17. ASSUME NEW s \in Sockets, OnPong(s) \/ PeerGoesSilent(s) PROVE ConnectedOnce'
  BY <1>15, <1>17 DEF OnPong, PeerGoesSilent
<1>18. ASSUME NEW s \in Sockets, NEW r \in Requests, NEW outcome, OnEnd(s, r, outcome) PROVE ConnectedOnce'
  BY <1>15, <1>18 DEF OnEnd
<1>19. ASSUME PingFires \/ UNCHANGED vars PROVE ConnectedOnce'
  BY <1>15, <1>19 DEF PingFires, vars
<1> QED BY <1>6, <1>7, <1>8, <1>9, <1>10, <1>11, <1>12, <1>13, <1>14, <1>16, <1>17, <1>18, <1>19, Steps

\* The teardown of an Observable resets its stream on the socket that carries
\* it: that socket, if it is open still, is this.socket.
LEMMA CancelStep ==
  ASSUME TypeInv, WireInv, again \/ ConnectedOnce, CancelReachesServer, [Next]_vars
  PROVE  CancelReachesServer'
<1> USE DEF sockets, timers, streams, issued, sent, wishes, server
<1> SUFFICES ASSUME ~again, ConnectedOnce PROVE CancelReachesServer'
  BY AgainStays DEF CancelReachesServer
<1>1. /\ \A i \in DOMAIN wire : wire[i].req \in Requests /\ wire[i].sock \in Sockets
      /\ \A i \in DOMAIN wire : readyState[wire[i].sock] \in {"OPEN", "CLOSING", "CLOSED"}
      /\ call \in [Requests -> {"none", "waiting", "ok", "failed", "cancelled"}]
      /\ streamMap \subseteq Requests /\ ToSet(pendingRequests) \subseteq Requests
      /\ \A i \in DOMAIN wire :
            call[wire[i].req] = "cancelled" /\ readyState[wire[i].sock] = "OPEN"
                => <<wire[i].req, wire[i].sock>> \in resets
  BY Elements DEF WireInv, SentApart, CancelReachesServer, TypeInv, TypeOK
<1>2. \A s \in Sockets : readyState[s] \in {"OPEN", "CLOSING", "CLOSED"} /\ readyState'[s] = "OPEN"
                            => readyState[s] = "OPEN"
  BY Forward
<1>3. ASSUME wire' = wire, resets \subseteq resets',
             \A r \in Requests : call'[r] = "cancelled" => call[r] = "cancelled"
      PROVE  CancelReachesServer'
  BY <1>1, <1>2, <1>3 DEF CancelReachesServer
<1>4. ASSUME NEW cb, NEW ready, NEW n \in Nat, NEW cut \in {0, 1}, Flush(cb, ready, n, cut)
      PROVE  CancelReachesServer'
  <2> DEFINE queue == Flushed(cb, ready)
             k == n + cut
             part == {queue[i] : i \in (n + 1) .. k}
  <2>1. /\ \A i \in DOMAIN wire : i \in DOMAIN wire' /\ wire'[i] = wire[i]
        /\ \A i \in DOMAIN wire' \ DOMAIN wire :
              \E j \in 1 .. k : wire'[i].req = queue[j] /\ wire'[i].sock = socket
    BY <1>4, WireFacts DEF TypeInv
  <2>2. /\ queue \in Seq(Requests) /\ k \in 0 .. Len(queue)
        /\ ToSet(queue) \subseteq ToSet(pendingRequests) \cup ToSet(cb)
    BY <1>4, FlushFacts DEF TypeInv
  <2>3. \A r \in ToSet(cb) : r \in Requests
    BY <1>4, FlushFacts DEF TypeInv
  <2>4. \A j \in 1 .. k : queue[j] \in ToSet(queue)
    BY <2>2 DEF ToSet
  <2>5. /\ resets' = resets
        /\ call' = [r \in Requests |->
                      IF r \in part THEN "failed" ELSE IF r \in ToSet(cb) THEN "waiting" ELSE call[r]]
    BY <1>4 DEF Flush
  <2>6. \A r \in ToSet(pendingRequests) : call[r] # "cancelled"
    BY DEF TypeInv, NoCallLost
  <2> HIDE DEF queue, k, part
  <2>7. \A j \in 1 .. k : call'[queue[j]] # "cancelled"
    BY <1>1, <2>2, <2>3, <2>4, <2>5, <2>6
  <2>8. \A r \in Requests : call'[r] = "cancelled" => call[r] = "cancelled"
    BY <2>5
  <2> SUFFICES ASSUME NEW i \in DOMAIN wire', call'[wire'[i].req] = "cancelled",
                      readyState'[wire'[i].sock] = "OPEN"
               PROVE  <<wire'[i].req, wire'[i].sock>> \in resets'
    BY DEF CancelReachesServer
  <2>9. i \in DOMAIN wire
    BY <2>1, <2>7
  <2> QED BY <1>1, <1>2, <2>1, <2>5, <2>8, <2>9
<1>5. ASSUME NEW r \in Requests, Unsubscribe(r) PROVE CancelReachesServer'
  <2>1. /\ wire' = wire /\ readyState' = readyState
        /\ call' = Settle({r}, "cancelled") /\ Teardown(r)
    BY <1>5 DEF Unsubscribe
  <2> SUFFICES ASSUME NEW i \in DOMAIN wire, call'[wire[i].req] = "cancelled",
                      readyState[wire[i].sock] = "OPEN"
               PROVE  <<wire[i].req, wire[i].sock>> \in resets'
    BY <2>1 DEF CancelReachesServer
  <2>2. CASE wire[i].req = r
    <3>1. wire[i].sock = socket /\ socket \in Sockets
      BY <1>1 DEF ConnectedOnce, OneSocket, Live
    <3>2. IsOpen(socket, readyState)
      BY <3>1, ClientAssumption DEF IsOpen, NoSocket, Sockets
    <3> QED BY <2>1, <2>2, <3>1, <3>2 DEF Teardown
  <2>3. CASE wire[i].req # r
    BY <1>1, <2>1, <2>3 DEF Settle, Teardown
  <2> QED BY <2>2, <2>3
<1>6. ASSUME NEW b \in BOOLEAN, Connect(b) PROVE CancelReachesServer'
  BY <1>3, <1>6 DEF Connect
<1>7. ASSUME Disconnect PROVE CancelReachesServer'
  BY <1>1, <1>3, <1>7 DEF Disconnect, Settle
<1>8. ASSUME Reconnect PROVE CancelReachesServer'
  BY <1>1, <1>3, <1>8 DEF Reconnect, ErrorOutActiveStreams, Settle
<1>9. CASE OpenStream
  BY <1>4, <1>9, OpenStreamFlushes DEF TypeInv
<1>10. ASSUME NEW s \in Sockets, OnOpen(s) PROVE CancelReachesServer'
  BY <1>4, <1>10, OnOpenFlushes DEF TypeInv
<1>11. ASSUME NEW r \in Requests, Subscribe(r) PROVE CancelReachesServer'
  BY <1>3, <1>11 DEF Subscribe, Teardown
<1>12. ASSUME NEW s \in Sockets, OnClose(s) PROVE CancelReachesServer'
  BY <1>1, <1>3, <1>12 DEF OnClose, ErrorOutActiveStreams, Settle
<1>13. ASSUME NEW s \in Sockets, NEW r \in Requests, NEW outcome \in {"ok", "failed"}, OnEnd(s, r, outcome)
       PROVE  CancelReachesServer'
  BY <1>1, <1>3, <1>13 DEF OnEnd, Teardown, Settle
<1>14. ASSUME NEW s \in Sockets, OnPong(s) \/ PeerCloses(s) \/ PeerGoesSilent(s) PROVE CancelReachesServer'
  BY <1>3, <1>14 DEF OnPong, PeerCloses, PeerGoesSilent
<1>15. CASE ReconnectFires \/ PingFires \/ WatchdogFires \/ Exhausted \/ UNCHANGED vars
  BY <1>3, <1>15 DEF ReconnectFires, PingFires, WatchdogFires, Exhausted, vars
<1> QED BY <1>5, <1>6, <1>7, <1>8, <1>9, <1>10, <1>11, <1>12, <1>13, <1>14, <1>15, Steps

-----------------------------------------------------------------------------
(* The theorems.                                                           *)

\* The inductive invariant.
IInv ==
    /\ TypeInv /\ TimersCounted /\ WireInv /\ OrderInv
    /\ CarrierCanEnd /\ RetryInv /\ CancelReachesServer
    /\ again \/ ConnectedOnce

\* A new client satisfies the inductive invariant.
LEMMA InitInv ==
  ASSUME Init PROVE IInv
<1>1. TypeOK
  <2>1. 0 \in 0 .. MaxSockets /\ 1 \in 1 .. (LastRequest + 1)
    BY ClientAssumption
  <2>2. /\ <<>> \in Seq(Requests) /\ <<>> \in Seq([req : Requests, sock : Sockets])
        /\ [s \in Sockets |-> "none"] \in [Sockets -> ReadyStates \cup {"none"}]
        /\ [r \in Requests |-> "none"]
              \in [Requests -> {"none", "waiting", "ok", "failed", "cancelled"}]
    OBVIOUS
  <2> QED BY <2>1, <2>2 DEF Init, TypeOK, AppStates
<1>2. SocketShape /\ QueueEmptyWhenOpen
  BY ClientAssumption DEF Init, SocketShape, QueueEmptyWhenOpen, IsOpen
<1>3. Issued
  BY ClientAssumption DEF Init, Issued, Requests
<1>4. ToSet(pendingRequests) = {} /\ DOMAIN wire = {} /\ DOMAIN pendingRequests = {}
  BY DEF Init, ToSet
<1>5. NoCallLost
  BY <1>4 DEF Init, NoCallLost, IsInjective
<1>6. TimersCounted
  <2>1. \A S : Cardinality(InState(S)) \in Nat
    BY SomeSockets DEF InState
  <2>2. lostReconnects + Bit(reconnectTimer) = 0 /\ lostPings + Bit(pingTimer) = 0
    BY DEF Init, Bit
  <2> QED BY <2>1, <2>2 DEF TimersCounted
<1>7. WireInv /\ OrderInv /\ CarrierCanEnd /\ CancelReachesServer
  BY <1>4 DEF Init, WireInv, SentOnce, SentApart, OrderInv, IssueOrder, QueueOrder, CarrierCanEnd,
     CancelReachesServer
<1>8. RetryInv /\ ConnectedOnce
  BY DEF Init, RetryInv, SomethingComes, ConnectedOnce, OneSocket, Live
<1> QED BY <1>1, <1>2, <1>3, <1>5, <1>6, <1>7, <1>8 DEF IInv, TypeInv

\* Every step keeps it.
LEMMA NextInv ==
  ASSUME IInv, [Next]_vars PROVE IInv'
<1> USE DEF IInv
<1>1. TypeOK' /\ SocketShape' /\ TimersCounted'
  BY ShapeStep, CountStep, TypeStep
<1>2. QueueEmptyWhenOpen' /\ Issued' /\ NoCallLost'
  BY EmptyStep, NoCallLostStep
<1>3. WireInv' /\ OrderInv'
  BY WireStep, OrderStep
<1>4. CarrierCanEnd' /\ RetryInv' /\ CancelReachesServer' /\ (again' \/ ConnectedOnce')
  BY CarrierStep, RetryStep, CancelStep, OnceStep
<1> QED BY <1>1, <1>2, <1>3, <1>4 DEF TypeInv

\* What the client's state can be, whatever calls, events and timers it has seen.
THEOREM ClientInvariant == Spec => []IInv
<1>1. Init => IInv
  BY InitInv
<1>2. IInv /\ [Next]_vars => IInv'
  BY NextInv
<1> QED BY <1>1, <1>2, PTL DEF Spec

\* A request, its queue, a failed send(), an onclose: the fields keep their types.
THEOREM TypeCorrect == Spec => []TypeOK
<1>1. IInv => TypeOK
  BY DEF IInv, TypeInv
<1> QED BY <1>1, ClientInvariant, PTL

\* pendingRequests and streamMap hold exactly the calls that are not settled,
\* each in one of the two (dispatchRequest, flushPendingRequests, onclose).
THEOREM CallsAreKept == Spec => []NoCallLost
<1>1. IInv => NoCallLost
  BY DEF IInv, TypeInv
<1> QED BY <1>1, ClientInvariant, PTL

\* No request's frames are sent twice, whatever fails between queue and flush.
THEOREM SentExactlyOnce == Spec => []SentOnce
<1>1. IInv => SentOnce
  BY DEF IInv, WireInv
<1> QED BY <1>1, ClientInvariant, PTL

\* Requests leave in the order in which they were issued, but for what a
\* Connected callback issues ahead of the flush.
THEOREM SentInOrder == Spec => []IssueOrder
<1>1. IInv => IssueOrder
  BY DEF IInv, OrderInv
<1> QED BY <1>1, ClientInvariant, PTL

\* While this.socket is OPEN nothing waits for it (flushPendingRequests).
THEOREM OpenMeansFlushed == Spec => []QueueEmptyWhenOpen
<1>1. IInv => QueueEmptyWhenOpen
  BY DEF IInv, TypeInv
<1> QED BY <1>1, ClientInvariant, PTL

\* A registered stream was sent on a socket that has still to close and whose
\* onclose will fail it (errorOutActiveStreams).
THEOREM StreamsCanEnd == Spec => []CarrierCanEnd
<1>1. IInv => CarrierCanEnd
  BY DEF IInv
<1> QED BY <1>1, ClientInvariant, PTL

\* With reconnection on, a queued request has a socket or a timer to wait for:
\* this.socket keeps its onclose for as long as it is this.socket.
THEOREM QueueIsServed == Spec => []NeverStranded
<1>1. IInv => NeverStranded
  BY DEF IInv, TypeInv, SocketShape, RetryInv, SomethingComes, NeverStranded
<1> QED BY <1>1, ClientInvariant, PTL

\* connect() called once: the reconnect timer, reconnect() and late close events
\* leave one socket that connects or is open.
THEOREM OneConnection == Spec => []OneSocketUntilAgain
<1>1. IInv => OneSocketUntilAgain
  BY DEF IInv, ConnectedOnce, OneSocketUntilAgain
<1> QED BY <1>1, ClientInvariant, PTL

\* connect() called once: no timer is armed that disconnect() could not clear.
THEOREM TimersNamed == Spec => []NoTimerLeak
<1>1. IInv => NoTimerLeak
  BY DEF IInv, ConnectedOnce, NoTimerLeak
<1> QED BY <1>1, ClientInvariant, PTL

\* connect() called once: what the application gave up on was reset on the
\* connection that carries it (the teardown in openStream).
THEOREM CancelIsSent == Spec => []CancelReachesServer
<1>1. IInv => CancelReachesServer
  BY DEF IInv
<1> QED BY <1>1, ClientInvariant, PTL

\* After disconnect() no timer and no close event creates a socket, until the
\* application asks for one.
THEOREM DisconnectStops == Spec => DisconnectIsFinal
<1>1. ASSUME IInv, [Next]_vars
      PROVE  [app = "disconnected" /\ app' = "disconnected"
                => \A s \in Sockets : readyState[s] = "none" => readyState'[s] = "none"]_vars
  <2> USE DEF sockets, timers, streams, issued, sent, wishes, server
  <2> SUFFICES ASSUME app = "disconnected", app' = "disconnected",
                      NEW s \in Sockets, readyState[s] = "none"
               PROVE  readyState'[s] = "none"
    OBVIOUS
  <2>1. /\ readyState \in [Sockets -> ReadyStates \cup {"none"}] /\ ~reconnectionEnabled
        /\ socket \in Sockets \cup {NoSocket}
        /\ socket # NoSocket => readyState[socket] # "none"
    BY <1>1 DEF IInv, TypeInv, TypeOK, SocketShape, RetryInv
  <2>2. Closing(socket)[s] = "none"
    BY <2>1 DEF Closing, Live
  <2>3. ASSUME NEW cb, NEW ready, NEW n \in Nat, NEW cut \in {0, 1}, Flush(cb, ready, n, cut)
        PROVE  readyState'[s] = "none"
    <3>1. ready[s] = "none" /\ ready \in [Sockets -> ReadyStates \cup {"none"}]
      BY <2>1, <2>3 DEF Flush, Opened, ReadyStates
    <3>2. n < Len(Flushed(cb, ready)) => ready[socket] = "OPEN"
      BY DEF Flushed, IsOpen
    <3> QED BY <2>3, <3>1, <3>2 DEF Flush
  <2>4. OpenStream => readyState'[s] = "none"
    BY <1>1, <2>3, OpenStreamFlushes DEF IInv, TypeInv
  <2>5. ASSUME NEW t \in Sockets, OnOpen(t) PROVE readyState'[s] = "none"
    BY <1>1, <2>3, <2>5, OnOpenFlushes DEF IInv, TypeInv
  <2>6. ASSUME NEW t \in Sockets, OnClose(t) \/ PeerCloses(t) PROVE readyState'[s] = "none"
    BY <2>1, <2>6 DEF OnClose, PeerCloses
  <2>7. ~Reconnect /\ \A b \in BOOLEAN : ~Connect(b)
    BY DEF Reconnect, Connect
  <2>8. CASE Disconnect \/ Exhausted \/ WatchdogFires
    BY <2>2, <2>8 DEF Disconnect, Exhausted, WatchdogFires
  <2>9. CASE UNCHANGED readyState
    BY <2>9
  <2>10. CASE ~UNCHANGED readyState
    BY <1>1, <2>1, <2>4, <2>5, <2>6, <2>7, <2>8, <2>10, Steps
       DEF Subscribe, Unsubscribe, OnPong, PeerGoesSilent, OnEnd, ReconnectFires, WillRetry, PingFires, vars
  <2> QED BY <2>9, <2>10
<1> QED BY <1>1, ClientInvariant, PTL DEF Spec, DisconnectIsFinal

-----------------------------------------------------------------------------
(* The client implements Calls.                                            *)

PhaseOf(r) == IF call[r] # "waiting" THEN call[r] ELSE IF r \in streamMap THEN "open" ELSE "queued"
CarrierOf(r) == {wire[i].sock : i \in {j \in DOMAIN wire : wire[j].req = r}}

\* Every step of the client is a step of Calls, or none that Calls can see.
LEMMA AbstractStep ==
  ASSUME IInv, [Next]_vars PROVE Abstract!Next
<1> DEFINE Moves(r) ==
      \/ PhaseOf(r)' = PhaseOf(r) /\ CarrierOf(r)' = CarrierOf(r)
      \/ PhaseOf(r) = "none" /\ PhaseOf(r)' = "queued" /\ CarrierOf(r)' = {}
      \/ /\ PhaseOf(r) \in {"none", "queued"} /\ PhaseOf(r)' \in {"open", "failed"}
         /\ CarrierOf(r) = {} /\ \E s \in Sockets : CarrierOf(r)' = {s}
      \/ /\ CarrierOf(r)' = CarrierOf(r)
         /\ \/ PhaseOf(r) = "queued" /\ PhaseOf(r)' \in {"failed", "cancelled"}
            \/ PhaseOf(r) = "open" /\ PhaseOf(r)' \in {"ok", "failed", "cancelled"}
<1>1. ASSUME \A r \in Requests : Moves(r) PROVE Abstract!Next
  <2> DEFINE P == [r \in Requests |-> PhaseOf(r)]
             C == [r \in Requests |-> CarrierOf(r)]
  <2>1. ASSUME NEW r \in Requests
        PROVE  P[r] = PhaseOf(r) /\ P'[r] = PhaseOf(r)' /\ C[r] = CarrierOf(r) /\ C'[r] = CarrierOf(r)'
    OBVIOUS
  <2>2. DOMAIN P' = Requests /\ DOMAIN C' = Requests
    OBVIOUS
  <2>3. ASSUME NEW r \in Requests, P'[r] = P[r], C'[r] = C[r] PROVE Abstract!Keeps(r)
    BY <2>3 DEF Abstract!Keeps, PhaseOf, CarrierOf
  <2>4. ASSUME NEW r \in Requests, P[r] = "none", P'[r] = "queued", C'[r] = {} PROVE Abstract!Queue(r)
    BY <2>4 DEF Abstract!Queue, PhaseOf, CarrierOf
  <2>5. ASSUME NEW r \in Requests, P[r] \in {"none", "queued"}, P'[r] \in {"open", "failed"},
               C[r] = {}, \E s \in Sockets : C'[r] = {s}
        PROVE  Abstract!Send(r)
    BY <2>5 DEF Abstract!Send, PhaseOf, CarrierOf
  <2>6. ASSUME NEW r \in Requests, C'[r] = C[r],
               \/ P[r] = "queued" /\ P'[r] \in {"failed", "cancelled"}
               \/ P[r] = "open" /\ P'[r] \in {"ok", "failed", "cancelled"}
        PROVE  Abstract!End(r)
    BY <2>6 DEF Abstract!End, PhaseOf, CarrierOf
  <2>7. DOMAIN P' = Requests /\ DOMAIN C' = Requests
             /\ (\A r \in Requests : Abstract!Keeps(r) \/ Abstract!Queue(r) \/ Abstract!Send(r) \/ Abstract!End(r))
        => Abstract!Next
    BY DEF Abstract!Next, PhaseOf, CarrierOf
  <2> HIDE DEF P, C
  <2>8. ASSUME NEW r \in Requests
        PROVE  Abstract!Keeps(r) \/ Abstract!Queue(r) \/ Abstract!Send(r) \/ Abstract!End(r)
    BY <1>1, <2>1, <2>3, <2>4, <2>5, <2>6
  <2> QED BY <2>2, <2>7, <2>8
<1>2. /\ call \in [Requests -> {"none", "waiting", "ok", "failed", "cancelled"}]
      /\ streamMap \subseteq Requests /\ ToSet(pendingRequests) \subseteq Requests
      /\ ToSet(pendingRequests) \cap streamMap = {}
      /\ \A r \in Requests : call[r] = "waiting" <=> r \in ToSet(pendingRequests) \cup streamMap
  BY DEF IInv, TypeInv, TypeOK, NoCallLost, ToSet
<1>3. /\ nextStreamId \in Nat
      /\ \A i \in DOMAIN wire : wire[i].req < nextStreamId /\ wire[i].req \in Nat
      /\ \A i \in DOMAIN wire : wire[i].req \notin ToSet(pendingRequests)
  BY Elements DEF IInv, WireInv, SentApart
<1>4. ASSUME NEW cb, NEW ready, NEW n \in Nat, NEW cut \in {0, 1}, Flush(cb, ready, n, cut),
             NEW r \in Requests
      PROVE  Moves(r)
  <2> DEFINE queue == Flushed(cb, ready)
             k == n + cut
             whole == {queue[i] : i \in 1 .. n}
             part == {queue[i] : i \in (n + 1) .. k}
             gone == {queue[i] : i \in 1 .. k}
  <2>1. /\ queue \in Seq(Requests) /\ k \in 0 .. Len(queue) /\ IsInjective(queue)
        /\ ToSet(queue) \subseteq ToSet(pendingRequests) \cup ToSet(cb)
        /\ ToSet(cb) \cap (ToSet(pendingRequests) \cup streamMap) = {}
    BY <1>4, FlushFacts DEF IInv, TypeInv
  <2>2. \A q \in ToSet(cb) : q = nextStreamId /\ q \in Requests /\ call[q] = "none"
    BY <1>4, FlushFacts DEF IInv, TypeInv
  <2>3. /\ k # 0 => socket \in Sockets
        /\ \A i \in DOMAIN wire : i \in DOMAIN wire' /\ wire'[i] = wire[i]
        /\ \A i \in DOMAIN wire' \ DOMAIN wire :
              \E j \in 1 .. k : wire'[i].req = queue[j] /\ wire'[i].sock = socket
        /\ \A j \in 1 .. k : /\ Len(wire) + j \in DOMAIN wire'
                             /\ wire'[Len(wire) + j].req = queue[j]
                             /\ wire'[Len(wire) + j].sock = socket
    BY <1>4, WireFacts DEF IInv, TypeInv
  <2>4. /\ streamMap' = streamMap \cup whole
        /\ call' = [q \in Requests |->
                      IF q \in part THEN "failed" ELSE IF q \in ToSet(cb) THEN "waiting" ELSE call[q]]
    BY <1>4 DEF Flush
  <2>5. whole \subseteq gone /\ part \subseteq gone /\ gone \subseteq whole \cup part
    BY <2>1
  <2>6. \A j \in 1 .. k : queue[j] \in ToSet(queue)
    BY <2>1 DEF ToSet
  <2>7. gone \subseteq ToSet(pendingRequests) \cup ToSet(cb)
    BY <2>1, <2>6
  <2> HIDE DEF queue, k, whole, part
  <2>8. CASE r \in gone
    <3>1. r \in ToSet(pendingRequests) \/ r = nextStreamId
      BY <2>2, <2>7, <2>8
    <3>2. \A i \in DOMAIN wire : wire[i].req # r
      BY <1>3, <3>1
    <3>3. CarrierOf(r) = {}
      BY <3>2 DEF CarrierOf
    <3>4. PICK j \in 1 .. k : r = queue[j]
      BY <2>8
    <3>5. k # 0 /\ socket \in Sockets
      BY <2>1, <2>3, <3>4
    <3>6. CarrierOf(r)' = {socket}
      BY <2>3, <3>2, <3>4 DEF CarrierOf
    <3>7. PhaseOf(r) \in {"none", "queued"}
      BY <1>2, <2>1, <2>2, <2>7, <2>8 DEF PhaseOf
    <3>8. PhaseOf(r)' \in {"open", "failed"}
      BY <1>2, <2>1, <2>4, <2>5, <2>7, <2>8 DEF PhaseOf
    <3> QED BY <3>3, <3>5, <3>6, <3>7, <3>8
  <2>9. CASE r \notin gone
    <3>1. CarrierOf(r)' = CarrierOf(r)
      BY <2>3, <2>9 DEF CarrierOf
    <3>2. CASE r \in ToSet(cb)
      <4>1. PhaseOf(r) = "none" /\ PhaseOf(r)' = "queued"
        BY <1>2, <2>1, <2>2, <2>4, <2>5, <2>9, <3>2 DEF PhaseOf
      <4>2. CarrierOf(r) = {}
        BY <1>3, <2>2, <3>2 DEF CarrierOf
      <4> QED BY <3>1, <4>1, <4>2
    <3>3. CASE r \notin ToSet(cb)
      <4>1. PhaseOf(r)' = PhaseOf(r)
        BY <1>2, <2>4, <2>5, <2>9, <3>3 DEF PhaseOf
      <4> QED BY <3>1, <4>1
    <3> QED BY <3>2, <3>3
  <2> QED BY <2>8, <2>9
<1>5. ASSUME NEW R \in SUBSET Requests, Settles(R), NEW r \in Requests PROVE Moves(r)
  <2>1. CarrierOf(r)' = CarrierOf(r)
    BY <1>5 DEF Settles, CarrierOf
  <2>2. CASE r \in R
    BY <1>2, <1>5, <2>1, <2>2 DEF Settles, PhaseOf
  <2>3. CASE r \notin R
    BY <1>2, <1>5, <2>1, <2>3 DEF Settles, PhaseOf
  <2> QED BY <2>2, <2>3
<1> HIDE DEF Moves
<1> QED BY <1>1, <1>4, <1>5, QueueSteps DEF IInv

\* The queue, the stream map and the reconnections together are the abstract
\* Calls: carried by one connection at most, sent once, ended once.
THEOREM ClientImplementsCalls == Spec => ImplementsCalls
<1>1. Init => Abstract!Init
  BY DEF Init, Abstract!Init
<1>2. IInv /\ [Next]_vars => [Abstract!Next]_(Abstract!vars)
  BY AbstractStep
<1> QED BY <1>1, <1>2, ClientInvariant, PTL DEF Spec, ImplementsCalls, Abstract!Spec
=============================================================================
