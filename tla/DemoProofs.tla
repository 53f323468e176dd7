------------------------------ MODULE DemoProofs ------------------------------
(***************************************************************************)
(* The component of the demo application on any client: what its fields    *)
(* hold is what the client does.                                           *)
(***************************************************************************)
EXTENDS DemoApp, ClientProofs

-----------------------------------------------------------------------------
(* The inductive invariant.                                                *)

ComponentType ==
    /\ slot \in [Slots -> Requests \cup {NoRequest}] /\ active \subseteq Slots
    /\ owner \in [Requests -> Slots \cup {"hello", "none"}] /\ stillborn \subseteq Requests

\* What was started has an owner, and what failed as it started stays failed.
Started ==
    /\ \A r \in Requests : call[r] = "none" => owner[r] = "none"
    /\ \A r \in stillborn : call[r] = "failed"

\* connect() is called by ngOnInit and by nothing else.
ConnectsOnce == ~again /\ (phase = "new" => app = "fresh")

DemoInv == ComponentType /\ Started /\ SlotTracksCall /\ ConnectsOnce

-----------------------------------------------------------------------------
(* The client's steps, as the component sees them.                         *)

\* A call that ended stays as it ended, and none that was made is unmade.
LEMMA CallSteps ==
  ASSUME TypeInv, [Next]_vars
  PROVE  /\ \A r \in Requests : call[r] \in {"none", "waiting"} \/ call'[r] = call[r]
         /\ \A r \in Requests : call'[r] = "none" => call[r] = "none"
         /\ IdsLeft' => IdsLeft
<1>1. /\ call \in [Requests -> {"none", "waiting", "ok", "failed", "cancelled"}]
      /\ \A r \in Requests : r \in ToSet(pendingRequests) \cup streamMap => call[r] = "waiting"
      /\ nextStreamId \in Nat
  BY Elements DEF TypeInv, TypeOK, NoCallLost
<1>2. ASSUME NEW cb, NEW ready, NEW n \in Nat, NEW cut \in {0, 1}, Flush(cb, ready, n, cut)
      PROVE  /\ \A r \in Requests : call[r] \in {"none", "waiting"} \/ call'[r] = call[r]
             /\ \A r \in Requests : call'[r] = "none" => call[r] = "none"
             /\ IdsLeft' => IdsLeft
  <2> DEFINE queue == Flushed(cb, ready)
             k == n + cut
             part == {queue[i] : i \in (n + 1) .. k}
  <2>1. /\ \A r \in ToSet(cb) : r \in Requests /\ call[r] = "none"
        /\ nextStreamId' = nextStreamId \/ nextStreamId' = nextStreamId + 1
    BY <1>2, FlushFacts DEF TypeInv
  <2>2. /\ queue \in Seq(Requests) /\ k \in 0 .. Len(queue)
        /\ ToSet(queue) \subseteq ToSet(pendingRequests) \cup ToSet(cb)
    BY <1>2, FlushFacts DEF TypeInv
  <2>3. call' = [r \in Requests |->
                   IF r \in part THEN "failed" ELSE IF r \in ToSet(cb) THEN "waiting" ELSE call[r]]
    BY <1>2 DEF Flush
  <2>4. part \subseteq ToSet(queue)
    BY <2>2 DEF ToSet
  <2>5. IdsLeft' => IdsLeft
    BY <1>1, <2>1, ClientAssumption DEF IdsLeft
  <2> HIDE DEF queue, k, part
  <2> QED BY <1>1, <2>1, <2>2, <2>3, <2>4, <2>5
<1>3. ASSUME NEW R \in SUBSET Requests, Settles(R)
      PROVE  /\ \A r \in Requests : call[r] \in {"none", "waiting"} \/ call'[r] = call[r]
             /\ \A r \in Requests : call'[r] = "none" => call[r] = "none"
             /\ IdsLeft' => IdsLeft
  BY <1>1, <1>3 DEF Settles, IdsLeft
<1> QED BY <1>2, <1>3, QueueSteps

\* A request concerns no call but its own, which waits or has failed.
LEMMA OpenStreamCalls ==
  ASSUME TypeInv, OpenStream
  PROVE  /\ nextStreamId \in Requests /\ call[nextStreamId] = "none" /\ IdsLeft
         /\ call'[nextStreamId] \in {"waiting", "failed"}
         /\ \A r \in Requests : r # nextStreamId => call'[r] = call[r]
         /\ UNCHANGED wishes
<1> DEFINE id == nextStreamId
           queue == IF IsOpen(socket, readyState) THEN <<id>> ELSE <<>>
<1>1. id \in Requests /\ call[id] = "none" /\ IdsLeft
  <2>1. id \in Requests
    BY OpenStreamFlushes DEF TypeInv
  <2>2. id >= nextStreamId
    BY Elements
  <2>3. call[id] = "none"
    BY <2>1, <2>2 DEF TypeInv, Issued
  <2> QED BY <2>1, <2>3 DEF OpenStream
<1>2. PICK n \in 0 .. Len(queue), cut \in {0, 1} :
        /\ n + cut <= Len(queue)
        /\ call' = [r \in Requests |-> IF r \in {queue[i] : i \in (n + 1) .. (n + cut)}
                                       THEN "failed" ELSE Settle({id}, "waiting")[r]]
  BY DEF OpenStream, Dispatch, Gone
<1>3. {queue[i] : i \in (n + 1) .. (n + cut)} \subseteq {id}
  <2>1. \A i \in (n + 1) .. (n + cut) : i \in 1 .. Len(queue)
    BY <1>2
  <2>2. \A i \in 1 .. Len(queue) : queue[i] = id
    OBVIOUS
  <2> QED BY <2>1, <2>2
<1>4. UNCHANGED wishes
  BY DEF OpenStream
<1> HIDE DEF queue
<1> QED BY <1>1, <1>2, <1>3, <1>4 DEF Settle

\* Every step of the application is one of the client, or none of it.
LEMMA DemoStepsClient ==
  ASSUME DemoInv, [DemoNext]_allVars PROVE [Next]_vars
<1>1. ASSUME NEW s \in Slots, Stop(s) PROVE [Next]_vars
  <2>1. slot[s] \in Requests
    BY <1>1 DEF DemoInv, ComponentType, Stop
  <2> QED BY <1>1, <2>1 DEF Stop, Next, App
<1> QED BY <1>1 DEF DemoNext, NgOnInit, SayHello, SayHelloThrows, ClientStep, Start, StartThrows,
       StopButton, DestroyBegins, DestroyStops, DestroyEnds, Leaves, Next, App, allVars

-----------------------------------------------------------------------------
(* The theorems.                                                           *)

\* The slots after a step of the client: Callbacks clears those whose call ends.
LEMMA CallbackStep ==
  ASSUME TypeInv, ComponentType, Started, SlotTracksCall, [Next]_vars, Callbacks
  PROVE  ComponentType' /\ Started' /\ SlotTracksCall'
<1> DEFINE over == {s \in Slots \ {t \in Slots : slot[t] = NoRequest} :
                      call[slot[s]] = "waiting" /\ call'[slot[s]] # "waiting"}
<1>1. /\ slot' = [s \in Slots |-> IF s \in over THEN NoRequest ELSE slot[s]]
      /\ active' = active \ over /\ owner' = owner /\ stillborn' = stillborn
  BY DEF Callbacks
<1>2. /\ \A r \in Requests : call[r] \in {"none", "waiting"} \/ call'[r] = call[r]
      /\ \A r \in Requests : call'[r] = "none" => call[r] = "none"
      /\ IdsLeft' => IdsLeft
  BY CallSteps
<1>3. NoRequest \notin Requests /\ "none" \notin Slots
  BY ClientAssumption, DemoAssumption DEF NoRequest, Requests
<1>4. ComponentType'
  BY <1>1 DEF ComponentType
<1>5. Started'
  BY <1>1, <1>2 DEF ComponentType, Started
<1>6. SlotTracksCall'
  <2> SUFFICES ASSUME NEW s \in Slots
               PROVE  /\ slot'[s] # NoRequest =>
                           owner'[slot'[s]] = s /\ (call'[slot'[s]] = "waiting" \/ slot'[s] \in stillborn')
                      /\ \A r \in Requests : owner'[r] = s /\ call'[r] = "waiting" => slot'[s] = r
                      /\ s \in active' => slot'[s] # NoRequest \/ ~IdsLeft'
    BY DEF SlotTracksCall
  <2>1. /\ slot[s] # NoRequest =>
             slot[s] \in Requests /\ owner[slot[s]] = s
             /\ (call[slot[s]] = "waiting" \/ slot[s] \in stillborn)
        /\ \A r \in Requests : owner[r] = s /\ call[r] = "waiting" => slot[s] = r
        /\ s \in active => slot[s] # NoRequest \/ ~IdsLeft
    BY DEF SlotTracksCall, ComponentType
  <2>2. slot'[s] = (IF s \in over THEN NoRequest ELSE slot[s]) /\ (s \in active' => s \in active \ over)
    BY <1>1
  <2>3. CASE s \in over
    <3>1. slot[s] \in Requests /\ call'[slot[s]] # "waiting"
      BY <2>1, <2>3
    <3>2. ASSUME NEW r \in Requests, owner[r] = s, call'[r] = "waiting" PROVE FALSE
      <4>1. call[r] = "waiting"
        BY <1>2, <1>3, <3>2 DEF Started
      <4> QED BY <2>1, <3>1, <3>2, <4>1
    <3> QED BY <1>1, <2>2, <2>3, <3>2
  <2>4. CASE s \notin over
    <3>1. slot'[s] = slot[s]
      BY <2>2, <2>4
    <3>2. slot[s] # NoRequest => call'[slot[s]] = "waiting" \/ slot[s] \in stillborn
      BY <2>1, <2>4
    <3>3. ASSUME NEW r \in Requests, owner[r] = s, call'[r] = "waiting" PROVE slot[s] = r
      <4>1. call[r] = "waiting"
        BY <1>2, <1>3, <3>3 DEF Started
      <4> QED BY <2>1, <3>3, <4>1
    <3> HIDE DEF over
    <3> QED BY <1>1, <1>2, <2>1, <2>2, <3>1, <3>2, <3>3
  <2> QED BY <2>3, <2>4
<1> QED BY <1>4, <1>5, <1>6

\* A button that starts a stream takes a request no field holds yet.
LEMMA StartStep ==
  ASSUME TypeInv, ComponentType, Started, SlotTracksCall, NEW s \in Slots, Start(s)
  PROVE  ComponentType' /\ Started' /\ SlotTracksCall'
<1> DEFINE id == nextStreamId
<1>1. /\ id \in Requests /\ call[id] = "none" /\ IdsLeft /\ call'[id] \in {"waiting", "failed"}
      /\ \A r \in Requests : r # id => call'[r] = call[r]
  BY OpenStreamCalls DEF Start
<1>2. /\ slot[s] = NoRequest /\ slot' = [slot EXCEPT ![s] = id] /\ owner' = [owner EXCEPT ![id] = s]
      /\ active' \subseteq active \cup {s}
      /\ stillborn' = IF call'[id] = "failed" THEN stillborn \cup {id} ELSE stillborn
  BY DEF Start, NotRunning
<1>3. NoRequest \notin Requests
  BY ClientAssumption DEF NoRequest, Requests
<1> HIDE DEF id
<1>4. \A t \in Slots : slot[t] # id
  BY <1>1, <1>3 DEF SlotTracksCall, Started
<1>5. ComponentType' /\ Started'
  BY <1>1, <1>2 DEF ComponentType, Started
<1>6. ASSUME NEW t \in Slots
      PROVE  /\ slot'[t] # NoRequest =>
                  owner'[slot'[t]] = t /\ (call'[slot'[t]] = "waiting" \/ slot'[t] \in stillborn')
             /\ \A r \in Requests : owner'[r] = t /\ call'[r] = "waiting" => slot'[t] = r
             /\ t \in active' => slot'[t] # NoRequest \/ ~IdsLeft'
  <2>1. /\ slot[t] # NoRequest =>
             slot[t] \in Requests /\ owner[slot[t]] = t
             /\ (call[slot[t]] = "waiting" \/ slot[t] \in stillborn)
        /\ \A r \in Requests : owner[r] = t /\ call[r] = "waiting" => slot[t] = r
        /\ t \in active => slot[t] # NoRequest
    BY <1>1 DEF SlotTracksCall, ComponentType
  <2>2. /\ owner'[id] = s /\ \A r \in Requests : r # id => owner'[r] = owner[r]
        /\ slot'[t] = IF t = s THEN id ELSE slot[t]
    BY <1>1, <1>2 DEF ComponentType
  <2>3. CASE t = s
    BY <1>1, <1>2, <1>3, <2>1, <2>2, <2>3
  <2>4. CASE t # s
    BY <1>1, <1>2, <1>4, <2>1, <2>2, <2>4
  <2> QED BY <2>3, <2>4
<1> QED BY <1>5, <1>6 DEF SlotTracksCall

\* A stream is stopped, by its button or by ngOnDestroy.
LEMMA StopStep ==
  ASSUME TypeInv, ComponentType, Started, SlotTracksCall, NEW s \in Slots, Stop(s)
  PROVE  ComponentType' /\ Started' /\ SlotTracksCall'
<1> DEFINE id == slot[s]
<1>1. /\ id # NoRequest /\ id \in Requests /\ slot' = [slot EXCEPT ![s] = NoRequest]
      /\ active' = active \ {s} /\ owner' = owner /\ stillborn' = stillborn
      /\ owner[id] = s /\ (call[id] = "waiting" \/ id \in stillborn)
  BY DEF Stop, ComponentType, SlotTracksCall
<1>2. /\ \A r \in Requests : r # id => call'[r] = call[r]
      /\ call'[id] # "waiting" /\ call'[id] # "none" /\ (id \in stillborn => call'[id] = "failed")
      /\ nextStreamId' = nextStreamId
  <2>1. CASE call[id] = "waiting"
    <3>1. Unsubscribe(id)
      BY <2>1 DEF Stop
    <3> QED BY <1>1, <2>1, <3>1 DEF Unsubscribe, Settle, issued, Started
  <2>2. CASE call[id] # "waiting"
    <3>1. UNCHANGED vars
      BY <2>2 DEF Stop
    <3> QED BY <1>1, <2>2, <3>1 DEF vars, streams, issued, Started
  <2> QED BY <2>1, <2>2
<1>3. ComponentType' /\ Started'
  BY <1>1, <1>2 DEF ComponentType, Started
<1>4. ASSUME NEW t \in Slots
      PROVE  /\ slot'[t] # NoRequest =>
                  owner'[slot'[t]] = t /\ (call'[slot'[t]] = "waiting" \/ slot'[t] \in stillborn')
             /\ \A r \in Requests : owner'[r] = t /\ call'[r] = "waiting" => slot'[t] = r
             /\ t \in active' => slot'[t] # NoRequest \/ ~IdsLeft'
  <2>1. /\ slot[t] # NoRequest =>
             slot[t] \in Requests /\ owner[slot[t]] = t
             /\ (call[slot[t]] = "waiting" \/ slot[t] \in stillborn)
        /\ \A r \in Requests : owner[r] = t /\ call[r] = "waiting" => slot[t] = r
        /\ t \in active => slot[t] # NoRequest \/ ~IdsLeft
    BY DEF SlotTracksCall, ComponentType
  <2>2. slot'[t] = (IF t = s THEN NoRequest ELSE slot[t]) /\ IdsLeft' = IdsLeft
    BY <1>1, <1>2 DEF ComponentType, IdsLeft
  <2>3. CASE t = s
    BY <1>1, <1>2, <2>1, <2>2, <2>3
  <2>4. CASE t # s
    BY <1>1, <1>2, <2>1, <2>2, <2>4
  <2> QED BY <2>3, <2>4
<1> QED BY <1>3, <1>4 DEF SlotTracksCall

\* Every step of the component and its client keeps DemoInv.
LEMMA DemoStep ==
  ASSUME TypeInv, DemoInv, [DemoNext]_allVars PROVE DemoInv'
<1> USE DEF DemoInv, component
<1>1. [Next]_vars
  BY DemoStepsClient
\* connect() is called once.
<1>2. ConnectsOnce'
  <2>1. ASSUME Browser \/ Timers PROVE UNCHANGED wishes
    BY <2>1 DEF Browser, Timers, OnOpen, OnClose, OnPong, OnEnd, PeerCloses, PeerGoesSilent,
       ReconnectFires, PingFires, WatchdogFires
  <2>2. ASSUME NEW s \in Slots, Stop(s) PROVE UNCHANGED wishes
    BY <2>2 DEF Stop, Unsubscribe, vars
  <2>3. CASE NgOnInit
    BY <2>3 DEF NgOnInit, Connect, ConnectsOnce
  <2>4. CASE DestroyEnds
    BY <2>4 DEF DestroyEnds, Leaves, Disconnect, ConnectsOnce
  <2>5. CASE ~NgOnInit /\ ~DestroyEnds
    <3>1. UNCHANGED wishes /\ (phase' = "new" => phase = "new")
      BY <2>1, <2>2, <2>5 DEF DemoNext, SayHello, SayHelloThrows, ClientStep, Start,
         StartThrows, StopButton, DestroyBegins, DestroyStops, OpenStream, Exhausted, vars, allVars
    <3> QED BY <3>1 DEF ConnectsOnce, wishes
  <2> QED BY <2>3, <2>4, <2>5
\* A step that leaves the calls and the fields alone.
<1>3. ASSUME UNCHANGED <<call, nextStreamId, slot, owner, stillborn>>,
             active' = active \/ (~IdsLeft /\ active' \subseteq Slots)
      PROVE  ComponentType' /\ Started' /\ SlotTracksCall'
  BY <1>3 DEF ComponentType, Started, SlotTracksCall, IdsLeft
<1>4. CASE NgOnInit
  BY <1>2, <1>3, <1>4 DEF NgOnInit, Connect, streams, issued
<1>5. CASE SayHello
  <2>1. /\ nextStreamId \in Requests /\ call[nextStreamId] = "none" /\ IdsLeft
        /\ call'[nextStreamId] \in {"waiting", "failed"}
        /\ \A r \in Requests : r # nextStreamId => call'[r] = call[r]
    BY <1>5, OpenStreamCalls DEF SayHello
  <2>2. owner' = [owner EXCEPT ![nextStreamId] = "hello"] /\ UNCHANGED <<slot, active, stillborn>>
    BY <1>5 DEF SayHello
  <2>3. "hello" \notin Slots /\ NoRequest \notin Requests
    BY ClientAssumption, DemoAssumption DEF NoRequest, Requests
  <2>4. \A t \in Slots : slot[t] # nextStreamId
    BY <2>1, <2>3 DEF SlotTracksCall, Started
  <2>5. ComponentType' /\ Started'
    BY <2>1, <2>2 DEF ComponentType, Started
  <2>6. SlotTracksCall'
    BY <2>1, <2>2, <2>3, <2>4 DEF ComponentType, SlotTracksCall
  <2> QED BY <1>2, <2>5, <2>6
<1>6. CASE ClientStep
  BY <1>1, <1>2, <1>6, CallbackStep DEF ClientStep
<1>7. ASSUME NEW s \in Slots, Start(s) PROVE DemoInv'
  BY <1>2, <1>7, StartStep
<1>8. ASSUME NEW s \in Slots, StartThrows(s) PROVE DemoInv'
  BY <1>2, <1>3, <1>8 DEF StartThrows, Exhausted, streams, issued, ComponentType
<1>9. ASSUME NEW s \in Slots, Stop(s) PROVE DemoInv'
  BY <1>2, <1>9, StopStep
<1>10. CASE DestroyEnds
  BY <1>1, <1>2, <1>10, CallbackStep DEF DestroyEnds
<1>11. CASE SayHelloThrows \/ DestroyBegins \/ UNCHANGED allVars
  BY <1>2, <1>3, <1>11 DEF SayHelloThrows, Exhausted, DestroyBegins, vars, streams, issued, allVars
<1> QED BY <1>4, <1>5, <1>6, <1>7, <1>8, <1>9, <1>10, <1>11
       DEF DemoNext, StopButton, DestroyStops

\* The component and the client it runs on keep their invariants together.
THEOREM DemoInvariant == DemoSpec => [](IInv /\ DemoInv)
<1>1. DemoInit => IInv /\ DemoInv
  <2> SUFFICES ASSUME DemoInit PROVE IInv /\ DemoInv
    OBVIOUS
  <2>1. IInv
    BY InitInv DEF DemoInit
  <2>2. "none" \notin Slots
    BY DemoAssumption
  <2>3. ComponentType /\ Started /\ ConnectsOnce
    BY DEF DemoInit, Init, ComponentType, Started, ConnectsOnce
  <2>4. SlotTracksCall
    BY <2>2 DEF DemoInit, Init, SlotTracksCall
  <2> QED BY <2>1, <2>3, <2>4 DEF DemoInv
<1>2. IInv /\ DemoInv /\ [DemoNext]_allVars => IInv' /\ DemoInv'
  BY DemoStepsClient, NextInv, DemoStep DEF IInv
<1> QED BY <1>1, <1>2, PTL DEF DemoSpec

\* Each field holds the Subscription of a running call of its own, or of one
\* that failed as it started, and each running stream is held by its field
\* (startTicker, startStream1, their stop methods and their callbacks).
THEOREM SlotsAreTrue == DemoSpec => []SlotTracksCall
<1>1. IInv /\ DemoInv => SlotTracksCall
  BY DEF DemoInv
<1> QED BY <1>1, DemoInvariant, PTL

\* The application calls connect() once, in ngOnInit: it never has two sockets
\* that connect or are open, nor a timer it could not clear.
THEOREM DemoHasOneConnection == DemoSpec => [](OneSocket /\ NoTimerLeak)
<1>1. IInv /\ DemoInv => OneSocket /\ NoTimerLeak
  BY DEF IInv, ConnectedOnce, DemoInv, ConnectsOnce, NoTimerLeak
<1> QED BY <1>1, DemoInvariant, PTL
=============================================================================
