------------------------------- MODULE DemoApp -------------------------------
(***************************************************************************)
(* AppComponent (frontend/projects/demo-app/src/app/app.component.ts) on   *)
(* top of the client: the streams its buttons start and stop, each with    *)
(* the field that holds its Subscription, the unary call, and the          *)
(* component's end.  A call's end runs the component's callbacks in the    *)
(* same task.  What is only shown (counters, status, texts) is left out.   *)
(*                                                                         *)
(* ngOnDestroy is one task: while it runs, in several steps here, nothing  *)
(* else does.                                                              *)
(***************************************************************************)
EXTENDS Client

CONSTANT Slots  \* "ticker" has no active flag

ASSUME DemoAssumption == Slots \subseteq {"ticker", "stream1", "stream2", "signalStream"}

VARIABLES
    phase,     \* "new", "alive", "destroying", "destroyed"
    slot,      \* per slot: the request its Subscription is of, or NoRequest
    active,    \* slots whose active signal is set
    owner,     \* per request: the slot it was started for, "hello", or "none"
    stillborn  \* requests that failed before they were subscribed to

NoRequest == 0
component == <<slot, active, owner, stillborn>>
allVars == <<vars, phase, component>>

DemoInit ==
    /\ Init /\ phase = "new"
    /\ slot = [s \in Slots |-> NoRequest] /\ active = {} /\ stillborn = {}
    /\ owner = [r \in Requests |-> "none"]

-----------------------------------------------------------------------------
\* connect(wsUrl, true)
NgOnInit ==
    /\ phase = "new" /\ phase' = "alive"
    /\ Connect(TRUE) /\ UNCHANGED component

\* The error and complete callbacks of the calls that end in this step.
Callbacks ==
    LET over == {s \in Slots \ {t \in Slots : slot[t] = NoRequest} :
                    call[slot[s]] = "waiting" /\ call'[slot[s]] # "waiting"} IN
    /\ slot' = [s \in Slots |-> IF s \in over THEN NoRequest ELSE slot[s]]
    /\ active' = active \ over
    /\ UNCHANGED <<owner, stillborn>>

\* The active flag is set before the request is made.  If the request fails
\* before subscribe() gets to it, the error callback runs inside subscribe(),
\* and the field it clears is then assigned the closed Subscription.
EvenIfRunning(s) == TRUE  \* mutant: "Already running" is not looked at
NotRunning(s) == slot[s] = NoRequest
Start(s) ==
    /\ phase = "alive" /\ NotRunning(s)
    /\ OpenStream
    /\ LET r == nextStreamId
           failed == call'[r] = "failed" IN
       /\ slot' = [slot EXCEPT ![s] = r]
       /\ owner' = [owner EXCEPT ![r] = s]
       /\ active' = IF s = "ticker" \/ failed THEN active \ {s} ELSE active \cup {s}
       /\ stillborn' = IF failed THEN stillborn \cup {r} ELSE stillborn
    /\ UNCHANGED phase

\* The request throws: no stream id is left.
StartThrows(s) ==
    /\ phase = "alive" /\ NotRunning(s)
    /\ Exhausted
    /\ active' = active \cup ({s} \ {"ticker"})
    /\ UNCHANGED <<phase, slot, owner, stillborn>>

Stop(s) ==
    /\ slot[s] # NoRequest
    /\ IF call[slot[s]] = "waiting" THEN Unsubscribe(slot[s]) ELSE UNCHANGED vars
    /\ slot' = [slot EXCEPT ![s] = NoRequest]
    /\ active' = active \ {s}
    /\ UNCHANGED <<owner, stillborn>>

StopButton(s) == phase = "alive" /\ Stop(s) /\ UNCHANGED phase

\* sayHello(): nothing holds its Subscription.
SayHello ==
    /\ phase = "alive" /\ OpenStream
    /\ owner' = [owner EXCEPT ![nextStreamId] = "hello"]
    /\ UNCHANGED <<phase, slot, active, stillborn>>
SayHelloThrows == phase = "alive" /\ Exhausted /\ UNCHANGED <<phase, component>>

DestroyBegins ==
    /\ phase = "alive" /\ phase' = "destroying"
    /\ UNCHANGED <<vars, component>>
DestroyStops ==
    /\ phase = "destroying" /\ (\E s \in Slots : Stop(s)) /\ UNCHANGED phase
Stays == UNCHANGED vars  \* mutant: the client is not disconnected
Leaves == Disconnect
DestroyEnds ==
    /\ phase = "destroying" /\ \A s \in Slots : slot[s] = NoRequest
    /\ phase' = "destroyed"
    /\ Leaves /\ Callbacks

\* The client's own steps; nothing here runs in a Connected callback.
ClientStep ==
    /\ phase # "destroying" /\ (Browser \/ Timers) /\ early' = {}
    /\ Callbacks /\ UNCHANGED phase

-----------------------------------------------------------------------------
DemoNext ==
    \/ NgOnInit \/ SayHello \/ SayHelloThrows \/ ClientStep
    \/ \E s \in Slots : Start(s) \/ StartThrows(s) \/ StopButton(s)
    \/ DestroyBegins \/ DestroyStops \/ DestroyEnds

DemoSpec ==
    /\ DemoInit /\ [][DemoNext]_allVars
    /\ WF_allVars(DestroyStops \/ DestroyEnds) /\ Fairness

-----------------------------------------------------------------------------
(* Properties.                                                             *)

\* The component and the client agree on every stream: a field holds the
\* Subscription of a running call of its own or of a stillborn one, a running
\* stream is held by its field (or no button could ever stop it), and a stream
\* is shown as active only if it runs or its start threw.
SlotTracksCall ==
    \A s \in Slots :
        /\ slot[s] # NoRequest =>
            owner[slot[s]] = s /\ (call[slot[s]] = "waiting" \/ slot[s] \in stillborn)
        /\ \A r \in Requests : owner[r] = s /\ call[r] = "waiting" => slot[s] = r
        /\ s \in active => slot[s] # NoRequest \/ ~IdsLeft

\* After ngOnDestroy every call of the component ends, the unary one that nobody
\* unsubscribes included, and its sockets close: no reconnect brings one back.
DestroyedIsQuiet ==
    phase = "destroyed" ~>
        [](/\ \A r \in Requests : call[r] # "waiting"
           /\ \A s \in Sockets : readyState[s] \in {"none", "CLOSED"})
=============================================================================
