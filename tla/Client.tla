------------------------------- MODULE Client -------------------------------
(***************************************************************************)
(* NgGoRpcClient (frontend/projects/client/src/lib/client.ts): the queue   *)
(* of requests that wait for an OPEN socket, the map of dispatched         *)
(* streams, automatic and explicit reconnection, and the keepalive with    *)
(* its PONG watchdog.                                                      *)
(*                                                                         *)
(* JavaScript is single threaded: an action is one task of the event loop, *)
(* a call of the application, a timer or an event of a WebSocket, with     *)
(* every callback it runs.  The browser's WebSocket is modelled from the   *)
(* way the client uses it: close() moves a socket to CLOSING and its close *)
(* event comes later; open and close events change readyState in the task  *)
(* that runs the handler; messages arrive only while it is OPEN.           *)
(*                                                                         *)
(* Request r of the model travels on stream 2r - 1.                        *)
(***************************************************************************)
EXTENDS Integers, Sequences, FiniteSets, SequencesExt

CONSTANTS
    LastRequest,   \* requests before nextStreamId passes 2^32 - 1
    MaxSockets,    \* bound: WebSockets the client creates
    ConnectWhen,   \* when the application calls connect(): see AppStates
    SlowPing,      \* TRUE iff pingInterval > pongTimeout (30 s > 5 s by default)
    MayThrow,      \* TRUE iff send() may throw on a socket that was OPEN
    SubscribeLate, \* TRUE iff an Observable may be subscribed to after its request
    MayGoSilent    \* TRUE iff a server may stop answering without closing

\* "fresh": connect() was not called; "live": it was; "disconnected": the last
\* such call was disconnect().
AppStates == {"fresh", "live", "disconnected"}
ReadyStates == {"CONNECTING", "OPEN", "CLOSING", "CLOSED"}
Requests == 1 .. LastRequest
Sockets == 1 .. MaxSockets
NoSocket == 0

ASSUME ClientAssumption ==
    /\ LastRequest \in Nat \ {0} /\ MaxSockets \in Nat \ {0}
    /\ ConnectWhen \subseteq AppStates
    /\ {SlowPing, MayThrow, SubscribeLate, MayGoSilent} \subseteq BOOLEAN

VARIABLES
    app,                 \* what the application last asked for, of AppStates
    reconnectionEnabled,
    socket,              \* this.socket, or NoSocket
    readyState,          \* of every WebSocket; "none" until it is created
    onclose,             \* sockets whose onclose handler is installed
    connected,
    connectionState,
    reconnectTimer,      \* the timer reconnectTimeoutId names is armed
    lostReconnects,      \* armed reconnect timers no field names any more
    pingTimer,           \* the interval pingIntervalId names is running
    lostPings,           \* running intervals no field names any more
    watchdog,            \* the timer pongTimeoutId names is armed
    pendingRequests,     \* requests waiting for an OPEN socket
    streamMap,           \* requests registered for their responses
    nextStreamId,
    call,                \* per request: "none", "waiting", "ok", "failed", "cancelled"
    subscribed,          \* requests whose Observable was subscribed to
    wire,                \* history: HEADERS frames sent, and on which socket
    resets,              \* history: RST_STREAM frames sent, as <<request, socket>>
    early,               \* history: requests made in a Connected callback
    again,               \* history: a socket was asked for by a later connect()
    pinged,              \* sockets with a PING the server has not answered
    silent               \* sockets whose server stopped answering

sockets == <<socket, readyState, onclose, connected, connectionState>>
timers  == <<reconnectTimer, lostReconnects, pingTimer, lostPings, watchdog>>
streams == <<pendingRequests, streamMap, call>>
issued  == <<nextStreamId, subscribed, early>>
sent    == <<wire, resets>>
wishes  == <<app, reconnectionEnabled, again>>
server  == <<pinged, silent>>
vars == <<sockets, timers, streams, issued, sent, wishes, server>>

-----------------------------------------------------------------------------
(* Helpers.                                                                *)

Created == Cardinality({s \in Sockets : readyState[s] # "none"})
Live(s) == readyState[s] \in {"CONNECTING", "OPEN"}
IsOpen(s, ready) == s # NoSocket /\ ready[s] = "OPEN"
Plus(n, b) == IF b THEN n + 1 ELSE n

\* WebSocket.close() on s: nothing happens to one that is closing already.
Closing(s) ==
    IF s # NoSocket /\ Live(s) THEN [readyState EXCEPT ![s] = "CLOSING"]
                               ELSE readyState

\* request() sends at once; the application subscribes to its result then or later.
Subscribing(R) == subscribed' = IF SubscribeLate THEN subscribed ELSE subscribed \cup R

Settle(R, outcome) == [r \in Requests |-> IF r \in R THEN outcome ELSE call[r]]

\* The RST_STREAM(CANCEL) of an Observable's teardown.
NoReset(r) == UNCHANGED resets  \* mutant: the server is not told
Teardown(r) ==
    resets' = IF IsOpen(socket, readyState) THEN resets \cup {<<r, socket>>}
                                            ELSE resets

\* attemptConnection(): the new socket is this.socket from now on.
AttemptConnection(ready, handlers) ==
    LET s == Created + 1 IN
    /\ s \in Sockets
    /\ socket' = s
    /\ readyState' = [ready EXCEPT ![s] = "CONNECTING"]
    /\ onclose' = handlers \cup {s}

\* stopPingInterval()
StopPing == pingTimer' = FALSE /\ watchdog' = FALSE /\ UNCHANGED lostPings

\* disconnect() and reconnect() clear the timer reconnectTimeoutId names.
KeepTimer == UNCHANGED reconnectTimer  \* mutant: the timer is forgotten
ClearReconnect == reconnectTimer' = FALSE

\* What onclose and the reconnect timer look at before they try again.
OnlyIfConnected == reconnectionEnabled /\ connected  \* mutant: a failed attempt is the last
Always == TRUE                                       \* mutant: disconnect() is not heeded
WillRetry == reconnectionEnabled

KeepStreams == UNCHANGED <<streamMap, call>>  \* mutant: the calls are left waiting
ErrorOutActiveStreams == streamMap' = {} /\ call' = Settle(streamMap, "failed")

\* dispatchRequest() for each of queue in turn on this.socket, until send()
\* throws, if it does: n requests are sent whole, the next one in part if cut
\* is 1 and not at all if it is 0.  A request no frame of which left is queued
\* again; one that was sent in part fails.  unsent[k] is what waits for an OPEN
\* socket once frames of the first k have left.
KeepAll(queue, k) == queue  \* mutant: the queue keeps what left it
Requeued(queue, k) == SubSeq(queue, k + 1, Len(queue))
WholeOnly(n, cut) == n  \* mutant: a request cut short is queued again
Gone(n, cut) == n + cut
Dispatch(queue, unsent, ready, calls) ==
    \E n \in 0 .. Len(queue), cut \in {0, 1} :
        LET part == {queue[i] : i \in (n + 1) .. Gone(n, cut)} IN
        /\ n + cut <= Len(queue)
        /\ n < Len(queue) => MayThrow
        /\ wire' = wire \o [i \in 1 .. (n + cut) |-> [req |-> queue[i], sock |-> socket]]
        /\ streamMap' = streamMap \cup {queue[i] : i \in 1 .. n}
        /\ pendingRequests' = unsent[Gone(n, cut)]
        /\ call' = [r \in Requests |-> IF r \in part THEN "failed" ELSE calls[r]]
        /\ readyState' = IF n < Len(queue) THEN [ready EXCEPT ![socket] = "CLOSING"]
                                           ELSE ready

-----------------------------------------------------------------------------
Init ==
    /\ app = "fresh" /\ reconnectionEnabled = FALSE /\ again = FALSE
    /\ socket = NoSocket /\ connected = FALSE /\ connectionState = "Disconnected"
    /\ readyState = [s \in Sockets |-> "none"] /\ onclose = {}
    /\ reconnectTimer = FALSE /\ lostReconnects = 0
    /\ pingTimer = FALSE /\ lostPings = 0 /\ watchdog = FALSE
    /\ pendingRequests = <<>> /\ streamMap = {}
    /\ nextStreamId = 1 /\ call = [r \in Requests |-> "none"]
    /\ subscribed = {} /\ early = {} /\ wire = <<>> /\ resets = {}
    /\ pinged = {} /\ silent = {}

-----------------------------------------------------------------------------
(* Calls of the application.                                               *)

Connect(enableReconnection) ==
    /\ app \in ConnectWhen
    /\ app' = "live" /\ reconnectionEnabled' = enableReconnection
    /\ again' = (again \/ app # "fresh")
    /\ AttemptConnection(readyState, onclose)
    /\ UNCHANGED <<connected, connectionState, timers, streams, issued, sent, server>>

\* rejectPendingRequests() fails every queued request; the socket's onclose
\* stays installed and runs when the socket has closed.
Disconnect ==
    /\ app' = IF app = "fresh" THEN "fresh" ELSE "disconnected"
    /\ reconnectionEnabled' = FALSE
    /\ StopPing /\ ClearReconnect
    /\ pendingRequests' = <<>>
    /\ call' = Settle(ToSet(pendingRequests), "failed")
    /\ readyState' = Closing(socket)
    /\ socket' = NoSocket
    /\ connected' = (connected /\ socket = NoSocket)
    /\ UNCHANGED <<onclose, connectionState, lostReconnects, streamMap, issued, sent, again, server>>

\* reconnect(), which setAuthToken(token, {reconnect: true}) calls.
KeepHandler(s) == onclose       \* mutant: the race that v1.1.1 fixed
Forget(s) == onclose \ {s}      \* this.socket.onclose = null
Reconnect ==
    /\ app = "live" \/ (app = "disconnected" /\ app \in ConnectWhen)
    /\ StopPing /\ ClearReconnect
    /\ IF socket = NoSocket
       THEN UNCHANGED <<connected, connectionState, streamMap, call>>
       ELSE /\ connected' = FALSE /\ connectionState' = "Reconnecting"
            /\ ErrorOutActiveStreams
    /\ AttemptConnection(Closing(socket), Forget(socket))
    /\ app' = "live" /\ again' = (again \/ app = "disconnected")
    /\ UNCHANGED <<reconnectionEnabled, lostReconnects, pendingRequests, issued, sent, server>>

\* request() and requestClientStream(): dispatched at once on an OPEN socket,
\* queued otherwise.
IdsOffByOne == nextStreamId <= LastRequest + 1  \* mutant
IdsLeft == nextStreamId <= LastRequest
OpenStream ==
    LET r == nextStreamId
        unsent == [k \in {0, 1} |-> pendingRequests \o Requeued(<<r>>, k)] IN
    /\ IdsLeft
    /\ nextStreamId' = r + 1
    /\ Dispatch(IF IsOpen(socket, readyState) THEN <<r>> ELSE <<>>,
                unsent, readyState, Settle({r}, "waiting"))
    /\ Subscribing({r})
    /\ UNCHANGED <<socket, onclose, connected, connectionState, timers, early, resets,
                   wishes, server>>

\* No stream id is left: the request closes the socket and throws.
Exhausted ==
    /\ ~IdsLeft
    /\ readyState' = Closing(socket)
    /\ UNCHANGED <<socket, onclose, connected, connectionState, timers, streams,
                   issued, sent, wishes, server>>

\* A subscriber that comes after the end is told of it and torn down at once.
Subscribe(r) ==
    /\ call[r] # "none" /\ r \notin subscribed
    /\ subscribed' = subscribed \cup {r}
    /\ IF call[r] = "waiting" THEN UNCHANGED resets ELSE Teardown(r)
    /\ UNCHANGED <<sockets, timers, streams, nextStreamId, early, wire, wishes, server>>

Unsubscribe(r) ==
    /\ r \in subscribed /\ call[r] = "waiting"
    /\ call' = Settle({r}, "cancelled")
    /\ streamMap' = streamMap \ {r}
    /\ pendingRequests' = RemoveFirst(pendingRequests, r)
    /\ Teardown(r)
    /\ UNCHANGED <<sockets, timers, issued, wire, wishes, server>>

-----------------------------------------------------------------------------
(* Events of a WebSocket.                                                  *)

\* onopen.  The Connected callback of the application may issue one request; it
\* goes out before those that were queued, which flushPendingRequests sends.
CallbackRequests == {<<>>} \cup {<<r>> : r \in {nextStreamId} \cap Requests}
CheckedBefore(cb, ready) == IF IsOpen(socket, readyState)  \* mutant: a stale check
                            THEN cb \o pendingRequests ELSE <<>>
LastFirst(cb, ready) == IF IsOpen(socket, ready)           \* mutant: popped, not shifted
                        THEN cb \o Reverse(pendingRequests) ELSE <<>>
Flushed(cb, ready) == IF IsOpen(socket, ready) THEN cb \o pendingRequests ELSE <<>>
OnOpen(s) ==
    LET ready == [readyState EXCEPT ![s] = "OPEN"] IN
    \E cb \in CallbackRequests :
    LET queue == Flushed(cb, ready)
        unsent == [k \in 0 .. Len(queue) |->
                      IF k = 0 THEN pendingRequests \o cb ELSE Requeued(queue, k)] IN
    /\ readyState[s] = "CONNECTING"
    /\ connected' = TRUE /\ connectionState' = "Connected"
    /\ pingTimer' = TRUE /\ lostPings' = Plus(lostPings, pingTimer)
    /\ nextStreamId' = nextStreamId + Len(cb)
    /\ early' = early \cup ToSet(cb) /\ Subscribing(ToSet(cb))
    /\ Dispatch(queue, unsent, ready, Settle(ToSet(cb), "waiting"))
    /\ UNCHANGED <<socket, onclose, reconnectTimer, lostReconnects, watchdog, resets,
                   wishes, server>>

\* onclose; the same handler whatever this.socket is by now.  A socket may fail
\* while it connects, be dropped, or finish closing.
OnClose(s) ==
    /\ readyState[s] \in {"CONNECTING", "OPEN", "CLOSING"}
    /\ readyState' = [readyState EXCEPT ![s] = "CLOSED"]
    /\ IF s \notin onclose
       THEN UNCHANGED <<socket, connected, connectionState, timers, streamMap, call>>
       ELSE /\ connected' = FALSE /\ socket' = NoSocket
            /\ StopPing /\ ErrorOutActiveStreams
            /\ connectionState' = IF WillRetry THEN "Reconnecting" ELSE "Disconnected"
            /\ reconnectTimer' = (reconnectTimer \/ WillRetry)
            /\ lostReconnects' = Plus(lostReconnects, reconnectTimer /\ WillRetry)
    /\ UNCHANGED <<onclose, pendingRequests, issued, sent, wishes, server>>

\* The server ends stream r: TRAILERS or RST_STREAM, "ok" for grpc-status 0 and
\* for NO_ERROR.  A subscriber's teardown then resets the stream once more.
OnEnd(s, r, outcome) ==
    /\ readyState[s] = "OPEN" /\ s \notin silent
    /\ [req |-> r, sock |-> s] \in ToSet(wire)
    /\ r \in streamMap
    /\ call' = Settle({r}, outcome) /\ streamMap' = streamMap \ {r}
    /\ IF r \in subscribed THEN Teardown(r) ELSE UNCHANGED resets
    /\ UNCHANGED <<sockets, timers, pendingRequests, issued, wire, wishes, server>>

OnPong(s) ==
    /\ readyState[s] = "OPEN" /\ s \in pinged /\ s \notin silent
    /\ pinged' = pinged \ {s} /\ watchdog' = FALSE
    /\ UNCHANGED <<sockets, reconnectTimer, lostReconnects, pingTimer, lostPings, streams, issued,
                   sent, wishes, silent>>

-----------------------------------------------------------------------------
(* Timers.                                                                 *)

\* The callback of scheduleReconnection's timer: one that is still named by
\* reconnectTimeoutId, or one that was overwritten.
ReconnectFires ==
    /\ \/ reconnectTimer /\ reconnectTimer' = FALSE /\ UNCHANGED lostReconnects
       \/ lostReconnects > 0 /\ lostReconnects' = lostReconnects - 1 /\ UNCHANGED reconnectTimer
    /\ IF WillRetry THEN AttemptConnection(readyState, onclose)
                    ELSE UNCHANGED <<socket, readyState, onclose>>
    /\ UNCHANGED <<connected, connectionState, pingTimer, lostPings, watchdog, streams, issued, sent,
                   wishes, server>>

\* sendPing(), with the watchdog started anew.  send() throws while the socket
\* is CONNECTING.  If the interval is longer than the watchdog's 5 s, the same
\* interval does not fire again while its watchdog runs.
CanPing ==
    /\ pingTimer \/ lostPings > 0
    /\ socket # NoSocket /\ connected /\ readyState[socket] # "CONNECTING"
WatchdogFirst == SlowPing /\ lostPings = 0 => ~watchdog
PingFires ==
    /\ CanPing /\ WatchdogFirst
    /\ watchdog' = TRUE
    /\ pinged' = IF IsOpen(socket, readyState) THEN pinged \cup {socket} ELSE pinged
    /\ UNCHANGED <<sockets, reconnectTimer, lostReconnects, pingTimer, lostPings, streams, issued,
                   sent, wishes, silent>>

\* No PONG within pongTimeout.  An interval that is not longer restarts the
\* watchdog with every PING it sends, before it elapses.
NeverElapses == ~CanPing  \* mutant: an interval of 5 s or less
Elapses == SlowPing \/ ~CanPing
WatchdogFires ==
    /\ watchdog /\ Elapses /\ watchdog' = FALSE
    /\ readyState' = Closing(socket)
    /\ UNCHANGED <<socket, onclose, connected, connectionState, reconnectTimer,
                   lostReconnects, pingTimer, lostPings, streams, issued, sent, wishes, server>>

-----------------------------------------------------------------------------
(* The server and the network.                                             *)

\* The server starts the closing handshake; onclose comes later.
PeerCloses(s) ==
    /\ readyState[s] = "OPEN" /\ s \notin silent
    /\ readyState' = [readyState EXCEPT ![s] = "CLOSING"]
    /\ UNCHANGED <<socket, onclose, connected, connectionState, timers, streams,
                   issued, sent, wishes, server>>

PeerGoesSilent(s) ==
    /\ MayGoSilent /\ readyState[s] = "OPEN" /\ s \notin silent
    /\ silent' = silent \cup {s}
    /\ UNCHANGED <<sockets, timers, streams, issued, sent, wishes, pinged>>

-----------------------------------------------------------------------------
App == \/ \E b \in BOOLEAN : Connect(b)
       \/ Disconnect \/ Reconnect \/ OpenStream \/ Exhausted
       \/ \E r \in Requests : Subscribe(r) \/ Unsubscribe(r)

Browser == \E s \in Sockets :
    \/ OnOpen(s) \/ OnClose(s) \/ OnPong(s)
    \/ \E r \in Requests, outcome \in {"ok", "failed"} : OnEnd(s, r, outcome)
    \/ PeerCloses(s) \/ PeerGoesSilent(s)

Timers == ReconnectFires \/ PingFires \/ WatchdogFires

Next == App \/ Browser \/ Timers

Spec == Init /\ [][Next]_vars

\* Timers fire; an attempt to connect succeeds or fails; a closing socket closes.
Fairness ==
    /\ WF_vars(ReconnectFires) /\ WF_vars(PingFires) /\ WF_vars(WatchdogFires)
    /\ \A s \in Sockets :
        /\ WF_vars(readyState[s] = "CONNECTING" /\ (OnOpen(s) \/ OnClose(s)))
        /\ WF_vars(readyState[s] = "CLOSING" /\ OnClose(s))

FairSpec == Spec /\ Fairness

-----------------------------------------------------------------------------
(* Properties.                                                             *)

TypeOK ==
    /\ app \in AppStates /\ {reconnectionEnabled, again, connected} \subseteq BOOLEAN
    /\ socket \in Sockets \cup {NoSocket}
    /\ readyState \in [Sockets -> ReadyStates \cup {"none"}] /\ onclose \subseteq Sockets
    /\ connectionState \in {"Connected", "Disconnected", "Reconnecting"}
    /\ {reconnectTimer, pingTimer, watchdog} \subseteq BOOLEAN
    /\ {lostReconnects, lostPings} \subseteq 0 .. MaxSockets
    /\ pendingRequests \in Seq(Requests) /\ streamMap \subseteq Requests
    /\ nextStreamId \in 1 .. (LastRequest + 1)
    /\ call \in [Requests -> {"none", "waiting", "ok", "failed", "cancelled"}]
    /\ subscribed \subseteq Requests /\ early \subseteq Requests
    /\ wire \in Seq([req : Requests, sock : Sockets])
    /\ resets \subseteq Requests \X Sockets
    /\ pinged \subseteq Sockets /\ silent \subseteq Sockets

\* Every call that is still waiting is either queued or registered for its
\* response, never both and never neither, through reconnects, failed sends,
\* cancellation and disconnect(): pendingRequests and streamMap together hold
\* exactly the unsettled calls (dispatchRequest, flushPendingRequests, onclose).
NoCallLost ==
    /\ {r \in Requests : call[r] = "waiting"} = ToSet(pendingRequests) \cup streamMap
    /\ ToSet(pendingRequests) \cap streamMap = {}
    /\ IsInjective(pendingRequests)

\* "Sent exactly once": no stream's HEADERS go out twice, not even on different
\* sockets, whatever send() and the connection do between queueing and flushing.
SentOnce == \A i, j \in DOMAIN wire : i # j => wire[i].req # wire[j].req

\* "In issue order": a request overtakes an earlier one only if it was made in a
\* Connected callback, between onopen's state change and its flush.
IssueOrder ==
    \A i, j \in DOMAIN wire :
        i < j => wire[i].req < wire[j].req \/ wire[i].req \in early

\* Nothing waits in the queue of an OPEN socket: all that was queued while it
\* connected is flushed by its onopen, and later requests bypass the queue.
QueueEmptyWhenOpen == IsOpen(socket, readyState) => pendingRequests = <<>>

\* A stream registered for a response was sent on a socket that has not closed
\* and whose onclose will fail it: no call waits for a connection that is gone.
CarrierCanEnd ==
    \A r \in streamMap : \E i \in DOMAIN wire :
        /\ wire[i].req = r /\ wire[i].sock \in onclose
        /\ readyState[wire[i].sock] \in {"OPEN", "CLOSING"}

\* There is one connection: a socket that is CONNECTING or OPEN is this.socket.
OneSocket == \A s \in Sockets : Live(s) => s = socket

\* One connection for as long as connect() is called once only: neither the
\* reconnect timer nor reconnect() leaves a second live socket behind, and no
\* late onclose takes this.socket away from the new one.
OneSocketUntilAgain == again \/ OneSocket

\* Every armed timer can be cleared, and a reconnect timer is armed only while
\* there is no socket, until connect() is called again.
NoTimerLeak ==
    again \/ /\ lostReconnects = 0 /\ lostPings = 0
             /\ reconnectTimer => socket = NoSocket
             /\ pingTimer => connected

\* A call the application gave up on has been reset on the connection that
\* carries it, so that the server stops working for it (Observable teardown).
CancelReachesServer ==
    again \/ \A i \in DOMAIN wire :
        call[wire[i].req] = "cancelled" /\ readyState[wire[i].sock] = "OPEN"
            => <<wire[i].req, wire[i].sock>> \in resets

\* The queue, the stream map and the reconnections together are the abstract
\* Calls: a call's frames leave on one socket, a call cut short is not queued
\* again, a call that was registered for its response never goes back to the
\* queue, and none that was not sent succeeds (openStream, dispatchRequest).
Abstract == INSTANCE Calls WITH
    phase <- [r \in Requests |->
        IF call[r] # "waiting" THEN call[r] ELSE IF r \in streamMap THEN "open" ELSE "queued"],
    carrier <- [r \in Requests |->
        {wire[i].sock : i \in {j \in DOMAIN wire : wire[j].req = r}}]
ImplementsCalls == Abstract!Spec

\* While automatic reconnection is on, a queued request has something to wait
\* for: a socket that will open or close, or an armed reconnect timer.
NeverStranded ==
    pendingRequests # <<>> /\ reconnectionEnabled =>
        \/ reconnectTimer \/ lostReconnects > 0
        \/ socket # NoSocket /\ (readyState[socket] = "CONNECTING" \/ socket \in onclose)

\* disconnect() "stops reconnection attempts": until the application asks for a
\* connection again, no timer or late close event creates a socket.
DisconnectIsFinal ==
    [][app = "disconnected" /\ app' = "disconnected"
        => \A s \in Sockets : readyState[s] = "none" => readyState'[s] = "none"]_vars

\* Every queued request is sent, settled or rejected, as long as the client may
\* still reconnect (and, for the model, has a socket left to do it with).
QueueDrains ==
    \A r \in Requests :
        r \in ToSet(pendingRequests) ~>
            \/ r \notin ToSet(pendingRequests)
            \/ ~reconnectionEnabled \/ Created = MaxSockets

\* "No PONG received within timeout, closing connection": the client does not
\* keep a socket open whose server has stopped answering.
SilentServerDropped ==
    \A s \in Sockets :
        s \in silent /\ s = socket /\ IsOpen(s, readyState)
            ~> ~(s = socket /\ IsOpen(s, readyState))
=============================================================================
