# NgGoRPC: models, checks and proofs

NgGoRPC carries gRPC calls of an Angular application over one WebSocket to a Go
server. This directory holds TLA+ specifications of its concurrent parts, the TLC
configurations that check them on small instances, and TLAPS proofs about them for
all instances. Paths below are relative to `src/`.

## 1. Inventory

| part | source | state | operations |
|---|---|---|---|
| server connection | `wsgrpc/server.go` 79-389, 544-967 | `wsConnection` (`sendChan`, `sendClosed`, `streamMap`, `ctx`, `lastPong`), `WebSocketServerStream` (`recvChan`, `ctx`, `lastActivity`, metadata) | `handleConnection` (read pump), `writerLoop`, `send`, `Close`, keepalive goroutine, `idleTimeoutMonitor`, `handleStream`, `RecvMsg`, `SendMsg`, `SetHeader`/`SendHeader`/`SetTrailer`, `sendTrailers` |
| server lifecycle | `wsgrpc/server.go` 400-560, 1040-1173 | `connections`, `shutdown`, `methods` | `NewServer`, `RegisterService`, `HandleWebSocket`, `Shutdown` |
| frame codecs | `wsgrpc/frame.go`, `frontend/projects/client/src/lib/frame.ts` | none | `encodeFrame`, `decodeFrame` |
| client | `frontend/projects/client/src/lib/client.ts` | socket, `connected`, timers, `pendingRequests`, `streamMap`, `nextStreamId`, auth token | `connect`, `disconnect`, `reconnect`, `setAuthToken`, `request`, `requestClientStream`, unsubscription, socket events, timers |
| typed transport | `transport.ts` | none | `request`, `clientStream`, `requestSignal` |
| errors, providers | `errors.ts`, `providers.ts` | none | status codes; dependency injection |
| demo application | `demo-app/src/app/app.component.ts` | a Subscription and an active flag per stream | start, stop, `sayHello`, `ngOnInit`, `ngOnDestroy` |
| example server, e2e tests, generated code | `example/`, `e2e-tests/`, `generated/` | none of interest | - |

How they interact. The client writes HEADERS and DATA frames; the server's single
read pump (one goroutine per connection) dispatches each to a stream's bounded
`recvChan` and starts a handler goroutine per stream. Handlers, the pump and the
keepalive all queue frames through `send`, under `sendMu`, into one bounded
`sendChan`, which one writer goroutine drains. `streamMap` is guarded by
`wsConnection.mu`. Streams' contexts derive from the connection's. The idle
monitor and `Server.Shutdown` reach into a connection from outside. On the other
side everything is a task of one JavaScript event loop: calls of the application,
socket events, timers. The demo application is such an application: its buttons
start calls whose callbacks clear the fields that hold their Subscriptions.

What is hard here:

* goroutines that look something up under a lock and use it after releasing it
  (pump against idle monitor and resets), and channels closed by one goroutine
  while another sends;
* one shared pump and one shared writer: a stream or a peer that does not move
  must not stop the others, and a failure anywhere must release everybody;
* the two-step admission of a stream, and a slot that is freed after the client
  has already been told that the stream is over;
* `select` with several ready cases;
* on the client, late events of a socket that has been replaced, requests made
  while there is no OPEN socket, sends that fail half-way, timers that outlive what
  they were armed for, and subscribers that come late;
* end to end, frames of one call under way in both directions when either side ends
  it, ids near the limits of their 32 bits, and frames one side is willing to send
  and the other not to read.

What makes each part correct. *Connection*: the stream limit holds, no slot
leaks, messages of a live stream arrive complete and in order, end of file means
half-close, nothing follows TRAILERS, no send on a closed channel, nobody is stuck
for ever. *Lifecycle*: a shutdown reaches every connection, and ends in time. *Codec*: a
frame names the same stream at both ends. *A call*: what the caller is told is what
the handler said, and conversely. *Client*: no call is lost or sent
twice, calls leave in issue order, one connection at a time, a dead one is noticed,
`disconnect()` is final. *Demo*: a field and the call it stands for agree.

## 2. Modules

| module | what it is |
|---|---|
| `ServerConn` | one accepted connection of the server, its goroutines and its peer |
| `MCServerConn` | names for TLC's streams, and their symmetry |
| `ServerConnProofs` | theorems about `ServerConn` |
| `EndProofs` | theorems about the order of frames in a connection's `sendChan` |
| `Server` | all connections of a server and the callers of `Shutdown` |
| `ServerProofs` | theorems about `Server` |
| `Client` | one `NgGoRpcClient`, the browser's sockets, its timers, the application |
| `Calls` | abstract: what the client's queue promises about a call; `Client` implements it |
| `ClientProofs` | theorems about `Client`, and that it implements `Calls` |
| `MCClient` | values of `ConnectWhen` for TLC |
| `Frame` | what the two codecs make of a frame, and the status codes |
| `Wire` | one open connection end to end: transport, client, link, read loop, handlers |
| `Rpc` | abstract: what a call promises at both ends; `Wire` implements it |
| `WireProofs` | theorems about `Wire`, and that it implements `Rpc` |
| `QueueFacts` | lemmas about sequences, for `WireProofs` and `EndProofs` |
| `MCWire` | methods and message sizes for TLC |
| `DemoApp` | the demo component, composed with `Client` |
| `DemoProofs` | theorems about `DemoApp` |

### ServerConn

`pc` gives the location of every goroutine (`pump`, `writer`, `keepalive`,
`shutdown`, and one handler per stream), `job` the frame it holds. The other
variables carry the names of the fields they model; `sendMu` and `wsConnection.mu`
are read off `pc` (`SendMuFree`, `StreamMuFree`).

* A `select` is one action per case that may be ready; waiting in it and arriving
  at it are the same location.
* A critical section of `wsConnection.mu` is one action, except Shutdown's, which
  sends with the mutex held. `PumpHeaders` and `PumpCreate` are separate because
  the code releases the mutex between the limit check and the registration.
* Reading a frame is fused with the peer's sending of it: frames in flight are
  those the pump has not read yet. The peer keeps to the protocol, but may send a
  frame late (after the server ended the stream), disappear (`PeerCloses`) or stop
  reading (`PeerStalls`).
* A handler is any program that calls `RecvMsg` and `SendMsg` and returns; a
  panic is recovered by `handleStream` and ends like a return.
* Time is abstract: a ticker may fire whenever its goroutine waits for it, a
  stream in `IdleStreams` may become stale at any time.
* Frames are records of kind and stream; DATA carries its number.
* `conn.Write` failing because the context ended may or may not close the
  connection (the WebSocket library decides): both are allowed.

Not in this module: per-stream metadata (`SetHeader`, `SendHeader`, `SetTrailer`)
and text frames. Frames that do not decode, which the pump skips, are in `Wire`.

### Server

`at` is where a connection's `handleConnection` stands, `stage` where a call of
`Shutdown` does. The shutdown check and the registration are two critical sections
of `Server.mu`, hence two actions; the flag and the copy of `connections` are one.
The goroutines of a connection are reduced to what they do to its life:
`KeepAliveCloses` drops a silent peer unless `connCtx` is done, `WriterCloses` is a
write cut off by its cancellation, `PeerCloses` is the peer or the network, `ReadEnds`
is the read loop with its deferred `Close`. `overtaken` is a history variable
that names the connections caught between check and registration.

The pass of `Shutdown` takes the connections it copied one at a time: `PassReaches`
takes the connection's mutex and finds up to `MaxStreams` streams, each is reset
under it (`ResetStream`), the mutex is released and 200 ms pass (stage `sleep`), and
`CancelConnection` cancels `connCtx`, which does not by itself end the read loop:
`conn.Read` waits on the request's context. Another caller waits for the mutex
meanwhile. None of these steps looks at `expired`, as none of the code looks at `ctx`.
If the read loop's `Close` has closed `sendChan`, the reset panics (`ResetPanics`) and
nothing happens any more (`Running`): nothing in the repository recovers a panic of
the goroutine that calls `Shutdown`, and an application that does is not modelled.

### Wire, Frame and Rpc

`Wire` puts the two programs together around two FIFO links. When the socket closes
the client hears no more; the server may still read what was sent before, up to the
error that ends its loop (`ReadError`). Each call has its state at both ends. Steps that
`ServerConn` interleaves are one step here (a frame is queued and written at once,
a DATA frame is delivered with its end of stream), and a stream has all the buffer
it needs. What `Wire` adds is what only both ends together decide: the typed
transport's guards, framing, ids, sizes, the server's refusals, replies, trailers,
resets in both directions, and Shutdown's. A socket that is CLOSING or CLOSED stays
so; `Client` has the reconnection, and no call is carried over by one (`SentOnce`).

`Frame` gives what encode and decode do to the fields: `Word` stands for 2^32, ids
and lengths are kept modulo `Word`, the server's decoder refuses a payload over
`MaxPayloadSize`, and one that exceeds the socket's read limit as well ends the
connection. Payloads are records with a size.

`Rpc` is the promise: the handler hears the caller's messages in order, without
repetition, missing at most those that are too large (or any, during a shutdown); the
caller hears the handler's replies in order; a status is that of the handler and
comes after all its replies; a refused call has not run. The refinement maps Wire's
own variables, with `ret = "running"` for a call whose handler has not started and
`ending` for a connection that Shutdown has reached: one that was merely lost is none
(`serving` tells "closed" from "over"). A handler of a streaming method may reply
before it has received anything; a unary one, or one of a server stream, is started
with its message.

### DemoApp

Every action is one of the component's methods joined with the `Client` action it
calls. `Callbacks` are the error and complete callbacks that run within a client's
step. `ngOnDestroy` is one task; its calls are separate steps here, during which
nothing else moves. A request that fails inside `request()` itself, before
`subscribe()`, is `stillborn`: the error callback runs within `subscribe()`, whose
result is then assigned to the field the callback has just cleared.

### Client

An action is one task of the event loop with every callback it runs.
`readyState` and `onclose` are per socket, because the code leaves handlers of
replaced sockets installed; `socket` is `this.socket`. `reconnectTimer` and
`pingTimer` are the timers whose ids the fields hold; `lostReconnects` and
`lostPings` count armed ones whose id was overwritten, which nothing can clear.
`Dispatch` is `dispatchRequest` applied to a queue: `send()` may throw at any
frame, after which the socket is CLOSING; what was sent decides between re-queue
and failure. `OnOpen` lets the application issue a request in its Connected
callback, before the flush, since `connectionState$` notifies synchronously.
`OnEnd` is what `onmessage` does with TRAILERS and with RST_STREAM, including the
RST_STREAM that the teardown of a subscribed Observable then sends.

The browser is modelled as the standard describes it where the client depends on it:
`close()` moves to CLOSING at once and the close event comes later; open and close
events change `readyState` in the same task as the handler; no message is delivered
once a socket is CLOSING. That `send()` may throw on a socket that was OPEN is the
code's own expectation (`client.ts` 718-742) and its tests'.

Left out: back-off delays (a timer fires at some time), DATA payloads (delivery
changes no state of the client), `NgZone`, SSR, logging, and the text of HEADERS;
an application that subscribes twice to one Observable; `request()` called from
within an error callback, which has the same effect as one called just after it
except while a flush is being cut short. The answer to the server's PING changes no
state. A PING on a socket that is CONNECTING throws and changes nothing, so it is
not a step.

## 3. Runs

| run | instance | what it shows |
|---|---|---|
| `conn_streams` | 2 streams, limit 1, channels of 1, 1 message | types, the stream limit, no leaked slot, the pump's wait can end, nobody is inside `send` after `Close` |
| `conn_faults` | 1 stream that may go idle, 2 messages, Shutdown | no message of a live stream is lost or reordered, io.EOF comes after all of them, and only the idle monitor or Shutdown can lead to a send on a closed channel |
| `conn_live` | 1 stream, 2 messages, a peer that may stall | without these two nobody sends on a closed channel; nothing follows TRAILERS; the pump is released, trailers are written, a closed connection leaves no goroutine |
| `conn_keepalive` | 1 stream, keepalive, a peer that may stall | the same hazards with the keepalive goroutine competing for `sendMu`; an unanswered PING that was queued closes the connection |
| `client_queue` | 2 requests, 2 sockets, `connect()` at any time, throwing sends, late subscribers | no call lost, sent twice, out of order or stranded; calls end with their socket; cancellation reaches the server; `disconnect()` is final |
| `client_live` | 1 request, 3 sockets, one `connect()`, silent servers | one live socket, no lost timer; the queue drains; a silent server is dropped |
| `wire` | 3 calls of which ids suffice for 2, one slot, unary and bidirectional methods, one message each that fits or is oversize | end to end a call is what `Rpc` says; a reset hits no other call; no frame names a wrong stream |
| `wire_shutdown` | 1 call on the last id, 7 choices of messages, Shutdown | the same with Shutdown; every call whose messages fit ends |
| `server` | 2 connections, 2 calls of Shutdown | who is told of a shutdown, what nil means, and that every call ends, unless the process dies of its pass |
| `demo` | `ticker` and `stream1`, 2 requests, 2 sockets | fields and calls agree; nothing survives the component |

Two runs end in a violation; each is a disagreement between the code and what the
repository says:

| run | what TLC finds |
|---|---|
| `conn_panic` | the idle monitor closes `recvChan` between the pump's lookup and its send: the process panics |
| `wire_hole` | a frame between the payload limit and the read limit is skipped without an answer: the handler of an upload is told io.EOF with a message missing in the middle (`PROTOCOL.md` 203 asks for `FRAME_SIZE_ERROR`) |

Others have no run of their own; the properties name them as exceptions:

* `Shutdown` says that it "respects the provided context's deadline" (`server.go`
  1064). Only its last part does, the wait for the connections to go: the pass before
  it (1079-1119) never looks at the context, sleeps 200 ms for each connection and
  waits up to 100 ms for each stream of one whose queue is full. A call overruns its
  deadline by that much, however many connections there are. The models have no time,
  so `ShutdownEnds` says that a call ends, and not when.
* The same pass sends on `sendChan` without a look at `sendClosed` (`server.go` 1098)
  and panics if the read loop has just run `Close`: `Server.ResetPanics`,
  `ServerConn.ShutdownPanics`. `ShutdownEnds` excepts a process that died of it,
  `FaultNeedsRace` names it as a cause.
* TRAILERS are written before the slot is freed (`server.go` 944, 965), so a client
  that opens its next stream on reading them can be refused at a limit it has not
  reached. `Rpc` allows a refusal at any time.
* After a RST_STREAM, `RecvMsg` may return io.EOF instead of the cancellation
  (`server.go` 838-842): a truncated upload looks complete. `EofComplete` is about
  live streams, `UploadComplete` about callers that still wait.
* The keepalive waits in `send` behind a stuck writer and never arms its PONG timer
  (`server.go` 600). `UnansweredPingCloses` is about a PING that was queued.
* `disconnect(); connect()`: the first socket's late close event sets `this.socket`, by
  then the second socket, to null (`client.ts` 413-417). `OneSocketUntilAgain` stops
  there.
* A request made in a Connected callback is sent before the requests that were queued
  earlier, so stream ids are not "monotonically increasing" (`PROTOCOL.md` 68).
  `IssueOrder` excepts it.
* Shutdown's resets carry code 0, which the client takes for success (`client.ts`
  196): a stream cut short looks complete. This is `Rpc`'s `CutShort`.
* A connection that passed the shutdown check before the flag was set, and registers
  after the copy was made, is served on (`overtaken` in `Server`); one with a silent
  peer stays registered after its keepalive goroutine was cancelled.
* In the demo, the active flag stays set when `request()` throws, and a stillborn call
  leaves a closed Subscription in its field, which reads as "Already running" until
  it is stopped.

Why the bounds are enough. Capacity 1 makes every channel both full and empty; two
messages are the smallest number for which the pump waits on a full `recvChan` and
for which order can go wrong; two streams with a limit of one make admission
compete with release. Streams do not interact otherwise than through the limit, the
pump, the writer and the two mutexes. On the client two requests are the least for
which order matters; with two sockets each can be the stale one of the other, with
three a reconnection can itself be replaced. `MaxMsgs`, `MaxSockets` and
`LastRequest` are the bounds; the last is also the code's exhaustion of stream ids,
which the run therefore reaches.

The end-to-end model has two instances because the interleavings of two calls and
those of Shutdown with long uploads are each large. Two calls are what the slot,
the ids and a misdirected reset need; everything about longer uploads, kinds of methods
and replies concerns one call. `Word` is 16, so that ids 13 and 15 have their top bit
set and the next one does not fit; 5 is over the payload limit of 4, 7 over the read
limit of 6 too. `Payloads`, `MaxReplies` and `Calls` are the bounds. In `server` two
connections are the least of which one can be overtaken and the other not, and two
callers the least that can wait for each other's mutexes and cancellations; one stream
(`MaxStreams`) is enough to hold a mutex and to panic. In `demo` one slot
has a flag and one has none; the two other slots repeat the first.

`client_queue` and `client_live` differ in what the application does.
`OneSocketUntilAgain`, `NoTimerLeak` and `CancelReachesServer` hold until it asks
for a new connection while an earlier one may still be closing (`again`);
the other properties hold whatever it does, stale sockets included.

### Fairness

*Server.* A goroutine that can run eventually does, and timers fire: weak fairness
of each goroutine's steps. `sync.Mutex` does not starve a waiter, so taking a lock
gets strong fairness. A handler returns some day (strong fairness of `Return`,
since `RecvMsg` and `SendMsg` calls disable it in between); without that no server
could promise anything about its trailers. Nothing is assumed of the peer.

*Client.* Timers fire, an attempt to connect succeeds or fails, and a closing
socket closes: what the browser promises. Nothing is assumed of the server, the
network or the application. `SilentServerDropped` needs a ping interval longer than
the watchdog's 5 s (`SlowPing`; the default is 30 s): a shorter one restarts the
watchdog with every PING, and its mutant is exactly that configuration.

*Server lifecycle.* The goroutines that call Shutdown run, every context given to it
has a deadline, and a `select` with two ready cases does not take the ticker for ever
(strong fairness of `GiveUp`). Connections owe nothing: their peers may stay connected
and silent, and no goroutine of theirs need move for a call to end.

*Wire.* Links deliver, the read loop runs, a connection that either side closes is
closed at the client too. A handler
receives what is there, sends its replies, and returns once it has had its input
(its message, or io.EOF) or its context is done; without that no call need end.
Callers, and the one who shuts the server down, owe nothing.

*Demo.* The client's fairness, and `ngOnDestroy` runs to its end.

Deadlock is checked in the `conn_*` and `client_*` runs (the others end when every
call is made, every connection gone, or the component destroyed); `Stopped` is the state in which all goroutines of
a connection have ended or the process has panicked.

## 4. Proofs

Every invariant that a run checks, and both refinements, is also a theorem: for any
streams, calls, sockets, connections, capacities, limits and message sizes. Each
inductive invariant was checked by TLC on the runs' instances (or on those in the
text below) before it was proved; the proofs are in the modules below.

### The server's connection: `ServerConnProofs`

| theorem | statement |
|---|---|
| `TypesHold` | `TypeOK` |
| `LimitHolds`, `NoSlotLeaks`, `PumpIsReleased` | `StreamLimit`, `SlotHasHandler`, `PumpWaitCanEnd` |
| `NoMessageLost`, `EofAfterEverything` | `NoGap`, `EofComplete` |
| `SendNeverPanics`, `OnlyTwoRaces` | `SendOnlyWhileOpen`, `FaultNeedsRace` |
| `NoFault` | with no idle streams and no Shutdown, nobody sends on a closed channel |

They follow from an inductive invariant in four layers, each proved with the ones
before it as context:

1. `TypeInv` (`TypeCorrect`): types, and a pump that delivers or creates holds a
   stream's frame.
2. `SlotInv` (`SlotsAgree`): the limit is not inductive by itself, because the check
   and the registration are two critical sections. `PumpLocals` adds that while the
   pump stands between them there is still room: only the pump adds streams.
   `Fresh` says that a stream the pump is about to create has no handler, and
   `LeftIsCancelled` that a handler on its way out has cancelled its stream, which
   is what releases a pump waiting on its buffer.
3. `MsgInv` (`MessagesKept`): the count `got + buffered + in delivery = sent` is kept
   by every step only if a closed `recvChan` belongs to a stream that was half-closed
   or is over (`ClosedIsOver`) and a new stream starts empty (`NewIsEmpty`).
4. `FaultInv` (`ClosedChannels`): who may have closed the channel the pump sends on.

The assumptions are `StreamsAssumption` (finitely many streams, distinct from the
goroutines' names) and `LimitsAssumption` (positive capacities). Finiteness is
only needed for cardinalities.

### What is written last: `EndProofs`

| theorem | statement |
|---|---|
| `EndComesLast` | `EndInv`, the invariant below |
| `NothingFollowsEnd` | `NothingAfterEnd` |

Both are about a connection that is not shut down (`MayShutDown = FALSE`, as in
`conn_live`, which checks `NothingAfterEnd`): Shutdown queues resets behind the handlers' backs,
and what a handler sends afterwards is written after them.

`NothingAfterEnd` speaks of the frame the writer holds. What makes it true is the
order of the whole channel, so `EndInv` follows a frame from its sender to the wire:
`Senders` (a handler sends only frames of its own stream, the pump only HEADERS,
refusals and PONG), `Sent` (a handler's frame on its way belongs to a stream whose
handler was started, a refusal to one that has none), `OverIsPast` (once TRAILERS
are queued the handler is past its last send) and `EndIsLast` (in the channel, between
channel and writer, and between these and the frames already written, nothing of a
handler is behind its TRAILERS). TLC checked it with one and with two streams.

### All connections: `ServerProofs`

| theorem | statement |
|---|---|
| `TypeCorrect` | `TypeOK` |
| `AllTold` | `ToldUnlessOvertaken` |
| `NilIsTrue` | `NilMeansClosed` |

Neither property is inductive: what a caller knows after its pass rests on the flag
it set before. `FlagIsSet` and `CheckedIsOvertaken` say that from then on every
connection still between check and registration is overtaken; `TodoOrTold` follows
each registered connection from the caller's copy over its turn to its cancellation,
and `PassIsOver` says that a caller that waits has nothing left to do; `Registered`
ties `connections` to the places of the handlers, so that an empty map means that
none is serving. `ServerAssumption` (`MaxStreams` is a number) is the only assumption.
TLC checked the invariant on the instance of `server` (321 977 states).

### The client: `ClientProofs`

| theorem | statement |
|---|---|
| `TypeCorrect` | `TypeOK` |
| `CallsAreKept`, `SentExactlyOnce`, `SentInOrder` | `NoCallLost`, `SentOnce`, `IssueOrder` |
| `OpenMeansFlushed`, `StreamsCanEnd`, `QueueIsServed` | `QueueEmptyWhenOpen`, `CarrierCanEnd`, `NeverStranded` |
| `OneConnection`, `TimersNamed`, `CancelIsSent` | `OneSocketUntilAgain`, `NoTimerLeak`, `CancelReachesServer` |
| `DisconnectStops` | `DisconnectIsFinal`, an action property |
| `ClientImplementsCalls` | `ImplementsCalls`: initial states and every step of `Client` are those of `Calls`, or stutter |

All rest on one invariant, `IInv` (`ClientInvariant`). Its parts:

* `SocketShape`: sockets are created in order, and `this.socket` is one whose close
  handler is still to run. Without it nothing would say that a reconnection uses a
  new socket.
* `TimersCounted`: `lostReconnects` and `lostPings` are bounded because each timer is
  armed by the close or the open event of a different socket. This is all that the
  type of the two counters rests on.
* `Issued`, `SentApart`, `QueueOrder`: ids are used in order; what waits in the queue has
  sent nothing; the queue itself is in issue order and behind what was sent. They are
  what a flush that is cut short at any frame must keep.
* `RetryInv`: while reconnection is on there is a socket or a timer; after
  `disconnect()` it is off.
* `ConnectedOnce`, until `again`: what the first `connect()` leaves true.

A step of the client is a flush of some queue or settles some calls (`QueueSteps`);
everything about the queue is proved for these two. The only assumption is
`ClientAssumption` (positive bounds). TLC checked `IInv` on the instance of
`client_queue` (757 070 states).

### The demo: `DemoProofs`

| theorem | statement |
|---|---|
| `DemoInvariant` | the client's `IInv` and `DemoInv`, together |
| `SlotsAreTrue` | `SlotTracksCall` |
| `DemoHasOneConnection` | `OneSocket` and `NoTimerLeak`, without the exception of `again` |

`DemoStepsClient` shows that every step of the component is one of the client or none,
so the client's invariant carries over. `DemoInv` adds whose call each request is, that a
call that failed as it started stays failed, and that `connect()` is called once: the
disagreements that the client has with a second `connect()` do not exist in
this application. `DemoAssumption` names the component's four fields.

### Both programs: `WireProofs`

| theorem | statement |
|---|---|
| `WireTypes` | `TypeOK` |
| `ResetsAreHarmless`, `FramesKeepStream` | `ResetHarmless`, `FramesKeepTheirStream` |
| `WireImplementsRpc` | `ImplementsRpc`: initial states and every step of `Wire` are those of `Rpc`, or stutter |

`IInv` (`WireInvariant`) describes the frames in flight. `SentByClient` and
`SentByServer` say of each frame which of the two programs' actions put it there and
what was true of its call then and still is; `Ids` that ids are used in order and below
`Word`, so that encoding changes none; `InOrder` that HEADERS come once and first and
messages in order; `Unstarted` that a call whose HEADERS are under way has not run.
`Harmless` is `ResetHarmless` with what the read loop and the handlers need.
`CarriedInOrder`, `NoneMissing` and `RepliesInOrder` are for the refinement: `Rpc` says
that a message is skipped only if it is too large, so a message that fits must have
reached the handler or be under way before every later one, on a connection that
was lost as well; and a status that the
caller is told must find no reply left behind it. `Before` (`QueueFacts`) is the order
of frames in a link.

The assumptions are `FrameAssumption` (the limits fit the word) and `WireAssumption`
(ids start odd and within the word, calls are finitely many, methods and payloads are of
their kinds). TLC checked `IInv` on the instances of `wire` (832 441 states) and
`wire_shutdown` (281 606).

### Left to TLC

All liveness: `PumpReleased`, `CleanUp`, `TrailersWritten`, `UnansweredPingCloses`,
`QueueDrains`, `SilentServerDropped`, `ShutdownEnds`, `Answered` and `DestroyedIsQuiet`.
They depend on fairness and so on ENABLED, which the prover does not handle. The
theorems are about the specifications without fairness, and so also about those with
it. The two properties that are violated are not theorems, of course.

## 5. Not modelled

* Per-stream metadata of the server stream: the client of this repository ignores
  HEADERS frames and reads two lines of the trailers. It touches no other state.
* `NewServer`'s option merge, `RegisterService` and the chaining of interceptors:
  sequential set-up, finished before the first connection.
* The byte layout of frames and the text of header blocks, the auth token included: a
  request keeps the token it was framed with.
* `requestSignal`, the demo's use of it, and `providers.ts`: Angular's injection and
  signals around `request()`.
* The demo's status poll, counters and texts, which are only displayed.
* The example server, the end-to-end tests and generated code.

## 6. Plan

Done: the models, and as theorems all the safety properties and both refinements.
Left to prove, each of them stronger than what a run checks:

1. `EndProofs` with Shutdown: a reset of Shutdown excepted, nothing of a handler
   is written behind the end of its stream.
2. The two sides of the disagreements in section 3 as theorems: under which conditions
   on the application or the peer `OneSocket` and `UploadComplete` hold.
3. The state properties that the liveness arguments rest on: whoever waits in `send`
   holds `sendMu` alone, and a goroutine that waits has one that can release it.

## 7. Running

    tlc -workers 2 -config ConnStreams.cfg MCServerConn.tla
    tlc -workers 2 -config ClientQueue.cfg MCClient.tla
    tlc -workers 2 -config Wire.cfg MCWire.tla
    tlapm ServerConnProofs.tla
    tlapm WireProofs.tla

Definitions marked `mutant` are not part of the specifications: each is a plausible
bug, and putting it in the place of the definition it precedes makes TLC find the
property that `PROJECT.json` lists for it violated.
