-------------------------------- MODULE Wire --------------------------------
(***************************************************************************)
(* One OPEN connection from end to end: the typed transport and the client *)
(* that frames a call (transport.ts, client.ts), the frames in flight, and *)
(* the read loop and handlers that serve it (server.go).  How the server's *)
(* goroutines interleave inside one step is ServerConn's subject, how the  *)
(* client comes by a socket is Client's; keepalive frames are theirs too.  *)
(*                                                                         *)
(* Frames in either direction arrive in order, or not at all once the      *)
(* connection is gone.  Call c of the model travels on stream StreamId(c). *)
(***************************************************************************)
EXTENDS Frame, FiniteSets, SequencesExt, Functions

CONSTANTS
    Calls,       \* bound: calls the application makes, 1 .. n
    FirstId,     \* nextStreamId at the start, near Word so that it runs out
    Methods,     \* descriptors: requestStream, responseStream, registered
    Payloads,    \* bound: the sequences of message sizes a call may send
    MaxReplies,  \* bound: messages a handler sends
    Failures,    \* the codes other than 0 that a handler returns
    MaxConcurrentStreams,
    MayShutDown  \* TRUE iff Server.Shutdown may be called

ASSUME WireAssumption ==
    /\ FirstId % 2 = 1 /\ FirstId \in 1 .. (Word - 1)
    /\ IsFiniteSet(Calls) /\ Calls \subseteq Nat \ {0}
    /\ Methods \subseteq [requestStream : BOOLEAN, responseStream : BOOLEAN, registered : BOOLEAN]
    /\ Payloads \subseteq Seq(0 .. (Word - 1))
    /\ Failures \subseteq 1 .. 16 /\ MaxReplies \in Nat \ {0}
    /\ MaxConcurrentStreams \in Nat /\ MayShutDown \in BOOLEAN

VARIABLES
    readyState,   \* of the client's socket
    nextStreamId,
    streamMap,    \* the client's: streams with a subject
    asked,        \* per call: its method and the sizes of its messages, or Nothing
    told,         \* per call: the replies its Observable emitted
    outcome,      \* per call: "none", "waiting", "cancelled" or the code it ended with
    toServer, toClient,
    serving,      \* "yes", "reset" (Shutdown's pass), "stopped" (its conn.cancel), or
                  \* "closed", "over" (closed without, and after, a Shutdown)
    registered,   \* the server's streamMap
    cancelled,    \* calls whose stream context is done
    recvChan,     \* per call: messages the handler has not received
    closed,       \* calls whose recvChan is closed
    eof,          \* calls whose handler was told io.EOF
    heard, said,  \* per call: messages received, number of replies sent
    ret           \* per call: "none", "running", or the code its handler returned

client == <<readyState, nextStreamId, streamMap, asked, told, outcome>>
handler == <<eof, heard, said, ret>>
stream == <<registered, cancelled, recvChan, closed>>
vars == <<client, toServer, toClient, serving, stream, handler>>

Nothing ==
    [method |-> [requestStream |-> FALSE, responseStream |-> FALSE, registered |-> FALSE],
     sizes |-> <<>>]
StreamId(c) == FirstId + 2 * (c - 1)
CallOf(id) == (id - FirstId) \div 2 + 1
Running(c) == ret[c] = "running"
Gone == serving \in {"closed", "over"}
Ending == serving \in {"reset", "stopped", "over"}

Init ==
    /\ readyState = "OPEN" /\ nextStreamId = FirstId /\ streamMap = {}
    /\ asked = [c \in Calls |-> Nothing] /\ told = [c \in Calls |-> <<>>]
    /\ outcome = [c \in Calls |-> "none"]
    /\ toServer = <<>> /\ toClient = <<>> /\ serving = "yes"
    /\ registered = {} /\ cancelled = {} /\ closed = {} /\ eof = {}
    /\ recvChan = [c \in Calls |-> <<>>] /\ heard = [c \in Calls |-> <<>>]
    /\ said = [c \in Calls |-> 0] /\ ret = [c \in Calls |-> "none"]

-----------------------------------------------------------------------------
(* The client.                                                             *)

ResetLatest(c) ==  \* mutant: the id of the latest stream, not of this one
    <<EncodeFrame(nextStreamId - 2, {"RST_STREAM"}, ResetCode(CANCEL))>>
Reset(c) == <<EncodeFrame(StreamId(c), {"RST_STREAM"}, ResetCode(CANCEL))>>

KeepEntry(c) == streamMap  \* mutant: the subject stays registered
Forget(c) == streamMap \ {StreamId(c)}

\* The subject of c ends; its subscriber's teardown runs, which forgets the
\* stream and sends RST_STREAM while the socket is OPEN.
Settle(c, status) ==
    /\ outcome' = [outcome EXCEPT ![c] = status]
    /\ streamMap' = Forget(c)
    /\ toServer' = IF readyState = "OPEN" THEN toServer \o Reset(c) ELSE toServer

\* HEADERS, then one DATA frame for each message, the last of them with EOS.
DataFlags(sizes, i) == IF i = Len(sizes) THEN {"DATA", "EOS"} ELSE {"DATA"}
Frames(id, method, sizes) ==
    <<EncodeFrame(id, {"HEADERS"}, Headers(method))>> \o
    [i \in 1 .. Len(sizes) |-> EncodeFrame(id, DataFlags(sizes, i), Message(i, sizes[i]))]

IdsOffByOne == nextStreamId <= Word + 1  \* mutant
IdsLeft == nextStreamId < Word

\* openStream() and dispatchRequest() on an OPEN socket.
OpenStream(method, sizes) ==
    LET c == CallOf(nextStreamId) IN
    /\ readyState = "OPEN" /\ IdsLeft /\ c \in Calls
    /\ nextStreamId' = nextStreamId + 2
    /\ streamMap' = streamMap \cup {nextStreamId}
    /\ asked' = [asked EXCEPT ![c] = [method |-> method, sizes |-> sizes]]
    /\ outcome' = [outcome EXCEPT ![c] = "waiting"]
    /\ toServer' = toServer \o Frames(nextStreamId, method, sizes)
    /\ UNCHANGED <<readyState, told, toClient, serving, stream, handler>>

\* WebSocketRpcTransport.request() and clientStream(): each throws if the other
\* is meant, and a client stream without messages ends with INVALID_ARGUMENT;
\* no stream is opened then.
Request(method, sizes) ==
    /\ ~method.requestStream /\ Len(sizes) = 1
    /\ OpenStream(method, sizes)
ClientStream(method, sizes) ==
    /\ method.requestStream /\ sizes # <<>>
    /\ OpenStream(method, sizes)

Exhausted ==
    /\ ~IdsLeft /\ readyState = "OPEN" /\ readyState' = "CLOSING"
    /\ UNCHANGED <<nextStreamId, streamMap, asked, told, outcome, toServer, toClient, serving,
                   stream, handler>>

Unsubscribe(c) ==
    /\ outcome[c] = "waiting"
    /\ Settle(c, "cancelled")
    /\ UNCHANGED <<readyState, nextStreamId, asked, told, toClient, serving, stream, handler>>

\* onmessage.
OnMessage ==
    /\ readyState = "OPEN" /\ toClient # <<>> /\ toClient' = Tail(toClient)
    /\ LET frame == DecodeFrame(Head(toClient))
           c == CallOf(frame.streamId) IN
       \/ /\ frame.streamId \notin streamMap
          /\ UNCHANGED <<streamMap, told, outcome, toServer>>
       \/ /\ frame.streamId \in streamMap /\ "DATA" \in frame.flags
          /\ told' = [told EXCEPT ![c] = Append(@, frame.payload.n)]
          /\ UNCHANGED <<streamMap, outcome, toServer>>
       \/ /\ frame.streamId \in streamMap /\ "TRAILERS" \in frame.flags
          /\ Settle(c, GrpcStatus[frame.payload.status])
          /\ UNCHANGED told
       \/ /\ frame.streamId \in streamMap /\ "RST_STREAM" \in frame.flags
          /\ Settle(c, ResetStatus(frame.payload.code))
          /\ UNCHANGED told
    /\ UNCHANGED <<readyState, nextStreamId, asked, serving, stream, handler>>

\* onclose, whoever closed the socket; what was in flight to the client is lost.
\* The server may still read frames sent before (until ReadError).
OnClose ==
    /\ readyState # "CLOSED" /\ readyState' = "CLOSED"
    /\ outcome' = [c \in Calls |->
                    IF StreamId(c) \in streamMap THEN "UNAVAILABLE" ELSE outcome[c]]
    /\ streamMap' = {} /\ toClient' = <<>>
    /\ UNCHANGED <<nextStreamId, asked, told, toServer, serving, stream, handler>>

-----------------------------------------------------------------------------
(* The server's read loop.                                                 *)

Reads(flag) ==
    /\ ~Gone /\ toServer # <<>> /\ toServer' = Tail(toServer)
    /\ Decodes(Head(toServer)) /\ flag \in Head(toServer).flags

\* What the writer puts on the wire: nothing once the connection is cancelled.
Send(frame) ==
    toClient' = IF serving \in {"yes", "reset"} /\ readyState # "CLOSED"
                THEN Append(toClient, frame) ELSE toClient
SendReset(id, code) == Send(EncodeFrame(id, {"RST_STREAM"}, ResetCode(code)))

AtLimit == Cardinality(registered) >= MaxConcurrentStreams

PumpHeaders ==
    LET frame == Head(toServer)
        c == CallOf(frame.streamId) IN
    /\ Reads("HEADERS")
    /\ \/ /\ AtLimit /\ SendReset(frame.streamId, RESOURCE_EXHAUSTED)
          /\ UNCHANGED <<registered, cancelled, ret>>
       \/ /\ ~AtLimit /\ ~frame.payload.path.registered
          /\ SendReset(frame.streamId, REFUSED_STREAM)
          /\ UNCHANGED <<registered, cancelled, ret>>
       \/ /\ ~AtLimit /\ frame.payload.path.registered
          /\ registered' = registered \cup {c}
          /\ cancelled' = IF serving = "stopped" THEN cancelled \cup {c} ELSE cancelled
          /\ ret' = [ret EXCEPT ![c] = "running"]
          /\ UNCHANGED toClient
    /\ UNCHANGED <<client, serving, recvChan, closed, eof, heard, said>>

\* A message for a stream that is gone is dropped, one for a stream whose
\* context is done may be.  The handler's buffer has room or is made room in.
DropWhenBusy(c) == c \notin registered \/ recvChan[c] # <<>>  \* mutant: default, not Done()
Dropped(c) == c \notin registered \/ c \in cancelled
HalfClosed(c, frame) == IF "EOS" \in frame.flags THEN closed \cup {c} ELSE closed
PumpData ==
    LET frame == Head(toServer)
        c == CallOf(frame.streamId) IN
    /\ Reads("DATA")
    /\ \/ /\ Dropped(c)
          /\ UNCHANGED <<recvChan, closed>>
       \/ /\ c \in registered
          /\ recvChan' = [recvChan EXCEPT ![c] = Append(@, frame.payload.n)]
          /\ closed' = HalfClosed(c, frame)
    /\ UNCHANGED <<client, toClient, serving, registered, cancelled, handler>>

PumpRst ==
    LET c == CallOf(Head(toServer).streamId) IN
    /\ Reads("RST_STREAM")
    /\ cancelled' = cancelled \cup ({c} \cap registered)
    /\ closed' = closed \cup ({c} \cap registered)
    /\ registered' = registered \ {c}
    /\ UNCHANGED <<client, toClient, serving, recvChan, handler>>

\* A frame over MaxPayloadSize is skipped without an answer.
PumpSkips ==
    /\ ~Gone /\ toServer # <<>> /\ toServer' = Tail(toServer)
    /\ ~Decodes(Head(toServer)) /\ ~OverReadLimit(Head(toServer))
    /\ UNCHANGED <<client, toClient, serving, stream, handler>>

\* conn.Read fails: the socket is closed, or a frame is over its read limit.
\* Close() cancels the context of every stream.
ReadError ==
    /\ ~Gone
    /\ readyState = "CLOSED" \/ (toServer # <<>> /\ OverReadLimit(Head(toServer)))
    /\ serving' = (IF Ending THEN "over" ELSE "closed") /\ toServer' = <<>>
    /\ cancelled' = {c \in Calls : ret[c] # "none"}
    /\ UNCHANGED <<client, toClient, registered, recvChan, closed, handler>>

-----------------------------------------------------------------------------
(* The handlers.                                                           *)

OneMessageHeard(c) == ~asked[c].method.requestStream /\ heard[c] # <<>>

\* RecvMsg() returns a message, or io.EOF.
Hear(c) ==
    /\ Running(c) /\ recvChan[c] # <<>> /\ ~OneMessageHeard(c)
    /\ heard' = [heard EXCEPT ![c] = Append(@, Head(recvChan[c]))]
    /\ recvChan' = [recvChan EXCEPT ![c] = Tail(@)]
    /\ UNCHANGED <<client, toServer, toClient, serving, registered, cancelled, closed, eof, said, ret>>
HearEof(c) ==
    /\ Running(c) /\ recvChan[c] = <<>> /\ c \in closed \ eof
    /\ eof' = eof \cup {c}
    /\ UNCHANGED <<client, toServer, toClient, serving, stream, heard, said, ret>>

\* SendMsg(): a unary handler's reply, or one of a stream.  A method that takes one
\* message receives it before its handler runs; the others may speak first.
Replies(method) == IF method.responseStream THEN MaxReplies ELSE 1
Say(c) ==
    /\ asked[c].method.requestStream \/ heard[c] # <<>>
    /\ Running(c) /\ said[c] < Replies(asked[c].method)
    /\ said' = [said EXCEPT ![c] = @ + 1]
    /\ Send(EncodeFrame(StreamId(c), {"DATA"}, Message(said[c] + 1, 1)))
    /\ UNCHANGED <<client, toServer, serving, stream, eof, heard, ret>>

\* handleStream() up to its TRAILERS.  Without a reply a unary handler failed.
Heard(c) == IF asked[c].method.requestStream THEN c \in eof ELSE heard[c] # <<>>
Unary(method) == ~method.requestStream /\ ~method.responseStream
Return(c, code) ==
    /\ Running(c)
    /\ code = 0 => ~Unary(asked[c].method) \/ said[c] = 1
    /\ ret' = [ret EXCEPT ![c] = GrpcStatus[code]]
    /\ Send(EncodeFrame(StreamId(c), {"TRAILERS"}, Trailers(code)))
    /\ UNCHANGED <<client, toServer, serving, stream, eof, heard, said>>

\* The rest of sendTrailers().
Unregister(c) ==
    /\ c \in registered /\ ~Running(c)
    /\ registered' = registered \ {c} /\ cancelled' = cancelled \cup {c}
    /\ UNCHANGED <<client, toServer, toClient, serving, recvChan, closed, handler>>

-----------------------------------------------------------------------------
(* Shutdown.                                                               *)

\* A RST_STREAM that finds no room in the send queue for 100 ms is given up.
ShutdownResets ==
    /\ MayShutDown /\ serving = "yes" /\ serving' = "reset"
    /\ \E queued \in SUBSET registered : \E order \in SetToSeqs(queued) :
        toClient' = IF readyState = "CLOSED" THEN toClient ELSE toClient \o
            [i \in DOMAIN order |->
                EncodeFrame(StreamId(order[i]), {"RST_STREAM"}, ResetCode(NO_ERROR))]
    /\ cancelled' = cancelled \cup registered
    /\ UNCHANGED <<client, toServer, registered, recvChan, closed, handler>>

\* conn.cancel(): the writer stops, with frames it has not written.
ShutdownCancels ==
    /\ serving = "reset" /\ serving' = "stopped"
    /\ \E n \in 0 .. Len(toClient) : toClient' = SubSeq(toClient, 1, n)
    /\ cancelled' = {c \in Calls : ret[c] # "none"}
    /\ UNCHANGED <<client, toServer, registered, recvChan, closed, handler>>

-----------------------------------------------------------------------------
Client ==
    \/ \E method \in Methods, sizes \in Payloads :
        Request(method, sizes) \/ ClientStream(method, sizes)
    \/ \E c \in Calls : Unsubscribe(c)
    \/ Exhausted \/ OnMessage \/ OnClose

Pump == PumpHeaders \/ PumpData \/ PumpRst \/ PumpSkips \/ ReadError

Handler(c) ==
    \/ Hear(c) \/ HearEof(c) \/ Say(c) \/ Unregister(c)
    \/ \E code \in {0} \cup Failures : Return(c, code)

Next == Client \/ Pump \/ (\E c \in Calls : Handler(c)) \/ ShutdownResets \/ ShutdownCancels

Spec == Init /\ [][Next]_vars

\* Frames arrive and goroutines run.  A handler takes what it is sent, replies,
\* and returns once it has all it was to receive or its context is done.
Fairness ==
    /\ WF_vars(OnMessage) /\ WF_vars(Pump) /\ WF_vars(readyState = "CLOSING" /\ OnClose)
    /\ WF_vars(Gone /\ OnClose)
    /\ \A c \in Calls :
        /\ WF_vars(Hear(c)) /\ WF_vars(HearEof(c)) /\ WF_vars(Say(c)) /\ WF_vars(Unregister(c))
        /\ WF_vars((Heard(c) \/ c \in cancelled) /\ \E code \in {0} \cup Failures : Return(c, code))

FairSpec == Spec /\ Fairness
-----------------------------------------------------------------------------
(* Properties.                                                             *)

TypeOK ==
    /\ readyState \in {"OPEN", "CLOSING", "CLOSED"} /\ nextStreamId \in Nat
    /\ streamMap = {StreamId(c) : c \in {d \in Calls : outcome[d] = "waiting"}}
    /\ \A c \in Calls :
        /\ asked[c] \in {Nothing} \cup [method : Methods, sizes : Payloads]
        /\ outcome[c] \in {"none", "waiting", "cancelled"} \cup Range(GrpcStatus)
        /\ ret[c] \in {"none", "running"} \cup Range(GrpcStatus)
        /\ told[c] \in Seq(Nat) /\ heard[c] \in Seq(Nat) /\ recvChan[c] \in Seq(Nat)
        /\ said[c] \in 0 .. MaxReplies
    /\ serving \in {"yes", "reset", "stopped", "closed", "over"}
    /\ registered \cup cancelled \cup closed \cup eof \subseteq Calls

\* Across both programs a call behaves as Rpc says: the handler hears the
\* caller's messages in order, the caller the handler's replies in order, a call
\* ends with the handler's status only after all its replies, a refused call was
\* never started, and OK without the handler's OK means a shutdown.
Abstract == INSTANCE Rpc WITH
    Requests <- {q \in [method : Methods, sizes : Payloads] :
                    IF q.method.requestStream THEN q.sizes # <<>> ELSE Len(q.sizes) = 1},
    Statuses <- {GrpcStatus[code] : code \in {0} \cup Failures},
    ret <- [c \in Calls |-> IF ret[c] = "none" THEN "running" ELSE ret[c]],
    ending <- Ending
ImplementsRpc == Abstract!Spec

\* The RST_STREAM of a teardown, which runs after completion too, stops the
\* handler of no other call: while the connection serves, a running handler's
\* context is done only if its own caller has settled.
ResetHarmless ==
    \A c \in Calls :
        Running(c) /\ c \in cancelled /\ serving = "yes" => outcome[c] # "waiting"

\* "Stream IDs MUST NOT be reused": the id a frame carries in its 32 bits is that
\* of a stream this client opened, also when the ids run out.
FramesKeepTheirStream ==
    \A i \in DOMAIN toServer :
        \E c \in Calls : asked[c] # Nothing /\ toServer[i].streamId = StreamId(c)

\* A call whose messages all fit the server's limit ends, unless the server is
\* shut down: each frame finds its stream at the other end, the handler of an
\* upload sees its end, the caller the trailers.
Fits(c) == \A i \in DOMAIN asked[c].sizes : asked[c].sizes[i] <= MaxPayloadSize
Answered ==
    \A c \in Calls :
        outcome[c] = "waiting" /\ Fits(c) ~> outcome[c] # "waiting" \/ serving = "stopped"

\* "Implementations MUST reject frames exceeding these limits": a handler that is
\* told io.EOF for an upload nobody cut short has received every message of it.
UploadComplete ==
    \A c \in eof :
        outcome[c] = "waiting" /\ serving = "yes" => Len(heard[c]) = Len(asked[c].sizes)
=============================================================================
