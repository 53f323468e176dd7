----------------------------- MODULE ServerConn -----------------------------
(***************************************************************************)
(* One accepted WebSocket connection of the Go server (wsgrpc/server.go):  *)
(* the shared read pump of handleConnection, the writer goroutine, the     *)
(* server-initiated keepalive, the idle monitor, Server.Shutdown's pass    *)
(* over this connection, and one handler goroutine per accepted stream.    *)
(*                                                                         *)
(* Each goroutine has a location in pc; between two locations it runs      *)
(* alone.  A Go select is an action per ready case: a goroutine that is    *)
(* parked in a select and one that is about to evaluate it are the same    *)
(* location, since the cases it may take are the same.                     *)
(*                                                                         *)
(* The peer is any client that keeps to the protocol: it opens a stream    *)
(* once, sends data only between HEADERS and EOS or RST_STREAM, and resets *)
(* a stream at most once.  It may die ("closed") or stop reading           *)
(* ("stalled") at any moment.                                              *)
(***************************************************************************)
EXTENDS Integers, Sequences, FiniteSets

CONSTANTS
    Streams,              \* stream ids the peer may open
    IdleStreams,          \* the streams that may go IdleTimeout without activity
    MaxConcurrentStreams, \* ServerOption.MaxConcurrentStreams
    RecvCap,              \* capacity of a stream's recvChan (10 in the code)
    SendCap,              \* capacity of the connection's sendChan (100)
    MaxMsgs,              \* bound: DATA frames the peer sends on one stream
    KeepAlive,            \* TRUE iff ServerOption.KeepAliveInterval > 0
    MayShutDown,          \* TRUE iff Server.Shutdown may be called
    MayStall              \* TRUE iff the peer may stop reading without closing

Workers == {"pump", "writer", "keepalive", "shutdown"}
Goroutines == Streams \cup Workers

ASSUME StreamsAssumption ==
    /\ IsFiniteSet(Streams)
    /\ Streams \cap Workers = {} /\ 0 \notin Streams
    /\ IdleStreams \subseteq Streams

ASSUME LimitsAssumption ==
    /\ MaxConcurrentStreams \in Nat \ {0}
    /\ RecvCap \in Nat \ {0}
    /\ SendCap \in Nat \ {0}
    /\ MaxMsgs \in Nat
    /\ KeepAlive \in BOOLEAN
    /\ MayShutDown \in BOOLEAN
    /\ MayStall \in BOOLEAN

VARIABLES
    conn,        \* the websocket.Conn: "up", "stalled" (peer dead, no error) or "closed"
    ctxDone,     \* connCtx has been cancelled
    pc,          \* location of every goroutine
    job,         \* the frame a goroutine is sending, writing or delivering
    sendChan,    \* frames queued for the writer
    sendClosed,  \* sendChan has been closed
    streamMap,   \* streams registered in wsConnection.streamMap
    cancelled,   \* streams whose own context was cancelled
    recvChan,    \* per stream, numbers of the messages buffered for its handler
    recvClosed,  \* streams whose recvChan has been closed
    stale,       \* streams whose lastActivity is older than IdleTimeout
    toReset,     \* streams Shutdown has still to reset (it holds wsConnection.mu)
    pongFresh,   \* lastPong is not before the pending ping's pingSentTime
    fault,       \* "none", or the goroutine that sent on a closed channel
    peer,        \* what the peer did with a stream: "idle", "open", "eos", "reset"
    sent,        \* how many DATA frames of a stream the pump has read
    got,         \* number of the last message the handler received
    eof,         \* streams whose handler was told io.EOF
    ended        \* streams for which the peer has read TRAILERS or RST_STREAM

link    == <<conn, ctxDone>>
sending == <<sendChan, sendClosed>>
table   == <<streamMap, cancelled, recvClosed>>
clocks  == <<stale, pongFresh>>
remote  == <<peer, sent, ended>>
seen    == <<got, eof>>

vars == <<conn, ctxDone, pc, job, sendChan, sendClosed, streamMap, cancelled,
          recvChan, recvClosed, stale, toReset, pongFresh, fault, peer, sent,
          got, eof, ended>>

-----------------------------------------------------------------------------
(* Frames and the state the code reads through its mutexes.                *)

\* Frames of the connection itself (stream id 0) and of a stream; "RST0", "RST6"
\* and "RST8" are RST_STREAM with that error code.
ConnKinds == {"none", "PING", "PONG"}
StreamKinds == {"HEADERS", "DATA", "TRAILERS", "RST0", "RST6", "RST8"}
Frame == [kind : ConnKinds, id : {0}] \cup [kind : StreamKinds, id : Streams]
Fr(kind, id) == [kind |-> kind, id |-> id]
NoFrame == Fr("none", 0)

Ends == {"TRAILERS", "RST0", "RST6", "RST8"}

\* stream.ctx.Done(): the stream's context derives from the connection's.
Done(s) == ctxDone \/ s \in cancelled

\* send() holds sendMu while it waits in its select.
SendMuIgnored == TRUE  \* mutant: Close and send do not exclude each other
SendMuFree == \A g \in Goroutines : pc[g] # "enqueue"

\* Every critical section of wsConnection.mu is one action, but for Shutdown's,
\* which sends on sendChan with the mutex held.
StreamMuFree == pc["shutdown"] # "reset"

Goto(g, loc, f) == /\ pc' = [pc EXCEPT ![g] = loc]
                   /\ job' = [job EXCEPT ![g] = f]

-----------------------------------------------------------------------------
Init ==
    /\ conn = "up" /\ ctxDone = FALSE
    /\ pc = [g \in Goroutines |->
                CASE g = "pump"      -> "read"
                  [] g = "writer"    -> "take"
                  [] g = "keepalive" -> IF KeepAlive THEN "tick" ELSE "done"
                  [] g = "shutdown"  -> IF MayShutDown THEN "waiting" ELSE "done"
                  [] OTHER           -> "none"]
    /\ job = [g \in Goroutines |-> NoFrame]
    /\ sendChan = <<>> /\ sendClosed = FALSE
    /\ streamMap = {} /\ cancelled = {}
    /\ recvChan = [s \in Streams |-> <<>>] /\ recvClosed = {}
    /\ stale = {} /\ toReset = {} /\ pongFresh = TRUE /\ fault = "none"
    /\ peer = [s \in Streams |-> "idle"]
    /\ sent = [s \in Streams |-> 0]
    /\ got = [s \in Streams |-> 0]
    /\ eof = {} /\ ended = {}

-----------------------------------------------------------------------------
(* wsConnection.send, run by the pump, the keepalive and the handlers.     *)

\* Where a goroutine continues when send() returns.
AfterSend(g, ok) ==
    CASE g = "pump" -> "read"
      [] g = "keepalive" -> IF ok THEN "wait" ELSE "done"
      [] OTHER -> IF job[g].kind = "TRAILERS" THEN "cancel" ELSE "app"

\* sendMu.Lock(), and the early return when Close has closed the channel.
Lock(g) ==
    /\ pc[g] = "lock" /\ SendMuFree
    /\ IF sendClosed THEN Goto(g, AfterSend(g, FALSE), NoFrame)
                     ELSE Goto(g, "enqueue", job[g])
    /\ UNCHANGED <<link, sending, table, recvChan, clocks, toReset, fault, remote, seen>>

\* select { case sendChan <- frame: ... case <-ctx.Done(): ... }
RoomOffByOne == Len(sendChan) <= SendCap  \* mutant: one frame too many
Room == Len(sendChan) < SendCap
Jump(f) ==  \* mutant: trailers overtake what is queued
    IF f.kind = "TRAILERS" THEN <<f>> \o sendChan ELSE Append(sendChan, f)
Queue(f) == Append(sendChan, f)
GiveUpWhenFull == ctxDone \/ Len(sendChan) = SendCap  \* mutant: non-blocking send
GiveUp == ctxDone

Enqueue(g) ==
    /\ pc[g] = "enqueue"
    /\ \/ /\ Room /\ sendChan' = Queue(job[g])
          /\ Goto(g, AfterSend(g, TRUE), NoFrame)
       \/ /\ GiveUp
          /\ Goto(g, AfterSend(g, FALSE), NoFrame)
          /\ UNCHANGED sendChan
    /\ UNCHANGED <<link, sendClosed, table, recvChan, clocks, toReset, fault, remote, seen>>

-----------------------------------------------------------------------------
(* The read pump: handleConnection's for loop.                             *)

CanRead == pc["pump"] = "read" /\ conn = "up"

AtLimitOffByOne == Cardinality(streamMap) > MaxConcurrentStreams  \* mutant
AtLimit == Cardinality(streamMap) >= MaxConcurrentStreams

\* HEADERS: read the number of registered streams under mu; at the limit, refuse.
PumpHeaders(s) ==
    /\ CanRead /\ peer[s] = "idle" /\ StreamMuFree
    /\ peer' = [peer EXCEPT ![s] = "open"]
    /\ IF AtLimit
       THEN Goto("pump", "lock", Fr("RST8", s))
       ELSE Goto("pump", "create", Fr("HEADERS", s))
    /\ UNCHANGED <<link, sending, table, recvChan, clocks, toReset, fault, sent, ended, seen>>

\* The path names no registered method.
PumpUnknownMethod ==
    /\ pc["pump"] = "create"
    /\ Goto("pump", "lock", Fr("RST6", job["pump"].id))
    /\ UNCHANGED <<link, sending, table, recvChan, clocks, toReset, fault, remote, seen>>

\* It does: register the stream under mu and start its handler.
PumpCreate ==
    /\ pc["pump"] = "create" /\ StreamMuFree
    /\ LET s == job["pump"].id IN
       /\ streamMap' = streamMap \cup {s}
       /\ pc' = [pc EXCEPT !["pump"] = "read", ![s] = "app"]
    /\ job' = [job EXCEPT !["pump"] = NoFrame]
    /\ UNCHANGED <<link, sending, cancelled, recvClosed, recvChan, clocks, toReset,
                   fault, remote, seen>>

\* DATA: look the stream up under mu, then leave the lock with the pointer.
PumpData(s, eos) ==
    /\ CanRead /\ peer[s] = "open" /\ sent[s] < MaxMsgs /\ StreamMuFree
    /\ sent' = [sent EXCEPT ![s] = @ + 1]
    /\ peer' = [peer EXCEPT ![s] = IF eos THEN "eos" ELSE @]
    /\ IF s \in streamMap THEN Goto("pump", "deliver", Fr("DATA", s))
                          ELSE UNCHANGED <<pc, job>>
    /\ UNCHANGED <<link, sending, table, recvChan, clocks, toReset, fault, ended, seen>>

CloseOnData(s) == TRUE  \* mutant: every DATA frame taken for the last
HalfClosed(s) == peer[s] = "eos"
DropWhenFull(s) == Done(s) \/ Len(recvChan[s]) = RecvCap  \* mutant
Drop(s) == Done(s)

\* select { case recvChan <- payload: ... case <-stream.ctx.Done(): drop },
\* then safeCloseRecvChan if the frame carried EOS.
Deliver ==
    /\ pc["pump"] = "deliver"
    /\ LET s == job["pump"].id IN
       /\ s \notin recvClosed /\ Len(recvChan[s]) < RecvCap
       /\ recvChan' = [recvChan EXCEPT ![s] = Append(@, sent[s])]
       /\ recvClosed' = IF HalfClosed(s) THEN recvClosed \cup {s} ELSE recvClosed
    /\ Goto("pump", "read", NoFrame)
    /\ UNCHANGED <<link, sending, streamMap, cancelled, clocks, toReset, fault, remote, seen>>

DropLate ==
    /\ pc["pump"] = "deliver" /\ Drop(job["pump"].id)
    /\ Goto("pump", "read", NoFrame)
    /\ UNCHANGED <<link, sending, table, recvChan, clocks, toReset, fault, remote, seen>>

\* The same select choosing to send on a channel that was closed meanwhile: the
\* pump panics and unwinds through its deferred Close.
DeliverPanics ==
    /\ pc["pump"] = "deliver" /\ job["pump"].id \in recvClosed
    /\ fault' = "pump"
    /\ Goto("pump", "close", NoFrame)
    /\ UNCHANGED <<link, sending, table, recvChan, clocks, toReset, remote, seen>>

PumpRst(s) ==
    /\ CanRead /\ peer[s] \in {"open", "eos"} /\ StreamMuFree
    /\ peer' = [peer EXCEPT ![s] = "reset"]
    /\ IF s \in streamMap
       THEN /\ cancelled' = cancelled \cup {s}
            /\ recvClosed' = recvClosed \cup {s}
            /\ streamMap' = streamMap \ {s}
       ELSE UNCHANGED table
    /\ UNCHANGED <<link, pc, job, sending, recvChan, clocks, toReset, fault, sent,
                   ended, seen>>

PumpPing ==
    /\ CanRead
    /\ Goto("pump", "lock", Fr("PONG", 0))
    /\ UNCHANGED <<link, sending, table, recvChan, clocks, toReset, fault, remote, seen>>

PumpPong ==
    /\ CanRead /\ pongFresh' = TRUE
    /\ UNCHANGED <<link, pc, job, sending, table, recvChan, stale, toReset, fault,
                   remote, seen>>

\* conn.Read fails: return from handleConnection, whose deferred function runs.
PumpReadError ==
    /\ pc["pump"] = "read" /\ conn = "closed"
    /\ Goto("pump", "close", NoFrame)
    /\ UNCHANGED <<link, sending, table, recvChan, clocks, toReset, fault, remote, seen>>

\* wsConnection.Close, then conn.Close in HandleWebSocket.
PumpClose ==
    /\ pc["pump"] = "close" /\ SendMuFree
    /\ sendClosed' = TRUE /\ ctxDone' = TRUE /\ conn' = "closed"
    /\ Goto("pump", "done", NoFrame)
    /\ UNCHANGED <<sendChan, table, recvChan, clocks, toReset, fault, remote, seen>>

-----------------------------------------------------------------------------
(* writerLoop.                                                             *)

WriterTake ==
    /\ pc["writer"] = "take" /\ sendChan # <<>>
    /\ sendChan' = Tail(sendChan)
    /\ Goto("writer", "write", Head(sendChan))
    /\ UNCHANGED <<link, sendClosed, table, recvChan, clocks, toReset, fault, remote, seen>>

\* The other two ways out of the select: closed and drained, or ctx.Done().
WriterStop ==
    /\ pc["writer"] = "take"
    /\ ctxDone \/ (sendClosed /\ sendChan = <<>>)
    /\ ctxDone' = TRUE
    /\ Goto("writer", "done", NoFrame)
    /\ UNCHANGED <<conn, sending, table, recvChan, clocks, toReset, fault, remote, seen>>

WriteOK ==
    /\ pc["writer"] = "write" /\ conn = "up"
    /\ ended' = IF job["writer"].kind \in Ends THEN ended \cup {job["writer"].id} ELSE ended
    /\ Goto("writer", "take", NoFrame)
    /\ UNCHANGED <<link, sending, table, recvChan, clocks, toReset, fault, peer, sent, seen>>

JustReturn == UNCHANGED ctxDone  \* mutant: the writer dies silently
CancelConn == ctxDone' = TRUE

\* conn.Write(c.ctx, ...) fails on a closed connection or a cancelled context;
\* cancelled in the middle of a frame, the library closes the connection.
WriteError ==
    /\ pc["writer"] = "write"
    /\ conn = "closed" \/ ctxDone
    /\ CancelConn
    /\ conn' \in {conn, "closed"}
    /\ Goto("writer", "done", NoFrame)
    /\ UNCHANGED <<sending, table, recvChan, clocks, toReset, fault, remote, seen>>

-----------------------------------------------------------------------------
(* A stream's handler goroutine: handleStream, with any well-typed gRPC    *)
(* handler as the application code, then sendTrailers.  A handler that     *)
(* panics is one that returns: handleStream recovers it.                   *)

CallRecv(s) ==
    /\ pc[s] = "app"
    /\ Goto(s, "recv", NoFrame)
    /\ UNCHANGED <<link, sending, table, recvChan, clocks, toReset, fault, remote, seen>>

RecvData(s) ==
    /\ pc[s] = "recv" /\ recvChan[s] # <<>>
    /\ got' = [got EXCEPT ![s] = Head(recvChan[s])]
    /\ recvChan' = [recvChan EXCEPT ![s] = Tail(@)]
    /\ stale' = stale \ {s}
    /\ Goto(s, "app", NoFrame)
    /\ UNCHANGED <<link, sending, table, pongFresh, toReset, fault, remote, eof>>

FlagOnly(s) == s \in recvClosed  \* mutant: closed, but perhaps not drained
Drained(s) == recvChan[s] = <<>> /\ s \in recvClosed

RecvEOF(s) ==
    /\ pc[s] = "recv" /\ Drained(s)
    /\ eof' = eof \cup {s}
    /\ Goto(s, "app", NoFrame)
    /\ UNCHANGED <<link, sending, table, recvChan, clocks, toReset, fault, remote, got>>

RecvCancelled(s) ==
    /\ pc[s] = "recv" /\ Done(s)
    /\ Goto(s, "app", NoFrame)
    /\ UNCHANGED <<link, sending, table, recvChan, clocks, toReset, fault, remote, seen>>

CallSend(s) ==
    /\ pc[s] = "app"
    /\ stale' = stale \ {s}
    /\ Goto(s, "lock", Fr("DATA", s))
    /\ UNCHANGED <<link, sending, table, recvChan, pongFresh, toReset, fault, remote, seen>>

Return(s) ==
    /\ pc[s] = "app"
    /\ Goto(s, "lock", Fr("TRAILERS", s))
    /\ UNCHANGED <<link, sending, table, recvChan, clocks, toReset, fault, remote, seen>>

NoCancel(s) == UNCHANGED cancelled  \* mutant: the bug fixed in sendTrailers
CancelOwn(s) == cancelled' = cancelled \cup {s}
KeepSlot(s) == UNCHANGED streamMap  \* mutant: delete forgotten
FreeSlot(s) == streamMap' = streamMap \ {s}

\* sendTrailers once send() is back: stream.cancel(), then delete under mu.
CancelStream(s) ==
    /\ pc[s] = "cancel" /\ CancelOwn(s)
    /\ Goto(s, "unregister", NoFrame)
    /\ UNCHANGED <<link, sending, streamMap, recvClosed, recvChan, clocks, toReset,
                   fault, remote, seen>>

Unregister(s) ==
    /\ pc[s] = "unregister" /\ StreamMuFree /\ FreeSlot(s)
    /\ Goto(s, "done", NoFrame)
    /\ UNCHANGED <<link, sending, cancelled, recvClosed, recvChan, clocks, toReset,
                   fault, remote, seen>>

-----------------------------------------------------------------------------
(* The idle monitor.                                                       *)

\* IdleTimeout passes since the stream's last updateActivity.
Elapse(s) ==
    /\ s \in (IdleStreams \cap streamMap) \ stale
    /\ stale' = stale \cup {s}
    /\ UNCHANGED <<link, pc, job, sending, table, recvChan, pongFresh, toReset, fault,
                   remote, seen>>

\* checkIdleStreams, under mu.  The monitor ends with connCtx, but its select may
\* still take a tick when both are ready.
CheckIdle ==
    /\ StreamMuFree
    /\ LET idle == streamMap \cap stale IN
       /\ idle # {}
       /\ cancelled' = cancelled \cup idle
       /\ recvClosed' = recvClosed \cup idle
       /\ streamMap' = streamMap \ idle
    /\ UNCHANGED <<link, pc, job, sending, recvChan, clocks, toReset, fault, remote, seen>>

-----------------------------------------------------------------------------
(* The keepalive goroutine.  Elapsed time is abstract: the timer may fire  *)
(* at any moment after the ping was queued.                                *)

KeepAliveTick ==
    /\ pc["keepalive"] = "tick" /\ pongFresh' = FALSE
    /\ Goto("keepalive", "lock", Fr("PING", 0))
    /\ UNCHANGED <<link, sending, table, recvChan, stale, toReset, fault, remote, seen>>

KeepAliveReturns ==  \* mutant: the goroutine returns without conn.Close
    /\ pc["keepalive"] = "wait"
    /\ Goto("keepalive", IF pongFresh THEN "tick" ELSE "done", NoFrame)
    /\ UNCHANGED <<link, sending, table, recvChan, clocks, toReset, fault, remote, seen>>

KeepAliveTimeout ==
    /\ pc["keepalive"] = "wait"
    /\ IF pongFresh THEN Goto("keepalive", "tick", NoFrame) /\ UNCHANGED conn
                    ELSE Goto("keepalive", "done", NoFrame) /\ conn' = "closed"
    /\ UNCHANGED <<ctxDone, sending, table, recvChan, clocks, toReset, fault, remote, seen>>

KeepAliveStop ==
    /\ pc["keepalive"] \in {"tick", "wait"} /\ ctxDone
    /\ Goto("keepalive", "done", NoFrame)
    /\ UNCHANGED <<link, sending, table, recvChan, clocks, toReset, fault, remote, seen>>

-----------------------------------------------------------------------------
(* Server.Shutdown's pass over this connection.                            *)

ShutdownBegin ==
    /\ pc["shutdown"] = "waiting"
    /\ toReset' = streamMap
    /\ Goto("shutdown", "reset", NoFrame)
    /\ UNCHANGED <<link, sending, table, recvChan, clocks, fault, remote, seen>>

\* conn.sendChan <- rstFrame without sendMu, given up after 100ms on a full
\* channel; then stream.cancel().
ShutdownReset(s) ==
    /\ pc["shutdown"] = "reset" /\ s \in toReset /\ ~sendClosed
    /\ sendChan' = IF Len(sendChan) < SendCap THEN Append(sendChan, Fr("RST0", s))
                                              ELSE sendChan
    /\ cancelled' = cancelled \cup {s}
    /\ toReset' = toReset \ {s}
    /\ UNCHANGED <<link, pc, job, sendClosed, streamMap, recvClosed, recvChan, clocks,
                   fault, remote, seen>>

\* The same send on a channel that Close has closed: the process panics.
ShutdownPanics ==
    /\ pc["shutdown"] = "reset" /\ toReset # {} /\ sendClosed
    /\ fault' = "shutdown" /\ toReset' = {}
    /\ Goto("shutdown", "done", NoFrame)
    /\ UNCHANGED <<link, sending, table, recvChan, clocks, remote, seen>>

ShutdownUnlock ==
    /\ pc["shutdown"] = "reset" /\ toReset = {}
    /\ Goto("shutdown", "linger", NoFrame)
    /\ UNCHANGED <<link, sending, table, recvChan, clocks, toReset, fault, remote, seen>>

\* 200ms later: conn.cancel().
ShutdownCancel ==
    /\ pc["shutdown"] = "linger" /\ ctxDone' = TRUE
    /\ Goto("shutdown", "done", NoFrame)
    /\ UNCHANGED <<conn, sending, table, recvChan, clocks, toReset, fault, remote, seen>>

-----------------------------------------------------------------------------
(* The peer and the network.                                               *)

PeerCloses ==
    /\ conn \in {"up", "stalled"} /\ conn' = "closed"
    /\ UNCHANGED <<ctxDone, pc, job, sending, table, recvChan, clocks, toReset, fault,
                   remote, seen>>

PeerStalls ==
    /\ MayStall /\ conn = "up" /\ conn' = "stalled"
    /\ UNCHANGED <<ctxDone, pc, job, sending, table, recvChan, clocks, toReset, fault,
                   remote, seen>>

-----------------------------------------------------------------------------
PumpStep ==
    \/ \E s \in Streams : PumpHeaders(s) \/ PumpRst(s)
    \/ \E s \in Streams, eos \in BOOLEAN : PumpData(s, eos)
    \/ PumpUnknownMethod \/ PumpCreate
    \/ PumpPing \/ PumpPong
    \/ Deliver \/ DropLate \/ DeliverPanics
    \/ PumpReadError \/ PumpClose

WriterStep == WriterTake \/ WriterStop \/ WriteOK \/ WriteError

HandlerStep(s) ==
    \/ CallRecv(s) \/ RecvData(s) \/ RecvEOF(s) \/ RecvCancelled(s)
    \/ CallSend(s) \/ Return(s) \/ CancelStream(s) \/ Unregister(s)

MonitorStep == CheckIdle \/ \E s \in Streams : Elapse(s)

KeepAliveStep == KeepAliveTick \/ KeepAliveTimeout \/ KeepAliveStop

ShutdownStep ==
    \/ ShutdownBegin \/ ShutdownUnlock \/ ShutdownPanics \/ ShutdownCancel
    \/ \E s \in Streams : ShutdownReset(s)

\* A panic in Shutdown's goroutine ends the process; one in the pump is recovered
\* by net/http.
Crashed == fault = "shutdown"

\* Nothing is left running (so that a deadlock is a goroutine stuck for good).
AllDone == \A g \in Goroutines : pc[g] \in {"none", "done"}
Stopped == (Crashed \/ (conn = "closed" /\ AllDone)) /\ UNCHANGED vars

Next ==
    \/ /\ ~Crashed
       /\ \/ PumpStep \/ WriterStep \/ KeepAliveStep \/ MonitorStep \/ ShutdownStep
          \/ \E g \in Goroutines : Lock(g) \/ Enqueue(g)
          \/ \E s \in Streams : HandlerStep(s)
          \/ PeerCloses \/ PeerStalls
    \/ Stopped

Spec == Init /\ [][Next]_vars

\* What the Go runtime guarantees: a goroutine that can run does, timers fire,
\* and sync.Mutex does not starve a waiter.  The peer owes nothing.  A handler
\* may call RecvMsg and SendMsg for ever but is assumed to return some time.
PumpRuns ==
    \/ PumpUnknownMethod \/ PumpCreate \/ PumpReadError
    \/ Deliver \/ DropLate \/ DeliverPanics \/ Enqueue("pump")
HandlerRuns(s) ==
    \/ RecvData(s) \/ RecvEOF(s) \/ RecvCancelled(s)
    \/ Enqueue(s) \/ CancelStream(s) \/ Unregister(s)

Fairness ==
    /\ WF_vars(PumpRuns) /\ SF_vars(Lock("pump") \/ PumpClose)
    /\ WF_vars(WriterStep)
    /\ WF_vars(KeepAliveStep \/ Enqueue("keepalive")) /\ SF_vars(Lock("keepalive"))
    /\ \A s \in Streams :
          WF_vars(HandlerRuns(s)) /\ SF_vars(Lock(s)) /\ SF_vars(Return(s))

FairSpec == Spec /\ Fairness

-----------------------------------------------------------------------------
(* Properties.                                                             *)

PumpAt  == {"read", "create", "deliver", "lock", "enqueue", "close", "done"}
WriteAt == {"take", "write", "done"}
AliveAt == {"tick", "lock", "enqueue", "wait", "done"}
ShutAt  == {"waiting", "reset", "linger", "done"}
HandAt  == {"none", "app", "recv", "lock", "enqueue", "cancel", "unregister", "done"}

\* Every variable stays in its type: bounded channels, known locations.
TypeOK ==
    /\ conn \in {"up", "stalled", "closed"} /\ ctxDone \in BOOLEAN
    /\ pc \in [Goroutines -> PumpAt \cup WriteAt \cup AliveAt \cup ShutAt \cup HandAt]
    /\ pc["pump"] \in PumpAt /\ pc["writer"] \in WriteAt
    /\ pc["keepalive"] \in AliveAt /\ pc["shutdown"] \in ShutAt
    /\ \A s \in Streams : pc[s] \in HandAt
    /\ job \in [Goroutines -> Frame]
    /\ sendChan \in Seq(Frame) /\ Len(sendChan) <= SendCap /\ sendClosed \in BOOLEAN
    /\ streamMap \subseteq Streams /\ cancelled \subseteq Streams
    /\ recvChan \in [Streams -> Seq(Nat)] /\ recvClosed \subseteq Streams
    /\ \A s \in Streams : Len(recvChan[s]) <= RecvCap
    /\ stale \subseteq Streams /\ toReset \subseteq Streams
    /\ pongFresh \in BOOLEAN /\ fault \in {"none", "pump", "shutdown"}
    /\ peer \in [Streams -> {"idle", "open", "eos", "reset"}]
    /\ sent \in [Streams -> 0..MaxMsgs] /\ got \in [Streams -> Nat]
    /\ eof \subseteq Streams /\ ended \subseteq Streams

\* The limit is checked and the stream registered in two critical sections; no
\* more than MaxConcurrentStreams are ever registered all the same.
StreamLimit == Cardinality(streamMap) <= MaxConcurrentStreams

\* A slot of streamMap is never leaked: its handler is still there to free it.
SlotHasHandler == \A s \in streamMap : pc[s] \notin {"none", "done"}

\* The stream the pump is waiting on (with a pointer it looked up earlier) can
\* still be drained by its handler, or is over, which releases the pump: a handler
\* leaves nobody behind the buffer without having cancelled the stream.
PumpWaitCanEnd ==
    pc["pump"] = "deliver" =>
        LET s == job["pump"].id IN Done(s) \/ pc[s] \notin {"unregister", "done"}

\* The pump holds a message for s that is not in recvChan yet.
Delivering(s) == pc["pump"] = "deliver" /\ job["pump"].id = s

\* While a stream is live, its handler has received, and its channel holds, the
\* messages the peer sent, in order and without a gap, the one being delivered
\* excepted.
InDelivery(s) == IF Delivering(s) THEN 1 ELSE 0
NoGap ==
    \A s \in Streams : pc[s] # "none" /\ ~Done(s) =>
        /\ got[s] + Len(recvChan[s]) + InDelivery(s) = sent[s]
        /\ \A i \in 1..Len(recvChan[s]) : recvChan[s][i] = got[s] + i

\* io.EOF on a live stream means half-close: every message was received first.
EofComplete ==
    \A s \in eof : Done(s) \/ (peer[s] = "eos" /\ got[s] = sent[s])

\* No goroutine is past send()'s check of sendClosed once Close has closed the
\* channel: send() itself can never panic.
SendOnlyWhileOpen == sendClosed => \A g \in Goroutines : pc[g] # "enqueue"

\* A send on a closed channel needs the idle monitor (closing recvChan under the
\* pump) or Shutdown (sending without sendMu).
FaultNeedsRace ==
    /\ fault = "pump" => IdleStreams \cap cancelled \cap recvClosed # {}
    /\ fault = "shutdown" => MayShutDown /\ sendClosed

\* With neither, no goroutine ever sends on a closed channel.
NoSendOnClosed == fault = "none"

\* Nothing a handler sends is written after the stream's end: its TRAILERS go out
\* once, behind everything it sent before.
NothingAfterEnd ==
    job["writer"].kind \in {"DATA", "TRAILERS"} => job["writer"].id \notin ended

\* The pump is never stuck on one stream's buffer while the peer is there.
PumpReleased == (pc["pump"] = "deliver") ~> (pc["pump"] # "deliver" \/ conn = "stalled")

\* Once the connection is closed every goroutine it started ends.
CleanUp == (conn = "closed") ~> AllDone

\* A handler that returned has its TRAILERS written, unless the connection fails.
TrailersWritten ==
    \A s \in Streams : (job[s].kind = "TRAILERS")
                           ~> (s \in ended \/ conn # "up" \/ ctxDone)

\* Once a PING has been queued that the peer no longer answers, its timer closes
\* the connection, even if the writer is stuck in a write to that peer.
UnansweredPingCloses ==
    (conn = "stalled" /\ pc["keepalive"] = "wait" /\ ~pongFresh) ~> (conn = "closed")
=============================================================================
