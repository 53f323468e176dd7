-------------------------------- MODULE Server --------------------------------
(***************************************************************************)
(* Server (wsgrpc/server.go): the life of its connections, HandleWebSocket *)
(* and handleConnection with their goroutines reduced to what ends them,   *)
(* and Server.Shutdown, which several goroutines may call.  An action is   *)
(* the work between two acquisitions of Server.mu or two blocking calls;   *)
(* what happens inside a connection is ServerConn's subject.               *)
(***************************************************************************)
EXTENDS Naturals, FiniteSets

CONSTANTS
    Conns,      \* the connections clients will open
    Callers,    \* the calls of Shutdown
    MaxStreams  \* ServerOption.MaxConcurrentStreams

ASSUME ServerAssumption == MaxStreams \in Nat

VARIABLES
    shutdown,     \* Server.shutdown
    connections,  \* Server.connections
    at,           \* where handleConnection is, per connection: see Places
    open,         \* connections whose socket is open
    silent,       \* connections whose peer answers nothing any more
    cancelled,    \* connections whose connCtx is done
    stage,        \* per caller: see Stages
    todo,         \* per caller: what is left of its connectionsCopy
    turn,         \* per caller: the connection its pass is at, as a set
    left,         \* per caller: the streams it has still to reset there
    expired,      \* callers whose context has expired
    overtaken     \* history: connections between check and registration when
                  \* shutdown was set

vars == <<shutdown, connections, at, open, silent, cancelled,
          stage, todo, turn, left, expired, overtaken>>
conn == <<connections, at, open, silent, cancelled>>
pass == <<todo, turn, left>>
caller == <<stage, pass, expired, overtaken>>

Places == {"none", "accepted", "checked", "reading", "ended", "gone", "refused"}
\* "reset" holds the turn's wsConnection.mu, "sleep" is the 200 ms that follow.
Waiting == {"wait", "select"}
Returned == {"nil", "error"}
Stages == {"idle", "pass", "reset", "sleep", "panic"} \cup Waiting \cup Returned

Init ==
    /\ shutdown = FALSE /\ connections = {} /\ open = {} /\ silent = {} /\ cancelled = {}
    /\ at = [c \in Conns |-> "none"]
    /\ stage = [k \in Callers |-> "idle"] /\ todo = [k \in Callers |-> {}]
    /\ turn = [k \in Callers |-> {}] /\ left = [k \in Callers |-> 0]
    /\ expired = {} /\ overtaken = {}

Goto(c, place) == at' = [at EXCEPT ![c] = place]
Enter(k, place) == stage' = [stage EXCEPT ![k] = place]

\* A caller holds the connection's wsConnection.mu while it resets its streams.
Locked(c) == \E k \in Callers : stage[k] = "reset" /\ c \in turn[k]

\* An unrecovered panic in a caller's goroutine ends the process.
Running == \A k \in Callers : stage[k] # "panic"

-----------------------------------------------------------------------------
(* HandleWebSocket and handleConnection.                                   *)

\* websocket.Accept
Accept(c) ==
    /\ at[c] = "none" /\ Goto(c, "accepted") /\ open' = open \cup {c}
    /\ UNCHANGED <<shutdown, connections, silent, cancelled, caller>>

NotChecked == TRUE  \* mutant: connections are accepted during a shutdown
MayServe == ~shutdown
CheckShutdown(c) ==
    /\ at[c] = "accepted"
    /\ \/ MayServe /\ Goto(c, "checked") /\ UNCHANGED open
       \/ ~MayServe /\ Goto(c, "refused") /\ open' = open \ {c}
    /\ UNCHANGED <<shutdown, connections, silent, cancelled, caller>>

Register(c) ==
    /\ at[c] = "checked" /\ Goto(c, "reading")
    /\ connections' = connections \cup {c}
    /\ UNCHANGED <<shutdown, open, silent, cancelled, caller>>

\* conn.Read(ctx) returns an error, and wsConn.Close closes sendChan.  Its ctx is
\* the request's: cancelling connCtx alone does not end the loop.
SendChanClosed(c) == at[c] \in {"ended", "gone"}
ReadEnds(c) ==
    /\ at[c] = "reading" /\ c \notin open /\ Goto(c, "ended")
    /\ cancelled' = cancelled \cup {c}
    /\ UNCHANGED <<shutdown, connections, open, silent, caller>>

Unregister(c) ==
    /\ at[c] = "ended" /\ Goto(c, "gone")
    /\ connections' = connections \ {c}
    /\ UNCHANGED <<shutdown, open, silent, cancelled, caller>>

\* The keepalive goroutine, which ends with connCtx, closes the socket of a
\* peer that does not answer.
KeepAliveCloses(c) ==
    /\ at[c] = "reading" /\ c \in silent \cap open /\ c \notin cancelled
    /\ open' = open \ {c}
    /\ UNCHANGED <<shutdown, connections, at, silent, cancelled, caller>>

\* A write that is under way when connCtx is cancelled closes the socket.
WriterCloses(c) ==
    /\ at[c] = "reading" /\ c \in cancelled \cap open
    /\ open' = open \ {c}
    /\ UNCHANGED <<shutdown, connections, at, silent, cancelled, caller>>

\* The peer closes the socket, or the network gives up on a silent one.
PeerCloses(c) ==
    /\ c \in open /\ open' = open \ {c}
    /\ UNCHANGED <<shutdown, connections, at, silent, cancelled, caller>>

PeerGoesSilent(c) ==
    /\ c \in open \ silent /\ silent' = silent \cup {c}
    /\ UNCHANGED <<shutdown, connections, at, open, cancelled, caller>>

-----------------------------------------------------------------------------
(* Shutdown.                                                               *)

\* The flag and the copy of connections, under one lock.
ShutdownBegin(k) ==
    /\ stage[k] = "idle" /\ Enter(k, "pass")
    /\ shutdown' = TRUE
    /\ todo' = [todo EXCEPT ![k] = connections]
    /\ overtaken' = IF shutdown THEN overtaken ELSE {c \in Conns : at[c] = "checked"}
    /\ UNCHANGED <<conn, turn, left, expired>>

\* The pass, which never looks at the context.  A connection may hold streams at
\* any time, even once it is gone: their handlers take them out (ServerConn).
ResetsLeft(k, n) ==
    /\ left' = [left EXCEPT ![k] = n]
    /\ Enter(k, IF n = 0 THEN "sleep" ELSE "reset")

PassReaches(k, c) ==
    /\ stage[k] = "pass" /\ c \in todo[k] /\ ~Locked(c)
    /\ todo' = [todo EXCEPT ![k] = @ \ {c}] /\ turn' = [turn EXCEPT ![k] = {c}]
    /\ \E n \in 0..MaxStreams : ResetsLeft(k, n)
    /\ UNCHANGED <<shutdown, conn, expired, overtaken>>

\* sendChan <- rstFrame, given up after 100 ms on a full channel.
ResetStream(k) ==
    /\ stage[k] = "reset" /\ \A c \in turn[k] : ~SendChanClosed(c)
    /\ ResetsLeft(k, left[k] - 1)
    /\ UNCHANGED <<shutdown, conn, todo, turn, expired, overtaken>>

\* The same send once wsConn.Close has closed the channel.
ResetPanics(k) ==
    /\ stage[k] = "reset" /\ \E c \in turn[k] : SendChanClosed(c)
    /\ Enter(k, "panic")
    /\ UNCHANGED <<shutdown, conn, pass, expired, overtaken>>

\* After 200 ms, conn.cancel().
CancelConnection(k) ==
    /\ stage[k] = "sleep" /\ Enter(k, "pass")
    /\ cancelled' = cancelled \cup turn[k] /\ turn' = [turn EXCEPT ![k] = {}]
    /\ UNCHANGED <<shutdown, connections, at, open, silent, todo, left, expired,
                   overtaken>>

PassEnds(k) ==
    /\ stage[k] = "pass" /\ todo[k] = {} /\ Enter(k, "wait")
    /\ UNCHANGED <<shutdown, conn, pass, expired, overtaken>>

NotCancelled(k) == connections \ cancelled  \* mutant: a cancelled connection counts as closed
Remaining(k) == connections
Look(k) ==
    /\ stage[k] = "wait" /\ Enter(k, IF Remaining(k) = {} THEN "nil" ELSE "select")
    /\ UNCHANGED <<shutdown, conn, pass, expired, overtaken>>

Tick(k) ==
    /\ stage[k] = "select" /\ Enter(k, "wait")
    /\ UNCHANGED <<shutdown, conn, pass, expired, overtaken>>

Ignored(k) == FALSE  \* mutant: the select has no case for ctx.Done()
ContextDone(k) == k \in expired
GiveUp(k) ==
    /\ stage[k] = "select" /\ ContextDone(k) /\ Enter(k, "error")
    /\ UNCHANGED <<shutdown, conn, pass, expired, overtaken>>

\* The deadline of the caller's context passes.
Expire(k) ==
    /\ stage[k] # "idle" /\ k \notin expired
    /\ expired' = expired \cup {k}
    /\ UNCHANGED <<shutdown, conn, stage, pass, overtaken>>

-----------------------------------------------------------------------------
HandleConnection(c) == CheckShutdown(c) \/ Register(c) \/ ReadEnds(c) \/ Unregister(c)
Closes(c) == KeepAliveCloses(c) \/ WriterCloses(c)
Peer(c) == Accept(c) \/ PeerCloses(c) \/ PeerGoesSilent(c)
Pass(k) ==
    \/ ResetStream(k) \/ ResetPanics(k) \/ CancelConnection(k)
    \/ \E c \in Conns : PassReaches(k, c)
Shutdown(k) == ShutdownBegin(k) \/ Pass(k) \/ PassEnds(k) \/ Look(k) \/ Tick(k) \/ GiveUp(k)

Next ==
    /\ Running
    /\ \/ \E c \in Conns : HandleConnection(c) \/ Closes(c) \/ Peer(c)
       \/ \E k \in Callers : Shutdown(k) \/ Expire(k)

Spec == Init /\ [][Next]_vars

\* The goroutines that call Shutdown run, a select with two ready cases takes each
\* of them some time, and every context has a deadline.  Connections owe nothing.
Fairness ==
    \A k \in Callers :
        /\ WF_vars(Running /\ stage[k] # "idle" /\ Shutdown(k))
        /\ WF_vars(Running /\ Expire(k)) /\ SF_vars(Running /\ GiveUp(k))

FairSpec == Spec /\ Fairness

-----------------------------------------------------------------------------
(* Properties.                                                             *)

TypeOK ==
    /\ shutdown \in BOOLEAN /\ at \in [Conns -> Places]
    /\ connections \subseteq Conns /\ open \subseteq Conns /\ silent \subseteq Conns
    /\ cancelled \subseteq Conns /\ overtaken \subseteq Conns
    /\ left \in [Callers -> 0..MaxStreams]
    /\ stage \in [Callers -> Stages] /\ todo \in [Callers -> SUBSET Conns]
    /\ turn \in [Callers -> SUBSET Conns]
    /\ expired \subseteq Callers

\* Once a call of Shutdown has made its pass, every connection the server holds
\* has been told to end (connCtx is done), but for those that were between the
\* shutdown check and their registration when the flag was set: the copy misses
\* them and nobody comes back for them.
ToldUnlessOvertaken ==
    \A k \in Callers, c \in connections :
        stage[k] \in Waiting \cup Returned => c \in cancelled \cup overtaken

\* Shutdown returns nil only when every read loop has ended, which takes a closed
\* socket, and no connection is served afterwards but an overtaken one.
NilMeansClosed ==
    \A k \in Callers, c \in Conns :
        stage[k] = "nil" => at[c] \notin {"reading", "ended"} \/ c \in overtaken

\* Every call of Shutdown ends, whatever peers, handlers and the other callers do:
\* its pass cannot be held up for ever and its wait notices the end of its context,
\* unless the process dies, for a stream of a connection that has just gone.
\* How much later than the deadline is up to the pass, which ignores the context.
ShutdownEnds ==
    \A k \in Callers : stage[k] = "pass" ~> (stage[k] \in Returned \/ ~Running)
=============================================================================
