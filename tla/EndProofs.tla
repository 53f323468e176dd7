------------------------------- MODULE EndProofs -------------------------------
(***************************************************************************)
(* What the writer of a connection puts on the wire for a stream, and in   *)
(* what order, whatever the number of streams and the room in sendChan.    *)
(* Server.Shutdown resets streams behind their handlers' backs: this is    *)
(* about a server that is not shut down.                                   *)
(***************************************************************************)
EXTENDS ServerConnProofs, QueueFacts

-----------------------------------------------------------------------------
(* The inductive invariant, on top of those of ServerConnProofs.           *)

\* What a handler puts on the wire, and how the server refuses a stream.
Body == {"DATA", "TRAILERS"}
Refuses == {"RST6", "RST8"}

\* The frames that are on their way to the wire.
Pending == {job["writer"]} \cup ToSet(sendChan)

\* The pump is about to start the handler of s.
Creating(s) == pc["pump"] = "create" /\ job["pump"].id = s

\* The handler of s is past the send of its TRAILERS.
Past(s) == pc[s] \in {"cancel", "unregister", "done"}

\* A stream that never had a handler, and will not get one.
Refused(s) == pc[s] = "none" /\ peer[s] # "idle" /\ ~Creating(s)

\* What the goroutines other than the writer send.
Senders ==
    /\ \A s \in Streams : pc[s] \in {"lock", "enqueue"} => job[s].kind \in Body /\ job[s].id = s
    /\ pc["pump"] \in {"lock", "enqueue"} => job["pump"].kind \notin Body \cup {"RST0"}
    /\ job["pump"].kind \in Refuses => Refused(job["pump"].id)
    /\ pc["keepalive"] \in {"lock", "enqueue"} => job["keepalive"].kind = "PING"

\* A frame of a handler comes from one that was started, a refusal is for a stream
\* that has none.
Sent == \A f \in Pending :
    /\ f.kind \in Body => pc[f.id] # "none"
    /\ f.kind \in Refuses => Refused(f.id)
    /\ f.kind # "RST0"

\* A stream that was ended, or whose end is on its way, has no handler any more.
OverIsPast == \A s \in Streams :
    /\ s \in ended => Past(s) \/ Refused(s)
    /\ \A f \in Pending : f.kind = "TRAILERS" /\ f.id = s => Past(s)

\* Nothing of a handler is on its way behind the end of its stream.
EndIsLast ==
    /\ \A f \in Pending : f.kind \in Body => f.id \notin ended
    /\ \A g \in ToSet(sendChan) : g.kind \in Body =>
          ~(job["writer"].kind = "TRAILERS" /\ job["writer"].id = g.id)
    /\ \A f, g : Before(sendChan, f, g) /\ f.kind = "TRAILERS" /\ g.id = f.id => g.kind \notin Body

EndInv == Senders /\ Sent /\ OverIsPast /\ EndIsLast

\* What is known of the connection apart from its frames.
Known == TypeInv /\ SlotInv /\ pc["shutdown"] = "done"

-----------------------------------------------------------------------------
(* The steps.                                                              *)

\* The kinds of frames exclude each other.
LEMMA Kinds ==
  /\ Body \cap Refuses = {} /\ "RST0" \notin Body \cup Refuses
  /\ "none" \notin Body \cup Refuses /\ "PONG" \notin Body \cup Refuses
  /\ "PING" \notin Body \cup Refuses /\ "TRAILERS" \in Body /\ "DATA" \in Body
  /\ Body \cup Refuses \subseteq StreamKinds
BY DEF Body, Refuses, StreamKinds

\* The variables EndInv is about, and their types.
LEMMA EndTypes ==
  ASSUME TypeInv
  PROVE  /\ pc \in [Goroutines -> PumpAt \cup WriteAt \cup AliveAt \cup ShutAt \cup HandAt]
         /\ job \in [Goroutines -> Frame]
         /\ peer \in [Streams -> {"idle", "open", "eos", "reset"}]
         /\ sendChan \in Seq(Frame) /\ ended \subseteq Streams
         /\ \A f \in Pending : f \in Frame /\ (f.kind \in Body \cup Refuses => f.id \in Streams)
         /\ job["pump"].kind \in Body \cup Refuses => job["pump"].id \in Streams
<1>1. /\ pc \in [Goroutines -> PumpAt \cup WriteAt \cup AliveAt \cup ShutAt \cup HandAt]
      /\ job \in [Goroutines -> Frame] /\ sendChan \in Seq(Frame) /\ ended \subseteq Streams
      /\ peer \in [Streams -> {"idle", "open", "eos", "reset"}]
  BY DEF TypeInv, TypeOK
<1>2. ToSet(sendChan) \subseteq Frame
  BY <1>1 DEF ToSet
<1>3. job["writer"] \in Frame /\ job["pump"] \in Frame
  BY <1>1 DEF Goroutines, Workers
<1>4. \A f \in Frame : f.kind \in Body \cup Refuses => f.id \in Streams
  BY FrameFacts DEF Body, Refuses, ConnKinds
<1> QED BY <1>1, <1>2, <1>3, <1>4 DEF Pending

\* A step that puts nothing on its way, starts and ends nothing.
Quiet ==
    /\ UNCHANGED <<sendChan, ended>> /\ job'["writer"] = job["writer"]
    /\ \A s \in Streams :
        /\ peer[s] # "idle" => peer'[s] # "idle"
        /\ pc[s] = "none" <=> pc'[s] = "none"
        /\ Past(s) => Past(s)'
        /\ Creating(s)' => Creating(s) \/ peer[s] = "idle"
    /\ Senders'

\* It keeps EndInv.
LEMMA QuietEnd ==
  ASSUME TypeInv, TypeInv', EndInv, Quiet
  PROVE  EndInv'
<1>1. Pending' = Pending
  BY DEF Quiet, Pending
<1>2. \A s \in Streams : Refused(s) => Refused(s)'
  BY DEF Quiet, Refused
<1>3. Sent'
  <2>1. \A f \in Pending : f.kind \in Body \cup Refuses => f.id \in Streams
    BY EndTypes
  <2>2. ASSUME NEW f \in Pending
        PROVE  /\ f.kind \in Body => pc'[f.id] # "none"
               /\ f.kind \in Refuses => Refused(f.id)'
               /\ f.kind # "RST0"
    BY <1>2, <2>1, <2>2 DEF EndInv, Sent, Quiet
  <2> QED BY <1>1, <2>2 DEF Sent, Refused, Creating
<1>4. OverIsPast'
  BY <1>1, <1>2 DEF EndInv, OverIsPast, Quiet
<1>5. EndIsLast'
  BY <1>1 DEF EndInv, EndIsLast, Quiet
<1> QED BY <1>3, <1>4, <1>5 DEF EndInv, Quiet

\* Nobody but the peer moves.
LEMMA NobodyGoes ==
  ASSUME TypeInv, TypeInv', EndInv, UNCHANGED <<pc, job, sendChan, ended>>,
         \A s \in Streams : peer[s] # "idle" => peer'[s] # "idle"
  PROVE  EndInv'
<1>1. job["pump"].kind \in Refuses => Refused(job["pump"].id)'
  BY EndTypes DEF EndInv, Senders, Refused, Creating
<1>2. Senders'
  BY <1>1 DEF EndInv, Senders
<1>3. Quiet
  BY <1>2 DEF Quiet, Past, Creating
<1> QED BY <1>3, QuietEnd

\* The pump goes on to loc with frame f.
LEMMA PumpGoes ==
  ASSUME TypeInv, TypeInv', EndInv, NEW loc, NEW f, Goto("pump", loc, f),
         UNCHANGED <<sendChan, ended>>,
         \A s \in Streams : peer[s] # "idle" => peer'[s] # "idle",
         loc \in {"lock", "enqueue"} => f.kind \notin Body \cup {"RST0"},
         f.kind \in Refuses => Refused(f.id)',
         loc = "create" => \A s \in Streams : f.id = s => peer[s] = "idle"
  PROVE  EndInv'
<1>1. /\ pc'["pump"] = loc /\ job'["pump"] = f
      /\ \A g \in Goroutines \ {"pump"} : pc'[g] = pc[g] /\ job'[g] = job[g]
  BY EndTypes DEF Goto, Goroutines, Workers
<1>2. \A s \in Streams : pc'[s] = pc[s] /\ job'[s] = job[s]
  BY <1>1, Names DEF Goroutines
<1>3. /\ pc'["keepalive"] = pc["keepalive"] /\ job'["keepalive"] = job["keepalive"]
      /\ job'["writer"] = job["writer"]
  BY <1>1 DEF Goroutines, Workers
<1>4. Senders'
  BY <1>1, <1>2, <1>3 DEF EndInv, Senders
<1>5. \A s \in Streams : Creating(s)' => peer[s] = "idle"
  BY <1>1 DEF Creating
<1>6. Quiet
  BY <1>2, <1>3, <1>4, <1>5 DEF Quiet, Past
<1> QED BY <1>6, QuietEnd

\* The handler of s goes on to loc with frame f.
LEMMA HandlerGoes ==
  ASSUME TypeInv, TypeInv', EndInv, NEW s \in Streams, NEW loc, NEW f, Goto(s, loc, f),
         UNCHANGED <<sendChan, ended, peer>>, pc[s] # "none", loc # "none",
         Past(s) => loc \in {"cancel", "unregister", "done"},
         loc \in {"lock", "enqueue"} => f.kind \in Body /\ f.id = s
  PROVE  EndInv'
<1>1. /\ pc'[s] = loc /\ job'[s] = f
      /\ \A g \in Goroutines \ {s} : pc'[g] = pc[g] /\ job'[g] = job[g]
  BY EndTypes DEF Goto, Goroutines
<1>2. \A g \in {"pump", "writer", "keepalive"} : pc'[g] = pc[g] /\ job'[g] = job[g]
  BY <1>1, Names DEF Goroutines, Workers
<1>3. \A r \in Streams : pc'[r] = "none" <=> pc[r] = "none"
  BY <1>1 DEF Goroutines
<1>4. \A r \in Streams : Past(r) => Past(r)'
  BY <1>1 DEF Goroutines, Past
<1>5. \A r \in Streams : Creating(r)' = Creating(r)
  BY <1>2 DEF Creating
<1>6. Senders'
  <2>1. \A r \in Streams : pc'[r] \in {"lock", "enqueue"} => job'[r].kind \in Body /\ job'[r].id = r
    BY <1>1 DEF Goroutines, EndInv, Senders
  <2>2. job["pump"].kind \in Refuses => Refused(job["pump"].id)'
    BY <1>2, <1>3, <1>5, EndTypes DEF EndInv, Senders, Refused
  <2> QED BY <1>2, <2>1, <2>2 DEF EndInv, Senders
<1>7. Quiet
  BY <1>2, <1>3, <1>4, <1>5, <1>6 DEF Quiet
<1> QED BY <1>7, QuietEnd

\* The keepalive goes on to loc with frame f.
LEMMA KeepAliveGoes ==
  ASSUME TypeInv, TypeInv', EndInv, NEW loc, NEW f, Goto("keepalive", loc, f),
         UNCHANGED <<sendChan, ended, peer>>,
         loc \in {"lock", "enqueue"} => f.kind = "PING"
  PROVE  EndInv'
<1>1. /\ pc'["keepalive"] = loc /\ job'["keepalive"] = f
      /\ \A g \in Goroutines \ {"keepalive"} : pc'[g] = pc[g] /\ job'[g] = job[g]
  BY EndTypes DEF Goto, Goroutines, Workers
<1>2. \A s \in Streams : pc'[s] = pc[s] /\ job'[s] = job[s]
  BY <1>1, Names DEF Goroutines
<1>3. \A g \in {"pump", "writer"} : pc'[g] = pc[g] /\ job'[g] = job[g]
  BY <1>1 DEF Goroutines, Workers
<1>4. job["pump"].kind \in Refuses => Refused(job["pump"].id)'
  BY <1>2, <1>3, EndTypes DEF EndInv, Senders, Refused, Creating
<1>5. Senders'
  BY <1>1, <1>2, <1>3, <1>4 DEF EndInv, Senders
<1>6. Quiet
  BY <1>2, <1>3, <1>5 DEF Quiet, Past, Creating
<1> QED BY <1>6, QuietEnd

\* What the pump does with a stream.
LEMMA PumpEnds ==
  ASSUME Known, TypeInv', EndInv, PumpStep
  PROVE  EndInv'
<1> USE Kinds, FrameFacts
<1>0. TypeInv /\ SlotInv
  BY DEF Known
<1>1. ASSUME NEW s \in Streams, PumpHeaders(s) PROVE EndInv'
  <2>1. /\ pc["pump"] = "read" /\ peer[s] = "idle" /\ peer' = [peer EXCEPT ![s] = "open"]
        /\ UNCHANGED <<sendChan, ended>> /\ pc[s] = "none"
    BY <1>0, <1>1 DEF PumpHeaders, CanRead, sending, SlotInv, Fresh
  <2>2. \A r \in Streams : peer[r] # "idle" => peer'[r] # "idle"
    BY <1>0, <2>1, EndTypes
  <2>3. CASE Goto("pump", "create", Fr("HEADERS", s))
    <3>1. "HEADERS" \in StreamKinds /\ "HEADERS" \notin Refuses
      BY DEF StreamKinds, Refuses
    <3> QED BY <1>0, <2>1, <2>2, <2>3, <3>1, PumpGoes
  <2>4. CASE Goto("pump", "lock", Fr("RST8", s))
    <3>1. /\ "RST8" \in StreamKinds /\ "RST8" \in Refuses
          /\ Fr("RST8", s).kind \notin Body \cup {"RST0"} /\ Fr("RST8", s).id = s
      BY DEF StreamKinds, Refuses, Body
    <3>2. pc' = [pc EXCEPT !["pump"] = "lock"] /\ peer'[s] = "open"
      BY <1>0, <2>1, <2>4, EndTypes DEF Goto
    <3>3. pc'["pump"] = "lock" /\ pc'[s] = "none"
      BY <1>0, <2>1, <3>2, EndTypes, Names DEF Goroutines, Workers
    <3>4. Refused(s)'
      BY <3>2, <3>3 DEF Refused, Creating
    <3> QED BY <1>0, <2>1, <2>2, <2>4, <3>1, <3>4, PumpGoes
  <2> QED BY <1>1, <2>3, <2>4 DEF PumpHeaders
<1>2. CASE PumpUnknownMethod
  <2> DEFINE s == job["pump"].id
  <2>1. /\ pc["pump"] = "create" /\ s \in Streams /\ pc[s] = "none" /\ peer[s] # "idle"
        /\ Goto("pump", "lock", Fr("RST6", s)) /\ UNCHANGED <<sendChan, ended, peer>>
    BY <1>0, <1>2, SlotTypes DEF PumpUnknownMethod, SlotInv, PumpLocals, sending, remote
  <2>2. /\ "RST6" \in StreamKinds /\ "RST6" \in Refuses
        /\ Fr("RST6", s).kind \notin Body \cup {"RST0"} /\ Fr("RST6", s).id = s
    BY <2>1 DEF StreamKinds, Refuses, Body
  <2> HIDE DEF s
  <2>3. pc' = [pc EXCEPT !["pump"] = "lock"]
    BY <2>1 DEF Goto
  <2>4. pc'["pump"] = "lock" /\ pc'[s] = "none"
    BY <1>0, <2>1, <2>3, EndTypes, Names DEF Goroutines, Workers
  <2>5. PICK r \in Streams : r = s
    BY <2>1
  <2>6. Refused(r)'
    BY <2>1, <2>4, <2>5 DEF Refused, Creating
  <2> QED BY <1>0, <2>1, <2>2, <2>5, <2>6, PumpGoes
<1>3. CASE PumpCreate
  <2> DEFINE s == job["pump"].id
  <2>1. /\ pc["pump"] = "create" /\ s \in Streams /\ pc[s] = "none"
        /\ pc' = [pc EXCEPT !["pump"] = "read", ![s] = "app"]
        /\ job' = [job EXCEPT !["pump"] = NoFrame] /\ UNCHANGED <<sendChan, ended, peer>>
    BY <1>0, <1>3, SlotTypes DEF PumpCreate, SlotInv, PumpLocals, sending, remote
  <2> HIDE DEF s
  <2>2. /\ pc'["pump"] = "read" /\ pc'[s] = "app" /\ job'["pump"] = NoFrame
        /\ \A g \in Goroutines \ {"pump", s} : pc'[g] = pc[g]
        /\ \A g \in Goroutines \ {"pump"} : job'[g] = job[g]
    BY <1>0, <2>1, EndTypes, Names DEF Goroutines, Workers
  <2>3. \A r \in Streams : job'[r] = job[r] /\ (r # s => pc'[r] = pc[r])
    BY <2>2, Names DEF Goroutines
  <2>4. /\ pc'["keepalive"] = pc["keepalive"] /\ job'["keepalive"] = job["keepalive"]
        /\ job'["writer"] = job["writer"]
    BY <2>1, <2>2, Names DEF Goroutines, Workers
  <2>5. \A r \in Streams : r # s => (Refused(r) => Refused(r)') /\ (Past(r) => Past(r)')
    BY <2>1, <2>2, <2>3 DEF Refused, Past, Creating
  <2>6. ~Refused(s) /\ ~Past(s)
    BY <2>1 DEF Refused, Creating, Past, s
  <2>7. Pending' = Pending
    BY <2>1, <2>4 DEF Pending
  <2>8. Senders'
    BY <2>2, <2>3, <2>4 DEF EndInv, Senders
  <2>9. Sent'
    <3>1. \A f \in Pending : f.kind \in Body \cup Refuses => f.id \in Streams
      BY <1>0, EndTypes
    <3>2. ASSUME NEW f \in Pending
          PROVE  /\ f.kind \in Body => pc'[f.id] # "none"
                 /\ f.kind \in Refuses => Refused(f.id)'
                 /\ f.kind # "RST0"
      BY <2>2, <2>3, <2>5, <2>6, <3>1, <3>2 DEF EndInv, Sent
    <3> QED BY <2>7, <3>2 DEF Sent, Refused, Creating
  <2>10. OverIsPast'
    BY <2>1, <2>5, <2>6, <2>7 DEF EndInv, OverIsPast
  <2>11. EndIsLast'
    BY <2>1, <2>4, <2>7 DEF EndInv, EndIsLast
  <2> QED BY <2>8, <2>9, <2>10, <2>11 DEF EndInv
<1>4. ASSUME NEW s \in Streams, NEW eos \in BOOLEAN, PumpData(s, eos) PROVE EndInv'
  <2>1. /\ peer' = [peer EXCEPT ![s] = IF eos THEN "eos" ELSE @] /\ peer[s] = "open"
        /\ UNCHANGED <<sendChan, ended>>
        /\ Goto("pump", "deliver", Fr("DATA", s)) \/ UNCHANGED <<pc, job>>
    BY <1>4 DEF PumpData, sending
  <2>2. \A r \in Streams : peer[r] # "idle" => peer'[r] # "idle"
    BY <1>0, <2>1, EndTypes
  <2>3. Fr("DATA", s).kind \notin Refuses
    BY DEF Body, Refuses, StreamKinds
  <2> QED BY <1>0, <2>1, <2>2, <2>3, PumpGoes, NobodyGoes
<1>5. ASSUME NEW s \in Streams, PumpRst(s) PROVE EndInv'
  <2>1. peer' = [peer EXCEPT ![s] = "reset"] /\ UNCHANGED <<pc, job, sendChan, ended>>
    BY <1>5 DEF PumpRst, sending
  <2>2. \A r \in Streams : peer[r] # "idle" => peer'[r] # "idle"
    BY <1>0, <2>1, EndTypes
  <2> QED BY <1>0, <2>1, <2>2, NobodyGoes
<1>6. CASE PumpPing
  <2>1. Goto("pump", "lock", Fr("PONG", 0)) /\ UNCHANGED <<sendChan, ended, peer>>
    BY <1>6 DEF PumpPing, sending, remote
  <2>2. Fr("PONG", 0).kind = "PONG" /\ "PONG" # "RST0"
    BY DEF ConnKinds
  <2> QED BY <1>0, <2>1, <2>2, PumpGoes
<1>7. CASE PumpPong
  BY <1>0, <1>7, NobodyGoes DEF PumpPong, sending, remote
<1>8. CASE Deliver \/ DropLate \/ DeliverPanics \/ PumpReadError \/ PumpClose
  <2>1. /\ UNCHANGED <<sendChan, ended, peer>>
        /\ \E loc \in {"read", "close", "done"} : Goto("pump", loc, NoFrame)
    BY <1>8 DEF Deliver, DropLate, DeliverPanics, PumpReadError, PumpClose, sending, remote
  <2> QED BY <1>0, <2>1, PumpGoes
<1> QED BY <1>1, <1>2, <1>3, <1>4, <1>5, <1>6, <1>7, <1>8 DEF PumpStep

\* What send() does: nobody queues a frame behind the end of its stream.
LEMMA SendEnds ==
  ASSUME Known, TypeInv', EndInv, NEW g \in Goroutines, Lock(g) \/ Enqueue(g)
  PROVE  EndInv'
<1> USE Kinds, FrameFacts
<1>0. TypeInv /\ UNCHANGED <<peer, ended>>
  BY SendStep DEF Known, remote
<1>1. g \in Streams \cup {"pump", "keepalive"} /\ pc[g] \in {"lock", "enqueue"}
  <2>1. pc[g] \in {"lock", "enqueue"}
    BY <1>0, SendStep
  <2>2. pc["writer"] \notin {"lock", "enqueue"} /\ pc["shutdown"] \notin {"lock", "enqueue"}
    BY <1>0 DEF TypeInv, TypeOK, WriteAt, ShutAt
  <2> QED BY <2>1, <2>2 DEF Goroutines, Workers
<1>2. ASSUME sendChan' = sendChan PROVE EndInv'
  <2>0. \/ Goto(g, "enqueue", job[g])
        \/ Goto(g, AfterSend(g, TRUE), NoFrame)
        \/ Goto(g, AfterSend(g, FALSE), NoFrame)
    BY DEF Lock, Enqueue
  <2>1. PICK loc \in {"enqueue", AfterSend(g, TRUE), AfterSend(g, FALSE)}, f \in {job[g], NoFrame} :
           Goto(g, loc, f) /\ (f = job[g] \/ loc # "enqueue")
    <3>1. AfterSend(g, TRUE) # "enqueue" /\ AfterSend(g, FALSE) # "enqueue"
      BY DEF AfterSend
    <3> QED BY <2>0, <3>1
  <2>2. CASE g = "pump"
    <3>1. loc \in {"enqueue", "read"}
      BY <2>1, <2>2 DEF AfterSend
    <3>2. f.kind \notin Body \cup {"RST0"}
      BY <1>1, <2>1, <2>2 DEF EndInv, Senders
    <3>3. ASSUME f.kind \in Refuses PROVE Refused(f.id)'
      <4>1. f = job["pump"] /\ Refused(f.id)
        BY <2>1, <2>2, <3>3 DEF EndInv, Senders
      <4>2. PICK s \in Streams : s = f.id
        BY <1>0, <3>3, <4>1, EndTypes
      <4>3. pc' = [pc EXCEPT !["pump"] = loc]
        BY <2>1, <2>2 DEF Goto
      <4>4. pc'["pump"] = loc /\ pc'[s] = pc[s]
        BY <1>0, <4>3, EndTypes, Names DEF Goroutines, Workers
      <4>5. Refused(s)'
        BY <1>0, <3>1, <4>1, <4>2, <4>4 DEF Refused, Creating
      <4> QED BY <4>2, <4>5
    <3> QED BY <1>0, <1>2, <2>1, <2>2, <3>1, <3>2, <3>3, PumpGoes
  <2>3. CASE g = "keepalive"
    <3>1. loc \in {"enqueue", "wait", "done"}
      BY <2>1, <2>3 DEF AfterSend
    <3>2. job[g].kind = "PING"
      BY <1>1, <2>3 DEF EndInv, Senders
    <3> QED BY <1>0, <1>2, <2>1, <2>3, <3>1, <3>2, KeepAliveGoes
  <2>4. CASE g \in Streams
    <3>1. loc \in {"enqueue", "cancel", "app"}
      BY <2>1, <2>4, Names DEF AfterSend
    <3>2. job[g].kind \in Body /\ job[g].id = g /\ ~Past(g) /\ pc[g] # "none"
      BY <1>1, <2>4 DEF EndInv, Senders, Past
    <3> QED BY <1>0, <1>2, <2>1, <2>4, <3>1, <3>2, HandlerGoes
  <2> QED BY <1>1, <2>2, <2>3, <2>4
<1>3. ASSUME sendChan' # sendChan PROVE EndInv'
  <2>1. PICK f \in Frame : f = job[g]
    BY <1>0, EndTypes
  <2>2. /\ sendChan' = Append(sendChan, f) /\ Goto(g, AfterSend(g, TRUE), NoFrame)
        /\ pc[g] = "enqueue"
    BY <1>3, <2>1 DEF Lock, Enqueue, Queue, sending
  <2>3. /\ ToSet(sendChan') = ToSet(sendChan) \cup {f}
        /\ \A x, y : Before(sendChan', x, y) <=>
              Before(sendChan, x, y) \/ (x \in ToSet(sendChan) /\ y = f)
    BY <1>0, <2>2, EndTypes, AppendFacts
  <2>4. /\ pc'[g] = AfterSend(g, TRUE) /\ job'[g] = NoFrame
        /\ \A h \in Goroutines \ {g} : pc'[h] = pc[h] /\ job'[h] = job[h]
    BY <1>0, <2>2, EndTypes DEF Goto
  <2>5. job'["writer"] = job["writer"] /\ Pending' = Pending \cup {f}
    <3>1. job'["writer"] = job["writer"]
      BY <1>1, <2>4, Names DEF Goroutines, Workers
    <3> QED BY <2>3, <3>1 DEF Pending
  <2>6. /\ \A s \in Streams : (pc[s] = "none" <=> pc'[s] = "none") /\ (Past(s) => Past(s)')
        /\ \A s \in Streams : Creating(s)' => Creating(s)
    <3>1. CASE g = "pump"
      <4>1. pc'["pump"] = "read" /\ \A s \in Streams : pc'[s] = pc[s]
        BY <2>4, <3>1, Names DEF AfterSend, Goroutines, Workers
      <4> QED BY <4>1 DEF Creating, Past
    <3>2. CASE g = "keepalive"
      <4>1. /\ pc'["pump"] = pc["pump"] /\ job'["pump"] = job["pump"]
            /\ \A s \in Streams : pc'[s] = pc[s]
        BY <2>4, <3>2, Names DEF Goroutines, Workers
      <4> QED BY <4>1 DEF Creating, Past
    <3>3. CASE g \in Streams
      <4>1. /\ pc'["pump"] = pc["pump"] /\ job'["pump"] = job["pump"]
            /\ \A s \in Streams \ {g} : pc'[s] = pc[s]
        BY <2>4, <3>3, Names DEF Goroutines, Workers
      <4>2. pc'[g] \in {"cancel", "app"} /\ ~Past(g) /\ pc[g] # "none"
        BY <2>2, <2>4, <3>3, Names DEF AfterSend, Past
      <4> QED BY <4>1, <4>2 DEF Creating, Past
    <3> QED BY <1>1, <3>1, <3>2, <3>3
  <2>7. \A s \in Streams : Refused(s) => Refused(s)'
    BY <1>0, <2>6 DEF Refused
  <2>8. /\ f.kind \in Body => /\ f.id \in Streams /\ pc[f.id] = "enqueue" /\ g = f.id
                              /\ f.kind = "TRAILERS" => pc'[f.id] = "cancel"
        /\ f.kind \in Refuses => f.id \in Streams /\ Refused(f.id)
        /\ f.kind # "RST0"
    <3>1. CASE g = "pump"
      BY <1>0, <2>1, <2>2, <3>1, EndTypes DEF EndInv, Senders
    <3>2. CASE g = "keepalive"
      <4>1. f.kind = "PING" /\ "PING" # "RST0"
        BY <2>1, <2>2, <3>2 DEF EndInv, Senders
      <4> QED BY <4>1
    <3>3. CASE g \in Streams
      <4>1. f.kind \in Body /\ f.id = g
        BY <2>1, <2>2, <3>3 DEF EndInv, Senders
      <4>2. f.kind = "TRAILERS" => pc'[g] = "cancel"
        BY <2>1, <2>4, <3>3, Names DEF AfterSend
      <4> QED BY <2>2, <3>3, <4>1, <4>2
    <3> QED BY <1>1, <3>1, <3>2, <3>3
  <2>9. Senders'
    <3>1. \A s \in Streams : pc'[s] \in {"lock", "enqueue"} => job'[s].kind \in Body /\ job'[s].id = s
      <4>1. ASSUME NEW s \in Streams, s # g PROVE pc'[s] = pc[s] /\ job'[s] = job[s]
        BY <2>4, <4>1 DEF Goroutines
      <4>2. g \in Streams => pc'[g] \in {"cancel", "app"}
        BY <2>4, Names DEF AfterSend
      <4> QED BY <4>1, <4>2 DEF EndInv, Senders
    <3>2. /\ pc'["pump"] \in {"lock", "enqueue"} => job'["pump"].kind \notin Body \cup {"RST0"}
          /\ job'["pump"].kind \in Refuses => job'["pump"] = job["pump"]
      <4>1. CASE g = "pump"
        BY <2>4, <4>1 DEF AfterSend
      <4>2. CASE g # "pump"
        <5>1. pc'["pump"] = pc["pump"] /\ job'["pump"] = job["pump"]
          BY <2>4, <4>2 DEF Goroutines, Workers
        <5> QED BY <5>1 DEF EndInv, Senders
      <4> QED BY <4>1, <4>2
    <3>3. pc'["keepalive"] \in {"lock", "enqueue"} => job'["keepalive"].kind = "PING"
      <4>1. CASE g = "keepalive"
        BY <2>4, <4>1 DEF AfterSend
      <4>2. CASE g # "keepalive"
        <5>1. pc'["keepalive"] = pc["keepalive"] /\ job'["keepalive"] = job["keepalive"]
          BY <2>4, <4>2 DEF Goroutines, Workers
        <5> QED BY <5>1 DEF EndInv, Senders
      <4> QED BY <4>1, <4>2
    <3>4. ASSUME job'["pump"].kind \in Refuses PROVE Refused(job["pump"].id)'
      <4>1. job'["pump"] = job["pump"]
        BY <3>2, <3>4
      <4>2. PICK s \in Streams : s = job["pump"].id
        BY <1>0, <3>4, <4>1, EndTypes
      <4>3. Refused(s)'
        BY <2>7, <3>4, <4>1, <4>2 DEF EndInv, Senders
      <4> QED BY <4>1, <4>2, <4>3 DEF Refused, Creating
    <3> QED BY <3>1, <3>2, <3>3, <3>4 DEF Senders
  <2>10. \A x \in Pending : x.kind \in Body \cup Refuses => x.id \in Streams
    BY <1>0, EndTypes
  <2>11. Sent'
    <3>1. ASSUME NEW x \in Pending'
          PROVE  /\ x.kind \in Body => pc'[x.id] # "none"
                 /\ x.kind \in Refuses => Refused(x.id)'
                 /\ x.kind # "RST0"
      <4>1. CASE x \in Pending
        BY <2>6, <2>7, <2>10, <4>1 DEF EndInv, Sent
      <4>2. CASE x = f
        BY <2>6, <2>7, <2>8, <4>2
      <4> QED BY <2>5, <3>1, <4>1, <4>2
    <3> QED BY <3>1 DEF Sent, Refused, Creating
  <2>12. OverIsPast'
    <3>1. ASSUME NEW s \in Streams PROVE s \in ended => Past(s)' \/ Refused(s)'
      BY <2>6, <2>7 DEF EndInv, OverIsPast
    <3>2. ASSUME NEW s \in Streams, NEW x \in Pending', x.kind = "TRAILERS", x.id = s PROVE Past(s)'
      <4>1. CASE x \in Pending
        BY <2>6, <3>2, <4>1 DEF EndInv, OverIsPast
      <4>2. CASE x = f
        BY <2>8, <3>2, <4>2 DEF Past
      <4> QED BY <2>5, <3>2, <4>1, <4>2
    <3> QED BY <1>0, <3>1, <3>2 DEF OverIsPast
  <2>13. EndIsLast'
    <3>1. ASSUME f.kind \in Body PROVE /\ f.id \notin ended
                                       /\ \A x \in Pending : ~(x.kind = "TRAILERS" /\ x.id = f.id)
      BY <2>8, <3>1 DEF EndInv, OverIsPast, Past, Refused
    <3>2. \A x \in Pending' : x.kind \in Body => x.id \notin ended
      BY <2>5, <3>1 DEF EndInv, EndIsLast
    <3>3. job["writer"] \in Pending /\ ToSet(sendChan) \subseteq Pending
      BY DEF Pending
    <3>4. \A y \in ToSet(sendChan') : y.kind \in Body =>
            ~(job["writer"].kind = "TRAILERS" /\ job["writer"].id = y.id)
      BY <2>3, <3>1, <3>3 DEF EndInv, EndIsLast
    <3>5. \A x, y : Before(sendChan', x, y) /\ x.kind = "TRAILERS" /\ y.id = x.id => y.kind \notin Body
      BY <2>3, <3>1, <3>3 DEF EndInv, EndIsLast
    <3> QED BY <1>0, <2>5, <3>2, <3>4, <3>5 DEF EndIsLast
  <2> QED BY <2>9, <2>11, <2>12, <2>13 DEF EndInv
<1> QED BY <1>2, <1>3

\* What the writer does: a stream's end is written behind all that is on its way.
LEMMA WriterEnds ==
  ASSUME Known, TypeInv', EndInv, WriterStep
  PROVE  EndInv'
<1>0. TypeInv /\ UNCHANGED peer
  BY DEF Known, WriterStep, WriterTake, WriterStop, WriteOK, WriteError, remote
<1>1. /\ \A g \in Goroutines \ {"writer"} : pc'[g] = pc[g] /\ job'[g] = job[g]
      /\ sendChan' = sendChan \/ (sendChan # <<>> /\ sendChan' = Tail(sendChan))
  <2>1. PICK loc \in {"write", "done", "take"}, f \in {NoFrame, Head(sendChan)} : Goto("writer", loc, f)
    BY DEF WriterStep, WriterTake, WriterStop, WriteOK, WriteError
  <2>2. \A g \in Goroutines \ {"writer"} : pc'[g] = pc[g] /\ job'[g] = job[g]
    BY <1>0, <2>1, EndTypes DEF Goto
  <2> QED BY <2>2 DEF WriterStep, WriterTake, WriterStop, WriteOK, WriteError, sending
<1>2. \A g \in {"pump", "keepalive"} : pc'[g] = pc[g] /\ job'[g] = job[g]
  BY <1>1 DEF Goroutines, Workers
<1>3. \A s \in Streams : pc'[s] = pc[s] /\ job'[s] = job[s]
  BY <1>1, Names DEF Goroutines
<1>4. \A s \in Streams : (Past(s) <=> Past(s)') /\ (Refused(s) <=> Refused(s)')
  BY <1>0, <1>2, <1>3 DEF Past, Refused, Creating
<1>5. Senders'
  <2>1. job["pump"].kind \in Refuses => Refused(job["pump"].id)'
    BY <1>0, <1>2, <1>4, EndTypes DEF EndInv, Senders, Refused, Creating
  <2> QED BY <1>2, <1>3, <2>1 DEF EndInv, Senders
<1>6. \A f \in Pending : f.kind \in Body \cup Refuses => f.id \in Streams
  BY <1>0, EndTypes
<1>7. ToSet(sendChan') \subseteq ToSet(sendChan) /\ \A f, g : Before(sendChan', f, g) => Before(sendChan, f, g)
  <2>1. ASSUME sendChan # <<>>, sendChan' = Tail(sendChan)
        PROVE  /\ ToSet(sendChan') \subseteq ToSet(sendChan)
               /\ \A f, g : Before(sendChan', f, g) => Before(sendChan, f, g)
    <3>1. sendChan \in Seq(Frame)
      BY <1>0, EndTypes
    <3> QED BY <2>1, <3>1, TailFacts
  <2>2. ASSUME sendChan' = sendChan
        PROVE  /\ ToSet(sendChan') \subseteq ToSet(sendChan)
               /\ \A f, g : Before(sendChan', f, g) => Before(sendChan, f, g)
    BY <2>2
  <2> QED BY <1>1, <2>1, <2>2
<1>8. /\ Pending' \subseteq Pending \cup {NoFrame}
      /\ job'["writer"] = NoFrame \/ WriterTake
  <2>1. CASE WriterTake
    <3>1. pc' = [pc EXCEPT !["writer"] = "write"] /\ job' = [job EXCEPT !["writer"] = Head(sendChan)]
          /\ sendChan # <<>> /\ sendChan' = Tail(sendChan)
      BY <2>1 DEF WriterTake, Goto
    <3>2. job'["writer"] = Head(sendChan)
      BY <1>0, <3>1, EndTypes DEF Goroutines, Workers
    <3>3. Head(sendChan) \in ToSet(sendChan)
      BY <1>0, <3>1, EndTypes, TailFacts
    <3> QED BY <1>7, <2>1, <3>2, <3>3 DEF Pending
  <2>2. CASE ~WriterTake
    <3>1. PICK loc \in {"done", "take"} : Goto("writer", loc, NoFrame)
      BY <2>2 DEF WriterStep, WriterStop, WriteOK, WriteError
    <3>2. job'["writer"] = NoFrame
      BY <1>0, <3>1, EndTypes DEF Goto, Goroutines, Workers
    <3> QED BY <1>7, <3>2 DEF Pending
  <2> QED BY <2>1, <2>2
<1>9. NoFrame.kind \notin Body \cup Refuses \cup {"RST0"}
  <2>1. NoFrame.kind = "none" /\ "none" # "RST0"
    BY DEF NoFrame, Fr
  <2> QED BY <2>1, Kinds
<1>10. Sent'
  <2>1. ASSUME NEW f \in Pending'
        PROVE  /\ f.kind \in Body => pc'[f.id] # "none"
               /\ f.kind \in Refuses => Refused(f.id)'
               /\ f.kind # "RST0"
    <3>1. CASE f = NoFrame
      BY <1>9, <3>1
    <3>2. CASE f \in Pending
      BY <1>3, <1>4, <1>6, <3>2 DEF EndInv, Sent
    <3> QED BY <1>8, <2>1, <3>1, <3>2
  <2> QED BY <2>1 DEF Sent, Refused, Creating
<1>11. ASSUME NEW s \in Streams, NEW f \in Pending', f.kind = "TRAILERS", f.id = s PROVE Past(s)'
  <2>1. f \in Pending
    BY <1>8, <1>9, <1>11, Kinds
  <2> QED BY <1>4, <1>11, <2>1 DEF EndInv, OverIsPast
<1>12. CASE ended' = ended
  <2>1. OverIsPast'
    BY <1>4, <1>11, <1>12 DEF EndInv, OverIsPast
  <2>2. ASSUME NEW g \in ToSet(sendChan'), g.kind \in Body,
               job'["writer"].kind = "TRAILERS", job'["writer"].id = g.id
        PROVE  FALSE
    <3>1. WriterTake
      BY <1>8, <1>9, <2>2, Kinds
    <3>2. job' = [job EXCEPT !["writer"] = Head(sendChan)] /\ sendChan # <<>> /\ sendChan' = Tail(sendChan)
      BY <3>1 DEF WriterTake, Goto
    <3>3. job'["writer"] = Head(sendChan)
      BY <1>0, <3>2, EndTypes DEF Goroutines, Workers
    <3>4. Before(sendChan, Head(sendChan), g)
      BY <1>0, <2>2, <3>2, EndTypes, TailFacts
    <3> QED BY <2>2, <3>3, <3>4 DEF EndInv, EndIsLast
  <2>3. \A f \in Pending' : f.kind \in Body => f.id \notin ended'
    BY <1>8, <1>9, <1>12 DEF EndInv, EndIsLast
  <2>4. \A f, g : Before(sendChan', f, g) /\ f.kind = "TRAILERS" /\ g.id = f.id => g.kind \notin Body
    BY <1>7 DEF EndInv, EndIsLast
  <2>5. EndIsLast'
    BY <2>2, <2>3, <2>4 DEF EndIsLast
  <2> QED BY <1>5, <1>10, <2>1, <2>5 DEF EndInv
<1>13. CASE ended' # ended
  <2>1. PICK f \in Pending : f = job["writer"]
    BY DEF Pending
  <2>2. WriteOK /\ f.kind \in Ends /\ ended' = ended \cup {f.id}
    BY <1>13, <2>1 DEF WriterStep, WriterTake, WriterStop, WriteOK, WriteError, remote
  <2>3. sendChan' = sendChan
    BY <2>2 DEF WriteOK, sending
  <2>4. f.kind = "TRAILERS" \/ f.kind \in Refuses
    BY <2>2 DEF EndInv, Sent, Ends, Refuses
  <2>5. f.id \in Streams
    BY <1>6, <2>4, Kinds
  <2>6. Past(f.id) \/ Refused(f.id)
    BY <2>4, <2>5 DEF EndInv, Sent, OverIsPast
  <2>7. OverIsPast'
    <3>1. ASSUME NEW s \in Streams, s \in ended' PROVE Past(s)' \/ Refused(s)'
      BY <1>4, <2>2, <2>6, <3>1 DEF EndInv, OverIsPast
    <3> QED BY <1>11, <3>1 DEF OverIsPast
  <2>8. job'["writer"] = NoFrame
    <3>1. Goto("writer", "take", NoFrame)
      BY <2>2 DEF WriteOK
    <3> QED BY <1>0, <3>1, EndTypes DEF Goto, Goroutines, Workers
  <2>9. ASSUME NEW x \in ToSet(sendChan), x.kind \in Body PROVE x.id # f.id
    <3>1. x \in Pending
      BY DEF Pending
    <3>2. f.kind = "TRAILERS" => x.id # f.id
      BY <2>1, <2>9 DEF EndInv, EndIsLast
    <3>3. f.kind \in Refuses => pc[f.id] = "none" /\ pc[x.id] # "none"
      BY <2>9, <3>1 DEF EndInv, Sent, Refused
    <3> QED BY <2>4, <3>2, <3>3
  <2>10. \A x \in Pending' : x.kind \in Body => x.id \notin ended'
    <3>1. Pending' = ToSet(sendChan) \cup {NoFrame}
      BY <2>3, <2>8 DEF Pending
    <3>2. ToSet(sendChan) \subseteq Pending
      BY DEF Pending
    <3> QED BY <1>9, <2>2, <2>9, <3>1, <3>2 DEF EndInv, EndIsLast
  <2>11. job'["writer"].kind # "TRAILERS"
    BY <1>9, <2>8, Kinds
  <2>12. EndIsLast'
    <3>1. \A x, y : Before(sendChan', x, y) /\ x.kind = "TRAILERS" /\ y.id = x.id => y.kind \notin Body
      BY <1>7 DEF EndInv, EndIsLast
    <3> QED BY <2>10, <2>11, <3>1 DEF EndIsLast
  <2> QED BY <1>5, <1>10, <2>7, <2>12 DEF EndInv
<1> QED BY <1>12, <1>13

\* What the handler of a stream does.
LEMMA HandlerEnds ==
  ASSUME Known, TypeInv', EndInv, NEW s \in Streams, HandlerStep(s)
  PROVE  EndInv'
<1> USE Kinds, FrameFacts
<1>0. TypeInv /\ UNCHANGED <<sendChan, ended, peer>>
  BY DEF Known, HandlerStep, CallRecv, RecvData, RecvEOF, RecvCancelled, CallSend, Return,
         CancelStream, Unregister, sending, remote
<1>1. CASE CallRecv(s) \/ RecvData(s) \/ RecvEOF(s) \/ RecvCancelled(s)
  <2>1. /\ pc[s] \in {"app", "recv"}
        /\ \E loc \in {"recv", "app"} : Goto(s, loc, NoFrame)
    BY <1>1 DEF CallRecv, RecvData, RecvEOF, RecvCancelled
  <2> QED BY <1>0, <2>1, HandlerGoes DEF Past
<1>2. CASE CallSend(s) \/ Return(s)
  <2>1. pc[s] = "app" /\ (Goto(s, "lock", Fr("DATA", s)) \/ Goto(s, "lock", Fr("TRAILERS", s)))
    BY <1>2 DEF CallSend, Return
  <2>2. ASSUME NEW kind \in Body PROVE Fr(kind, s).kind \in Body /\ Fr(kind, s).id = s
    BY DEF StreamKinds, Body
  <2> QED BY <1>0, <2>1, <2>2, HandlerGoes DEF Past
<1>3. CASE CancelStream(s)
  BY <1>0, <1>3, HandlerGoes DEF CancelStream, Past
<1>4. CASE Unregister(s)
  BY <1>0, <1>4, HandlerGoes DEF Unregister, Past
<1> QED BY <1>1, <1>2, <1>3, <1>4 DEF HandlerStep

\* What the keepalive does.
LEMMA KeepAliveEnds ==
  ASSUME Known, TypeInv', EndInv, KeepAliveStep
  PROVE  EndInv'
<1>0. TypeInv /\ UNCHANGED <<sendChan, ended, peer>>
  BY DEF Known, KeepAliveStep, KeepAliveTick, KeepAliveTimeout, KeepAliveStop, sending, remote
<1>1. CASE KeepAliveTick
  <2>1. Fr("PING", 0).kind = "PING"
    BY FrameFacts DEF ConnKinds
  <2> QED BY <1>0, <1>1, <2>1, KeepAliveGoes DEF KeepAliveTick
<1>2. CASE KeepAliveTimeout \/ KeepAliveStop
  <2>1. \E loc \in {"tick", "done"} : Goto("keepalive", loc, NoFrame)
    BY <1>2 DEF KeepAliveTimeout, KeepAliveStop
  <2> QED BY <1>0, <2>1, KeepAliveGoes
<1> QED BY <1>1, <1>2 DEF KeepAliveStep

\* Every step of a connection that is not shut down.
LEMMA NextEnds ==
  ASSUME Known, TypeInv', EndInv, [Next]_vars
  PROVE  EndInv'
<1>1. CASE PumpStep
  BY <1>1, PumpEnds
<1>2. CASE WriterStep
  BY <1>2, WriterEnds
<1>3. CASE KeepAliveStep
  BY <1>3, KeepAliveEnds
<1>4. CASE MonitorStep \/ PeerCloses \/ PeerStalls \/ UNCHANGED vars
  <2>1. UNCHANGED <<pc, job, sendChan, ended, peer>>
    BY <1>4 DEF MonitorStep, CheckIdle, Elapse, PeerCloses, PeerStalls, sending, remote, vars
  <2> QED BY <2>1, NobodyGoes DEF Known
<1>5. ASSUME NEW g \in Goroutines, Lock(g) \/ Enqueue(g) PROVE EndInv'
  BY <1>5, SendEnds
<1>6. ASSUME NEW s \in Streams, HandlerStep(s) PROVE EndInv'
  BY <1>6, HandlerEnds
<1>7. ~ShutdownStep
  BY DEF Known, ShutdownStep, ShutdownBegin, ShutdownUnlock, ShutdownPanics, ShutdownCancel,
         ShutdownReset
<1> QED BY <1>1, <1>2, <1>3, <1>4, <1>5, <1>6, <1>7 DEF Next, Stopped

-----------------------------------------------------------------------------
(* The theorems.                                                           *)

\* On a connection that is not shut down, whatever its streams do: a frame of a
\* handler is written, queued or sent only while its stream is not over, a stream
\* that was refused has no handler, and TRAILERS are behind all its handler sent.
THEOREM EndComesLast ==
  ASSUME MayShutDown = FALSE
  PROVE  Spec => []EndInv
<1>1. Init => EndInv
  <2> SUFFICES ASSUME Init PROVE EndInv
    OBVIOUS
  <2>1. /\ job["writer"] = NoFrame /\ job["pump"] = NoFrame /\ sendChan = <<>> /\ ended = {}
        /\ pc["pump"] = "read" /\ pc["keepalive"] \notin {"lock", "enqueue"}
    BY DEF Init, Goroutines, Workers
  <2>2. \A s \in Streams : pc[s] = "none"
    BY Names DEF Init, Goroutines
  <2>3. Pending = {NoFrame} /\ ToSet(sendChan) = {} /\ \A f, g : ~Before(sendChan, f, g)
    BY <2>1, EmptyFacts DEF Pending
  <2>4. NoFrame.kind \notin Body \cup Refuses \cup {"RST0"}
    <3>1. NoFrame.kind = "none" /\ "none" # "RST0"
      BY FrameFacts
    <3> QED BY <3>1, Kinds
  <2>5. Senders
    BY <2>1, <2>2, <2>4 DEF Senders
  <2>6. Sent /\ OverIsPast
    BY <2>1, <2>3, <2>4, Kinds DEF Sent, OverIsPast
  <2>7. EndIsLast
    BY <2>1, <2>3, <2>4 DEF EndIsLast
  <2> QED BY <2>5, <2>6, <2>7 DEF EndInv
<1>2. TypeInv /\ TypeInv' /\ SlotInv /\ FaultInv /\ EndInv /\ [Next]_vars => EndInv'
  BY NextEnds DEF Known, FaultInv
<1> QED BY <1>1, <1>2, TypeCorrect, SlotsAgree, ClosedChannels, PTL DEF Spec

\* Nothing of a handler is written behind its stream's end (writerLoop, sendTrailers).
THEOREM NothingFollowsEnd ==
  ASSUME MayShutDown = FALSE
  PROVE  Spec => []NothingAfterEnd
<1>1. EndInv => NothingAfterEnd
  BY DEF EndInv, EndIsLast, Pending, Body, NothingAfterEnd
<1> QED BY <1>1, EndComesLast, PTL
=============================================================================
