-------------------------- MODULE ServerConnProofs --------------------------
(***************************************************************************)
(* What holds of every connection, whatever the number of streams, the     *)
(* capacities of the channels and the limit.                               *)
(***************************************************************************)
EXTENDS ServerConn, FiniteSetTheorems, TLAPS

-----------------------------------------------------------------------------
(* Types.                                                                  *)

\* What the pump carries between two of its locations is a stream's frame.
JobOK == pc["pump"] \in {"deliver", "create"} => job["pump"].id \in Streams

TypeInv == TypeOK /\ JobOK

\* Frames as records; the proofs below see no more of them.
LEMMA FrameFacts ==
    /\ \A kind \in StreamKinds, s \in Streams :
          Fr(kind, s) \in Frame /\ Fr(kind, s).kind = kind /\ Fr(kind, s).id = s
    /\ \A kind \in ConnKinds :
          Fr(kind, 0) \in Frame /\ Fr(kind, 0).kind = kind /\ Fr(kind, 0).id = 0
    /\ \A f \in Frame : \/ f.kind \in StreamKinds /\ f.id \in Streams
                        \/ f.kind \in ConnKinds /\ f.id = 0
    /\ NoFrame \in Frame /\ NoFrame.kind = "none" /\ NoFrame.id = 0
BY DEF Fr, Frame, NoFrame, ConnKinds, StreamKinds

\* The names of the worker goroutines are no streams.
LEMMA Names == \A s \in Streams : s # "pump" /\ s # "writer" /\ s # "keepalive" /\ s # "shutdown"
BY StreamsAssumption DEF Workers

\* Types are kept by every step, given that the pump's frame is a stream's.
THEOREM TypeCorrect == Spec => []TypeInv
<1> USE StreamsAssumption, LimitsAssumption, FrameFacts
    DEF link, sending, table, clocks, remote, seen, Goto, Goroutines, Workers,
        ConnKinds, StreamKinds, PumpAt, WriteAt, AliveAt, ShutAt, HandAt
<1>1. Init => TypeInv
  <2> SUFFICES ASSUME Init PROVE TypeInv
    OBVIOUS
  <2>1. /\ pc["pump"] = "read" /\ pc["writer"] = "take"
        /\ pc["keepalive"] \in {"tick", "done"} /\ pc["shutdown"] \in {"waiting", "done"}
    BY DEF Init
  <2>2. \A s \in Streams : pc[s] = "none"
    BY DEF Init
  <2>3. pc \in [Goroutines -> PumpAt \cup WriteAt \cup AliveAt \cup ShutAt \cup HandAt]
    <3>1. \A g \in Goroutines :
             pc[g] \in PumpAt \cup WriteAt \cup AliveAt \cup ShutAt \cup HandAt
      BY <2>1, <2>2
    <3>2. QED
      BY <3>1 DEF Init
  <2>4. job \in [Goroutines -> Frame]
    BY DEF Init
  <2>5. /\ recvChan \in [Streams -> Seq(Nat)] /\ \A s \in Streams : Len(recvChan[s]) <= RecvCap
        /\ sendChan \in Seq(Frame) /\ Len(sendChan) <= SendCap
    BY DEF Init
  <2>6. /\ sent \in [Streams -> 0..MaxMsgs] /\ got \in [Streams -> Nat]
        /\ peer \in [Streams -> {"idle", "open", "eos", "reset"}]
    BY DEF Init
  <2>7. QED
    BY <2>1, <2>2, <2>3, <2>4, <2>5, <2>6 DEF Init, TypeInv, TypeOK, JobOK
<1>2. TypeInv /\ [Next]_vars => TypeInv'
  <2> SUFFICES ASSUME TypeInv, [Next]_vars PROVE TypeInv'
    OBVIOUS
  <2>1. ASSUME NEW s \in Streams, PumpHeaders(s) PROVE TypeInv'
    BY <2>1 DEF PumpHeaders, AtLimit, TypeInv, TypeOK, JobOK
  <2>2. ASSUME NEW s \in Streams, NEW eos \in BOOLEAN, PumpData(s, eos) PROVE TypeInv'
    <3>1. /\ sent[s] + 1 \in 0..MaxMsgs
          /\ sent' \in [Streams -> 0..MaxMsgs]
      BY <2>2 DEF PumpData, TypeInv, TypeOK
    <3>2. peer' \in [Streams -> {"idle", "open", "eos", "reset"}]
      BY <2>2 DEF PumpData, TypeInv, TypeOK
    <3>3. CASE s \in streamMap
      BY <2>2, <3>1, <3>2, <3>3 DEF PumpData, TypeInv, TypeOK, JobOK
    <3>4. CASE s \notin streamMap
      BY <2>2, <3>1, <3>2, <3>4 DEF PumpData, TypeInv, TypeOK, JobOK
    <3>5. QED
      BY <3>3, <3>4
  <2>3. ASSUME PumpUnknownMethod PROVE TypeInv'
    BY <2>3 DEF PumpUnknownMethod, TypeInv, TypeOK, JobOK
  <2>4. ASSUME PumpCreate PROVE TypeInv'
    <3> DEFINE s == job["pump"].id
    <3>1. s \in Streams
      BY <2>4 DEF PumpCreate, TypeInv, TypeOK, JobOK
    <3>2. pc' = [[pc EXCEPT !["pump"] = "read"] EXCEPT ![s] = "app"]
      BY <2>4, <3>1 DEF PumpCreate, TypeInv, TypeOK
    <3> HIDE DEF s
    <3>3. /\ streamMap' = streamMap \cup {s} /\ job' = [job EXCEPT !["pump"] = NoFrame]
          /\ UNCHANGED <<conn, ctxDone, sendChan, sendClosed, cancelled, recvClosed,
                         recvChan, clocks, toReset, fault, remote, seen>>
      BY <2>4 DEF PumpCreate, s
    <3>4. pc' \in [Goroutines -> PumpAt \cup WriteAt \cup AliveAt \cup ShutAt \cup HandAt]
      BY <3>1, <3>2 DEF TypeInv, TypeOK
    <3>5. /\ pc'["pump"] = "read" /\ pc'[s] = "app"
          /\ \A g \in Goroutines \ {"pump", s} : pc'[g] = pc[g]
      BY <3>1, <3>2 DEF TypeInv, TypeOK
    <3>6. job' \in [Goroutines -> Frame]
      BY <3>3 DEF TypeInv, TypeOK
    <3>7. /\ pc'["pump"] \in PumpAt /\ pc'["writer"] \in WriteAt
          /\ pc'["keepalive"] \in AliveAt /\ pc'["shutdown"] \in ShutAt
          /\ \A r \in Streams : pc'[r] \in HandAt
      <4>1. pc'["writer"] = pc["writer"] /\ pc'["keepalive"] = pc["keepalive"]
            /\ pc'["shutdown"] = pc["shutdown"]
        BY <3>1, <3>5, Names
      <4>2. \A r \in Streams : pc'[r] \in {pc[r], "app"}
        BY <3>1, <3>5, Names
      <4>3. QED
        BY <3>5, <4>1, <4>2 DEF TypeInv, TypeOK
    <3>8. QED
      BY <3>1, <3>3, <3>4, <3>5, <3>6, <3>7 DEF TypeInv, TypeOK, JobOK
  <2>5. ASSUME Deliver PROVE TypeInv'
    BY <2>5 DEF Deliver, HalfClosed, TypeInv, TypeOK, JobOK
  <2>6. ASSUME DropLate PROVE TypeInv'
    BY <2>6 DEF DropLate, Drop, TypeInv, TypeOK, JobOK
  <2>7. ASSUME DeliverPanics PROVE TypeInv'
    BY <2>7 DEF DeliverPanics, TypeInv, TypeOK, JobOK
  <2>8. ASSUME NEW s \in Streams, PumpRst(s) PROVE TypeInv'
    BY <2>8 DEF PumpRst, TypeInv, TypeOK, JobOK
  <2>9. ASSUME PumpPing PROVE TypeInv'
    BY <2>9 DEF PumpPing, TypeInv, TypeOK, JobOK
  <2>10. ASSUME PumpPong PROVE TypeInv'
    BY <2>10 DEF PumpPong, TypeInv, TypeOK, JobOK
  <2>11. ASSUME PumpReadError PROVE TypeInv'
    BY <2>11 DEF PumpReadError, TypeInv, TypeOK, JobOK
  <2>12. ASSUME PumpClose PROVE TypeInv'
    BY <2>12 DEF PumpClose, TypeInv, TypeOK, JobOK
  <2>13. ASSUME WriterTake PROVE TypeInv'
    <3>1. Head(sendChan) \in Frame /\ Tail(sendChan) \in Seq(Frame)
      BY <2>13 DEF WriterTake, TypeInv, TypeOK
    <3>2. Len(Tail(sendChan)) <= SendCap
      BY <2>13 DEF WriterTake, TypeInv, TypeOK
    <3>3. QED
      BY <2>13, <3>1, <3>2 DEF WriterTake, TypeInv, TypeOK, JobOK
  <2>14. ASSUME WriterStop PROVE TypeInv'
    BY <2>14 DEF WriterStop, TypeInv, TypeOK, JobOK
  <2>15. ASSUME WriteOK PROVE TypeInv'
    <3>1. job["writer"] \in Frame /\ Ends \subseteq StreamKinds /\ StreamKinds \cap ConnKinds = {}
      BY DEF Ends, TypeInv, TypeOK
    <3>2. job["writer"].kind \in Ends => job["writer"].id \in Streams
      BY <3>1
    <3>3. ended' \subseteq Streams
      BY <2>15, <3>2 DEF WriteOK, TypeInv, TypeOK
    <3>4. QED
      BY <2>15, <3>3 DEF WriteOK, TypeInv, TypeOK, JobOK
  <2>16. ASSUME WriteError PROVE TypeInv'
    BY <2>16 DEF WriteError, CancelConn, TypeInv, TypeOK, JobOK
  <2>17. ASSUME NEW s \in Streams, CallRecv(s) PROVE TypeInv'
    BY <2>17 DEF CallRecv, TypeInv, TypeOK, JobOK
  <2>18. ASSUME NEW s \in Streams, RecvData(s) PROVE TypeInv'
    BY <2>18 DEF RecvData, TypeInv, TypeOK, JobOK
  <2>19. ASSUME NEW s \in Streams, RecvEOF(s) PROVE TypeInv'
    BY <2>19 DEF RecvEOF, Drained, TypeInv, TypeOK, JobOK
  <2>20. ASSUME NEW s \in Streams, RecvCancelled(s) PROVE TypeInv'
    BY <2>20 DEF RecvCancelled, TypeInv, TypeOK, JobOK
  <2>21. ASSUME NEW s \in Streams, CallSend(s) PROVE TypeInv'
    BY <2>21 DEF CallSend, TypeInv, TypeOK, JobOK
  <2>22. ASSUME NEW s \in Streams, Return(s) PROVE TypeInv'
    BY <2>22 DEF Return, TypeInv, TypeOK, JobOK
  <2>23. ASSUME NEW s \in Streams, CancelStream(s) PROVE TypeInv'
    BY <2>23 DEF CancelStream, CancelOwn, TypeInv, TypeOK, JobOK
  <2>24. ASSUME NEW s \in Streams, Unregister(s) PROVE TypeInv'
    BY <2>24 DEF Unregister, FreeSlot, TypeInv, TypeOK, JobOK
  <2>25. ASSUME NEW s \in Streams, Elapse(s) PROVE TypeInv'
    BY <2>25 DEF Elapse, TypeInv, TypeOK, JobOK
  <2>26. ASSUME CheckIdle PROVE TypeInv'
    <3>1. /\ cancelled' \subseteq Streams /\ recvClosed' \subseteq Streams
          /\ streamMap' \subseteq Streams
      BY <2>26 DEF CheckIdle, TypeInv, TypeOK
    <3>2. QED
      BY <2>26, <3>1 DEF CheckIdle, TypeInv, TypeOK, JobOK
  <2>27. ASSUME KeepAliveTick PROVE TypeInv'
    BY <2>27 DEF KeepAliveTick, TypeInv, TypeOK, JobOK
  <2>28. ASSUME KeepAliveTimeout PROVE TypeInv'
    BY <2>28 DEF KeepAliveTimeout, TypeInv, TypeOK, JobOK
  <2>29. ASSUME KeepAliveStop PROVE TypeInv'
    BY <2>29 DEF KeepAliveStop, TypeInv, TypeOK, JobOK
  <2>30. ASSUME ShutdownBegin PROVE TypeInv'
    BY <2>30 DEF ShutdownBegin, TypeInv, TypeOK, JobOK
  <2>31. ASSUME NEW s \in Streams, ShutdownReset(s) PROVE TypeInv'
    <3>1. sendChan' \in Seq(Frame) /\ Len(sendChan') <= SendCap
      BY <2>31 DEF ShutdownReset, TypeInv, TypeOK
    <3>2. QED
      BY <2>31, <3>1 DEF ShutdownReset, TypeInv, TypeOK, JobOK
  <2>32. ASSUME ShutdownPanics PROVE TypeInv'
    BY <2>32 DEF ShutdownPanics, TypeInv, TypeOK, JobOK
  <2>33. ASSUME ShutdownUnlock PROVE TypeInv'
    BY <2>33 DEF ShutdownUnlock, TypeInv, TypeOK, JobOK
  <2>34. ASSUME ShutdownCancel PROVE TypeInv'
    BY <2>34 DEF ShutdownCancel, TypeInv, TypeOK, JobOK
  <2>35. ASSUME NEW g \in Goroutines, Lock(g) PROVE TypeInv'
    <3>1. g \in Streams \cup {"pump", "keepalive"}
      BY <2>35 DEF Lock, TypeInv, TypeOK
    <3>2. PICK ok \in BOOLEAN, f \in {job[g], NoFrame} :
             Goto(g, IF ok THEN "enqueue" ELSE AfterSend(g, FALSE), f)
      BY <2>35 DEF Lock
    <3>3. f \in Frame
      BY <3>1, <3>2 DEF TypeInv, TypeOK
    <3>4. CASE g = "pump"
      BY <2>35, <3>2, <3>3, <3>4 DEF Lock, AfterSend, TypeInv, TypeOK, JobOK
    <3>5. CASE g = "keepalive"
      BY <2>35, <3>2, <3>3, <3>5 DEF Lock, AfterSend, TypeInv, TypeOK, JobOK
    <3>6. CASE g \in Streams
      BY <2>35, <3>2, <3>3, <3>6 DEF Lock, AfterSend, TypeInv, TypeOK, JobOK
    <3>7. QED
      BY <3>1, <3>4, <3>5, <3>6
  <2>36. ASSUME NEW g \in Goroutines, Enqueue(g) PROVE TypeInv'
    <3>1. g \in Streams \cup {"pump", "keepalive"}
      BY <2>36 DEF Enqueue, Room, Queue, GiveUp, TypeInv, TypeOK
    <3>2. sendChan' \in Seq(Frame) /\ Len(sendChan') <= SendCap
      <4>1. job[g] \in Frame /\ sendChan \in Seq(Frame) /\ Len(sendChan) <= SendCap
        BY DEF TypeInv, TypeOK
      <4>2. CASE Len(sendChan) < SendCap /\ sendChan' = Append(sendChan, job[g])
        BY <4>1, <4>2
      <4>3. CASE UNCHANGED sendChan
        BY <4>1, <4>3
      <4>4. QED
        BY <2>36, <4>2, <4>3 DEF Enqueue, Room, Queue, GiveUp
    <3>3. PICK ok \in BOOLEAN : Goto(g, AfterSend(g, ok), NoFrame)
      BY <2>36 DEF Enqueue, Room, Queue, GiveUp
    <3>4. CASE g = "pump"
      BY <2>36, <3>2, <3>3, <3>4 DEF Enqueue, Room, Queue, GiveUp, AfterSend, TypeInv, TypeOK, JobOK
    <3>5. CASE g = "keepalive"
      BY <2>36, <3>2, <3>3, <3>5 DEF Enqueue, Room, Queue, GiveUp, AfterSend, TypeInv, TypeOK, JobOK
    <3>6. CASE g \in Streams
      BY <2>36, <3>2, <3>3, <3>6 DEF Enqueue, Room, Queue, GiveUp, AfterSend, TypeInv, TypeOK, JobOK
    <3>7. QED
      BY <3>1, <3>4, <3>5, <3>6
  <2>37. ASSUME PeerCloses PROVE TypeInv'
    BY <2>37 DEF PeerCloses, TypeInv, TypeOK, JobOK
  <2>38. ASSUME PeerStalls PROVE TypeInv'
    BY <2>38 DEF PeerStalls, TypeInv, TypeOK, JobOK
  <2>39. ASSUME UNCHANGED vars PROVE TypeInv'
    BY <2>39 DEF vars, TypeInv, TypeOK, JobOK
  <2>40. QED
    BY <2>1, <2>2, <2>3, <2>4, <2>5, <2>6, <2>7, <2>8, <2>9, <2>10, <2>11, <2>12,
       <2>13, <2>14, <2>15, <2>16, <2>17, <2>18, <2>19, <2>20, <2>21, <2>22, <2>23,
       <2>24, <2>25, <2>26, <2>27, <2>28, <2>29, <2>30, <2>31, <2>32, <2>33, <2>34,
       <2>35, <2>36, <2>37, <2>38, <2>39
    DEF Next, PumpStep, WriterStep, HandlerStep, MonitorStep, KeepAliveStep, ShutdownStep, Stopped
<1>3. QED
  BY <1>1, <1>2, PTL DEF Spec

-----------------------------------------------------------------------------
(* Slots: streamMap, the handlers and the stream contexts agree.           *)

\* A stream without handler was never registered, hence never over.
Fresh == \A s \in Streams :
    /\ peer[s] = "idle" => pc[s] = "none"
    /\ pc[s] = "none" => s \notin streamMap \cup cancelled \cup recvClosed \cup toReset

\* A stream that left the map, or whose handler is about to leave, is cancelled.
LeftIsCancelled == \A s \in Streams :
    (pc[s] # "none" /\ s \notin streamMap) \/ pc[s] \in {"unregister", "done"}
        => s \in cancelled

\* The pump's local variables: a stream to create is new and there is room for it;
\* a stream to deliver to has a handler.
PumpLocals ==
    /\ pc["pump"] = "create" =>
          /\ pc[job["pump"].id] = "none" /\ peer[job["pump"].id] # "idle"
          /\ Cardinality(streamMap) < MaxConcurrentStreams
    /\ pc["pump"] = "deliver" => pc[job["pump"].id] # "none"

SlotInv == Fresh /\ LeftIsCancelled /\ PumpLocals /\ SlotHasHandler /\ StreamLimit

\* The variables SlotInv is about, and their types.
LEMMA SlotTypes == TypeInv =>
    /\ DOMAIN pc = Goroutines /\ DOMAIN job = Goroutines /\ DOMAIN peer = Streams
    /\ streamMap \subseteq Streams /\ IsFiniteSet(streamMap)
    /\ Cardinality(streamMap) \in Nat
    /\ pc["pump"] \in {"create", "deliver"} => job["pump"].id \in Streams
<1>1. TypeInv => streamMap \subseteq Streams /\ IsFiniteSet(streamMap)
  BY StreamsAssumption, FS_Subset DEF TypeInv, TypeOK
<1>2. QED
  BY <1>1, FS_CardinalityType DEF TypeInv, TypeOK, JobOK

\* Taking streams out of the map does not make it larger.
LEMMA MapShrinks == TypeInv /\ streamMap' \subseteq streamMap
                        => Cardinality(streamMap') <= Cardinality(streamMap)
                           /\ Cardinality(streamMap') \in Nat
BY SlotTypes, FS_Subset, FS_CardinalityType

\* What send() does to the goroutine that runs it, and to nobody else.
LEMMA SendStep ==
    ASSUME TypeInv, NEW g \in Goroutines, Lock(g) \/ Enqueue(g)
    PROVE  /\ UNCHANGED <<ctxDone, sendClosed, table, recvChan, clocks, toReset, fault,
                          remote, seen>>
           /\ \A h \in Goroutines \ {g} : pc'[h] = pc[h] /\ job'[h] = job[h]
           /\ pc[g] \in {"lock", "enqueue"}
           /\ g = "pump" => pc'[g] \in {"enqueue", "read"}
           /\ g \in Streams => pc'[g] \in {"enqueue", "cancel", "app"}
<1>1. g \in Streams \cup {"pump", "keepalive"}
  BY DEF TypeInv, TypeOK, Lock, Enqueue, Goroutines, Workers, WriteAt, ShutAt
<1>2. PICK loc \in {"enqueue", AfterSend(g, TRUE), AfterSend(g, FALSE)}, f \in {job[g], NoFrame} :
         Goto(g, loc, f)
  BY DEF Lock, Enqueue
<1>3. /\ pc'[g] = loc
      /\ \A h \in Goroutines \ {g} : pc'[h] = pc[h] /\ job'[h] = job[h]
  BY <1>2 DEF Goto, TypeInv, TypeOK
<1>4. /\ g = "pump" => loc \in {"enqueue", "read"}
      /\ g \in Streams => loc \in {"enqueue", "cancel", "app"}
  BY <1>1, <1>2, Names DEF AfterSend
<1>5. QED
  BY <1>3, <1>4 DEF Lock, Enqueue, link, sending

\* The bookkeeping of streams is kept by every step of every goroutine.
THEOREM SlotsAgree == Spec => []SlotInv
<1> USE StreamsAssumption, LimitsAssumption, Names, SlotTypes, FrameFacts DEF Goroutines, Workers
<1>1. Init => SlotInv
  BY FS_EmptySet DEF Init, SlotInv, Fresh, LeftIsCancelled, PumpLocals,
     SlotHasHandler, StreamLimit
<1>2. TypeInv /\ TypeInv' /\ SlotInv /\ [Next]_vars => SlotInv'
  <2> SUFFICES ASSUME TypeInv, TypeInv', SlotInv, [Next]_vars PROVE SlotInv'
    OBVIOUS
  <2>1. ASSUME NEW s \in Streams, PumpHeaders(s) PROVE SlotInv'
    <3>1. pc["pump"] = "read" /\ pc[s] = "none" /\ s \notin streamMap
      BY <2>1 DEF PumpHeaders, AtLimit, CanRead, SlotInv, Fresh
    <3>2. CASE Cardinality(streamMap) >= MaxConcurrentStreams
      BY <2>1, <3>1, <3>2 DEF PumpHeaders, AtLimit, Goto, table, SlotInv, Fresh, LeftIsCancelled,
            PumpLocals, SlotHasHandler, StreamLimit
    <3>3. CASE Cardinality(streamMap) < MaxConcurrentStreams
      <4>1. /\ pc' = [pc EXCEPT !["pump"] = "create"]
            /\ job' = [job EXCEPT !["pump"] = Fr("HEADERS", s)]
            /\ UNCHANGED <<table, toReset>> /\ peer' = [peer EXCEPT ![s] = "open"]
        BY <2>1, <3>3 DEF PumpHeaders, AtLimit, Goto
      <4>2. Fr("HEADERS", s).id = s
        BY DEF StreamKinds
      <4>3. PumpLocals'
        BY <3>1, <3>3, <4>1, <4>2 DEF PumpLocals, table
      <4>4. QED
        BY <3>1, <4>1, <4>3 DEF table, SlotInv, Fresh, LeftIsCancelled, SlotHasHandler,
              StreamLimit
    <3>4. QED
      BY <3>2, <3>3
  <2>2. ASSUME NEW s \in Streams, NEW eos \in BOOLEAN, PumpData(s, eos) PROVE SlotInv'
    <3>1. pc["pump"] = "read" /\ UNCHANGED <<table, toReset>> /\ peer[s] = "open"
          /\ \A r \in Streams : pc'[r] = pc[r] /\ (peer[r] # "idle" <=> peer'[r] # "idle")
      BY <2>2 DEF PumpData, CanRead, Goto
    <3>2. PumpLocals'
      <4>1. CASE s \in streamMap
        <5>1. pc'["pump"] = "deliver" /\ job'["pump"] = Fr("DATA", s)
          BY <2>2, <4>1 DEF PumpData, Goto
        <5>2. Fr("DATA", s).id = s
          BY DEF StreamKinds
        <5>3. QED
          BY <3>1, <4>1, <5>1, <5>2 DEF PumpLocals, SlotInv, SlotHasHandler
      <4>2. CASE s \notin streamMap
        BY <2>2, <3>1, <4>2 DEF PumpData, PumpLocals
      <4>3. QED
        BY <4>1, <4>2
    <3>3. QED
      BY <3>1, <3>2 DEF table, SlotInv, Fresh, LeftIsCancelled, SlotHasHandler,
         StreamLimit
  <2>3. ASSUME PumpUnknownMethod PROVE SlotInv'
    BY <2>3 DEF PumpUnknownMethod, SlotInv, Fresh, LeftIsCancelled, PumpLocals,
       SlotHasHandler, StreamLimit, table, remote, Goto
  <2>4. ASSUME PumpCreate PROVE SlotInv'
    <3> DEFINE s == job["pump"].id
    <3>1. /\ s \in Streams /\ pc[s] = "none" /\ peer[s] # "idle"
          /\ Cardinality(streamMap) < MaxConcurrentStreams
      BY <2>4 DEF PumpCreate, SlotInv, PumpLocals
    <3>2. s \notin streamMap \cup cancelled \cup recvClosed \cup toReset
      BY <3>1 DEF SlotInv, Fresh
    <3>3. /\ pc' = [[pc EXCEPT !["pump"] = "read"] EXCEPT ![s] = "app"]
          /\ streamMap' = streamMap \cup {s}
          /\ UNCHANGED <<cancelled, recvClosed, toReset, peer>>
      BY <2>4, <3>1 DEF PumpCreate, remote
    <3> HIDE DEF s
    <3>4. pc'["pump"] = "read" /\ pc'[s] = "app" /\ \A r \in Streams \ {s} : pc'[r] = pc[r]
      BY <3>1, <3>3
    <3>5. StreamLimit'
      <4>1. IsFiniteSet(streamMap) /\ Cardinality(streamMap) \in Nat
        OBVIOUS
      <4>2. Cardinality(streamMap \cup {s}) = Cardinality(streamMap) + 1
        BY <3>2, <4>1, FS_AddElement
      <4>3. QED
        BY <3>1, <3>3, <4>1, <4>2 DEF StreamLimit
    <3>6. PumpLocals'
      BY <3>4 DEF PumpLocals
    <3>7. QED
      BY <3>1, <3>2, <3>3, <3>4, <3>5, <3>6 DEF SlotInv, Fresh, LeftIsCancelled,
            SlotHasHandler
  <2>5. ASSUME Deliver PROVE SlotInv'
    BY <2>5 DEF Deliver, HalfClosed, SlotInv, Fresh, LeftIsCancelled, PumpLocals, SlotHasHandler,
       StreamLimit, remote, Goto
  <2>6. ASSUME DropLate PROVE SlotInv'
    BY <2>6 DEF DropLate, Drop, SlotInv, Fresh, LeftIsCancelled, PumpLocals, SlotHasHandler,
       StreamLimit, table, remote, Goto
  <2>7. ASSUME DeliverPanics PROVE SlotInv'
    BY <2>7 DEF DeliverPanics, SlotInv, Fresh, LeftIsCancelled, PumpLocals,
       SlotHasHandler, StreamLimit, table, remote, Goto
  <2>8. ASSUME NEW s \in Streams, PumpRst(s) PROVE SlotInv'
    <3>1. pc["pump"] = "read" /\ peer[s] # "idle" /\ UNCHANGED <<pc, job, toReset>>
          /\ peer' = [peer EXCEPT ![s] = "reset"]
      BY <2>8 DEF PumpRst, CanRead
    <3>2. CASE s \in streamMap
      <4>1. /\ cancelled' = cancelled \cup {s} /\ recvClosed' = recvClosed \cup {s}
            /\ streamMap' = streamMap \ {s} /\ pc[s] # "none"
        BY <2>8, <3>2 DEF PumpRst, SlotInv, SlotHasHandler
      <4>2. StreamLimit'
        BY <4>1, MapShrinks DEF StreamLimit, SlotInv
      <4>3. QED
        BY <3>1, <4>1, <4>2 DEF SlotInv, Fresh, LeftIsCancelled, PumpLocals,
           SlotHasHandler
    <3>3. CASE s \notin streamMap
      BY <2>8, <3>1, <3>3 DEF PumpRst, table, SlotInv, Fresh, LeftIsCancelled, PumpLocals,
            SlotHasHandler, StreamLimit
    <3>4. QED
      BY <3>2, <3>3
  <2>9. ASSUME PumpPing PROVE SlotInv'
    BY <2>9 DEF PumpPing, SlotInv, Fresh, LeftIsCancelled, PumpLocals, SlotHasHandler,
       StreamLimit, table, remote, Goto
  <2>10. ASSUME PumpPong PROVE SlotInv'
    BY <2>10 DEF PumpPong, SlotInv, Fresh, LeftIsCancelled, PumpLocals,
       SlotHasHandler, StreamLimit, table, remote
  <2>11. ASSUME PumpReadError PROVE SlotInv'
    BY <2>11 DEF PumpReadError, SlotInv, Fresh, LeftIsCancelled, PumpLocals,
       SlotHasHandler, StreamLimit, table, remote, Goto
  <2>12. ASSUME PumpClose PROVE SlotInv'
    BY <2>12 DEF PumpClose, SlotInv, Fresh, LeftIsCancelled, PumpLocals,
       SlotHasHandler, StreamLimit, table, remote, Goto
  <2>13. ASSUME WriterTake PROVE SlotInv'
    BY <2>13 DEF WriterTake, SlotInv, Fresh, LeftIsCancelled, PumpLocals,
       SlotHasHandler, StreamLimit, table, remote, Goto
  <2>14. ASSUME WriterStop PROVE SlotInv'
    BY <2>14 DEF WriterStop, SlotInv, Fresh, LeftIsCancelled, PumpLocals,
       SlotHasHandler, StreamLimit, table, remote, Goto
  <2>15. ASSUME WriteOK PROVE SlotInv'
    BY <2>15 DEF WriteOK, SlotInv, Fresh, LeftIsCancelled, PumpLocals, SlotHasHandler,
       StreamLimit, table, Goto
  <2>16. ASSUME WriteError PROVE SlotInv'
    BY <2>16 DEF WriteError, CancelConn, SlotInv, Fresh, LeftIsCancelled, PumpLocals,
       SlotHasHandler, StreamLimit, table, remote, Goto
  <2>17. ASSUME NEW s \in Streams, CallRecv(s) PROVE SlotInv'
    BY <2>17 DEF CallRecv, SlotInv, Fresh, LeftIsCancelled, PumpLocals,
       SlotHasHandler, StreamLimit, table, remote, Goto
  <2>18. ASSUME NEW s \in Streams, RecvData(s) PROVE SlotInv'
    BY <2>18 DEF RecvData, SlotInv, Fresh, LeftIsCancelled, PumpLocals,
       SlotHasHandler, StreamLimit, table, remote, Goto
  <2>19. ASSUME NEW s \in Streams, RecvEOF(s) PROVE SlotInv'
    BY <2>19 DEF RecvEOF, Drained, SlotInv, Fresh, LeftIsCancelled, PumpLocals, SlotHasHandler,
       StreamLimit, table, remote, Goto
  <2>20. ASSUME NEW s \in Streams, RecvCancelled(s) PROVE SlotInv'
    BY <2>20 DEF RecvCancelled, SlotInv, Fresh, LeftIsCancelled, PumpLocals,
       SlotHasHandler, StreamLimit, table, remote, Goto
  <2>21. ASSUME NEW s \in Streams, CallSend(s) PROVE SlotInv'
    BY <2>21 DEF CallSend, SlotInv, Fresh, LeftIsCancelled, PumpLocals,
       SlotHasHandler, StreamLimit, table, remote, Goto
  <2>22. ASSUME NEW s \in Streams, Return(s) PROVE SlotInv'
    BY <2>22 DEF Return, SlotInv, Fresh, LeftIsCancelled, PumpLocals, SlotHasHandler,
       StreamLimit, table, remote, Goto
  <2>23. ASSUME NEW s \in Streams, CancelStream(s) PROVE SlotInv'
    BY <2>23 DEF CancelStream, CancelOwn, SlotInv, Fresh, LeftIsCancelled, PumpLocals,
       SlotHasHandler, StreamLimit, remote, Goto
  <2>24. ASSUME NEW s \in Streams, Unregister(s) PROVE SlotInv'
    <3>1. /\ streamMap' = streamMap \ {s} /\ pc[s] = "unregister"
          /\ pc' = [pc EXCEPT ![s] = "done"] /\ job' = [job EXCEPT ![s] = NoFrame]
          /\ UNCHANGED <<cancelled, recvClosed, toReset, peer>>
      BY <2>24 DEF Unregister, FreeSlot, Goto, remote
    <3>2. Cardinality(streamMap') <= Cardinality(streamMap) /\ Cardinality(streamMap') \in Nat
      BY <3>1, MapShrinks
    <3>3. QED
      BY <3>1, <3>2 DEF SlotInv, Fresh, LeftIsCancelled, PumpLocals, SlotHasHandler,
            StreamLimit
  <2>25. ASSUME NEW s \in Streams, Elapse(s) PROVE SlotInv'
    BY <2>25 DEF Elapse, SlotInv, Fresh, LeftIsCancelled, PumpLocals, SlotHasHandler,
       StreamLimit, table, remote
  <2>26. ASSUME CheckIdle PROVE SlotInv'
    <3> DEFINE idle == streamMap \cap stale
    <3>1. /\ cancelled' = cancelled \cup idle /\ recvClosed' = recvClosed \cup idle
          /\ streamMap' = streamMap \ idle /\ UNCHANGED <<pc, job, toReset, peer>>
      BY <2>26 DEF CheckIdle, remote
    <3>2. \A s \in idle : pc[s] # "none"
      BY DEF SlotInv, SlotHasHandler
    <3> HIDE DEF idle
    <3>3. Cardinality(streamMap') <= Cardinality(streamMap) /\ Cardinality(streamMap') \in Nat
      BY <3>1, MapShrinks
    <3>4. QED
      BY <3>1, <3>2, <3>3 DEF SlotInv, Fresh, LeftIsCancelled, PumpLocals, SlotHasHandler,
            StreamLimit
  <2>27. ASSUME KeepAliveTick PROVE SlotInv'
    BY <2>27 DEF KeepAliveTick, SlotInv, Fresh, LeftIsCancelled, PumpLocals,
       SlotHasHandler, StreamLimit, table, remote, Goto
  <2>28. ASSUME KeepAliveTimeout PROVE SlotInv'
    BY <2>28 DEF KeepAliveTimeout, SlotInv, Fresh, LeftIsCancelled, PumpLocals,
       SlotHasHandler, StreamLimit, table, remote, Goto
  <2>29. ASSUME KeepAliveStop PROVE SlotInv'
    BY <2>29 DEF KeepAliveStop, SlotInv, Fresh, LeftIsCancelled, PumpLocals,
       SlotHasHandler, StreamLimit, table, remote, Goto
  <2>30. ASSUME ShutdownBegin PROVE SlotInv'
    BY <2>30 DEF ShutdownBegin, SlotInv, Fresh, LeftIsCancelled, PumpLocals,
       SlotHasHandler, StreamLimit, table, remote, Goto
  <2>31. ASSUME NEW s \in Streams, ShutdownReset(s) PROVE SlotInv'
    BY <2>31 DEF ShutdownReset, SlotInv, Fresh, LeftIsCancelled, PumpLocals,
       SlotHasHandler, StreamLimit, remote
  <2>32. ASSUME ShutdownPanics PROVE SlotInv'
    BY <2>32 DEF ShutdownPanics, SlotInv, Fresh, LeftIsCancelled, PumpLocals,
       SlotHasHandler, StreamLimit, table, remote, Goto
  <2>33. ASSUME ShutdownUnlock PROVE SlotInv'
    BY <2>33 DEF ShutdownUnlock, SlotInv, Fresh, LeftIsCancelled, PumpLocals,
       SlotHasHandler, StreamLimit, table, remote, Goto
  <2>34. ASSUME ShutdownCancel PROVE SlotInv'
    BY <2>34 DEF ShutdownCancel, SlotInv, Fresh, LeftIsCancelled, PumpLocals,
       SlotHasHandler, StreamLimit, table, remote, Goto
  <2>35. ASSUME NEW g \in Goroutines, Lock(g) PROVE SlotInv'
    <3>1. /\ UNCHANGED <<table, toReset, peer>>
          /\ \A h \in Goroutines \ {g} : pc'[h] = pc[h] /\ job'[h] = job[h]
          /\ pc[g] \in {"lock", "enqueue"}
          /\ g = "pump" => pc'[g] \in {"enqueue", "read"}
          /\ g \in Streams => pc'[g] \in {"enqueue", "cancel", "app"}
      BY <2>35, SendStep DEF remote
    <3>2. QED
      BY <3>1 DEF table, SlotInv, Fresh, LeftIsCancelled, PumpLocals, SlotHasHandler,
            StreamLimit
  <2>36. ASSUME NEW g \in Goroutines, Enqueue(g) PROVE SlotInv'
    <3>1. /\ UNCHANGED <<table, toReset, peer>>
          /\ \A h \in Goroutines \ {g} : pc'[h] = pc[h] /\ job'[h] = job[h]
          /\ pc[g] \in {"lock", "enqueue"}
          /\ g = "pump" => pc'[g] \in {"enqueue", "read"}
          /\ g \in Streams => pc'[g] \in {"enqueue", "cancel", "app"}
      BY <2>36, SendStep DEF remote
    <3>2. QED
      BY <3>1 DEF table, SlotInv, Fresh, LeftIsCancelled, PumpLocals, SlotHasHandler,
            StreamLimit
  <2>37. ASSUME PeerCloses PROVE SlotInv'
    BY <2>37 DEF PeerCloses, SlotInv, Fresh, LeftIsCancelled, PumpLocals,
       SlotHasHandler, StreamLimit, table, remote
  <2>38. ASSUME PeerStalls PROVE SlotInv'
    BY <2>38 DEF PeerStalls, SlotInv, Fresh, LeftIsCancelled, PumpLocals,
       SlotHasHandler, StreamLimit, table, remote
  <2>39. ASSUME UNCHANGED vars PROVE SlotInv'
    BY <2>39 DEF vars, SlotInv, Fresh, LeftIsCancelled, PumpLocals, SlotHasHandler,
       StreamLimit
  <2>40. QED
    BY <2>1, <2>2, <2>3, <2>4, <2>5, <2>6, <2>7, <2>8, <2>9, <2>10, <2>11, <2>12,
       <2>13, <2>14, <2>15, <2>16, <2>17, <2>18, <2>19, <2>20, <2>21, <2>22, <2>23,
       <2>24, <2>25, <2>26, <2>27, <2>28, <2>29, <2>30, <2>31, <2>32, <2>33, <2>34,
       <2>35, <2>36, <2>37, <2>38, <2>39
    DEF Next, PumpStep, WriterStep, HandlerStep, MonitorStep, KeepAliveStep, ShutdownStep, Stopped
<1>3. QED
  BY <1>1, <1>2, TypeCorrect, PTL DEF Spec

-----------------------------------------------------------------------------
(* Messages: what was sent, buffered and received.                         *)

\* A closed recvChan belongs to a stream that is over or half-closed, and on a
\* half-closed one nothing is left to deliver.
ClosedIsOver == \A s \in recvClosed :
    s \in cancelled \/ (peer[s] = "eos" /\ ~Delivering(s))

NewIsEmpty == \A s \in Streams :
    /\ pc[s] = "none" => recvChan[s] = <<>> /\ got[s] = 0 /\ s \notin eof
    /\ peer[s] = "idle" \/ (pc["pump"] = "create" /\ job["pump"].id = s) => sent[s] = 0

MsgInv == ClosedIsOver /\ NewIsEmpty /\ NoGap /\ EofComplete

\* The variables MsgInv is about, and their types.
LEMMA MsgTypes == TypeInv =>
    /\ DOMAIN pc = Goroutines /\ DOMAIN job = Goroutines
    /\ peer \in [Streams -> {"idle", "open", "eos", "reset"}]
    /\ sent \in [Streams -> Nat] /\ got \in [Streams -> Nat]
    /\ recvChan \in [Streams -> Seq(Nat)] /\ eof \subseteq Streams
    /\ recvClosed \subseteq Streams
    /\ pc["pump"] \in {"create", "deliver"} => job["pump"].id \in Streams
BY LimitsAssumption DEF TypeInv, TypeOK, JobOK

\* A step that touches no message keeps MsgInv: the pump may drop the message it
\* holds only for a stream that is over.
LEMMA QuietStep ==
    ASSUME TypeInv, MsgInv,
           UNCHANGED <<peer, sent, got, eof, recvChan, recvClosed>>,
           cancelled \subseteq cancelled', ctxDone => ctxDone',
           \A s \in Streams :
              /\ pc'[s] = "none" <=> pc[s] = "none"
              /\ Delivering(s)' => Delivering(s)
              /\ Delivering(s) => Delivering(s)' \/ Done(s)
              /\ pc'["pump"] = "create" /\ job'["pump"].id = s
                    => pc["pump"] = "create" /\ job["pump"].id = s
    PROVE  MsgInv'
<1> USE MsgTypes
<1>1. ClosedIsOver' /\ EofComplete'
  BY DEF MsgInv, ClosedIsOver, EofComplete, Done
<1>2. NewIsEmpty'
  BY DEF MsgInv, NewIsEmpty
<1>3. NoGap'
  <2> SUFFICES ASSUME NEW s \in Streams, pc'[s] # "none", ~Done(s)'
               PROVE  (got[s] + Len(recvChan[s]) + InDelivery(s)' = sent[s]
                       /\ \A i \in 1..Len(recvChan[s]) : recvChan[s][i] = got[s] + i)
    BY DEF NoGap
  <2>1. pc[s] # "none" /\ ~Done(s) /\ (Delivering(s)' <=> Delivering(s))
    BY DEF Done
  <2>2. QED
    BY <2>1 DEF MsgInv, NoGap, InDelivery
<1>4. QED
  BY <1>1, <1>2, <1>3 DEF MsgInv

\* The contents of every live stream's channel are kept by every step.
THEOREM MessagesKept == Spec => []MsgInv
<1> USE StreamsAssumption, LimitsAssumption, Names, MsgTypes, FrameFacts DEF Goroutines, Workers
<1>1. Init => MsgInv
  BY DEF Init, MsgInv, ClosedIsOver, NewIsEmpty, NoGap, EofComplete, Delivering
<1>2. TypeInv /\ SlotInv /\ MsgInv /\ [Next]_vars => MsgInv'
  <2> SUFFICES ASSUME TypeInv, SlotInv, MsgInv, [Next]_vars PROVE MsgInv'
    OBVIOUS
  <2>1. ASSUME NEW s \in Streams, PumpHeaders(s) PROVE MsgInv'
    <3>1. /\ pc["pump"] = "read" /\ peer[s] = "idle" /\ pc[s] = "none" /\ s \notin recvClosed
          /\ s \notin eof /\ sent[s] = 0
      BY <2>1 DEF PumpHeaders, AtLimit, CanRead, SlotInv, Fresh, MsgInv, NewIsEmpty
    <3>2. /\ peer' = [peer EXCEPT ![s] = "open"] /\ ~Delivering(s)'
          /\ \A r \in Streams : pc'[r] = pc[r] /\ ~Delivering(r) /\ ~Delivering(r)'
          /\ UNCHANGED <<ctxDone, cancelled, recvClosed, recvChan, sent, got, eof>>
      BY <2>1 DEF PumpHeaders, AtLimit, CanRead, Goto, Delivering, link, table, seen
    <3>3. \A r \in Streams \ {s} : ~(pc'["pump"] = "create" /\ job'["pump"].id = r)
      BY <2>1 DEF PumpHeaders, AtLimit, Goto, StreamKinds
    <3>4. NewIsEmpty'
      BY <3>1, <3>2, <3>3 DEF MsgInv, NewIsEmpty
    <3>5. NoGap'
      BY <3>2 DEF MsgInv, NoGap, InDelivery, Done
    <3>6. QED
      BY <3>1, <3>2, <3>4, <3>5 DEF MsgInv, ClosedIsOver, EofComplete, Done
  <2>2. ASSUME NEW s \in Streams, NEW eos \in BOOLEAN, PumpData(s, eos) PROVE MsgInv'
    <3>1. /\ pc["pump"] = "read" /\ peer[s] = "open"
          /\ sent' = [sent EXCEPT ![s] = @ + 1]
          /\ peer' = [peer EXCEPT ![s] = IF eos THEN "eos" ELSE @]
          /\ \A r \in Streams : pc'[r] = pc[r] /\ ~Delivering(r)
          /\ pc'["pump"] # "create"
          /\ UNCHANGED <<ctxDone, cancelled, recvClosed, recvChan, got, eof>>
      BY <2>2 DEF PumpData, CanRead, Goto, Delivering, link, table, seen
    <3>2. /\ \A r \in Streams \ {s} : ~Delivering(r)'
          /\ Delivering(s)' <=> s \in streamMap
      <4>1. CASE s \in streamMap
        BY <2>2, <4>1 DEF PumpData, Goto, Delivering, StreamKinds
      <4>2. CASE s \notin streamMap
        BY <2>2, <3>1, <4>2 DEF PumpData, Delivering
      <4>3. QED
        BY <4>1, <4>2
    <3>3. s \in recvClosed => s \in cancelled
      BY <3>1 DEF MsgInv, ClosedIsOver
    <3>4. s \notin streamMap => pc[s] = "none" \/ s \in cancelled
      BY DEF SlotInv, LeftIsCancelled
    <3>5. ClosedIsOver'
      BY <3>1, <3>2, <3>3 DEF MsgInv, ClosedIsOver
    <3>6. NewIsEmpty' /\ EofComplete'
      BY <3>1 DEF MsgInv, NewIsEmpty, EofComplete, Done
    <3>7. NoGap'
      <4> SUFFICES ASSUME NEW r \in Streams, pc'[r] # "none", ~Done(r)'
                   PROVE  (got[r] + Len(recvChan[r]) + InDelivery(r)' = sent'[r]
                           /\ \A i \in 1..Len(recvChan[r]) : recvChan[r][i] = got[r] + i)
        BY <3>1 DEF NoGap
      <4>1. /\ got[r] + Len(recvChan[r]) = sent[r]
            /\ \A i \in 1..Len(recvChan[r]) : recvChan[r][i] = got[r] + i
        BY <3>1 DEF MsgInv, NoGap, InDelivery, Done
      <4>2. CASE r = s
        <5>1. Delivering(s)'
          BY <3>1, <3>2, <3>4, <4>2 DEF Done
        <5>2. QED
          BY <3>1, <4>1, <4>2, <5>1 DEF InDelivery
      <4>3. CASE r # s
        BY <3>1, <3>2, <4>1, <4>3 DEF InDelivery
      <4>4. QED
        BY <4>2, <4>3
    <3>8. QED
      BY <3>5, <3>6, <3>7 DEF MsgInv
  <2>3. ASSUME PumpUnknownMethod PROVE MsgInv'
    BY <2>3, QuietStep DEF PumpUnknownMethod, Goto, Delivering, Done, table, remote,
       seen, link
  <2>4. ASSUME PumpCreate PROVE MsgInv'
    BY <2>4 DEF PumpCreate, MsgInv, ClosedIsOver, NewIsEmpty, NoGap, EofComplete,
       Delivering, InDelivery, Done, link, remote, seen
  <2>5. ASSUME Deliver PROVE MsgInv'
    <3> DEFINE s == job["pump"].id
    <3>1. /\ s \in Streams /\ pc["pump"] = "deliver" /\ s \notin recvClosed
          /\ pc' = [pc EXCEPT !["pump"] = "read"]
          /\ recvChan' = [recvChan EXCEPT ![s] = Append(@, sent[s])]
          /\ recvClosed' = IF peer[s] = "eos" THEN recvClosed \cup {s} ELSE recvClosed
          /\ UNCHANGED <<ctxDone, cancelled, peer, sent, got, eof>>
      BY <2>5 DEF Deliver, HalfClosed, Goto, link, remote, seen
    <3>2. Delivering(s) /\ \A r \in Streams : ~Delivering(r)' /\ (Delivering(r) => r = s)
      BY <3>1 DEF Delivering
    <3>3. pc[s] # "none"
      BY <3>1 DEF SlotInv, PumpLocals
    <3> HIDE DEF s
    <3>4. ClosedIsOver' /\ EofComplete' /\ NewIsEmpty'
      BY <3>1, <3>2, <3>3 DEF MsgInv, ClosedIsOver, EofComplete, NewIsEmpty, Done
    <3>5. NoGap'
      <4> SUFFICES ASSUME NEW r \in Streams, pc'[r] # "none", ~Done(r)'
                   PROVE  (got[r] + Len(recvChan'[r]) + InDelivery(r)' = sent[r]
                           /\ \A i \in 1..Len(recvChan'[r]) : recvChan'[r][i] = got[r] + i)
        BY <3>1 DEF NoGap
      <4>1. /\ got[r] + Len(recvChan[r]) + InDelivery(r) = sent[r]
            /\ \A i \in 1..Len(recvChan[r]) : recvChan[r][i] = got[r] + i
        BY <3>1 DEF MsgInv, NoGap, Done
      <4>2. InDelivery(r)' = 0
        BY <3>2 DEF InDelivery
      <4>3. CASE r = s
        <5>1. recvChan'[r] = Append(recvChan[r], sent[r]) /\ InDelivery(r) = 1
          BY <3>1, <3>2, <4>3 DEF InDelivery
        <5>2. /\ recvChan[r] \in Seq(Nat) /\ got[r] \in Nat /\ sent[r] \in Nat
              /\ Len(recvChan[r]) + 1 + got[r] = sent[r]
          BY <4>1, <5>1
        <5>3. /\ Len(recvChan'[r]) = Len(recvChan[r]) + 1
              /\ recvChan'[r][Len(recvChan[r]) + 1] = sent[r]
              /\ \A i \in 1..Len(recvChan[r]) : recvChan'[r][i] = recvChan[r][i]
          BY <5>1, <5>2
        <5>4. \A i \in 1..Len(recvChan'[r]) : recvChan'[r][i] = got[r] + i
          <6> SUFFICES ASSUME NEW i \in 1..Len(recvChan'[r]) PROVE recvChan'[r][i] = got[r] + i
            OBVIOUS
          <6>1. CASE i = Len(recvChan[r]) + 1
            BY <5>2, <5>3, <6>1
          <6>2. CASE i # Len(recvChan[r]) + 1
            <7>1. i \in 1..Len(recvChan[r])
              BY <5>2, <5>3, <6>2
            <7>2. QED
              BY <4>1, <5>3, <7>1
          <6>3. QED
            BY <6>1, <6>2
        <5>5. QED
          BY <4>2, <5>2, <5>3, <5>4
      <4>4. CASE r # s
        BY <3>1, <3>2, <4>1, <4>2, <4>4 DEF InDelivery
      <4>5. QED
        BY <4>3, <4>4
    <3>6. QED
      BY <3>4, <3>5 DEF MsgInv
  <2>6. ASSUME DropLate PROVE MsgInv'
    BY <2>6, QuietStep DEF DropLate, Drop, Goto, Delivering, Done, table, remote, seen, link
  <2>7. ASSUME DeliverPanics PROVE MsgInv'
    BY <2>7, QuietStep DEF DeliverPanics, MsgInv, ClosedIsOver, Goto, Delivering,
       Done, table, remote, seen, link
  <2>8. ASSUME NEW s \in Streams, PumpRst(s) PROVE MsgInv'
    <3>1. /\ pc["pump"] = "read" /\ peer' = [peer EXCEPT ![s] = "reset"]
          /\ peer[s] # "idle"
          /\ UNCHANGED <<ctxDone, pc, job, recvChan, sent, got, eof>>
          /\ cancelled \subseteq cancelled'
      BY <2>8 DEF PumpRst, CanRead, link, seen, table
    <3>2. s \in recvClosed' => s \in cancelled'
      BY <2>8 DEF PumpRst, table, SlotInv, LeftIsCancelled, Fresh
    <3>3. recvClosed' \subseteq recvClosed \cup {s}
      BY <2>8 DEF PumpRst, table
    <3>4. s \in eof => Done(s)'
      <4>1. s \in eof => pc[s] # "none"
        BY DEF MsgInv, NewIsEmpty
      <4>2. pc[s] # "none" => s \in cancelled'
        BY <2>8 DEF PumpRst, table, SlotInv, LeftIsCancelled
      <4>3. QED
        BY <4>1, <4>2 DEF Done
    <3>5. NewIsEmpty' /\ NoGap'
      BY <3>1 DEF MsgInv, NewIsEmpty, NoGap, InDelivery, Delivering, Done
    <3>6. ClosedIsOver'
      BY <3>1, <3>2, <3>3 DEF MsgInv, ClosedIsOver, Delivering
    <3>7. EofComplete'
      <4> SUFFICES ASSUME NEW r \in eof, ~Done(r)' PROVE peer'[r] = "eos" /\ got[r] = sent[r]
        BY <3>1 DEF EofComplete
      <4>1. r # s /\ ~Done(r)
        BY <3>1, <3>4 DEF Done
      <4>2. QED
        BY <3>1, <4>1 DEF MsgInv, EofComplete
    <3>8. QED
      BY <3>5, <3>6, <3>7 DEF MsgInv
  <2>9. ASSUME PumpPing PROVE MsgInv'
    BY <2>9, QuietStep DEF PumpPing, CanRead, Goto, Delivering, Done, table, remote,
       seen, link
  <2>10. ASSUME PumpPong PROVE MsgInv'
    BY <2>10 DEF PumpPong, MsgInv, ClosedIsOver, NewIsEmpty, NoGap, EofComplete,
       Delivering, InDelivery, Done, link, table, remote, seen
  <2>11. ASSUME PumpReadError PROVE MsgInv'
    BY <2>11 DEF PumpReadError, MsgInv, ClosedIsOver, NewIsEmpty, NoGap, EofComplete,
       Delivering, InDelivery, Done, link, table, remote, seen, Goto
  <2>12. ASSUME PumpClose PROVE MsgInv'
    BY <2>12 DEF PumpClose, MsgInv, ClosedIsOver, NewIsEmpty, NoGap, EofComplete,
       Delivering, InDelivery, Done, table, remote, seen, Goto
  <2>13. ASSUME WriterTake PROVE MsgInv'
    BY <2>13 DEF WriterTake, MsgInv, ClosedIsOver, NewIsEmpty, NoGap, EofComplete,
       Delivering, InDelivery, Done, link, table, remote, seen, Goto
  <2>14. ASSUME WriterStop PROVE MsgInv'
    BY <2>14 DEF WriterStop, MsgInv, ClosedIsOver, NewIsEmpty, NoGap, EofComplete,
       Delivering, InDelivery, Done, table, remote, seen, Goto
  <2>15. ASSUME WriteOK PROVE MsgInv'
    BY <2>15 DEF WriteOK, MsgInv, ClosedIsOver, NewIsEmpty, NoGap, EofComplete,
       Delivering, InDelivery, Done, link, table, seen, Goto
  <2>16. ASSUME WriteError PROVE MsgInv'
    BY <2>16 DEF WriteError, CancelConn, MsgInv, ClosedIsOver, NewIsEmpty, NoGap, EofComplete,
       Delivering, InDelivery, Done, table, remote, seen, Goto
  <2>17. ASSUME NEW s \in Streams, CallRecv(s) PROVE MsgInv'
    BY <2>17 DEF CallRecv, MsgInv, ClosedIsOver, NewIsEmpty, NoGap, EofComplete,
       Delivering, InDelivery, Done, link, table, remote, seen, Goto
  <2>18. ASSUME NEW s \in Streams, RecvData(s) PROVE MsgInv'
    <3>1. /\ recvChan[s] # <<>> /\ pc[s] = "recv" /\ pc' = [pc EXCEPT ![s] = "app"]
          /\ job' = [job EXCEPT ![s] = NoFrame]
          /\ got' = [got EXCEPT ![s] = Head(recvChan[s])]
          /\ recvChan' = [recvChan EXCEPT ![s] = Tail(@)]
          /\ UNCHANGED <<ctxDone, cancelled, recvClosed, peer, sent, eof>>
      BY <2>18 DEF RecvData, Goto, link, table, remote
    <3>2. \A r \in Streams : (Delivering(r)' <=> Delivering(r)) /\ InDelivery(r)' = InDelivery(r)
      BY <3>1 DEF Delivering, InDelivery
    <3>3. ClosedIsOver' /\ NewIsEmpty'
      BY <3>1, <3>2 DEF MsgInv, ClosedIsOver, NewIsEmpty
    <3>4. ~Done(s) => /\ got'[s] = got[s] + 1
                      /\ Len(recvChan'[s]) = Len(recvChan[s]) - 1
                      /\ \A i \in 1..Len(recvChan'[s]) : recvChan'[s][i] = recvChan[s][i + 1]
      <4>1. recvChan[s] \in Seq(Nat) /\ Len(recvChan[s]) >= 1
        BY <3>1
      <4>2. ~Done(s) => recvChan[s][1] = got[s] + 1
        <5>1. ~Done(s) => \A i \in 1..Len(recvChan[s]) : recvChan[s][i] = got[s] + i
          BY <3>1 DEF MsgInv, NoGap
        <5>2. 1 \in 1..Len(recvChan[s])
          BY <4>1
        <5>3. QED
          BY <5>1, <5>2
      <4>3. got'[s] = recvChan[s][1] /\ recvChan'[s] = Tail(recvChan[s])
        BY <3>1, <4>1
      <4>4. QED
        BY <4>1, <4>2, <4>3
    <3>5. NoGap'
      <4> SUFFICES ASSUME NEW r \in Streams, pc'[r] # "none", ~Done(r)'
                   PROVE  (got'[r] + Len(recvChan'[r]) + InDelivery(r)' = sent[r]
                           /\ \A i \in 1..Len(recvChan'[r]) : recvChan'[r][i] = got'[r] + i)
        BY <3>1 DEF NoGap
      <4>1. pc[r] # "none" /\ ~Done(r)
        BY <3>1 DEF Done
      <4>2. /\ got[r] + Len(recvChan[r]) + InDelivery(r) = sent[r]
            /\ \A i \in 1..Len(recvChan[r]) : recvChan[r][i] = got[r] + i
        BY <4>1 DEF MsgInv, NoGap
      <4>3. CASE r = s
        <5>1. /\ recvChan[r] \in Seq(Nat) /\ got[r] \in Nat /\ sent[r] \in Nat
              /\ InDelivery(r) \in {0, 1} /\ Len(recvChan[r]) >= 1
          BY <3>1, <4>3 DEF InDelivery
        <5>2. got'[r] + Len(recvChan'[r]) + InDelivery(r)' = sent[r]
          <6>1. got'[r] = got[r] + 1 /\ Len(recvChan'[r]) = Len(recvChan[r]) - 1
            BY <3>4, <4>1, <4>3
          <6>2. InDelivery(r)' = InDelivery(r)
            BY <3>2
          <6>3. QED
            BY <4>2, <5>1, <6>1, <6>2
        <5>3. \A i \in 1..Len(recvChan'[r]) : recvChan'[r][i] = got'[r] + i
          <6> SUFFICES ASSUME NEW i \in 1..Len(recvChan'[r]) PROVE recvChan'[r][i] = got'[r] + i
            OBVIOUS
          <6>1. i + 1 \in 1..Len(recvChan[r])
            BY <3>4, <4>1, <4>3, <5>1
          <6>2. recvChan[r][i + 1] = got[r] + (i + 1)
            BY <4>2, <6>1
          <6>3. recvChan'[r][i] = recvChan[r][i + 1]
            BY <3>4, <4>1, <4>3, <5>1
          <6>4. got'[r] = got[r] + 1
            BY <3>4, <4>1, <4>3
          <6>5. QED
            BY <5>1, <6>2, <6>3, <6>4
        <5>4. QED
          BY <5>2, <5>3
      <4>4. CASE r # s
        BY <3>1, <3>2, <4>2, <4>4 DEF InDelivery
      <4>5. QED
        BY <4>3, <4>4
    <3>6. EofComplete'
      <4> SUFFICES ASSUME NEW r \in eof, ~Done(r)'
                   PROVE  peer[r] = "eos" /\ got'[r] = sent[r]
        BY <3>1 DEF EofComplete
      <4>1. ~Done(r) /\ peer[r] = "eos" /\ got[r] = sent[r] /\ pc[r] # "none"
        BY <3>1 DEF MsgInv, EofComplete, NewIsEmpty, Done
      <4>2. recvChan[r] = <<>>
        <5>1. got[r] + Len(recvChan[r]) + InDelivery(r) = sent[r]
          BY <4>1 DEF MsgInv, NoGap
        <5>2. /\ got[r] \in Nat /\ recvChan[r] \in Seq(Nat) /\ sent[r] \in Nat
              /\ InDelivery(r) \in {0, 1}
          BY DEF InDelivery
        <5>3. QED
          BY <4>1, <5>1, <5>2
      <4>3. r # s
        BY <3>1, <4>2
      <4>4. QED
        BY <3>1, <4>1, <4>3
    <3>7. QED
      BY <3>3, <3>5, <3>6 DEF MsgInv
  <2>19. ASSUME NEW s \in Streams, RecvEOF(s) PROVE MsgInv'
    <3>1. /\ recvChan[s] = <<>> /\ s \in recvClosed /\ pc[s] = "recv"
          /\ pc' = [pc EXCEPT ![s] = "app"] /\ job' = [job EXCEPT ![s] = NoFrame]
          /\ eof' = eof \cup {s}
          /\ UNCHANGED <<ctxDone, cancelled, recvClosed, recvChan, peer, sent, got>>
      BY <2>19 DEF RecvEOF, Drained, Goto, link, table, remote
    <3>2. \A r \in Streams : (Delivering(r)' <=> Delivering(r)) /\ InDelivery(r)' = InDelivery(r)
      BY <3>1 DEF Delivering, InDelivery
    <3>3. Done(s) \/ (peer[s] = "eos" /\ got[s] = sent[s])
      <4> SUFFICES ASSUME ~Done(s) PROVE peer[s] = "eos" /\ got[s] = sent[s]
        OBVIOUS
      <4>1. peer[s] = "eos" /\ ~Delivering(s)
        BY <3>1 DEF MsgInv, ClosedIsOver, Done
      <4>2. got[s] + Len(recvChan[s]) + InDelivery(s) = sent[s]
        BY <3>1 DEF MsgInv, NoGap
      <4>3. Len(recvChan[s]) = 0 /\ InDelivery(s) = 0 /\ got[s] \in Nat /\ sent[s] \in Nat
        BY <3>1, <4>1 DEF InDelivery
      <4>4. QED
        BY <4>1, <4>2, <4>3
    <3>4. NoGap'
      BY <3>1, <3>2 DEF MsgInv, NoGap, Done
    <3>5. QED
      BY <3>1, <3>2, <3>3, <3>4 DEF MsgInv, ClosedIsOver, NewIsEmpty, EofComplete, Done
  <2>20. ASSUME NEW s \in Streams, RecvCancelled(s) PROVE MsgInv'
    BY <2>20 DEF RecvCancelled, MsgInv, ClosedIsOver, NewIsEmpty, NoGap, EofComplete,
       Delivering, InDelivery, Done, link, table, remote, seen, Goto
  <2>21. ASSUME NEW s \in Streams, CallSend(s) PROVE MsgInv'
    BY <2>21 DEF CallSend, MsgInv, ClosedIsOver, NewIsEmpty, NoGap, EofComplete,
       Delivering, InDelivery, Done, link, table, remote, seen, Goto
  <2>22. ASSUME NEW s \in Streams, Return(s) PROVE MsgInv'
    BY <2>22 DEF Return, MsgInv, ClosedIsOver, NewIsEmpty, NoGap, EofComplete,
       Delivering, InDelivery, Done, link, table, remote, seen, Goto
  <2>23. ASSUME NEW s \in Streams, CancelStream(s) PROVE MsgInv'
    BY <2>23 DEF CancelStream, CancelOwn, MsgInv, ClosedIsOver, NewIsEmpty, NoGap, EofComplete,
       Delivering, InDelivery, Done, link, remote, seen, Goto
  <2>24. ASSUME NEW s \in Streams, Unregister(s) PROVE MsgInv'
    BY <2>24 DEF Unregister, FreeSlot, MsgInv, ClosedIsOver, NewIsEmpty, NoGap, EofComplete,
       Delivering, InDelivery, Done, link, remote, seen, Goto
  <2>25. ASSUME NEW s \in Streams, Elapse(s) PROVE MsgInv'
    BY <2>25 DEF Elapse, MsgInv, ClosedIsOver, NewIsEmpty, NoGap, EofComplete,
       Delivering, InDelivery, Done, link, table, remote, seen
  <2>26. ASSUME CheckIdle PROVE MsgInv'
    BY <2>26 DEF CheckIdle, MsgInv, ClosedIsOver, NewIsEmpty, NoGap, EofComplete,
       Delivering, InDelivery, Done, link, remote, seen
  <2>27. ASSUME KeepAliveTick PROVE MsgInv'
    BY <2>27 DEF KeepAliveTick, MsgInv, ClosedIsOver, NewIsEmpty, NoGap, EofComplete,
       Delivering, InDelivery, Done, link, table, remote, seen, Goto
  <2>28. ASSUME KeepAliveTimeout PROVE MsgInv'
    BY <2>28 DEF KeepAliveTimeout, MsgInv, ClosedIsOver, NewIsEmpty, NoGap,
       EofComplete, Delivering, InDelivery, Done, table, remote, seen, Goto
  <2>29. ASSUME KeepAliveStop PROVE MsgInv'
    BY <2>29 DEF KeepAliveStop, MsgInv, ClosedIsOver, NewIsEmpty, NoGap, EofComplete,
       Delivering, InDelivery, Done, link, table, remote, seen, Goto
  <2>30. ASSUME ShutdownBegin PROVE MsgInv'
    BY <2>30 DEF ShutdownBegin, MsgInv, ClosedIsOver, NewIsEmpty, NoGap, EofComplete,
       Delivering, InDelivery, Done, link, table, remote, seen, Goto
  <2>31. ASSUME NEW s \in Streams, ShutdownReset(s) PROVE MsgInv'
    BY <2>31 DEF ShutdownReset, MsgInv, ClosedIsOver, NewIsEmpty, NoGap, EofComplete,
       Delivering, InDelivery, Done, link, remote, seen
  <2>32. ASSUME ShutdownPanics PROVE MsgInv'
    BY <2>32 DEF ShutdownPanics, MsgInv, ClosedIsOver, NewIsEmpty, NoGap, EofComplete,
       Delivering, InDelivery, Done, link, table, remote, seen, Goto
  <2>33. ASSUME ShutdownUnlock PROVE MsgInv'
    BY <2>33 DEF ShutdownUnlock, MsgInv, ClosedIsOver, NewIsEmpty, NoGap, EofComplete,
       Delivering, InDelivery, Done, link, table, remote, seen, Goto
  <2>34. ASSUME ShutdownCancel PROVE MsgInv'
    BY <2>34 DEF ShutdownCancel, MsgInv, ClosedIsOver, NewIsEmpty, NoGap, EofComplete,
       Delivering, InDelivery, Done, table, remote, seen, Goto
  <2>35. ASSUME NEW g \in Goroutines, Lock(g) PROVE MsgInv'
    <3>1. /\ UNCHANGED <<ctxDone, cancelled, recvClosed, recvChan, peer, sent, got, eof>>
          /\ \A h \in Goroutines \ {g} : pc'[h] = pc[h] /\ job'[h] = job[h]
          /\ pc[g] \in {"lock", "enqueue"}
          /\ g = "pump" => pc'[g] \in {"enqueue", "read"}
          /\ g \in Streams => pc'[g] \in {"enqueue", "cancel", "app"}
      BY <2>35, SendStep DEF table, remote, seen
    <3>2. \A s \in Streams : /\ pc'[s] = "none" <=> pc[s] = "none"
                             /\ Delivering(s)' <=> Delivering(s)
      BY <3>1 DEF Delivering
    <3>3. pc'["pump"] = "create" => g # "pump"
      BY <3>1
    <3>4. QED
      BY <3>1, <3>2, <3>3, QuietStep
  <2>36. ASSUME NEW g \in Goroutines, Enqueue(g) PROVE MsgInv'
    <3>1. /\ UNCHANGED <<ctxDone, cancelled, recvClosed, recvChan, peer, sent, got, eof>>
          /\ \A h \in Goroutines \ {g} : pc'[h] = pc[h] /\ job'[h] = job[h]
          /\ pc[g] \in {"lock", "enqueue"}
          /\ g = "pump" => pc'[g] \in {"enqueue", "read"}
          /\ g \in Streams => pc'[g] \in {"enqueue", "cancel", "app"}
      BY <2>36, SendStep DEF table, remote, seen
    <3>2. \A s \in Streams : /\ pc'[s] = "none" <=> pc[s] = "none"
                             /\ Delivering(s)' <=> Delivering(s)
      BY <3>1 DEF Delivering
    <3>3. pc'["pump"] = "create" => g # "pump"
      BY <3>1
    <3>4. QED
      BY <3>1, <3>2, <3>3, QuietStep
  <2>37. ASSUME PeerCloses PROVE MsgInv'
    BY <2>37 DEF PeerCloses, MsgInv, ClosedIsOver, NewIsEmpty, NoGap, EofComplete,
       Delivering, InDelivery, Done, table, remote, seen
  <2>38. ASSUME PeerStalls PROVE MsgInv'
    BY <2>38 DEF PeerStalls, MsgInv, ClosedIsOver, NewIsEmpty, NoGap, EofComplete,
       Delivering, InDelivery, Done, table, remote, seen
  <2>39. ASSUME UNCHANGED vars PROVE MsgInv'
    BY <2>39, QuietStep DEF vars, Goto, Delivering, Done, table, remote, seen
  <2>40. QED
    BY <2>1, <2>2, <2>3, <2>4, <2>5, <2>6, <2>7, <2>8, <2>9, <2>10, <2>11, <2>12,
       <2>13, <2>14, <2>15, <2>16, <2>17, <2>18, <2>19, <2>20, <2>21, <2>22, <2>23,
       <2>24, <2>25, <2>26, <2>27, <2>28, <2>29, <2>30, <2>31, <2>32, <2>33, <2>34,
       <2>35, <2>36, <2>37, <2>38, <2>39
    DEF Next, PumpStep, WriterStep, HandlerStep, MonitorStep, KeepAliveStep, ShutdownStep, Stopped
<1>3. QED
  BY <1>1, <1>2, TypeCorrect, SlotsAgree, PTL DEF Spec

-----------------------------------------------------------------------------
(* Closed channels.                                                        *)

\* Only the idle monitor closes a channel the pump may still want to send on.
ClosedByIdle == \A s \in recvClosed :
    s \in IdleStreams \/ (peer[s] \in {"eos", "reset"} /\ ~Delivering(s))

FaultInv ==
    /\ ClosedByIdle /\ stale \subseteq IdleStreams
    /\ SendOnlyWhileOpen /\ FaultNeedsRace
    /\ ~MayShutDown => pc["shutdown"] = "done"

\* Who may find a channel closed, and when; kept by every step.
THEOREM ClosedChannels == Spec => []FaultInv
<1> USE StreamsAssumption, LimitsAssumption, Names, MsgTypes, FrameFacts DEF Goroutines, Workers
<1>1. Init => FaultInv
  BY DEF Init, FaultInv, ClosedByIdle, SendOnlyWhileOpen, FaultNeedsRace
<1>2. TypeInv /\ SlotInv /\ MsgInv /\ FaultInv /\ [Next]_vars => FaultInv'
  <2> SUFFICES ASSUME TypeInv, SlotInv, MsgInv, FaultInv, [Next]_vars PROVE FaultInv'
    OBVIOUS
  <2>1. ASSUME NEW s \in Streams, PumpHeaders(s) PROVE FaultInv'
    BY <2>1 DEF PumpHeaders, AtLimit, FaultInv, ClosedByIdle, SendOnlyWhileOpen,
       FaultNeedsRace, Delivering, sending, table, clocks, Goto
  <2>2. ASSUME NEW s \in Streams, NEW eos \in BOOLEAN, PumpData(s, eos) PROVE FaultInv'
    <3>1. /\ pc["pump"] = "read" /\ peer[s] = "open"
          /\ \A r \in Streams \ {s} : peer'[r] = peer[r] /\ ~Delivering(r)'
          /\ \A g \in Goroutines \ {"pump"} : pc'[g] = pc[g]
          /\ pc'["pump"] \in {"read", "deliver"}
          /\ UNCHANGED <<sendClosed, cancelled, recvClosed, stale, fault>>
      BY <2>2 DEF PumpData, CanRead, Goto, Delivering, StreamKinds, sending, table, clocks
    <3>2. ClosedByIdle'
      BY <3>1 DEF FaultInv, ClosedByIdle
    <3>3. SendOnlyWhileOpen' /\ FaultNeedsRace'
      BY <3>1 DEF FaultInv, SendOnlyWhileOpen, FaultNeedsRace
    <3>4. QED
      BY <3>1, <3>2, <3>3 DEF FaultInv
  <2>3. ASSUME PumpUnknownMethod PROVE FaultInv'
    BY <2>3 DEF PumpUnknownMethod, FaultInv, ClosedByIdle, SendOnlyWhileOpen,
       FaultNeedsRace, Delivering, sending, table, clocks, remote, Goto
  <2>4. ASSUME PumpCreate PROVE FaultInv'
    BY <2>4 DEF PumpCreate, FaultInv, ClosedByIdle, SendOnlyWhileOpen, FaultNeedsRace,
       Delivering, sending, clocks, remote
  <2>5. ASSUME Deliver PROVE FaultInv'
    BY <2>5 DEF Deliver, HalfClosed, FaultInv, ClosedByIdle, SendOnlyWhileOpen, FaultNeedsRace,
       Delivering, sending, clocks, remote, Goto
  <2>6. ASSUME DropLate PROVE FaultInv'
    BY <2>6 DEF DropLate, Drop, FaultInv, ClosedByIdle, SendOnlyWhileOpen, FaultNeedsRace,
       Delivering, sending, table, clocks, remote, Goto
  <2>7. ASSUME DeliverPanics PROVE FaultInv'
    <3> DEFINE s == job["pump"].id
    <3>1. /\ s \in recvClosed /\ Delivering(s) /\ s \in Streams
          /\ fault' = "pump" /\ pc' = [pc EXCEPT !["pump"] = "close"]
          /\ UNCHANGED <<sendClosed, cancelled, recvClosed, stale, peer>>
      BY <2>7 DEF DeliverPanics, Delivering, Goto, sending, table, clocks, remote
    <3>2. s \in IdleStreams /\ s \in cancelled
      BY <3>1 DEF FaultInv, ClosedByIdle, MsgInv, ClosedIsOver
    <3> HIDE DEF s
    <3>3. FaultNeedsRace'
      BY <3>1, <3>2 DEF FaultNeedsRace
    <3>4. ClosedByIdle'
      BY <3>1 DEF FaultInv, ClosedByIdle, Delivering
    <3>5. QED
      BY <3>1, <3>3, <3>4 DEF FaultInv, SendOnlyWhileOpen
  <2>8. ASSUME NEW s \in Streams, PumpRst(s) PROVE FaultInv'
    <3>1. /\ pc["pump"] = "read" /\ peer' = [peer EXCEPT ![s] = "reset"]
          /\ UNCHANGED <<pc, job, sendClosed, stale, fault>>
          /\ cancelled \subseteq cancelled' /\ recvClosed \subseteq recvClosed'
          /\ recvClosed' \subseteq recvClosed \cup {s}
      BY <2>8 DEF PumpRst, CanRead, sending, clocks, table
    <3>2. ClosedByIdle'
      BY <3>1 DEF FaultInv, ClosedByIdle, Delivering
    <3>3. QED
      BY <3>1, <3>2 DEF FaultInv, SendOnlyWhileOpen, FaultNeedsRace
  <2>9. ASSUME PumpPing PROVE FaultInv'
    BY <2>9 DEF PumpPing, FaultInv, ClosedByIdle, SendOnlyWhileOpen, FaultNeedsRace,
       Delivering, sending, table, clocks, remote, Goto
  <2>10. ASSUME PumpPong PROVE FaultInv'
    BY <2>10 DEF PumpPong, FaultInv, ClosedByIdle, SendOnlyWhileOpen, FaultNeedsRace,
       Delivering, sending, table, remote
  <2>11. ASSUME PumpReadError PROVE FaultInv'
    BY <2>11 DEF PumpReadError, FaultInv, ClosedByIdle, SendOnlyWhileOpen,
       FaultNeedsRace, Delivering, sending, table, clocks, remote, Goto
  <2>12. ASSUME PumpClose PROVE FaultInv'
    <3>1. /\ \A g \in Goroutines : pc[g] # "enqueue"
          /\ sendClosed' = TRUE /\ pc["pump"] = "close" /\ pc' = [pc EXCEPT !["pump"] = "done"]
          /\ UNCHANGED <<cancelled, recvClosed, stale, fault, peer>>
      BY <2>12 DEF PumpClose, SendMuFree, Goto, table, clocks, remote
    <3>2. SendOnlyWhileOpen'
      BY <3>1 DEF SendOnlyWhileOpen
    <3>3. ClosedByIdle'
      BY <3>1 DEF FaultInv, ClosedByIdle, Delivering
    <3>4. QED
      BY <3>1, <3>2, <3>3 DEF FaultInv, FaultNeedsRace
  <2>13. ASSUME WriterTake PROVE FaultInv'
    BY <2>13 DEF WriterTake, FaultInv, ClosedByIdle, SendOnlyWhileOpen,
       FaultNeedsRace, Delivering, table, clocks, remote, Goto
  <2>14. ASSUME WriterStop PROVE FaultInv'
    BY <2>14 DEF WriterStop, FaultInv, ClosedByIdle, SendOnlyWhileOpen,
       FaultNeedsRace, Delivering, sending, table, clocks, remote, Goto
  <2>15. ASSUME WriteOK PROVE FaultInv'
    BY <2>15 DEF WriteOK, FaultInv, ClosedByIdle, SendOnlyWhileOpen, FaultNeedsRace,
       Delivering, sending, table, clocks, Goto
  <2>16. ASSUME WriteError PROVE FaultInv'
    BY <2>16 DEF WriteError, CancelConn, FaultInv, ClosedByIdle, SendOnlyWhileOpen,
       FaultNeedsRace, Delivering, sending, table, clocks, remote, Goto
  <2>17. ASSUME NEW s \in Streams, CallRecv(s) PROVE FaultInv'
    BY <2>17 DEF CallRecv, FaultInv, ClosedByIdle, SendOnlyWhileOpen, FaultNeedsRace,
       Delivering, sending, table, clocks, remote, Goto
  <2>18. ASSUME NEW s \in Streams, RecvData(s) PROVE FaultInv'
    BY <2>18 DEF RecvData, FaultInv, ClosedByIdle, SendOnlyWhileOpen, FaultNeedsRace,
       Delivering, sending, table, remote, Goto
  <2>19. ASSUME NEW s \in Streams, RecvEOF(s) PROVE FaultInv'
    BY <2>19 DEF RecvEOF, Drained, FaultInv, ClosedByIdle, SendOnlyWhileOpen, FaultNeedsRace,
       Delivering, sending, table, clocks, remote, Goto
  <2>20. ASSUME NEW s \in Streams, RecvCancelled(s) PROVE FaultInv'
    BY <2>20 DEF RecvCancelled, FaultInv, ClosedByIdle, SendOnlyWhileOpen,
       FaultNeedsRace, Delivering, sending, table, clocks, remote, Goto
  <2>21. ASSUME NEW s \in Streams, CallSend(s) PROVE FaultInv'
    BY <2>21 DEF CallSend, FaultInv, ClosedByIdle, SendOnlyWhileOpen, FaultNeedsRace,
       Delivering, sending, table, remote, Goto
  <2>22. ASSUME NEW s \in Streams, Return(s) PROVE FaultInv'
    BY <2>22 DEF Return, FaultInv, ClosedByIdle, SendOnlyWhileOpen, FaultNeedsRace,
       Delivering, sending, table, clocks, remote, Goto
  <2>23. ASSUME NEW s \in Streams, CancelStream(s) PROVE FaultInv'
    BY <2>23 DEF CancelStream, CancelOwn, FaultInv, ClosedByIdle, SendOnlyWhileOpen,
       FaultNeedsRace, Delivering, sending, clocks, remote, Goto
  <2>24. ASSUME NEW s \in Streams, Unregister(s) PROVE FaultInv'
    BY <2>24 DEF Unregister, FreeSlot, FaultInv, ClosedByIdle, SendOnlyWhileOpen,
       FaultNeedsRace, Delivering, sending, clocks, remote, Goto
  <2>25. ASSUME NEW s \in Streams, Elapse(s) PROVE FaultInv'
    BY <2>25 DEF Elapse, FaultInv, ClosedByIdle, SendOnlyWhileOpen, FaultNeedsRace,
       Delivering, sending, table, remote
  <2>26. ASSUME CheckIdle PROVE FaultInv'
    BY <2>26 DEF CheckIdle, FaultInv, ClosedByIdle, SendOnlyWhileOpen, FaultNeedsRace,
       Delivering, sending, clocks, remote
  <2>27. ASSUME KeepAliveTick PROVE FaultInv'
    BY <2>27 DEF KeepAliveTick, FaultInv, ClosedByIdle, SendOnlyWhileOpen,
       FaultNeedsRace, Delivering, sending, table, remote, Goto
  <2>28. ASSUME KeepAliveTimeout PROVE FaultInv'
    BY <2>28 DEF KeepAliveTimeout, FaultInv, ClosedByIdle, SendOnlyWhileOpen,
       FaultNeedsRace, Delivering, sending, table, clocks, remote, Goto
  <2>29. ASSUME KeepAliveStop PROVE FaultInv'
    BY <2>29 DEF KeepAliveStop, FaultInv, ClosedByIdle, SendOnlyWhileOpen,
       FaultNeedsRace, Delivering, sending, table, clocks, remote, Goto
  <2>30. ASSUME ShutdownBegin PROVE FaultInv'
    BY <2>30 DEF ShutdownBegin, FaultInv, ClosedByIdle, SendOnlyWhileOpen,
       FaultNeedsRace, Delivering, sending, table, clocks, remote, Goto
  <2>31. ASSUME NEW s \in Streams, ShutdownReset(s) PROVE FaultInv'
    BY <2>31 DEF ShutdownReset, FaultInv, ClosedByIdle, SendOnlyWhileOpen,
       FaultNeedsRace, Delivering, clocks, remote
  <2>32. ASSUME ShutdownPanics PROVE FaultInv'
    BY <2>32 DEF ShutdownPanics, FaultInv, ClosedByIdle, SendOnlyWhileOpen,
       FaultNeedsRace, Delivering, sending, table, clocks, remote, Goto
  <2>33. ASSUME ShutdownUnlock PROVE FaultInv'
    BY <2>33 DEF ShutdownUnlock, FaultInv, ClosedByIdle, SendOnlyWhileOpen,
       FaultNeedsRace, Delivering, sending, table, clocks, remote, Goto
  <2>34. ASSUME ShutdownCancel PROVE FaultInv'
    BY <2>34 DEF ShutdownCancel, FaultInv, ClosedByIdle, SendOnlyWhileOpen,
       FaultNeedsRace, Delivering, sending, table, clocks, remote, Goto
  <2>35. ASSUME NEW g \in Goroutines, Lock(g) PROVE FaultInv'
    <3>1. /\ UNCHANGED <<sendClosed, cancelled, recvClosed, stale, fault, peer>>
          /\ \A h \in Goroutines \ {g} : pc'[h] = pc[h] /\ job'[h] = job[h]
          /\ g = "pump" => pc[g] # "deliver" /\ pc'[g] # "deliver"
      BY <2>35, SendStep DEF sending, table, clocks, remote
    <3>2. \A s \in Streams : Delivering(s)' <=> Delivering(s)
      BY <3>1 DEF Delivering
    <3>3. g # "shutdown"
      BY <2>35, SendStep DEF TypeInv, TypeOK, ShutAt
    <3>4. sendClosed => pc'[g] # "enqueue"
      BY <2>35, Names DEF Lock, Goto, AfterSend, TypeInv, TypeOK
    <3>5. ClosedByIdle' /\ FaultNeedsRace'
      BY <3>1, <3>2 DEF FaultInv, ClosedByIdle, FaultNeedsRace
    <3>6. SendOnlyWhileOpen'
      BY <3>1, <3>4 DEF FaultInv, SendOnlyWhileOpen
    <3>7. QED
      BY <3>1, <3>3, <3>5, <3>6 DEF FaultInv
  <2>36. ASSUME NEW g \in Goroutines, Enqueue(g) PROVE FaultInv'
    <3>1. /\ UNCHANGED <<sendClosed, cancelled, recvClosed, stale, fault, peer>>
          /\ \A h \in Goroutines \ {g} : pc'[h] = pc[h] /\ job'[h] = job[h]
          /\ g = "pump" => pc[g] # "deliver" /\ pc'[g] # "deliver"
      BY <2>36, SendStep DEF sending, table, clocks, remote
    <3>2. \A s \in Streams : Delivering(s)' <=> Delivering(s)
      BY <3>1 DEF Delivering
    <3>3. g # "shutdown"
      BY <2>36, SendStep DEF TypeInv, TypeOK, ShutAt
    <3>4. sendClosed => pc'[g] # "enqueue"
      BY <2>36, Names DEF Enqueue, Room, Queue, GiveUp, FaultInv, SendOnlyWhileOpen, Goto, AfterSend,
         TypeInv, TypeOK
    <3>5. ClosedByIdle' /\ FaultNeedsRace'
      BY <3>1, <3>2 DEF FaultInv, ClosedByIdle, FaultNeedsRace
    <3>6. SendOnlyWhileOpen'
      BY <3>1, <3>4 DEF FaultInv, SendOnlyWhileOpen
    <3>7. QED
      BY <3>1, <3>3, <3>5, <3>6 DEF FaultInv
  <2>37. ASSUME PeerCloses PROVE FaultInv'
    BY <2>37 DEF PeerCloses, FaultInv, ClosedByIdle, SendOnlyWhileOpen,
       FaultNeedsRace, Delivering, sending, table, clocks, remote
  <2>38. ASSUME PeerStalls PROVE FaultInv'
    BY <2>38 DEF PeerStalls, FaultInv, ClosedByIdle, SendOnlyWhileOpen,
       FaultNeedsRace, Delivering, sending, table, clocks, remote
  <2>39. ASSUME UNCHANGED vars PROVE FaultInv'
    BY <2>39 DEF vars, FaultInv, ClosedByIdle, SendOnlyWhileOpen, FaultNeedsRace,
       Delivering
  <2>40. QED
    BY <2>1, <2>2, <2>3, <2>4, <2>5, <2>6, <2>7, <2>8, <2>9, <2>10, <2>11, <2>12,
       <2>13, <2>14, <2>15, <2>16, <2>17, <2>18, <2>19, <2>20, <2>21, <2>22, <2>23,
       <2>24, <2>25, <2>26, <2>27, <2>28, <2>29, <2>30, <2>31, <2>32, <2>33, <2>34,
       <2>35, <2>36, <2>37, <2>38, <2>39
    DEF Next, PumpStep, WriterStep, HandlerStep, MonitorStep, KeepAliveStep, ShutdownStep, Stopped
<1>3. QED
  BY <1>1, <1>2, TypeCorrect, SlotsAgree, MessagesKept, PTL DEF Spec

-----------------------------------------------------------------------------
(* The properties that TLC checks on small connections, for every one.     *)

\* Every variable keeps its type; in particular no channel exceeds its capacity.
THEOREM TypesHold == Spec => []TypeOK
<1>1. TypeInv => TypeOK
  BY DEF TypeInv
<1>2. QED
  BY <1>1, TypeCorrect, PTL

\* The check-then-register of handleConnection never exceeds the limit.
THEOREM LimitHolds == Spec => []StreamLimit
<1>1. SlotInv => StreamLimit
  BY DEF SlotInv
<1>2. QED
  BY <1>1, SlotsAgree, PTL

\* No slot of streamMap outlives its handler.
THEOREM NoSlotLeaks == Spec => []SlotHasHandler
<1>1. SlotInv => SlotHasHandler
  BY DEF SlotInv
<1>2. QED
  BY <1>1, SlotsAgree, PTL

\* The stream the shared pump waits on is still served or is over: cancelling the
\* context before leaving streamMap is what keeps the pump from being stuck.
THEOREM PumpIsReleased == Spec => []PumpWaitCanEnd
<1>1. TypeInv /\ SlotInv => PumpWaitCanEnd
  BY DEF TypeInv, JobOK, SlotInv, LeftIsCancelled, PumpWaitCanEnd, Done
<1>2. QED
  BY <1>1, TypeCorrect, SlotsAgree, PTL

\* On a live stream messages are neither lost, duplicated nor reordered.
THEOREM NoMessageLost == Spec => []NoGap
<1>1. MsgInv => NoGap
  BY DEF MsgInv
<1>2. QED
  BY <1>1, MessagesKept, PTL

\* On a live stream io.EOF comes after every message and after the half-close.
THEOREM EofAfterEverything == Spec => []EofComplete
<1>1. MsgInv => EofComplete
  BY DEF MsgInv
<1>2. QED
  BY <1>1, MessagesKept, PTL

\* send() and Close exclude each other through sendMu and sendClosed.
THEOREM SendNeverPanics == Spec => []SendOnlyWhileOpen
<1>1. FaultInv => SendOnlyWhileOpen
  BY DEF FaultInv
<1>2. QED
  BY <1>1, ClosedChannels, PTL

\* A send on a closed channel comes from the idle monitor's or Shutdown's race.
THEOREM OnlyTwoRaces == Spec => []FaultNeedsRace
<1>1. FaultInv => FaultNeedsRace
  BY DEF FaultInv
<1>2. QED
  BY <1>1, ClosedChannels, PTL

\* On a connection where no stream goes idle and Shutdown is not called, none is.
THEOREM NoFault ==
    ASSUME IdleStreams = {}, MayShutDown = FALSE
    PROVE  Spec => []NoSendOnClosed
<1>1. TypeInv /\ FaultInv => NoSendOnClosed
  BY DEF TypeInv, TypeOK, FaultInv, FaultNeedsRace, NoSendOnClosed
<1>2. QED
  BY <1>1, TypeCorrect, ClosedChannels, PTL
=============================================================================
