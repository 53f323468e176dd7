------------------------------ MODULE WireProofs ------------------------------
(***************************************************************************)
(* What holds of every connection, whatever the number of its calls, their *)
(* methods and the sizes of their messages.                                *)
(***************************************************************************)
EXTENDS Wire, QueueFacts, FiniteSetTheorems

-----------------------------------------------------------------------------
(* Numbers.                                                                *)

\* A number that fits in 32 bits is not changed by its encoding.
LEMMA Small ==
  ASSUME NEW n \in 0 .. (Word - 1) PROVE Uint32(n) = n
<1>1. Word \in Nat \ {0} /\ n \in Nat /\ n < Word
  BY FrameAssumption
<1> QED BY <1>1 DEF Uint32

\* The stream id of a call names that call and no other.
LEMMA StreamIds ==
  /\ \A c \in Calls : c \in Nat /\ StreamId(c) \in Nat /\ CallOf(StreamId(c)) = c
  /\ \A c, d \in Calls : StreamId(c) = StreamId(d) => c = d
<1>1. FirstId \in Nat /\ \A c \in Calls : c \in Nat /\ c > 0
  BY WireAssumption, FrameAssumption
<1>2. ASSUME NEW c \in Calls PROVE StreamId(c) \in Nat /\ CallOf(StreamId(c)) = c
  BY <1>1 DEF StreamId, CallOf
<1> QED BY <1>1, <1>2

\* The codes of errors.ts: none is a state of a call that has not ended.
LEMMA Statuses ==
  /\ \A k \in 0 .. 16 : GrpcStatus[k] \in Range(GrpcStatus)
  /\ \A x \in Range(GrpcStatus) : x \notin {"none", "running", "waiting", "cancelled"}
  /\ \A k : ResetStatus(k) \in Range(GrpcStatus)
  /\ "UNAVAILABLE" \in Range(GrpcStatus)
<1>1. DOMAIN GrpcStatus = 0 .. 16
  BY DEF GrpcStatus
<1>2. \A k \in 0 .. 16 : GrpcStatus[k] \in Range(GrpcStatus)
  BY <1>1 DEF Range
<1>3. ASSUME NEW k \in 0 .. 16 PROVE GrpcStatus[k] \notin {"none", "running", "waiting", "cancelled"}
  BY DEF GrpcStatus
<1>4. /\ GrpcStatus[0] = "OK" /\ GrpcStatus[13] = "INTERNAL" /\ GrpcStatus[8] = "RESOURCE_EXHAUSTED"
      /\ GrpcStatus[14] = "UNAVAILABLE" /\ GrpcStatus[1] = "CANCELLED"
  BY DEF GrpcStatus
<1>5. {"OK", "INTERNAL", "RESOURCE_EXHAUSTED", "UNAVAILABLE", "CANCELLED"} \subseteq Range(GrpcStatus)
  BY <1>2, <1>4
<1>6. \A k : ResetStatus(k) \in {"OK", "INTERNAL", "RESOURCE_EXHAUSTED", "UNAVAILABLE", "CANCELLED"}
  BY DEF ResetStatus
<1> QED BY <1>1, <1>2, <1>3, <1>5, <1>6 DEF Range

-----------------------------------------------------------------------------
(* The inductive invariant.                                                *)

Asked == {q \in [method : Methods, sizes : Payloads] :
            IF q.method.requestStream THEN q.sizes # <<>> ELSE Len(q.sizes) = 1}
AnyPayload ==
    {Headers(m) : m \in Methods} \cup {Message(n, size) : n \in Nat, size \in Nat}
    \cup {Trailers(k) : k \in 0 .. 16} \cup {ResetCode(k) : k \in 0 .. 16}
AnyFrame == [flags : SUBSET Flags, streamId : Nat, length : Nat, payload : AnyPayload]

Types ==
    /\ readyState \in {"OPEN", "CLOSING", "CLOSED"} /\ nextStreamId \in Nat
    /\ serving \in {"yes", "reset", "stopped", "closed", "over"}
    /\ streamMap = {StreamId(c) : c \in {d \in Calls : outcome[d] = "waiting"}}
    /\ asked \in [Calls -> {Nothing} \cup Asked]
    /\ outcome \in [Calls -> {"none", "waiting", "cancelled"} \cup Range(GrpcStatus)]
    /\ ret \in [Calls -> {"none", "running"} \cup Range(GrpcStatus)]
    /\ told \in [Calls -> Seq(Nat)] /\ heard \in [Calls -> Seq(Nat)]
    /\ recvChan \in [Calls -> Seq(Nat)] /\ said \in [Calls -> 0 .. MaxReplies]
    /\ registered \subseteq Calls /\ cancelled \subseteq Calls
    /\ closed \subseteq Calls /\ eof \subseteq Calls
    /\ toServer \in Seq(AnyFrame) /\ toClient \in Seq(AnyFrame)

\* Stream ids are used in order, each of them fits in 32 bits.
Ids ==
    /\ \E n \in Nat : nextStreamId = FirstId + 2 * n
    /\ \A c \in Calls :
        /\ outcome[c] = "none" <=> StreamId(c) >= nextStreamId
        /\ asked[c] = Nothing <=> outcome[c] = "none"
        /\ outcome[c] # "none" => StreamId(c) < Word

\* Frame f is one that the client sent for call c.
FromClient(c, f) ==
    /\ f.streamId = StreamId(c)
    /\ \/ f.flags = {"HEADERS"} /\ f.payload = Headers(asked[c].method)
       \/ \E n \in DOMAIN asked[c].sizes :
            /\ f.flags = DataFlags(asked[c].sizes, n)
            /\ f.payload = Message(n, asked[c].sizes[n]) /\ f.length = f.payload.size
       \/ f.flags = {"RST_STREAM"} /\ outcome[c] # "waiting"

\* HEADERS of c are on their way to the server.
Coming(c) == \E f \in ToSet(toServer) : f.streamId = StreamId(c) /\ "HEADERS" \in f.flags

\* The frames a server sends for call c: its n-th reply, the end of it.
Reply(c, n) == EncodeFrame(StreamId(c), {"DATA"}, Message(n, 1))
End(c, code) == EncodeFrame(StreamId(c), {"TRAILERS"}, Trailers(code))
Refusal(c, code) == EncodeFrame(StreamId(c), {"RST_STREAM"}, ResetCode(code))

FromServer(c, f) ==
    \/ \E n \in 1 .. said[c] : f = Reply(c, n)
    \/ \E code \in 0 .. 16 : f = End(c, code) /\ ret[c] = GrpcStatus[code]
    \/ /\ \E code \in {RESOURCE_EXHAUSTED, REFUSED_STREAM} : f = Refusal(c, code)
       /\ ret[c] = "none" /\ ~Coming(c)
    \/ f = Refusal(c, NO_ERROR) /\ Ending

\* Nothing is on its way that nobody sent.
SentByClient ==
    \A f \in ToSet(toServer) : \E c \in Calls : outcome[c] # "none" /\ FromClient(c, f)
SentByServer ==
    \A f \in ToSet(toClient) : \E c \in Calls : outcome[c] # "none" /\ FromServer(c, f)

\* HEADERS come once and first, messages in order.
InOrder ==
    \A f, g : Before(toServer, f, g) /\ f.streamId = g.streamId =>
        /\ "HEADERS" \notin g.flags
        /\ "DATA" \in f.flags /\ "DATA" \in g.flags => f.payload.n < g.payload.n

\* A call whose handler did not start.
Unstarted ==
    \A c \in Calls :
        /\ ret[c] = "none" => /\ heard[c] = <<>> /\ recvChan[c] = <<>> /\ said[c] = 0
                              /\ c \notin registered \cup cancelled
        /\ outcome[c] = "none" \/ Coming(c) => ret[c] = "none"

TypeInv == Types /\ Ids /\ SentByClient /\ SentByServer /\ InOrder /\ Unstarted

\* While the connection serves, a context is done because its caller settled or
\* its handler returned.
Harmless ==
    serving = "yes" =>
        /\ cancelled \cap registered = {}
        /\ \A c \in Calls : Running(c) /\ c \in cancelled => outcome[c] # "waiting"

\* The messages that reached c's handler or its buffer.
Carried(c) == heard[c] \o recvChan[c]
FitsAt(c, j) == j \in DOMAIN asked[c].sizes /\ asked[c].sizes[j] <= MaxPayloadSize

\* They are in order, and none is left out that fits unless by Shutdown.
CarriedInOrder ==
    \A c \in Calls :
        /\ \A i, j : Before(Carried(c), i, j) => i < j
        /\ \A i \in ToSet(Carried(c)) :
            /\ FitsAt(c, i)
            /\ \A f \in ToSet(toServer) :
                f.streamId = StreamId(c) /\ "DATA" \in f.flags => i < f.payload.n
            /\ ~Ending => \A j \in 1 .. (i - 1) : FitsAt(c, j) => j \in ToSet(Carried(c))
NoneMissing ==
    serving = "yes" => \A c \in Calls : c \in registered \/ Coming(c) =>
        \A f \in ToSet(toServer) : f.streamId = StreamId(c) /\ "DATA" \in f.flags =>
            \A j \in 1 .. (f.payload.n - 1) : FitsAt(c, j) =>
                \/ j \in ToSet(Carried(c))
                \/ \E g : Before(toServer, g, f) /\ g.streamId = StreamId(c)
                          /\ "DATA" \in g.flags /\ g.payload.n = j

\* The replies on their way to a caller that waits: those it was not told, in
\* order and without a gap, before the end.
RepliesInOrder ==
    /\ \A f : "RST_STREAM" \notin f.flags => ~Before(toClient, f, f)
    /\ \A c \in Calls : Len(told[c]) <= said[c]
    /\ \A c \in Calls : outcome[c] = "waiting" =>
        /\ \A n \in Nat : Reply(c, n) \in ToSet(toClient) =>
            /\ n > Len(told[c])
            /\ \A l \in (Len(told[c]) + 1) .. (n - 1) : Before(toClient, Reply(c, l), Reply(c, n))
        /\ \A code \in 0 .. 16 : End(c, code) \in ToSet(toClient) =>
            \A l \in (Len(told[c]) + 1) .. said[c] : Before(toClient, Reply(c, l), End(c, code))
        /\ serving \in {"yes", "reset"} /\ readyState # "CLOSED" =>
            \A l \in (Len(told[c]) + 1) .. said[c] : Reply(c, l) \in ToSet(toClient)

IInv == TypeInv /\ Harmless /\ CarriedInOrder /\ NoneMissing /\ RepliesInOrder

-----------------------------------------------------------------------------
(* What a frame holds.                                                     *)

\* What EncodeFrame makes is a frame.
LEMMA FrameTypes ==
  ASSUME NEW id \in Nat, NEW flags \in SUBSET Flags, NEW payload \in AnyPayload
  PROVE  EncodeFrame(id, flags, payload) \in AnyFrame
<1>1. \A n \in Nat : Uint32(n) \in Nat
  BY FrameAssumption DEF Uint32
<1>2. payload.size \in Nat
  BY DEF AnyPayload, Headers, Message, Trailers, ResetCode
<1> QED BY <1>1, <1>2 DEF EncodeFrame, AnyFrame

\* The id of a stream that was opened is the one its frames carry.
LEMMA Fields ==
  ASSUME NEW c \in Calls, StreamId(c) < Word
  PROVE  /\ \A flags, payload :
              /\ EncodeFrame(StreamId(c), flags, payload).streamId = StreamId(c)
              /\ EncodeFrame(StreamId(c), flags, payload).flags = flags
              /\ EncodeFrame(StreamId(c), flags, payload).payload = payload
         /\ \A n \in Nat : Reply(c, n) \in AnyFrame
         /\ \A code \in 0 .. 16 : End(c, code) \in AnyFrame /\ Refusal(c, code) \in AnyFrame
<1>1. StreamId(c) \in Nat /\ Word \in Nat /\ StreamId(c) \in 0 .. (Word - 1)
  BY StreamIds, FrameAssumption
<1>2. Uint32(StreamId(c)) = StreamId(c)
  BY <1>1, Small
<1>3. {"DATA"} \subseteq Flags /\ {"TRAILERS"} \subseteq Flags /\ {"RST_STREAM"} \subseteq Flags
  BY DEF Flags
<1>4. /\ \A n \in Nat : Message(n, 1) \in AnyPayload
      /\ \A code \in 0 .. 16 : Trailers(code) \in AnyPayload /\ ResetCode(code) \in AnyPayload
  BY DEF AnyPayload
<1>5. \A n \in Nat : Reply(c, n) \in AnyFrame
  BY <1>1, <1>3, <1>4, FrameTypes DEF Reply
<1>6. \A code \in 0 .. 16 : End(c, code) \in AnyFrame /\ Refusal(c, code) \in AnyFrame
  BY <1>1, <1>3, <1>4, FrameTypes DEF End, Refusal
<1> QED BY <1>2, <1>5, <1>6 DEF EncodeFrame

\* A frame from the server names its call, its kind and its number.
LEMMA ServerFields ==
  ASSUME NEW c \in Calls, StreamId(c) < Word
  PROVE  /\ \A n : Reply(c, n).streamId = StreamId(c) /\ Reply(c, n).flags = {"DATA"}
                   /\ Reply(c, n).payload.n = n
         /\ \A k : End(c, k).streamId = StreamId(c) /\ End(c, k).flags = {"TRAILERS"}
                   /\ End(c, k).payload.status = k
         /\ \A k : Refusal(c, k).streamId = StreamId(c) /\ Refusal(c, k).flags = {"RST_STREAM"}
                   /\ Refusal(c, k).payload.code = k
<1>1. \A n : Message(n, 1).n = n /\ Trailers(n).status = n /\ ResetCode(n).code = n
  BY DEF Message, Trailers, ResetCode
<1> QED BY <1>1, Fields DEF Reply, End, Refusal

-----------------------------------------------------------------------------
(* What the client sends.                                                  *)

\* A shorter queue: part of the frames, in the order they had.
Part(p, q) == ToSet(p) \subseteq ToSet(q) /\ \A f, g : Before(p, f, g) => Before(q, f, g)

\* HEADERS and then the messages, numbered, of one call.
LEMMA OpeningFrames ==
  ASSUME NEW c \in Calls, StreamId(c) < Word, NEW request \in Asked
  PROVE  LET q == Frames(StreamId(c), request.method, request.sizes) IN
         /\ q \in Seq(AnyFrame)
         /\ \A f \in ToSet(q) :
              /\ f.streamId = StreamId(c)
              /\ \/ f.flags = {"HEADERS"} /\ f.payload = Headers(request.method)
                 \/ \E n \in DOMAIN request.sizes :
                      /\ f.flags = DataFlags(request.sizes, n)
                      /\ f.payload = Message(n, request.sizes[n]) /\ f.length = f.payload.size
         /\ \A f, g : Before(q, f, g) =>
              /\ "HEADERS" \notin g.flags
              /\ "DATA" \in f.flags /\ "DATA" \in g.flags => f.payload.n < g.payload.n
         /\ \A g \in ToSet(q) : "DATA" \in g.flags =>
              \A j \in 1 .. (g.payload.n - 1) : \E f : Before(q, f, g) /\ f.streamId = StreamId(c)
                                              /\ "DATA" \in f.flags /\ f.payload.n = j
<1> DEFINE sizes == request.sizes
           id == StreamId(c)
           h == EncodeFrame(id, {"HEADERS"}, Headers(request.method))
           D(i) == EncodeFrame(id, DataFlags(sizes, i), Message(i, sizes[i]))
           data == [i \in 1 .. Len(sizes) |-> D(i)]
           q == Frames(id, request.method, sizes)
<1>1. request.method \in Methods /\ sizes \in Payloads
  BY DEF Asked
<1>2. /\ sizes \in Seq(0 .. (Word - 1)) /\ Len(sizes) \in Nat /\ DOMAIN sizes = 1 .. Len(sizes)
      /\ \A i \in 1 .. Len(sizes) : sizes[i] \in 0 .. (Word - 1) /\ sizes[i] \in Nat
  <2>1. sizes \in Seq(0 .. (Word - 1)) /\ Word \in Nat
    BY <1>1, WireAssumption, FrameAssumption
  <2> HIDE DEF sizes
  <2> QED BY <2>1
<1>3. id \in Nat /\ h \in AnyFrame /\ h.streamId = id /\ h.flags = {"HEADERS"}
      /\ h.payload = Headers(request.method)
  <2>1. {"HEADERS"} \subseteq Flags /\ Headers(request.method) \in AnyPayload
    BY <1>1 DEF Flags, AnyPayload
  <2> QED BY <2>1, StreamIds, FrameTypes, Fields
<1>4. ASSUME NEW i \in 1 .. Len(sizes)
      PROVE  /\ D(i) \in AnyFrame /\ D(i).streamId = id /\ D(i).flags = DataFlags(sizes, i)
             /\ D(i).payload = Message(i, sizes[i]) /\ D(i).payload.n = i
             /\ D(i).length = D(i).payload.size
  <2>1. i \in Nat /\ sizes[i] \in 0 .. (Word - 1) /\ sizes[i] \in Nat
    BY <1>2
  <2>2. Uint32(sizes[i]) = sizes[i]
    BY <2>1, Small
  <2>3. DataFlags(sizes, i) \subseteq Flags
    BY DEF DataFlags, Flags
  <2>4. Message(i, sizes[i]) \in AnyPayload /\ Message(i, sizes[i]).n = i
        /\ Message(i, sizes[i]).size = sizes[i]
    BY <2>1 DEF AnyPayload, Message
  <2>5. D(i) \in AnyFrame
    BY <1>3, <2>3, <2>4, FrameTypes
  <2>6. D(i).length = Uint32(Message(i, sizes[i]).size)
    BY DEF EncodeFrame
  <2>7. D(i).streamId = id /\ D(i).flags = DataFlags(sizes, i) /\ D(i).payload = Message(i, sizes[i])
    BY Fields
  <2> QED BY <2>2, <2>4, <2>5, <2>6, <2>7
<1>5. "DATA" \notin {"HEADERS"} /\ \A i : "DATA" \in DataFlags(sizes, i) /\ "HEADERS" \notin DataFlags(sizes, i)
  BY DEF DataFlags
<1> HIDE DEF D, h, id, sizes
<1>6. <<h>> \in Seq(AnyFrame) /\ data \in Seq(AnyFrame) /\ q = <<h>> \o data
  BY <1>2, <1>3, <1>4 DEF Frames, h, D
<1>7. DOMAIN data = 1 .. Len(sizes) /\ \A i \in 1 .. Len(sizes) : data[i] = D(i)
  OBVIOUS
<1> HIDE DEF data, q
<1>8. /\ q \in Seq(AnyFrame) /\ ToSet(q) = ToSet(<<h>>) \cup ToSet(data)
      /\ \A f, g : Before(q, f, g) <=>
            Before(<<h>>, f, g) \/ Before(data, f, g) \/ (f \in ToSet(<<h>>) /\ g \in ToSet(data))
  BY <1>6, JoinFacts
<1>9. ToSet(<<h>>) = {h} /\ \A f, g : ~Before(<<h>>, f, g)
  BY OneFacts
<1>10. \A f \in ToSet(data) : \E i \in 1 .. Len(sizes) : f = D(i)
  BY <1>7 DEF ToSet
<1>11. \A f, g : Before(data, f, g) => \E i, j \in 1 .. Len(sizes) : i < j /\ f = D(i) /\ g = D(j)
  BY <1>7 DEF Before
<1>12. \A i, j \in 1 .. Len(sizes) : i < j => Before(data, D(i), D(j))
  BY <1>7 DEF Before
<1>13. ASSUME NEW f \in ToSet(q)
       PROVE  /\ f.streamId = id
              /\ \/ f.flags = {"HEADERS"} /\ f.payload = Headers(request.method)
                 \/ \E n \in DOMAIN sizes :
                      /\ f.flags = DataFlags(sizes, n)
                      /\ f.payload = Message(n, sizes[n]) /\ f.length = f.payload.size
  <2>1. CASE f = h
    BY <1>3, <2>1
  <2>2. CASE f \in ToSet(data)
    BY <1>2, <1>4, <1>10, <2>2
  <2> QED BY <1>8, <1>9, <2>1, <2>2
<1>14. ASSUME NEW f, NEW g, Before(q, f, g)
       PROVE  /\ "HEADERS" \notin g.flags
              /\ "DATA" \in f.flags /\ "DATA" \in g.flags => f.payload.n < g.payload.n
  <2>1. CASE Before(data, f, g)
    <3>1. PICK i, j \in 1 .. Len(sizes) : i < j /\ f = D(i) /\ g = D(j)
      BY <1>11, <2>1
    <3> QED BY <1>4, <1>5, <3>1
  <2>2. CASE f = h /\ g \in ToSet(data)
    BY <1>3, <1>4, <1>5, <1>10, <2>2
  <2> QED BY <1>8, <1>9, <1>14, <2>1, <2>2
<1>15. ASSUME NEW g \in ToSet(q), "DATA" \in g.flags, NEW j \in 1 .. (g.payload.n - 1)
       PROVE  \E f : Before(q, f, g) /\ f.streamId = id /\ "DATA" \in f.flags /\ f.payload.n = j
  <2>1. PICK i \in 1 .. Len(sizes) : g = D(i)
    BY <1>3, <1>5, <1>8, <1>9, <1>10, <1>15
  <2>2. j \in 1 .. Len(sizes) /\ j < i
    BY <1>2, <1>4, <1>15, <2>1
  <2>3. Before(q, D(j), g)
    BY <1>8, <1>12, <2>1, <2>2
  <2> QED BY <1>4, <1>5, <2>2, <2>3
<1> QED BY <1>8, <1>13, <1>14, <1>15 DEF q, id, sizes

\* A teardown's RST_STREAM.
LEMMA ResetFrame ==
  ASSUME NEW c \in Calls, StreamId(c) < Word
  PROVE  \E r \in AnyFrame :
            Reset(c) = <<r>> /\ r.streamId = StreamId(c) /\ r.flags = {"RST_STREAM"}
<1> DEFINE r == EncodeFrame(StreamId(c), {"RST_STREAM"}, ResetCode(CANCEL))
<1>1. r \in AnyFrame
  BY StreamIds, FrameTypes DEF Flags, AnyPayload, CANCEL
<1> QED BY <1>1, Fields DEF Reset

-----------------------------------------------------------------------------
(* A step keeps the types.                                                 *)

\* What is left of the frames to the server is known and in order.
LEMMA FewerToServer ==
  ASSUME SentByClient, InOrder, Part(toServer', toServer), asked' = asked,
         \A c \in Calls : outcome[c] # "none" => outcome'[c] # "none",
         \A c \in Calls : outcome'[c] = "waiting" => outcome[c] = "waiting"
  PROVE  /\ SentByClient' /\ InOrder'
         /\ \A c : Coming(c)' => Coming(c)
<1>1. \A c \in Calls : \A f : FromClient(c, f) => FromClient(c, f)'
  BY DEF FromClient
<1>2. SentByClient'
  BY <1>1 DEF SentByClient, Part
<1>3. InOrder'
  BY DEF InOrder, Part
<1>4. \A c : Coming(c)' => Coming(c)
  BY DEF Coming, Part
<1> QED BY <1>2, <1>3, <1>4

\* A frame to the client stays true of its call.
LEMMA KnownToClient ==
  ASSUME TypeInv,
         \A f \in ToSet(toClient') : \/ f \in ToSet(toClient)
                                     \/ \E c \in Calls : outcome'[c] # "none" /\ FromServer(c, f)',
         \A c \in Calls : outcome[c] # "none" => outcome'[c] # "none",
         \A c \in Calls : said'[c] \in Nat /\ said[c] <= said'[c],
         \A c \in Calls : \/ ret'[c] = ret[c]
                          \/ ret[c] = "running"
                          \/ ret[c] = "none" /\ Coming(c),
         \A c \in Calls : Coming(c)' /\ outcome[c] # "none" => Coming(c),
         Ending => Ending'
  PROVE  SentByServer'
<1>1. ASSUME NEW c \in Calls, outcome[c] # "none", NEW f, FromServer(c, f)
      PROVE  FromServer(c, f)'
  <2>1. CASE \E n \in 1 .. said[c] : f = Reply(c, n)
    <3>1. said[c] \in Nat
      BY WireAssumption DEF TypeInv, Types
    <3>2. 1 .. said[c] \subseteq 1 .. said'[c]
      BY <3>1
    <3> QED BY <2>1, <3>2 DEF FromServer
  <2>2. CASE \E code \in 0 .. 16 : f = End(c, code) /\ ret[c] = GrpcStatus[code]
    <3>1. PICK code \in 0 .. 16 : f = End(c, code) /\ ret[c] = GrpcStatus[code]
      BY <2>2
    <3>2. ret[c] \notin {"running", "none"}
      BY <3>1, Statuses
    <3>3. ret'[c] = GrpcStatus[code]
      BY <3>1, <3>2
    <3> QED BY <3>1, <3>3 DEF FromServer
  <2>3. CASE /\ \E code \in {RESOURCE_EXHAUSTED, REFUSED_STREAM} : f = Refusal(c, code)
             /\ ret[c] = "none" /\ ~Coming(c)
    BY <1>1, <2>3 DEF FromServer
  <2>4. CASE f = Refusal(c, NO_ERROR) /\ Ending
    BY <2>4 DEF FromServer
  <2> QED BY <1>1, <2>1, <2>2, <2>3, <2>4 DEF FromServer
<1> QED BY <1>1 DEF TypeInv, SentByServer

\* A subject ends: no more than its teardown's RST_STREAM is sent.
LEMMA SettleStep ==
  ASSUME TypeInv, NEW c \in Calls, outcome[c] = "waiting",
         NEW status \in {"cancelled"} \cup Range(GrpcStatus), Settle(c, status),
         asked' = asked, nextStreamId' = nextStreamId
  PROVE  /\ outcome' \in [Calls -> {"none", "waiting", "cancelled"} \cup Range(GrpcStatus)]
         /\ \A d \in Calls : outcome'[d] = IF d = c THEN status ELSE outcome[d]
         /\ status \notin {"none", "waiting"}
         /\ streamMap' = {StreamId(d) : d \in {e \in Calls : outcome'[e] = "waiting"}}
         /\ toServer' \in Seq(AnyFrame)
         /\ Ids' /\ SentByClient' /\ InOrder'
         /\ ToSet(toServer) \subseteq ToSet(toServer')
         /\ \A f \in ToSet(toServer') : f \in ToSet(toServer) \/ f.flags = {"RST_STREAM"}
         /\ \A f, g : Before(toServer, f, g) => Before(toServer', f, g)
<1>1. Types /\ Ids /\ SentByClient /\ InOrder
  BY DEF TypeInv
<1>2. status \notin {"none", "waiting"}
  BY Statuses
<1>3. /\ outcome' \in [Calls -> {"none", "waiting", "cancelled"} \cup Range(GrpcStatus)]
      /\ \A d \in Calls : outcome'[d] = IF d = c THEN status ELSE outcome[d]
  BY <1>1 DEF Types, Settle
<1>4. streamMap' = {StreamId(d) : d \in {e \in Calls : outcome'[e] = "waiting"}}
  <2>1. streamMap' = {StreamId(d) : d \in {e \in Calls : outcome[e] = "waiting"}} \ {StreamId(c)}
    BY <1>1 DEF Types, Settle, Forget
  <2>2. \A d \in Calls : StreamId(d) = StreamId(c) => d = c
    BY StreamIds
  <2> QED BY <1>2, <1>3, <2>1, <2>2
<1>5. Ids'
  <2>1. StreamId(c)' = StreamId(c) /\ \A d : StreamId(d)' = StreamId(d)
    BY DEF StreamId
  <2> QED BY <1>1, <1>2, <1>3 DEF Ids
<1>6. \A d \in Calls : \A f : FromClient(d, f) => FromClient(d, f)'
  BY <1>2, <1>3 DEF FromClient
<1>7. CASE toServer' = toServer
  BY <1>1, <1>2, <1>3, <1>4, <1>5, <1>6, <1>7 DEF Types, SentByClient, InOrder
<1>8. CASE toServer' = toServer \o Reset(c)
  <2>1. StreamId(c) < Word
    BY <1>1 DEF Ids
  <2>2. PICK r \in AnyFrame : Reset(c) = <<r>> /\ r.streamId = StreamId(c) /\ r.flags = {"RST_STREAM"}
    BY <2>1, ResetFrame
  <2>3. toServer \in Seq(AnyFrame) /\ toServer' = Append(toServer, r)
    BY <1>1, <1>8, <2>2, AppendIsConcat DEF Types
  <2>4. /\ toServer' \in Seq(AnyFrame) /\ ToSet(toServer') = ToSet(toServer) \cup {r}
        /\ \A f, g : Before(toServer', f, g) <=> Before(toServer, f, g) \/ (f \in ToSet(toServer) /\ g = r)
    BY <2>3, AppendFacts
  <2>5. FromClient(c, r)'
    BY <1>2, <1>3, <2>2 DEF FromClient, StreamId
  <2>6. SentByClient'
    BY <1>1, <1>2, <1>3, <1>6, <2>4, <2>5 DEF SentByClient
  <2>7. InOrder'
    BY <1>1, <2>2, <2>4 DEF InOrder
  <2> QED BY <1>2, <1>3, <1>4, <1>5, <2>2, <2>4, <2>6, <2>7
<1> QED BY <1>7, <1>8 DEF Settle

\* The next id is that of the call whose stream opens.
LEMMA NextCall ==
  ASSUME TypeInv, IdsLeft, CallOf(nextStreamId) \in Calls
  PROVE  LET c == CallOf(nextStreamId) IN
         /\ nextStreamId = StreamId(c) /\ StreamId(c) < Word /\ outcome[c] = "none"
         /\ \A d \in Calls : StreamId(d) >= nextStreamId + 2 <=> StreamId(d) >= nextStreamId /\ d # c
<1> DEFINE c == CallOf(nextStreamId)
<1>1. PICK n \in Nat : nextStreamId = FirstId + 2 * n
  BY DEF TypeInv, Ids
<1>2. FirstId \in Nat /\ Word \in Nat
  BY WireAssumption, FrameAssumption
<1>3. c = n + 1
  BY <1>1, <1>2 DEF CallOf
<1> HIDE DEF c
<1>4. nextStreamId = StreamId(c)
  BY <1>1, <1>2, <1>3 DEF StreamId
<1>5. c \in Calls /\ nextStreamId < Word
  BY DEF c, IdsLeft
<1>6. outcome[c] = "none"
  <2>1. nextStreamId \in Nat
    BY <1>1, <1>2
  <2> QED BY <1>4, <1>5, <2>1 DEF TypeInv, Ids
<1>7. ASSUME NEW d \in Calls
      PROVE  StreamId(d) >= nextStreamId + 2 <=> StreamId(d) >= nextStreamId /\ d # c
  <2>1. d \in Nat
    BY StreamIds
  <2> QED BY <1>1, <1>2, <1>3, <2>1 DEF StreamId
<1> QED BY <1>4, <1>5, <1>6, <1>7 DEF c

\* A stream opens: the frames on their way are those that were, and the new
\* call's, in order, behind them.
LEMMA OpenStep ==
  ASSUME TypeInv, NEW method, NEW sizes, [method |-> method, sizes |-> sizes] \in Asked,
         OpenStream(method, sizes)
  PROVE  /\ TypeInv'
         /\ \A f \in ToSet(toServer') :
              f \in ToSet(toServer) \/ f.streamId = StreamId(CallOf(nextStreamId))
         /\ \A f \in ToSet(toServer) : f.streamId # StreamId(CallOf(nextStreamId))
         /\ \A f, g : Before(toServer, f, g) => Before(toServer', f, g)
         /\ \A g \in ToSet(toServer') \ ToSet(toServer) : "DATA" \in g.flags =>
              \A j \in 1 .. (g.payload.n - 1) :
                 \E f : Before(toServer', f, g) /\ f.streamId = g.streamId
                        /\ "DATA" \in f.flags /\ f.payload.n = j
<1>0. PICK c \in Calls : c = CallOf(nextStreamId)
  BY DEF OpenStream
<1> DEFINE request == [method |-> method, sizes |-> sizes]
           q == Frames(StreamId(c), method, sizes)
<1>1. Types /\ Ids /\ SentByClient /\ SentByServer /\ InOrder /\ Unstarted
  BY DEF TypeInv
<1>2. /\ c \in Calls /\ nextStreamId = StreamId(c) /\ StreamId(c) < Word /\ outcome[c] = "none"
      /\ \A d \in Calls : StreamId(d) >= nextStreamId + 2 <=> StreamId(d) >= nextStreamId /\ d # c
  BY <1>0, NextCall DEF OpenStream
<1>3. request.method = method /\ request.sizes = sizes /\ request \in Asked
  OBVIOUS
<1>4. /\ nextStreamId' = nextStreamId + 2 /\ streamMap' = streamMap \cup {StreamId(c)}
      /\ asked' = [asked EXCEPT ![c] = request] /\ outcome' = [outcome EXCEPT ![c] = "waiting"]
      /\ toServer' = toServer \o q
      /\ UNCHANGED <<readyState, told, toClient, serving, stream, handler>>
  BY <1>0, <1>2 DEF OpenStream
<1> HIDE DEF request
<1>5. /\ q \in Seq(AnyFrame)
      /\ \A f \in ToSet(q) :
           /\ f.streamId = StreamId(c)
           /\ \/ f.flags = {"HEADERS"} /\ f.payload = Headers(method)
              \/ \E n \in DOMAIN sizes :
                   /\ f.flags = DataFlags(sizes, n)
                   /\ f.payload = Message(n, sizes[n]) /\ f.length = f.payload.size
      /\ \A f, g : Before(q, f, g) =>
           /\ "HEADERS" \notin g.flags
           /\ "DATA" \in f.flags /\ "DATA" \in g.flags => f.payload.n < g.payload.n
      /\ \A g \in ToSet(q) : "DATA" \in g.flags =>
           \A j \in 1 .. (g.payload.n - 1) : \E f : Before(q, f, g) /\ f.streamId = StreamId(c)
                                           /\ "DATA" \in f.flags /\ f.payload.n = j
  <2>1. q = Frames(StreamId(c), request.method, request.sizes)
    BY <1>3
  <2> HIDE DEF q
  <2> QED BY <1>2, <1>3, <2>1, OpeningFrames
<1> HIDE DEF q
<1>6. toServer \in Seq(AnyFrame)
  BY <1>1 DEF Types
<1>7. /\ toServer' \in Seq(AnyFrame) /\ ToSet(toServer') = ToSet(toServer) \cup ToSet(q)
      /\ \A f, g : Before(toServer', f, g) <=>
            Before(toServer, f, g) \/ Before(q, f, g) \/ (f \in ToSet(toServer) /\ g \in ToSet(q))
  BY <1>4, <1>5, <1>6, JoinFacts
<1>8. \A f \in ToSet(toServer) : f.streamId # StreamId(c)
  BY <1>1, <1>2, StreamIds DEF SentByClient, FromClient
<1>9. /\ asked' \in [Calls -> {Nothing} \cup Asked] /\ asked'[c] = request
      /\ \A d \in Calls : d # c => asked'[d] = asked[d]
      /\ outcome' \in [Calls -> {"none", "waiting", "cancelled"} \cup Range(GrpcStatus)]
      /\ outcome'[c] = "waiting" /\ \A d \in Calls : d # c => outcome'[d] = outcome[d]
  BY <1>1, <1>2, <1>3, <1>4 DEF Types
<1>10. request # Nothing
  <2>1. Nothing.sizes = <<>>
    BY DEF Nothing
  <2>2. request.sizes # <<>>
    BY <1>3 DEF Asked
  <2> QED BY <2>1, <2>2
<1>11. Types'
  <2>1. streamMap' = {StreamId(d) : d \in {e \in Calls : outcome'[e] = "waiting"}}
    <3>1. {e \in Calls : outcome'[e] = "waiting"} = {e \in Calls : outcome[e] = "waiting"} \cup {c}
      BY <1>2, <1>9
    <3> QED BY <1>1, <1>4, <3>1 DEF Types
  <2>2. nextStreamId' \in Nat
    BY <1>1, <1>4 DEF Types
  <2> QED BY <1>1, <1>4, <1>7, <1>9, <2>1, <2>2 DEF Types, stream, handler
<1>12. Ids'
  <2>1. \E n \in Nat : nextStreamId' = FirstId + 2 * n
    <3>1. PICK n \in Nat : nextStreamId = FirstId + 2 * n
      BY <1>1 DEF Ids
    <3>2. n + 1 \in Nat /\ nextStreamId' = FirstId + 2 * (n + 1)
      BY <1>4, <3>1, WireAssumption, FrameAssumption
    <3> QED BY <3>2
  <2>2. ASSUME NEW d \in Calls
        PROVE  /\ outcome'[d] = "none" <=> StreamId(d) >= nextStreamId'
               /\ asked'[d] = Nothing <=> outcome'[d] = "none"
               /\ outcome'[d] # "none" => StreamId(d) < Word
    BY <1>1, <1>2, <1>4, <1>9, <1>10 DEF Ids
  <2>3. \A d : StreamId(d)' = StreamId(d)
    BY DEF StreamId
  <2> QED BY <2>1, <2>2, <2>3 DEF Ids
<1>13. SentByClient'
  <2>1. ASSUME NEW f \in ToSet(toServer)
        PROVE  \E d \in Calls : outcome'[d] # "none" /\ FromClient(d, f)'
    <3>1. PICK d \in Calls : outcome[d] # "none" /\ FromClient(d, f)
      BY <1>1 DEF SentByClient
    <3>2. d # c
      BY <1>2, <3>1
    <3> QED BY <1>9, <3>1, <3>2 DEF FromClient
  <2>2. ASSUME NEW f \in ToSet(q) PROVE FromClient(c, f)'
    <3>1. asked'[c].method = method /\ asked'[c].sizes = sizes
      BY <1>3, <1>9
    <3> QED BY <1>5, <3>1 DEF FromClient, StreamId
  <2> QED BY <1>2, <1>7, <1>9, <2>1, <2>2 DEF SentByClient
<1>14. \A d \in Calls : Coming(d)' => d = c \/ Coming(d)
  BY <1>2, <1>5, <1>7, StreamIds DEF Coming
<1>15. SentByServer'
  <2>1. \A d \in Calls : said'[d] \in Nat /\ said[d] <= said'[d]
    BY <1>1, <1>4, WireAssumption DEF Types, handler
  <2>2. /\ \A d \in Calls : outcome[d] # "none" => outcome'[d] # "none"
        /\ \A d \in Calls : Coming(d)' /\ outcome[d] # "none" => Coming(d)
    BY <1>2, <1>9, <1>14
  <2>3. toClient' = toClient /\ ret' = ret /\ serving' = serving
    BY <1>4 DEF handler
  <2> QED BY <2>1, <2>2, <2>3, KnownToClient DEF Ending
<1>16. InOrder'
  <2> SUFFICES ASSUME NEW f, NEW g, Before(toServer', f, g), f.streamId = g.streamId
               PROVE  /\ "HEADERS" \notin g.flags
                      /\ "DATA" \in f.flags /\ "DATA" \in g.flags => f.payload.n < g.payload.n
    BY DEF InOrder
  <2>1. ~(f \in ToSet(toServer) /\ g \in ToSet(q))
    BY <1>5, <1>8
  <2>2. CASE Before(toServer, f, g)
    BY <1>1, <2>2 DEF InOrder
  <2>3. CASE Before(q, f, g)
    BY <1>5, <2>3
  <2> QED BY <1>7, <2>1, <2>2, <2>3
<1>17. Unstarted'
  BY <1>1, <1>2, <1>4, <1>9, <1>14 DEF Unstarted, stream, handler
<1>18. ASSUME NEW g \in ToSet(toServer') \ ToSet(toServer), "DATA" \in g.flags,
              NEW j \in 1 .. (g.payload.n - 1)
       PROVE  \E f : Before(toServer', f, g) /\ f.streamId = g.streamId
                     /\ "DATA" \in f.flags /\ f.payload.n = j
  BY <1>5, <1>7, <1>18
<1>19. \A f \in ToSet(toServer') : f \in ToSet(toServer) \/ f.streamId = StreamId(c)
  BY <1>5, <1>7
<1> QED BY <1>0, <1>7, <1>8, <1>11, <1>12, <1>13, <1>15, <1>16, <1>17, <1>18, <1>19 DEF TypeInv

\* A stream has a subject while its call waits.
LEMMA InMap ==
  ASSUME TypeInv
  PROVE  \A c \in Calls : StreamId(c) \in streamMap <=> outcome[c] = "waiting"
BY StreamIds DEF TypeInv, Types

\* The frame the server reads is one its caller sent.
LEMMA ServerReads ==
  ASSUME TypeInv, toServer # <<>>
  PROVE  /\ Tail(toServer) \in Seq(AnyFrame) /\ Part(Tail(toServer), toServer)
         /\ Head(toServer) \in ToSet(toServer) /\ Head(toServer) \in AnyFrame
         /\ \A g \in ToSet(Tail(toServer)) : Before(toServer, Head(toServer), g)
         /\ \A f \in ToSet(toServer) : f = Head(toServer) \/ f \in ToSet(Tail(toServer))
         /\ \A f, g : Before(toServer, f, g) => f = Head(toServer) \/ Before(Tail(toServer), f, g)
         /\ \E c \in Calls : /\ c = CallOf(Head(toServer).streamId) /\ outcome[c] # "none"
                             /\ FromClient(c, Head(toServer)) /\ StreamId(c) < Word
<1>1. toServer \in Seq(AnyFrame)
  BY DEF TypeInv, Types
<1>2. /\ Tail(toServer) \in Seq(AnyFrame) /\ Head(toServer) \in AnyFrame
      /\ ToSet(toServer) = {Head(toServer)} \cup ToSet(Tail(toServer))
      /\ \A f, g : Before(Tail(toServer), f, g) => Before(toServer, f, g)
      /\ \A g \in ToSet(Tail(toServer)) : Before(toServer, Head(toServer), g)
      /\ \A f, g : Before(toServer, f, g) => f = Head(toServer) \/ Before(Tail(toServer), f, g)
  BY <1>1, TailFacts
<1>3. PICK c \in Calls : outcome[c] # "none" /\ FromClient(c, Head(toServer))
  BY <1>2 DEF TypeInv, SentByClient
<1>4. Head(toServer).streamId = StreamId(c)
  BY <1>3 DEF FromClient
<1>5. c = CallOf(Head(toServer).streamId) /\ StreamId(c) < Word
  BY <1>3, <1>4, StreamIds DEF TypeInv, Ids
<1> QED BY <1>2, <1>3, <1>5 DEF Part

\* So is the frame the client reads one that its call's handler sent.
LEMMA ClientReads ==
  ASSUME TypeInv, toClient # <<>>
  PROVE  /\ Tail(toClient) \in Seq(AnyFrame) /\ Part(Tail(toClient), toClient)
         /\ Head(toClient) \in ToSet(toClient) /\ Head(toClient) \in AnyFrame
         /\ \A g \in ToSet(Tail(toClient)) : Before(toClient, Head(toClient), g)
         /\ \A f \in ToSet(toClient) : f = Head(toClient) \/ f \in ToSet(Tail(toClient))
         /\ \A f, g : Before(toClient, f, g) => f = Head(toClient) \/ Before(Tail(toClient), f, g)
         /\ \E c \in Calls : /\ c = CallOf(Head(toClient).streamId) /\ outcome[c] # "none"
                             /\ Head(toClient).streamId = StreamId(c)
                             /\ FromServer(c, Head(toClient)) /\ StreamId(c) < Word
<1>1. toClient \in Seq(AnyFrame)
  BY DEF TypeInv, Types
<1>2. /\ Tail(toClient) \in Seq(AnyFrame) /\ Head(toClient) \in AnyFrame
      /\ ToSet(toClient) = {Head(toClient)} \cup ToSet(Tail(toClient))
      /\ \A f, g : Before(Tail(toClient), f, g) => Before(toClient, f, g)
      /\ \A g \in ToSet(Tail(toClient)) : Before(toClient, Head(toClient), g)
      /\ \A f, g : Before(toClient, f, g) => f = Head(toClient) \/ Before(Tail(toClient), f, g)
  BY <1>1, TailFacts
<1>3. PICK c \in Calls : outcome[c] # "none" /\ FromServer(c, Head(toClient))
  BY <1>2 DEF TypeInv, SentByServer
<1>4. StreamId(c) < Word
  BY <1>3 DEF TypeInv, Ids
<1>5. Head(toClient).streamId = StreamId(c)
  <2>1. ASSUME NEW f, FromServer(c, f) PROVE f.streamId = StreamId(c)
    BY <1>4, <2>1, ServerFields DEF FromServer
  <2> QED BY <1>3, <2>1
<1>6. c = CallOf(Head(toClient).streamId)
  BY <1>5, StreamIds
<1> QED BY <1>2, <1>3, <1>4, <1>5, <1>6 DEF Part

\* What the server sends comes last, or not at all.
LEMMA SendFacts ==
  ASSUME TypeInv, NEW frame \in AnyFrame, Send(frame)
  PROVE  /\ toClient' \in Seq(AnyFrame)
         /\ \/ toClient' = toClient /\ ~(serving \in {"yes", "reset"} /\ readyState # "CLOSED")
            \/ /\ serving \in {"yes", "reset"} /\ readyState # "CLOSED"
               /\ ToSet(toClient') = ToSet(toClient) \cup {frame}
               /\ \A f, g : Before(toClient', f, g) <=>
                     Before(toClient, f, g) \/ (f \in ToSet(toClient) /\ g = frame)
<1>1. toClient \in Seq(AnyFrame)
  BY DEF TypeInv, Types
<1> QED BY <1>1, AppendFacts DEF Send

\* The resets of a shutdown come last, each once.
LEMMA ShutdownSends ==
  ASSUME TypeInv, NEW queued \in SUBSET registered, NEW order \in SetToSeqs(queued),
         toClient' = toClient \o
            [i \in DOMAIN order |->
                EncodeFrame(StreamId(order[i]), {"RST_STREAM"}, ResetCode(NO_ERROR))]
  PROVE  /\ toClient' \in Seq(AnyFrame) /\ ToSet(toClient) \subseteq ToSet(toClient')
         /\ \A f \in ToSet(toClient') : \/ f \in ToSet(toClient)
                                        \/ \E c \in registered : f = Refusal(c, NO_ERROR)
         /\ \A f, g : Before(toClient, f, g) => Before(toClient', f, g)
         /\ \A f, g : Before(toClient', f, g) /\ "RST_STREAM" \notin g.flags => Before(toClient, f, g)
<1> DEFINE q == [i \in DOMAIN order |->
                    EncodeFrame(StreamId(order[i]), {"RST_STREAM"}, ResetCode(NO_ERROR))]
<1>1. registered \subseteq Calls /\ IsFiniteSet(Calls) /\ toClient \in Seq(AnyFrame)
  BY WireAssumption DEF TypeInv, Types
<1>2. Cardinality(queued) \in Nat
  <2>1. IsFiniteSet(queued)
    BY <1>1, FS_Subset
  <2> QED BY <2>1, FS_CardinalityType
<1>3. DOMAIN order = 1 .. Cardinality(queued) /\ \A i \in DOMAIN order : order[i] \in queued
  BY DEF SetToSeqs
<1>4. \A c \in Calls : Refusal(c, NO_ERROR) \in AnyFrame /\ Refusal(c, NO_ERROR).flags = {"RST_STREAM"}
  <2>1. ASSUME NEW c \in Calls PROVE Refusal(c, NO_ERROR) \in AnyFrame
    <3>1. {"RST_STREAM"} \subseteq Flags /\ ResetCode(NO_ERROR) \in AnyPayload /\ StreamId(c) \in Nat
      BY StreamIds DEF Flags, AnyPayload, NO_ERROR
    <3> QED BY <3>1, FrameTypes DEF Refusal
  <2> QED BY <2>1 DEF Refusal, EncodeFrame
<1>5. \A i \in DOMAIN order : q[i] = Refusal(order[i], NO_ERROR) /\ order[i] \in registered
  BY <1>3 DEF Refusal
<1>6. q \in Seq(AnyFrame)
  <2>1. \A i \in DOMAIN order : q[i] \in AnyFrame
    BY <1>1, <1>4, <1>5
  <2> QED BY <1>2, <1>3, <2>1
<1>7. \A f \in ToSet(q) : \E c \in registered : f = Refusal(c, NO_ERROR)
  BY <1>5 DEF ToSet
<1>8. \A f, g : Before(q, f, g) => g \in ToSet(q)
  BY DEF ToSet, Before
<1> HIDE DEF q
<1>9. /\ toClient \o q \in Seq(AnyFrame) /\ ToSet(toClient \o q) = ToSet(toClient) \cup ToSet(q)
      /\ \A f, g : Before(toClient \o q, f, g) <=>
            Before(toClient, f, g) \/ Before(q, f, g) \/ (f \in ToSet(toClient) /\ g \in ToSet(q))
  BY <1>1, <1>6, JoinFacts
<1>10. toClient' = toClient \o q
  BY DEF q
<1>11. \A g \in ToSet(q) : "RST_STREAM" \in g.flags
  BY <1>1, <1>4, <1>7
<1> QED BY <1>7, <1>8, <1>9, <1>10, <1>11

\* HEADERS on their way are those of a call that was made.
LEMMA ComingCalls ==
  ASSUME TypeInv, NEW c \in Calls, Coming(c)
  PROVE  outcome[c] # "none" /\ ret[c] = "none"
<1>1. PICK f \in ToSet(toServer) : f.streamId = StreamId(c) /\ "HEADERS" \in f.flags
  BY DEF Coming
<1>2. PICK d \in Calls : outcome[d] # "none" /\ FromClient(d, f)
  BY DEF TypeInv, SentByClient
<1>3. d = c
  BY <1>1, <1>2, StreamIds DEF FromClient
<1> QED BY <1>2, <1>3 DEF TypeInv, Unstarted

\* A step of the client that ends the subject of one call.
LEMMA SettleTypes ==
  ASSUME TypeInv, NEW c \in Calls, outcome[c] = "waiting",
         NEW status \in {"cancelled"} \cup Range(GrpcStatus), Settle(c, status),
         UNCHANGED <<readyState, nextStreamId, asked, told, serving, stream, handler>>,
         toClient' \in Seq(AnyFrame), ToSet(toClient') \subseteq ToSet(toClient)
  PROVE  TypeInv'
<1>1. Types /\ Unstarted
  BY DEF TypeInv
<1>2. /\ outcome' \in [Calls -> {"none", "waiting", "cancelled"} \cup Range(GrpcStatus)]
      /\ \A d \in Calls : outcome'[d] = IF d = c THEN status ELSE outcome[d]
      /\ status \notin {"none", "waiting"}
      /\ streamMap' = {StreamId(d) : d \in {e \in Calls : outcome'[e] = "waiting"}}
      /\ toServer' \in Seq(AnyFrame)
      /\ Ids' /\ SentByClient' /\ InOrder'
      /\ \A f \in ToSet(toServer') : f \in ToSet(toServer) \/ f.flags = {"RST_STREAM"}
  BY SettleStep
<1>3. Types'
  BY <1>1, <1>2 DEF Types, stream, handler
<1>4. \A d \in Calls : Coming(d)' => Coming(d)
  BY <1>2 DEF Coming, StreamId
<1>5. SentByServer'
  <2>1. \A d \in Calls : said'[d] \in Nat /\ said[d] <= said'[d]
    BY <1>1, WireAssumption DEF Types, handler
  <2>2. \A d \in Calls : outcome[d] # "none" => outcome'[d] # "none"
    BY <1>2
  <2>3. ret' = ret /\ serving' = serving
    BY DEF handler
  <2> QED BY <1>4, <2>1, <2>2, <2>3, KnownToClient DEF Ending
<1>6. Unstarted'
  BY <1>1, <1>2, <1>4 DEF Unstarted, stream, handler
<1> QED BY <1>2, <1>3, <1>5, <1>6 DEF TypeInv

\* A step of the server: it reads what the client sent, starts a call whose
\* HEADERS it read, and sends what its handlers said.
ServerStep ==
    /\ UNCHANGED client /\ Types' /\ Part(toServer', toServer)
    /\ \A f \in ToSet(toClient') : \/ f \in ToSet(toClient)
                                   \/ \E c \in Calls : outcome'[c] # "none" /\ FromServer(c, f)'
    /\ \A c \in Calls : said'[c] = said[c] \/ said'[c] = said[c] + 1
    /\ \A c \in Calls : \/ ret'[c] = ret[c]
                        \/ ret[c] = "running" /\ ret'[c] # "none"
                        \/ ret[c] = "none" /\ Coming(c) /\ ~Coming(c)'
    /\ Ending => Ending'
    /\ \A c \in Calls : ret'[c] = "none" =>
        /\ heard'[c] = heard[c] /\ recvChan'[c] = recvChan[c] /\ said'[c] = said[c]
        /\ c \in registered' \cup cancelled' => c \in registered \cup cancelled

\* Such a step of the server keeps TypeInv.
LEMMA ServerTypes ==
  ASSUME TypeInv, ServerStep
  PROVE  TypeInv'
<1> USE DEF ServerStep
<1>1. Types /\ Ids /\ SentByClient /\ InOrder /\ Unstarted
  BY DEF TypeInv
<1>2. readyState' = readyState /\ nextStreamId' = nextStreamId /\ streamMap' = streamMap
      /\ asked' = asked /\ told' = told /\ outcome' = outcome
  BY DEF client
<1>3. Ids'
  BY <1>1, <1>2 DEF Ids, StreamId
<1>4. SentByClient' /\ InOrder' /\ \A c : Coming(c)' => Coming(c)
  BY <1>1, <1>2, FewerToServer
<1>5. SentByServer'
  <2>1. \A c \in Calls : said[c] \in Nat /\ said'[c] \in Nat /\ said[c] <= said'[c]
    <3>1. \A c \in Calls : said[c] \in Nat /\ (said'[c] = said[c] \/ said'[c] = said[c] + 1)
      BY <1>1, WireAssumption DEF Types
    <3> QED BY <3>1
  <2>2. /\ \A c \in Calls : outcome[c] # "none" => outcome'[c] # "none"
        /\ \A c \in Calls : Coming(c)' /\ outcome[c] # "none" => Coming(c)
    BY <1>2, <1>4
  <2>3. \A c \in Calls : \/ ret'[c] = ret[c]
                         \/ ret[c] = "running"
                         \/ ret[c] = "none" /\ Coming(c)
    OBVIOUS
  <2> QED BY <2>1, <2>2, <2>3, KnownToClient
<1>6. Unstarted'
  <2>1. ASSUME NEW c \in Calls, ret'[c] = "none"
        PROVE  /\ heard'[c] = <<>> /\ recvChan'[c] = <<>> /\ said'[c] = 0
               /\ c \notin registered' \cup cancelled'
    <3>1. ret[c] = "none"
      BY <2>1
    <3> QED BY <1>1, <2>1, <3>1 DEF Unstarted
  <2>2. ASSUME NEW c \in Calls, outcome'[c] = "none" \/ Coming(c)' PROVE ret'[c] = "none"
    <3>1. ret[c] = "none"
      BY <1>1, <1>2, <1>4, <2>2 DEF Unstarted
    <3>2. CASE ~Coming(c)'
      BY <1>2, <2>2, <3>1, <3>2, ComingCalls
    <3> QED BY <3>1, <3>2
  <2> QED BY <2>1, <2>2 DEF Unstarted
<1> QED BY <1>2, <1>3, <1>4, <1>5, <1>6 DEF TypeInv

\* The steps of the client.
LEMMA ClientTypes ==
  ASSUME TypeInv, Client
  PROVE  TypeInv'
<1>1. Types /\ Ids /\ SentByClient /\ SentByServer /\ InOrder /\ Unstarted
  BY DEF TypeInv
<1>2. \A c \in Calls : said[c] \in Nat /\ said[c] <= said[c]
  BY <1>1, WireAssumption DEF Types
<1>3. ASSUME NEW method \in Methods, NEW sizes \in Payloads,
             Request(method, sizes) \/ ClientStream(method, sizes)
      PROVE  TypeInv'
  <2>1. [method |-> method, sizes |-> sizes] \in Asked /\ OpenStream(method, sizes)
    BY <1>3 DEF Asked, Request, ClientStream
  <2> QED BY <2>1, OpenStep
<1>4. ASSUME NEW c \in Calls, Unsubscribe(c) PROVE TypeInv'
  <2>1. /\ outcome[c] = "waiting" /\ Settle(c, "cancelled") /\ toClient' = toClient
        /\ UNCHANGED <<readyState, nextStreamId, asked, told, serving, stream, handler>>
    BY <1>4 DEF Unsubscribe
  <2>2. toClient \in Seq(AnyFrame) /\ "cancelled" \in {"cancelled"} \cup Range(GrpcStatus)
    BY <1>1 DEF Types
  <2> QED BY <2>1, <2>2, SettleTypes
<1>5. CASE Exhausted
  <2>1. Types'
    BY <1>1, <1>5 DEF Exhausted, Types, stream, handler
  <2>2. Ids' /\ SentByClient' /\ InOrder' /\ Unstarted'
    BY <1>1, <1>5 DEF Exhausted, Ids, StreamId, SentByClient, FromClient, InOrder, Unstarted,
                      Coming, stream, handler
  <2>3. SentByServer'
    BY <1>1, <1>5 DEF Exhausted, SentByServer, FromServer, Ending, Coming, StreamId, stream, handler
  <2> QED BY <2>1, <2>2, <2>3 DEF TypeInv
<1>6. CASE OnMessage
  <2>1. PICK c \in Calls : /\ c = CallOf(Head(toClient).streamId) /\ outcome[c] # "none"
                           /\ Head(toClient).streamId = StreamId(c)
                           /\ FromServer(c, Head(toClient)) /\ StreamId(c) < Word
    BY <1>6, ClientReads DEF OnMessage
  <2>2. /\ toClient' = Tail(toClient) /\ toClient' \in Seq(AnyFrame)
        /\ ToSet(toClient') \subseteq ToSet(toClient) /\ Head(toClient) \in AnyFrame
        /\ UNCHANGED <<readyState, nextStreamId, asked, serving, stream, handler>>
    BY <1>6, ClientReads DEF OnMessage, Part
  <2>3. StreamId(c) \in streamMap <=> outcome[c] = "waiting"
    BY InMap
  <2>4. ASSUME UNCHANGED <<streamMap, outcome, toServer>>, told' \in [Calls -> Seq(Nat)]
        PROVE  TypeInv'
    <3>1. Types'
      BY <1>1, <2>2, <2>4 DEF Types, stream, handler
    <3>2. Ids' /\ InOrder'
      BY <1>1, <2>2, <2>4 DEF Ids, StreamId, InOrder
    <3>3. SentByClient'
      BY <1>1, <2>2, <2>4 DEF SentByClient, FromClient, StreamId
    <3>4. Unstarted'
      BY <1>1, <2>2, <2>4 DEF Unstarted, Coming, StreamId, stream, handler
    <3>5. SentByServer'
      <4>1. /\ outcome' = outcome /\ ret' = ret /\ said' = said /\ Ending' = Ending
            /\ \A d : Coming(d)' <=> Coming(d)
        BY <2>2, <2>4 DEF Ending, Coming, StreamId, handler
      <4>2. \A d, f : FromServer(d, f)' <=> FromServer(d, f)
        BY <4>1 DEF FromServer
      <4> QED BY <1>1, <2>2, <4>1, <4>2 DEF SentByServer
    <3> QED BY <3>1, <3>2, <3>3, <3>4, <3>5 DEF TypeInv
  <2>5. CASE UNCHANGED <<streamMap, told, outcome, toServer>>
    BY <1>1, <2>4, <2>5 DEF Types
  <2>6. CASE /\ told' = [told EXCEPT ![c] = Append(@, DecodeFrame(Head(toClient)).payload.n)]
             /\ "DATA" \in Head(toClient).flags /\ UNCHANGED <<streamMap, outcome, toServer>>
    <3>1. Head(toClient).payload.n \in Nat
      <4>0. ASSUME NEW k PROVE Head(toClient) # End(c, k) /\ Head(toClient) # Refusal(c, k)
        <5>1. End(c, k).flags = {"TRAILERS"} /\ Refusal(c, k).flags = {"RST_STREAM"}
          BY <2>1, ServerFields
        <5> QED BY <2>6, <5>1
      <4>1. PICK n \in 1 .. said[c] : Head(toClient) = Reply(c, n)
        BY <2>1, <4>0 DEF FromServer
      <4> QED BY <1>2, <2>1, <4>1, ServerFields
    <3>2. told[c] \in Seq(Nat) /\ told \in [Calls -> Seq(Nat)]
      BY <1>1 DEF Types
    <3>3. told' \in [Calls -> Seq(Nat)]
      BY <2>6, <3>1, <3>2 DEF DecodeFrame
    <3> QED BY <2>4, <2>6, <3>3
  <2>7. ASSUME NEW status \in Range(GrpcStatus), Settle(c, status), outcome[c] = "waiting",
               UNCHANGED told
        PROVE  TypeInv'
    BY <2>2, <2>7, SettleTypes
  <2>8. CASE /\ StreamId(c) \in streamMap /\ "TRAILERS" \in Head(toClient).flags /\ UNCHANGED told
             /\ Settle(c, GrpcStatus[Head(toClient).payload.status])
    <3>1. PICK k \in 0 .. 16 : Head(toClient) = End(c, k)
      BY <2>1, <2>8, ServerFields DEF FromServer
    <3>2. GrpcStatus[Head(toClient).payload.status] \in Range(GrpcStatus)
      BY <2>1, <3>1, ServerFields, Statuses
    <3> QED BY <2>3, <2>7, <2>8, <3>2
  <2>9. CASE /\ StreamId(c) \in streamMap /\ UNCHANGED told
             /\ Settle(c, ResetStatus(Head(toClient).payload.code))
    BY <2>3, <2>7, <2>9, Statuses
  <2> QED BY <1>6, <2>1, <2>5, <2>6, <2>8, <2>9 DEF OnMessage, DecodeFrame
<1>7. CASE OnClose
  <2>1. /\ readyState' = "CLOSED" /\ streamMap' = {} /\ toClient' = <<>> /\ toServer' = toServer
        /\ UNCHANGED <<nextStreamId, asked, told, serving, stream, handler>>
        /\ outcome' \in [Calls -> {"none", "waiting", "cancelled"} \cup Range(GrpcStatus)]
        /\ \A c \in Calls : outcome'[c] = IF outcome[c] = "waiting" THEN "UNAVAILABLE" ELSE outcome[c]
    <3>1. "UNAVAILABLE" \in Range(GrpcStatus)
      BY Statuses
    <3> QED BY <1>1, <1>7, <3>1, InMap DEF OnClose, Types
  <2>2. ToSet(<<>>) = {} /\ \A f, g : ~Before(<<>>, f, g)
    BY EmptyFacts
  <2>3. Types'
    <3>1. \A c \in Calls : outcome'[c] # "waiting"
      BY <2>1
    <3>2. streamMap' = {StreamId(c) : c \in {d \in Calls : outcome'[d] = "waiting"}}
      BY <2>1, <3>1
    <3>3. toServer' \in Seq(AnyFrame) /\ toClient' \in Seq(AnyFrame)
      BY <1>1, <2>1 DEF Types
    <3> QED BY <1>1, <2>1, <3>2, <3>3 DEF Types, stream, handler
  <2>4. Ids' /\ Unstarted' /\ SentByClient' /\ SentByServer' /\ InOrder'
    BY <1>1, <2>1, <2>2 DEF Ids, Unstarted, SentByClient, SentByServer, InOrder, Coming, StreamId,
                            FromClient, stream, handler
  <2> QED BY <2>3, <2>4 DEF TypeInv
<1> QED BY <1>3, <1>4, <1>5, <1>6, <1>7 DEF Client

\* The steps of the read loop.
LEMMA PumpTypes ==
  ASSUME TypeInv, Pump
  PROVE  TypeInv'
<1>1. Types /\ Unstarted /\ client' = client /\ eof' = eof /\ heard' = heard /\ said' = said
  BY DEF TypeInv, Pump, PumpHeaders, PumpData, PumpRst, PumpSkips, ReadError, handler
<1>2. \A c \in Calls : said[c] \in Nat /\ said[c] <= said'[c]
  BY <1>1, WireAssumption DEF Types
<1>3. CASE PumpHeaders
  <2>1. toServer # <<>> /\ toServer' = Tail(toServer) /\ "HEADERS" \in Head(toServer).flags
        /\ UNCHANGED <<client, serving, recvChan, closed, eof, heard, said>>
    BY <1>3 DEF PumpHeaders, Reads
  <2>2. /\ toServer' \in Seq(AnyFrame) /\ Part(toServer', toServer)
        /\ Head(toServer) \in ToSet(toServer)
        /\ \A g \in ToSet(toServer') : Before(toServer, Head(toServer), g)
    BY <2>1, ServerReads
  <2>3. PICK c \in Calls : /\ c = CallOf(Head(toServer).streamId) /\ outcome[c] # "none"
                           /\ FromClient(c, Head(toServer)) /\ StreamId(c) < Word
    BY <2>1, ServerReads
  <2>4. Head(toServer).streamId = StreamId(c)
    BY <2>3 DEF FromClient
  <2>5. Coming(c) /\ ret[c] = "none"
    BY <1>1, <2>1, <2>2, <2>4 DEF Coming, Unstarted
  <2>6. ~Coming(c)'
    <3>1. ~\E f \in ToSet(toServer') : f.streamId = StreamId(c) /\ "HEADERS" \in f.flags
      BY <2>2, <2>4 DEF TypeInv, InOrder
    <3> QED BY <3>1 DEF Coming, StreamId
  <2>7. ASSUME NEW code \in {RESOURCE_EXHAUSTED, REFUSED_STREAM},
               SendReset(StreamId(c), code), UNCHANGED <<registered, cancelled, ret>>
        PROVE  TypeInv'
    <3>1. code \in 0 .. 16
      BY DEF RESOURCE_EXHAUSTED, REFUSED_STREAM
    <3>2. Refusal(c, code) \in AnyFrame /\ Send(Refusal(c, code))
      BY <2>3, <2>7, <3>1, Fields DEF SendReset, Refusal
    <3>3. toClient' \in Seq(AnyFrame)
          /\ \A f \in ToSet(toClient') : f \in ToSet(toClient) \/ f = Refusal(c, code)
      BY <3>2, SendFacts
    <3>4. outcome'[c] # "none" /\ FromServer(c, Refusal(c, code))'
      BY <2>1, <2>3, <2>5, <2>6, <2>7 DEF FromServer, Refusal, client, StreamId
    <3>5. Types'
      BY <1>1, <2>1, <2>2, <2>7, <3>3 DEF Types, client
    <3>6. ServerStep
      BY <1>2, <2>1, <2>2, <2>7, <3>3, <3>4, <3>5 DEF ServerStep, Ending
    <3> QED BY <3>6, ServerTypes
  <2>8. ASSUME registered' = registered \cup {c}, ret' = [ret EXCEPT ![c] = "running"],
               cancelled' = IF serving = "stopped" THEN cancelled \cup {c} ELSE cancelled,
               toClient' = toClient
        PROVE  TypeInv'
    <3>1. Types'
      BY <1>1, <2>1, <2>2, <2>8 DEF Types, client
    <3>2. \A d \in Calls : ret'[d] = IF d = c THEN "running" ELSE ret[d]
      BY <1>1, <2>8 DEF Types
    <3>3. ServerStep
      BY <1>2, <2>1, <2>2, <2>5, <2>6, <2>8, <3>1, <3>2 DEF ServerStep, Ending
    <3> QED BY <3>3, ServerTypes
  <2> QED BY <1>3, <2>3, <2>4, <2>7, <2>8 DEF PumpHeaders
<1>4. CASE PumpData
  <2>1. toServer # <<>> /\ toServer' = Tail(toServer) /\ "DATA" \in Head(toServer).flags
        /\ UNCHANGED <<client, toClient, serving, registered, cancelled, handler>>
    BY <1>4 DEF PumpData, Reads
  <2>2. toServer' \in Seq(AnyFrame) /\ Part(toServer', toServer)
    BY <2>1, ServerReads
  <2>3. PICK c \in Calls : /\ c = CallOf(Head(toServer).streamId) /\ outcome[c] # "none"
                           /\ FromClient(c, Head(toServer)) /\ StreamId(c) < Word
    BY <2>1, ServerReads
  <2>4. Head(toServer).payload.n \in Nat
    <3>0. "DATA" \notin {"HEADERS"} /\ "DATA" \notin {"RST_STREAM"}
      OBVIOUS
    <3>1. PICK n \in DOMAIN asked[c].sizes : Head(toServer).payload = Message(n, asked[c].sizes[n])
      BY <2>1, <2>3, <3>0 DEF FromClient
    <3>2. asked[c] \in {Nothing} \cup Asked
      BY <1>1 DEF Types
    <3>3. asked[c].sizes \in Seq(0 .. (Word - 1))
      <4>1. CASE asked[c] = Nothing
        BY <4>1 DEF Nothing
      <4>2. CASE asked[c] \in Asked
        BY <4>2, WireAssumption DEF Asked
      <4> QED BY <3>2, <4>1, <4>2
    <3>4. n \in Nat
      BY <3>1, <3>3
    <3> QED BY <3>1, <3>4 DEF Message
  <2>5. CASE UNCHANGED <<recvChan, closed>>
    <3>1. Types'
      BY <1>1, <2>1, <2>2, <2>5 DEF Types, client, handler
    <3>2. ServerStep
      BY <1>2, <2>1, <2>2, <2>5, <3>1 DEF ServerStep, Ending, handler
    <3> QED BY <3>2, ServerTypes
  <2>6. CASE /\ c \in registered
             /\ recvChan' = [recvChan EXCEPT ![c] = Append(@, Head(toServer).payload.n)]
             /\ closed' = HalfClosed(c, Head(toServer))
    <3>1. recvChan[c] \in Seq(Nat) /\ recvChan \in [Calls -> Seq(Nat)]
      BY <1>1 DEF Types
    <3>2. recvChan' \in [Calls -> Seq(Nat)] /\ \A d \in Calls : d # c => recvChan'[d] = recvChan[d]
      BY <2>4, <2>6, <3>1
    <3>3. closed' \subseteq Calls
      BY <1>1, <2>6 DEF HalfClosed, Types
    <3>4. Types'
      BY <1>1, <2>1, <2>2, <3>2, <3>3 DEF Types, client, handler
    <3>5. ret'[c] # "none"
      BY <1>1, <2>1, <2>6 DEF Unstarted, handler
    <3>6. ServerStep
      BY <1>2, <2>1, <2>2, <3>2, <3>4, <3>5 DEF ServerStep, Ending, handler
    <3> QED BY <3>6, ServerTypes
  <2> QED BY <1>4, <2>3, <2>5, <2>6 DEF PumpData
<1>5. CASE PumpRst
  <2>1. toServer # <<>> /\ toServer' = Tail(toServer)
        /\ UNCHANGED <<client, toClient, serving, recvChan, handler>>
        /\ registered' \subseteq registered /\ closed' \subseteq Calls
        /\ cancelled' \cup registered' \subseteq cancelled \cup registered
    BY <1>1, <1>5 DEF PumpRst, Reads, Types
  <2>2. toServer' \in Seq(AnyFrame) /\ Part(toServer', toServer)
    BY <2>1, ServerReads
  <2>3. Types'
    BY <1>1, <2>1, <2>2 DEF Types, client, handler
  <2>4. ServerStep
    BY <1>2, <2>1, <2>2, <2>3 DEF ServerStep, Ending, handler
  <2> QED BY <2>4, ServerTypes
<1>6. CASE PumpSkips
  <2>1. toServer # <<>> /\ toServer' = Tail(toServer)
        /\ UNCHANGED <<client, toClient, serving, stream, handler>>
    BY <1>6 DEF PumpSkips
  <2>2. toServer' \in Seq(AnyFrame) /\ Part(toServer', toServer)
    BY <2>1, ServerReads
  <2>3. Types'
    BY <1>1, <2>1, <2>2 DEF Types, client, stream, handler
  <2>4. ServerStep
    BY <1>2, <2>1, <2>2, <2>3 DEF ServerStep, Ending, stream, handler
  <2> QED BY <2>4, ServerTypes
<1>7. CASE ReadError
  <2>1. /\ serving' \in {"closed", "over"} /\ Ending' = Ending
        /\ toServer' = <<>> /\ cancelled' = {c \in Calls : ret[c] # "none"}
        /\ UNCHANGED <<client, toClient, registered, recvChan, closed, handler>>
    BY <1>7 DEF ReadError, Ending, Gone
  <2>2. Part(toServer', toServer)
    BY <2>1, EmptyFacts DEF Part
  <2>3. Types'
    BY <1>1, <2>1 DEF Types, client, handler
  <2>4. ServerStep
    BY <1>2, <2>1, <2>2, <2>3 DEF ServerStep, handler
  <2> QED BY <2>4, ServerTypes
<1> QED BY <1>3, <1>4, <1>5, <1>6, <1>7 DEF Pump

\* The steps of the handlers and of a shutdown.
LEMMA HandlerTypes ==
  ASSUME TypeInv, (\E c \in Calls : Handler(c)) \/ ShutdownResets \/ ShutdownCancels
  PROVE  TypeInv'
<1>1. Types /\ Unstarted /\ client' = client /\ toServer' = toServer
  BY DEF TypeInv, Handler, Hear, HearEof, Say, Return, Unregister, ShutdownResets, ShutdownCancels
<1>2. Part(toServer', toServer) /\ toServer' \in Seq(AnyFrame)
  BY <1>1 DEF Part, Types
<1>3. \A c \in Calls : said[c] \in Nat /\ (said'[c] = said[c] => said[c] <= said'[c])
  BY <1>1, WireAssumption DEF Types
<1>4. \A c \in Calls : Running(c) => outcome[c] # "none" /\ StreamId(c) < Word
  BY DEF TypeInv, Unstarted, Ids, Running
<1>5. ASSUME NEW c \in Calls, Hear(c) PROVE TypeInv'
  <2>1. /\ heard' = [heard EXCEPT ![c] = Append(@, Head(recvChan[c]))] /\ recvChan[c] # <<>>
        /\ recvChan' = [recvChan EXCEPT ![c] = Tail(@)] /\ ret[c] = "running"
        /\ UNCHANGED <<client, toServer, toClient, serving, registered, cancelled, closed, eof,
                       said, ret>>
    BY <1>5 DEF Hear, Running
  <2>2. recvChan[c] \in Seq(Nat) /\ heard[c] \in Seq(Nat)
    BY <1>1 DEF Types
  <2>3. Append(heard[c], Head(recvChan[c])) \in Seq(Nat) /\ Tail(recvChan[c]) \in Seq(Nat)
    BY <2>1, <2>2
  <2>4. Types'
    BY <1>1, <2>1, <2>3 DEF Types, client
  <2>5. \A d \in Calls : d # c => heard'[d] = heard[d] /\ recvChan'[d] = recvChan[d]
    BY <1>1, <2>1 DEF Types
  <2>6. ServerStep
    BY <1>1, <1>2, <1>3, <2>1, <2>4, <2>5 DEF ServerStep, Ending
  <2> QED BY <2>6, ServerTypes
<1>6. ASSUME NEW c \in Calls, HearEof(c) PROVE TypeInv'
  <2>1. /\ eof' = eof \cup {c}
        /\ UNCHANGED <<client, toServer, toClient, serving, stream, heard, said, ret>>
    BY <1>6 DEF HearEof
  <2>2. Types'
    BY <1>1, <2>1 DEF Types, client, stream
  <2>3. ServerStep
    BY <1>1, <1>2, <1>3, <2>1, <2>2 DEF ServerStep, Ending, stream
  <2> QED BY <2>3, ServerTypes
<1>7. ASSUME NEW c \in Calls, Say(c) PROVE TypeInv'
  <2>0. PICK n \in Nat : n = said[c] + 1
    BY <1>3
  <2>1. /\ ret[c] = "running" /\ said[c] < Replies(asked[c].method)
        /\ said' = [said EXCEPT ![c] = @ + 1] /\ Send(Reply(c, n))
        /\ UNCHANGED <<client, toServer, serving, stream, eof, heard, ret>>
    BY <1>7, <2>0 DEF Say, Running, Reply
  <2>2. Replies(asked[c].method) \in Nat /\ Replies(asked[c].method) <= MaxReplies
    BY WireAssumption DEF Replies
  <2>3. n \in 0 .. MaxReplies /\ n \in 1 .. n
    BY <1>3, <2>0, <2>1, <2>2, WireAssumption
  <2>4. /\ said' \in [Calls -> 0 .. MaxReplies] /\ said'[c] = n
        /\ \A d \in Calls : d # c => said'[d] = said[d]
    BY <1>1, <2>0, <2>1, <2>3 DEF Types
  <2>5. Reply(c, n) \in AnyFrame
    BY <1>4, <2>1, <2>3, Fields DEF Running
  <2>6. /\ toClient' \in Seq(AnyFrame)
        /\ \A f \in ToSet(toClient') : f \in ToSet(toClient) \/ f = Reply(c, n)
    BY <2>1, <2>5, SendFacts
  <2>7. Types'
    BY <1>1, <2>1, <2>4, <2>6 DEF Types, client, stream
  <2>8. FromServer(c, Reply(c, n))'
    <3>1. n \in 1 .. said'[c]
      BY <2>3, <2>4
    <3> QED BY <3>1 DEF FromServer, Reply, StreamId
  <2>9. outcome'[c] # "none"
    BY <1>4, <2>1 DEF client, Running
  <2>10. \A d \in Calls : said'[d] = said[d] \/ said'[d] = said[d] + 1
    BY <2>0, <2>4
  <2>11. ServerStep
    BY <1>1, <1>2, <2>1, <2>4, <2>6, <2>7, <2>8, <2>9, <2>10 DEF ServerStep, Ending, stream
  <2> QED BY <2>11, ServerTypes
<1>8. ASSUME NEW c \in Calls, NEW code \in {0} \cup Failures, Return(c, code) PROVE TypeInv'
  <2>1. /\ ret[c] = "running" /\ ret' = [ret EXCEPT ![c] = GrpcStatus[code]]
        /\ Send(End(c, code))
        /\ UNCHANGED <<client, toServer, serving, stream, eof, heard, said>>
    BY <1>8 DEF Return, Running, End
  <2>2. code \in 0 .. 16
    BY WireAssumption
  <2>3. GrpcStatus[code] \in Range(GrpcStatus) /\ GrpcStatus[code] # "none"
    BY <2>2, Statuses
  <2>4. /\ ret' \in [Calls -> {"none", "running"} \cup Range(GrpcStatus)]
        /\ \A d \in Calls : ret'[d] = IF d = c THEN GrpcStatus[code] ELSE ret[d]
    BY <1>1, <2>1, <2>3 DEF Types
  <2>5. End(c, code) \in AnyFrame
    BY <1>4, <2>1, <2>2, Fields DEF Running
  <2>6. /\ toClient' \in Seq(AnyFrame)
        /\ \A f \in ToSet(toClient') : f \in ToSet(toClient) \/ f = End(c, code)
    BY <2>1, <2>5, SendFacts
  <2>7. Types'
    BY <1>1, <2>1, <2>4, <2>6 DEF Types, client, stream
  <2>8. FromServer(c, End(c, code))'
    BY <2>2, <2>4 DEF FromServer, End, StreamId
  <2>9. outcome'[c] # "none"
    BY <1>4, <2>1 DEF client, Running
  <2>10. ServerStep
    BY <1>1, <1>2, <1>3, <2>1, <2>3, <2>4, <2>6, <2>7, <2>8, <2>9 DEF ServerStep, Ending, stream
  <2> QED BY <2>10, ServerTypes
<1>9. ASSUME NEW c \in Calls, Unregister(c) PROVE TypeInv'
  <2>1. /\ c \in registered /\ registered' = registered \ {c} /\ cancelled' = cancelled \cup {c}
        /\ UNCHANGED <<client, toServer, toClient, serving, recvChan, closed, handler>>
    BY <1>9 DEF Unregister
  <2>2. Types'
    BY <1>1, <2>1 DEF Types, client, handler
  <2>3. ServerStep
    BY <1>1, <1>2, <1>3, <2>1, <2>2 DEF ServerStep, Ending, handler
  <2> QED BY <2>3, ServerTypes
<1>10. CASE ShutdownResets
  <2>1. /\ serving' = "reset" /\ cancelled' = cancelled \cup registered
        /\ UNCHANGED <<client, toServer, registered, recvChan, closed, handler>> /\ Ending'
    BY <1>10 DEF ShutdownResets, Ending
  <2>2. PICK queued \in SUBSET registered : \E order \in SetToSeqs(queued) :
            toClient' = IF readyState = "CLOSED" THEN toClient ELSE toClient \o
                [i \in DOMAIN order |->
                    EncodeFrame(StreamId(order[i]), {"RST_STREAM"}, ResetCode(NO_ERROR))]
    BY <1>10 DEF ShutdownResets
  <2>3. /\ toClient' \in Seq(AnyFrame)
        /\ \A f \in ToSet(toClient') : \/ f \in ToSet(toClient)
                                       \/ \E c \in registered : f = Refusal(c, NO_ERROR)
    <3>1. CASE toClient' = toClient
      BY <1>1, <3>1 DEF Types
    <3> QED BY <2>2, <3>1, ShutdownSends
  <2>4. \A c \in registered : outcome'[c] # "none" /\ c \in Calls /\ FromServer(c, Refusal(c, NO_ERROR))'
    BY <1>1, <2>1 DEF Unstarted, Types, FromServer, Refusal, StreamId, client
  <2>5. Types'
    BY <1>1, <2>1, <2>3 DEF Types, client, handler
  <2>6. ServerStep
    BY <1>1, <1>2, <1>3, <2>1, <2>3, <2>4, <2>5 DEF ServerStep, handler
  <2> QED BY <2>6, ServerTypes
<1>11. CASE ShutdownCancels
  <2>1. /\ serving' = "stopped" /\ cancelled' = {c \in Calls : ret[c] # "none"}
        /\ UNCHANGED <<client, toServer, registered, recvChan, closed, handler>> /\ Ending'
    BY <1>11 DEF ShutdownCancels, Ending
  <2>2. PICK n \in 0 .. Len(toClient) : toClient' = SubSeq(toClient, 1, n)
    BY <1>11 DEF ShutdownCancels
  <2>3. toClient' \in Seq(AnyFrame) /\ ToSet(toClient') \subseteq ToSet(toClient)
    <3>1. toClient \in Seq(AnyFrame)
      BY <1>1 DEF Types
    <3> QED BY <2>2, <3>1, PrefixFacts
  <2>4. Types'
    BY <1>1, <2>1, <2>3 DEF Types, client, handler
  <2>5. ServerStep
    BY <1>1, <1>2, <1>3, <2>1, <2>3, <2>4 DEF ServerStep, handler
  <2> QED BY <2>5, ServerTypes
<1> QED BY <1>5, <1>6, <1>7, <1>8, <1>9, <1>10, <1>11 DEF Handler

\* The first state, and a step of any kind.
LEMMA TypeInit == Init => TypeInv
<1> SUFFICES ASSUME Init PROVE TypeInv
  OBVIOUS
<1>1. FirstId \in Nat /\ Word \in Nat /\ MaxReplies \in Nat
  BY WireAssumption, FrameAssumption
<1>2. \A c \in Calls : outcome[c] = "none" /\ asked[c] = Nothing /\ ret[c] = "none"
                       /\ heard[c] = <<>> /\ recvChan[c] = <<>> /\ said[c] = 0
  BY DEF Init
<1>3. Types
  <2>1. streamMap = {StreamId(c) : c \in {d \in Calls : outcome[d] = "waiting"}}
    BY <1>2 DEF Init
  <2> QED BY <1>1, <2>1 DEF Init, Types
<1>4. Ids
  <2>1. 0 \in Nat /\ nextStreamId = FirstId + 2 * 0
    BY <1>1 DEF Init
  <2>2. ASSUME NEW c \in Calls PROVE StreamId(c) >= nextStreamId
    <3>1. c \in Nat /\ c >= 1
      BY WireAssumption
    <3> QED BY <1>1, <3>1 DEF StreamId, Init
  <2> QED BY <1>2, <2>1, <2>2 DEF Ids
<1>5. SentByClient /\ SentByServer /\ InOrder /\ \A c : ~Coming(c)
  BY EmptyFacts DEF Init, SentByClient, SentByServer, InOrder, Coming
<1>6. Unstarted
  BY <1>2 DEF Unstarted, Init
<1> QED BY <1>3, <1>4, <1>5, <1>6 DEF TypeInv

\* Every step keeps TypeInv.
LEMMA TypeStep ==
  ASSUME TypeInv, [Next]_vars PROVE TypeInv'
<1>1. CASE Client
  BY <1>1, ClientTypes
<1>2. CASE Pump
  BY <1>2, PumpTypes
<1>3. CASE (\E c \in Calls : Handler(c)) \/ ShutdownResets \/ ShutdownCancels
  BY <1>3, HandlerTypes
<1>4. CASE UNCHANGED vars
  <2>1. Types'
    BY <1>4 DEF vars, client, stream, handler, TypeInv, Types
  <2>2. ServerStep
    BY <1>4, <2>1 DEF vars, client, stream, handler, ServerStep, Ending, Part
  <2> QED BY <2>2, ServerTypes
<1> QED BY <1>1, <1>2, <1>3, <1>4 DEF Next

-----------------------------------------------------------------------------
(* A reset stops no call but its own.                                      *)

\* A step of the client leaves the server alone; a call starts to wait when it
\* is made.
LEMMA ClientSteps ==
  ASSUME TypeInv, Client
  PROVE  /\ UNCHANGED <<serving, stream, handler>>
         /\ \A c \in Calls : outcome'[c] = "waiting" => outcome[c] \in {"none", "waiting"}
         /\ \A c \in Calls : outcome[c] # "none" => asked'[c] = asked[c] /\ outcome'[c] # "none"
<1>1. Types
  BY DEF TypeInv
<1>2. ASSUME NEW method \in Methods, NEW sizes \in Payloads, OpenStream(method, sizes)
      PROVE  /\ UNCHANGED <<serving, stream, handler>>
             /\ \A c \in Calls : outcome'[c] = "waiting" => outcome[c] \in {"none", "waiting"}
             /\ \A c \in Calls : outcome[c] # "none" => asked'[c] = asked[c] /\ outcome'[c] # "none"
  <2>1. CallOf(nextStreamId) \in Calls /\ outcome[CallOf(nextStreamId)] = "none"
    BY <1>2, NextCall DEF OpenStream
  <2> QED BY <1>1, <1>2, <2>1 DEF OpenStream, Types
<1>3. ASSUME NEW c \in Calls, NEW status \in {"cancelled"} \cup Range(GrpcStatus), Settle(c, status)
      PROVE  \A d \in Calls : /\ outcome'[d] = "waiting" => outcome[d] \in {"none", "waiting"}
                              /\ outcome[d] # "none" => outcome'[d] # "none"
  BY <1>1, <1>3, Statuses DEF Types, Settle
<1>4. ASSUME NEW c \in Calls, Unsubscribe(c)
      PROVE  /\ UNCHANGED <<serving, stream, handler>>
             /\ \A d \in Calls : outcome'[d] = "waiting" => outcome[d] \in {"none", "waiting"}
             /\ \A d \in Calls : outcome[d] # "none" => asked'[d] = asked[d] /\ outcome'[d] # "none"
  BY <1>3, <1>4 DEF Unsubscribe
<1>5. CASE Exhausted
  BY <1>5 DEF Exhausted
<1>6. CASE OnMessage
  <2>1. PICK c \in Calls : /\ c = CallOf(Head(toClient).streamId) /\ outcome[c] # "none"
                           /\ Head(toClient).streamId = StreamId(c)
                           /\ FromServer(c, Head(toClient)) /\ StreamId(c) < Word
    BY <1>6, ClientReads DEF OnMessage
  <2>2. CASE "TRAILERS" \in Head(toClient).flags /\ Settle(c, GrpcStatus[Head(toClient).payload.status])
    <3>1. PICK k \in 0 .. 16 : Head(toClient) = End(c, k)
      BY <2>1, <2>2, ServerFields DEF FromServer
    <3>2. GrpcStatus[Head(toClient).payload.status] \in Range(GrpcStatus)
      BY <2>1, <3>1, ServerFields, Statuses
    <3> QED BY <1>3, <1>6, <2>2, <3>2 DEF OnMessage
  <2>3. CASE Settle(c, ResetStatus(Head(toClient).payload.code))
    BY <1>3, <1>6, <2>3, Statuses DEF OnMessage
  <2>4. CASE UNCHANGED outcome
    BY <1>1, <1>6, <2>4 DEF OnMessage, Types
  <2> QED BY <1>6, <2>1, <2>2, <2>3, <2>4 DEF OnMessage, DecodeFrame
<1>7. CASE OnClose
  BY <1>1, <1>7 DEF OnClose, Types
<1> QED BY <1>2, <1>4, <1>5, <1>6, <1>7 DEF Client, Request, ClientStream

\* Every step keeps it that only a settled call's reset is on its way.
LEMMA HarmlessStep ==
  ASSUME TypeInv, Harmless, [Next]_vars PROVE Harmless'
<1>1. Types /\ Unstarted
  BY DEF TypeInv
<1> SUFFICES ASSUME serving' = "yes"
             PROVE  /\ cancelled' \cap registered' = {}
                    /\ \A c \in Calls : ret'[c] = "running" /\ c \in cancelled' => outcome'[c] # "waiting"
  BY DEF Harmless, Running
<1>2. CASE Client
  <2>1. serving = "yes" /\ registered' = registered /\ cancelled' = cancelled /\ ret' = ret
        /\ \A c \in Calls : outcome'[c] = "waiting" => outcome[c] \in {"none", "waiting"}
    BY <1>2, ClientSteps DEF stream, handler
  <2> QED BY <1>1, <2>1 DEF Harmless, Running, Unstarted
<1>3. CASE PumpHeaders
  <2>1. toServer # <<>> /\ "HEADERS" \in Head(toServer).flags /\ serving = "yes" /\ outcome' = outcome
    BY <1>3 DEF PumpHeaders, Reads, client
  <2>2. PICK c \in Calls : /\ c = CallOf(Head(toServer).streamId) /\ outcome[c] # "none"
                           /\ FromClient(c, Head(toServer)) /\ StreamId(c) < Word
    BY <2>1, ServerReads
  <2>3. ret[c] = "none" /\ c \notin cancelled
    <3>1. Coming(c)
      BY <2>1, <2>2, ServerReads DEF Coming, FromClient
    <3> QED BY <1>1, <3>1 DEF Unstarted
  <2> QED BY <1>1, <1>3, <2>1, <2>2, <2>3 DEF PumpHeaders, Harmless, Running, Types
<1>4. CASE PumpData \/ PumpSkips
  BY <1>4 DEF PumpData, PumpSkips, Harmless, Running, client, stream, handler
<1>5. CASE PumpRst
  <2>1. /\ toServer # <<>> /\ "RST_STREAM" \in Head(toServer).flags /\ serving = "yes"
        /\ outcome' = outcome /\ ret' = ret
    BY <1>5 DEF PumpRst, Reads, client, handler
  <2>2. PICK c \in Calls : /\ c = CallOf(Head(toServer).streamId) /\ outcome[c] # "none"
                           /\ FromClient(c, Head(toServer)) /\ StreamId(c) < Word
    BY <2>1, ServerReads
  <2>3. outcome[c] # "waiting"
    BY <2>1, <2>2 DEF FromClient, DataFlags
  <2> QED BY <1>5, <2>1, <2>2, <2>3 DEF PumpRst, Harmless, Running
<1>6. CASE ReadError \/ ShutdownResets \/ ShutdownCancels
  BY <1>6 DEF ReadError, ShutdownResets, ShutdownCancels
<1>7. ASSUME NEW c \in Calls, Handler(c)
      PROVE  /\ cancelled' \cap registered' = {}
             /\ \A d \in Calls : ret'[d] = "running" /\ d \in cancelled' => outcome'[d] # "waiting"
  <2>1. CASE Hear(c) \/ HearEof(c) \/ Say(c)
    BY <2>1 DEF Hear, HearEof, Say, Harmless, Running, client, stream
  <2>2. CASE \E code \in {0} \cup Failures : Return(c, code)
    <3>1. PICK code \in {0} \cup Failures : Return(c, code)
      BY <2>2
    <3>2. code \in 0 .. 16
      BY WireAssumption
    <3>3. GrpcStatus[code] # "running"
      BY <3>2, Statuses
    <3> QED BY <1>1, <3>1, <3>3 DEF Return, Harmless, Running, Types, client, stream
  <2>3. CASE Unregister(c)
    BY <2>3 DEF Unregister, Harmless, Running, client, handler
  <2> QED BY <1>7, <2>1, <2>2, <2>3 DEF Handler
<1>8. CASE UNCHANGED vars
  BY <1>8 DEF vars, client, stream, handler, Harmless, Running
<1> QED BY <1>2, <1>3, <1>4, <1>5, <1>6, <1>7, <1>8 DEF Next, Pump

-----------------------------------------------------------------------------
(* The messages of a call reach its handler in order and without a gap.    *)

\* What RecvMsg takes from the buffer is the next in order.
LEMMA HearCarries ==
  ASSUME NEW S, NEW h \in Seq(S), NEW r \in Seq(S), r # <<>>
  PROVE  Append(h, Head(r)) \o Tail(r) = h \o r
<1>1. Head(r) \in S /\ Tail(r) \in Seq(S) /\ Len(Tail(r)) = Len(r) - 1
      /\ \A i \in 1 .. Len(Tail(r)) : Tail(r)[i] = r[i + 1]
  BY HeadTailProperties
<1>2. r = <<Head(r)>> \o Tail(r)
  <2>1. Len(r) \in 1 .. Len(r) /\ 1 \in 1 .. Len(r)
    <3>1. Len(r) \in Nat /\ Len(r) # 0
      BY EmptySeq, LenProperties
    <3> QED BY <3>1
  <2>2. SubSeq(r, 1, Len(r)) = <<r[1]>> \o SubSeq(r, 1 + 1, Len(r))
    BY <2>1, SubSeqRecursiveFirst
  <2>3. SubSeq(r, 1, Len(r)) = r /\ SubSeq(r, 2, Len(r)) = Tail(r) /\ 1 + 1 = 2 /\ Head(r) = r[1]
    BY SubSeqFull, TailIsSubSeq
  <2> QED BY <2>2, <2>3
<1>3. Append(h, Head(r)) = h \o <<Head(r)>> /\ <<Head(r)>> \in Seq(S)
  BY <1>1, AppendIsConcat
<1>4. (h \o <<Head(r)>>) \o Tail(r) = h \o (<<Head(r)>> \o Tail(r))
  <2>1. ASSUME NEW x \in Seq(S), NEW y \in Seq(S) PROVE (h \o x) \o y = h \o (x \o y)
    BY ConcatAssociative, SMTT(60)
  <2> QED BY <1>1, <1>3, <2>1
<1> QED BY <1>2, <1>3, <1>4

\* What the read loop puts into the buffer comes last.
LEMMA DataCarries ==
  ASSUME NEW h \in Seq(Nat), NEW r \in Seq(Nat), NEW n \in Nat
  PROVE  h \o Append(r, n) = Append(h \o r, n)
<1>1. <<n>> \in Seq(Nat) /\ Append(r, n) = r \o <<n>>
  BY AppendIsConcat
<1>2. h \o r \in Seq(Nat)
  BY ConcatProperties
<1>3. Append(h \o r, n) = (h \o r) \o <<n>>
  BY <1>2, AppendIsConcat
<1>4. (h \o r) \o <<n>> = h \o (r \o <<n>>)
  BY <1>1, ConcatAssociative, SMTT(60)
<1> QED BY <1>1, <1>3, <1>4

\* What the handler of c has heard, and what its buffer holds, in this order.
LEMMA CarriedTypes ==
  ASSUME TypeInv, NEW c \in Calls
  PROVE  /\ heard[c] \in Seq(Nat) /\ recvChan[c] \in Seq(Nat) /\ Carried(c) \in Seq(Nat)
         /\ ToSet(Carried(c)) = ToSet(heard[c]) \cup ToSet(recvChan[c])
         /\ \A i, j : Before(Carried(c), i, j) <=>
              \/ Before(heard[c], i, j)
              \/ Before(recvChan[c], i, j)
              \/ i \in ToSet(heard[c]) /\ j \in ToSet(recvChan[c])
<1>1. heard[c] \in Seq(Nat) /\ recvChan[c] \in Seq(Nat)
  BY DEF TypeInv, Types
<1> QED BY <1>1, JoinFacts DEF Carried

\* A message of c is one of those its caller was asked to send.
LEMMA DataFields ==
  ASSUME TypeInv, NEW f \in ToSet(toServer), "DATA" \in f.flags,
         NEW c \in Calls, f.streamId = StreamId(c)
  PROVE  /\ f.payload.n \in DOMAIN asked[c].sizes /\ f.payload.n \in Nat
         /\ asked[c].sizes[f.payload.n] = f.payload.size /\ f.length = f.payload.size
         /\ outcome[c] # "none"
<1>1. PICK d \in Calls : outcome[d] # "none" /\ FromClient(d, f)
  BY DEF TypeInv, SentByClient
<1>2. d = c
  BY <1>1, StreamIds DEF FromClient
<1>3. PICK n \in DOMAIN asked[c].sizes :
         f.payload = Message(n, asked[c].sizes[n]) /\ f.length = f.payload.size
  BY <1>1, <1>2 DEF FromClient
<1>4. asked[c].sizes \in Seq(0 .. (Word - 1))
  <2>1. asked[c] \in {Nothing} \cup Asked
    BY DEF TypeInv, Types
  <2>2. CASE asked[c] = Nothing
    BY <2>2 DEF Nothing
  <2>3. CASE asked[c] \in Asked
    BY <2>3, WireAssumption DEF Asked
  <2> QED BY <2>1, <2>2, <2>3
<1>5. n \in Nat
  BY <1>3, <1>4
<1> QED BY <1>1, <1>2, <1>3, <1>5 DEF Message

\* A step that carries no message to a handler.
LEMMA CarriesNothing ==
  ASSUME TypeInv, CarriedInOrder, \A c \in Calls : Carried(c)' = Carried(c),
         \A c \in Calls : outcome[c] # "none" => asked'[c] = asked[c],
         \A f \in ToSet(toServer') : \/ f \in ToSet(toServer)
                                     \/ "DATA" \notin f.flags
                                     \/ \E c \in Calls : outcome[c] = "none" /\ f.streamId = StreamId(c),
         Ending => Ending'
  PROVE  CarriedInOrder'
<1> SUFFICES ASSUME NEW c \in Calls
             PROVE  /\ \A i, j : Before(Carried(c), i, j) => i < j
                    /\ \A i \in ToSet(Carried(c)) :
                        /\ FitsAt(c, i)'
                        /\ \A f \in ToSet(toServer') :
                            f.streamId = StreamId(c) /\ "DATA" \in f.flags => i < f.payload.n
                        /\ ~Ending' =>
                            \A j \in 1 .. (i - 1) : FitsAt(c, j)' => j \in ToSet(Carried(c))
  BY DEF CarriedInOrder, StreamId
<1>1. CASE outcome[c] = "none"
  <2>1. heard[c] = <<>> /\ recvChan[c] = <<>>
    BY <1>1 DEF TypeInv, Unstarted
  <2>2. Carried(c) = <<>>
    <3>1. <<>> \in Seq(Nat) /\ <<>> \o <<>> = <<>>
      OBVIOUS
    <3> QED BY <2>1, <3>1 DEF Carried
  <2> QED BY <2>2, EmptyFacts
<1>2. CASE outcome[c] # "none"
  <2>1. \A i : FitsAt(c, i)' <=> FitsAt(c, i)
    BY <1>2 DEF FitsAt
  <2>2. \A f \in ToSet(toServer') :
            f.streamId = StreamId(c) /\ "DATA" \in f.flags => f \in ToSet(toServer)
    BY <1>2, StreamIds
  <2> QED BY <2>1, <2>2 DEF CarriedInOrder
<1> QED BY <1>1, <1>2

\* A message that finds its stream is the next of those that fit.
LEMMA DataCarried ==
  ASSUME TypeInv, Harmless, CarriedInOrder, NoneMissing, PumpData
  PROVE  CarriedInOrder'
<1> DEFINE f == Head(toServer)
<1>1. /\ toServer # <<>> /\ toServer' = Tail(toServer) /\ "DATA" \in f.flags /\ Decodes(f)
      /\ UNCHANGED <<client, toClient, serving, registered, cancelled, handler>>
      /\ Ending' = Ending /\ (~Ending => serving = "yes")
  BY DEF PumpData, Reads, Gone, Ending, TypeInv, Types
<1>2. /\ f \in ToSet(toServer) /\ Part(Tail(toServer), toServer)
      /\ \A g \in ToSet(Tail(toServer)) : Before(toServer, f, g)
      /\ \A g, h : Before(toServer, g, h) => g = f \/ Before(Tail(toServer), g, h)
  BY <1>1, ServerReads
<1>3. PICK c \in Calls : c = CallOf(f.streamId) /\ f.streamId = StreamId(c)
  BY <1>1, ServerReads DEF FromClient
<1> HIDE DEF f
<1>4. PICK n : n = f.payload.n
  OBVIOUS
<1>5. n \in Nat /\ FitsAt(c, n)
  BY <1>1, <1>2, <1>3, <1>4, DataFields DEF Decodes, FitsAt
<1>6. heard' = heard /\ asked' = asked /\ outcome' = outcome /\ serving' = serving
  BY <1>1 DEF client, handler
<1>7. CASE recvChan' = recvChan
  <2>1. \A d \in Calls : Carried(d)' = Carried(d)
    BY <1>6, <1>7 DEF Carried
  <2> QED BY <1>1, <1>2, <1>6, <2>1, CarriesNothing DEF Part
<1>8. CASE c \in registered /\ recvChan' = [recvChan EXCEPT ![c] = Append(@, n)]
  <2>1. recvChan'[c] = Append(recvChan[c], n) /\ \A d \in Calls : d # c => recvChan'[d] = recvChan[d]
    BY <1>8 DEF TypeInv, Types
  <2>2. heard[c] \in Seq(Nat) /\ recvChan[c] \in Seq(Nat) /\ Carried(c) \in Seq(Nat)
    BY CarriedTypes
  <2>3. Carried(c)' = Append(Carried(c), n)
    <3>1. heard[c] \o Append(recvChan[c], n) = Append(heard[c] \o recvChan[c], n)
      BY <1>5, <2>2, DataCarries
    <3> QED BY <1>6, <2>1, <3>1 DEF Carried
  <2>4. /\ ToSet(Append(Carried(c), n)) = ToSet(Carried(c)) \cup {n}
        /\ \A i, j : Before(Append(Carried(c), n), i, j) <=>
              Before(Carried(c), i, j) \/ (i \in ToSet(Carried(c)) /\ j = n)
    BY <1>5, <2>2, AppendFacts
  <2>5. \A i \in ToSet(Carried(c)) : i < n
    BY <1>1, <1>2, <1>3, <1>4 DEF CarriedInOrder
  <2>6. ASSUME NEW g \in ToSet(Tail(toServer)), g.streamId = StreamId(c), "DATA" \in g.flags
        PROVE  n < g.payload.n
    BY <1>1, <1>2, <1>3, <1>4, <2>6 DEF TypeInv, InOrder
  <2>7. ~Before(toServer, f, f)
    <3>1. ~(n < n)
      BY <1>5
    <3> QED BY <1>1, <1>4, <3>1 DEF TypeInv, InOrder
  <2>8. ASSUME ~Ending, NEW j \in 1 .. (n - 1), FitsAt(c, j) PROVE j \in ToSet(Carried(c))
    <3> SUFFICES ASSUME NEW g, Before(toServer, g, f) PROVE FALSE
      BY <1>1, <1>2, <1>3, <1>4, <1>8, <2>8 DEF NoneMissing
    <3>1. Before(Tail(toServer), g, f)
      BY <1>2, <2>7
    <3>2. f \in ToSet(Tail(toServer))
      BY <3>1 DEF Before, ToSet
    <3> QED BY <1>2, <2>7, <3>2
  <2>9. ASSUME NEW d \in Calls
        PROVE  /\ \A i, j : Before(Carried(d)', i, j) => i < j
               /\ \A i \in ToSet(Carried(d)') :
                   /\ FitsAt(d, i)
                   /\ \A g \in ToSet(Tail(toServer)) :
                       g.streamId = StreamId(d) /\ "DATA" \in g.flags => i < g.payload.n
                   /\ ~Ending =>
                       \A j \in 1 .. (i - 1) : FitsAt(d, j) => j \in ToSet(Carried(d)')
    <3>1. CASE d = c
      <4>1. \A i, j : Before(Carried(c)', i, j) => i < j
        BY <2>3, <2>4, <2>5 DEF CarriedInOrder
      <4>2. \A i \in ToSet(Carried(c)') : FitsAt(c, i)
        BY <1>5, <2>3, <2>4 DEF CarriedInOrder
      <4>3. \A i \in ToSet(Carried(c)') : \A g \in ToSet(Tail(toServer)) :
                 g.streamId = StreamId(c) /\ "DATA" \in g.flags => i < g.payload.n
        BY <1>2, <2>3, <2>4, <2>6 DEF CarriedInOrder, Part
      <4>4. ASSUME NEW i \in ToSet(Carried(c)'), ~Ending, NEW j \in 1 .. (i - 1), FitsAt(c, j)
            PROVE  j \in ToSet(Carried(c)')
        BY <2>3, <2>4, <2>8, <4>4 DEF CarriedInOrder
      <4> QED BY <3>1, <4>1, <4>2, <4>3, <4>4
    <3>2. CASE d # c
      <4>1. Carried(d)' = Carried(d)
        BY <1>6, <2>1, <3>2 DEF Carried
      <4> QED BY <1>2, <4>1 DEF CarriedInOrder, Part
    <3> QED BY <3>1, <3>2
  <2> QED BY <1>1, <1>6, <2>9 DEF CarriedInOrder, FitsAt, StreamId
<1> QED BY <1>3, <1>4, <1>7, <1>8 DEF PumpData, f

\* What the client does to the frames on their way to the server.
LEMMA ClientSends ==
  ASSUME TypeInv, Client
  PROVE  /\ \A f \in ToSet(toServer') :
              \/ f \in ToSet(toServer)
              \/ f.flags = {"RST_STREAM"}
              \/ \E c \in Calls : outcome[c] = "none" /\ f.streamId = StreamId(c)
         /\ \A f, g : Before(toServer, f, g) => Before(toServer', f, g)
         /\ \A g \in ToSet(toServer') \ ToSet(toServer) : "DATA" \in g.flags =>
              \A j \in 1 .. (g.payload.n - 1) :
                 \E f : Before(toServer', f, g) /\ f.streamId = g.streamId
                        /\ "DATA" \in f.flags /\ f.payload.n = j
<1> DEFINE Goal ==
         /\ \A f \in ToSet(toServer') :
              \/ f \in ToSet(toServer)
              \/ f.flags = {"RST_STREAM"}
              \/ \E c \in Calls : outcome[c] = "none" /\ f.streamId = StreamId(c)
         /\ \A f, g : Before(toServer, f, g) => Before(toServer', f, g)
         /\ \A g \in ToSet(toServer') \ ToSet(toServer) : "DATA" \in g.flags =>
              \A j \in 1 .. (g.payload.n - 1) :
                 \E f : Before(toServer', f, g) /\ f.streamId = g.streamId
                        /\ "DATA" \in f.flags /\ f.payload.n = j
<1>1. ASSUME NEW method \in Methods, NEW sizes \in Payloads,
             Request(method, sizes) \/ ClientStream(method, sizes)
      PROVE  Goal
  <2>1. [method |-> method, sizes |-> sizes] \in Asked /\ OpenStream(method, sizes)
    BY <1>1 DEF Asked, Request, ClientStream
  <2>2. CallOf(nextStreamId) \in Calls /\ outcome[CallOf(nextStreamId)] = "none"
    BY <2>1, NextCall DEF OpenStream
  <2>3. \A f \in ToSet(toServer') :
            f \in ToSet(toServer) \/ f.streamId = StreamId(CallOf(nextStreamId))
    BY <2>1, OpenStep
  <2>4. \A f, g : Before(toServer, f, g) => Before(toServer', f, g)
    BY <2>1, OpenStep
  <2>5. \A g \in ToSet(toServer') \ ToSet(toServer) : "DATA" \in g.flags =>
              \A j \in 1 .. (g.payload.n - 1) :
                 \E f : Before(toServer', f, g) /\ f.streamId = g.streamId
                        /\ "DATA" \in f.flags /\ f.payload.n = j
    BY <2>1, OpenStep
  <2> QED BY <2>2, <2>3, <2>4, <2>5
<1>2. ASSUME toServer' = toServer PROVE Goal
  BY <1>2
<1>3. ASSUME NEW c \in Calls, outcome[c] = "waiting", asked' = asked, nextStreamId' = nextStreamId,
             NEW status \in {"cancelled"} \cup Range(GrpcStatus), Settle(c, status)
      PROVE  Goal
  <2>1. /\ \A f \in ToSet(toServer') : f \in ToSet(toServer) \/ f.flags = {"RST_STREAM"}
        /\ \A f, g : Before(toServer, f, g) => Before(toServer', f, g)
    BY <1>3, SettleStep
  <2> QED BY <2>1
<1>4. ASSUME NEW c \in Calls, Unsubscribe(c) PROVE Goal
  <2>1. "cancelled" \in {"cancelled"} \cup Range(GrpcStatus)
    OBVIOUS
  <2> QED BY <1>3, <1>4, <2>1 DEF Unsubscribe
<1>5. ASSUME Exhausted PROVE Goal
  BY <1>2, <1>5 DEF Exhausted
<1>6. ASSUME OnMessage PROVE Goal
  <2>1. PICK c \in Calls : /\ c = CallOf(Head(toClient).streamId) /\ outcome[c] # "none"
                           /\ Head(toClient).streamId = StreamId(c)
                           /\ FromServer(c, Head(toClient)) /\ StreamId(c) < Word
    BY <1>6, ClientReads DEF OnMessage
  <2>2. asked' = asked /\ nextStreamId' = nextStreamId
    BY <1>6 DEF OnMessage
  <2>3. StreamId(c) \in streamMap <=> outcome[c] = "waiting"
    BY InMap
  <2>4. ASSUME StreamId(c) \in streamMap, "TRAILERS" \in Head(toClient).flags,
               Settle(c, GrpcStatus[Head(toClient).payload.status])
        PROVE  Goal
    <3>1. PICK k \in 0 .. 16 : Head(toClient) = End(c, k)
      BY <2>1, <2>4, ServerFields DEF FromServer
    <3>2. GrpcStatus[Head(toClient).payload.status] \in Range(GrpcStatus)
      BY <2>1, <3>1, ServerFields, Statuses
    <3> QED BY <1>3, <2>2, <2>3, <2>4, <3>2
  <2>5. ASSUME StreamId(c) \in streamMap, Settle(c, ResetStatus(Head(toClient).payload.code))
        PROVE  Goal
    BY <1>3, <2>2, <2>3, <2>5, Statuses
  <2> HIDE DEF Goal
  <2> QED BY <1>2, <1>6, <2>1, <2>4, <2>5 DEF OnMessage, DecodeFrame
<1>7. ASSUME OnClose PROVE Goal
  BY <1>2, <1>7 DEF OnClose
<1> HIDE DEF Goal
<1>8. Goal
  BY <1>1, <1>4, <1>5, <1>6, <1>7 DEF Client
<1> QED BY <1>8 DEF Goal

\* No step gives a handler a message out of order or twice.
LEMMA CarriedStep ==
  ASSUME TypeInv, Harmless, CarriedInOrder, NoneMissing, [Next]_vars
  PROVE  CarriedInOrder'
<1>1. CASE Client
  <2>1. /\ \A c \in Calls : outcome[c] # "none" => asked'[c] = asked[c]
        /\ serving' = serving /\ heard' = heard /\ recvChan' = recvChan
    BY <1>1, ClientSteps DEF stream, handler
  <2>2. \A c \in Calls : Carried(c)' = Carried(c)
    BY <2>1 DEF Carried
  <2>3. \A f \in ToSet(toServer') : \/ f \in ToSet(toServer)
                                    \/ "DATA" \notin f.flags
                                    \/ \E c \in Calls : outcome[c] = "none" /\ f.streamId = StreamId(c)
    BY <1>1, ClientSends
  <2> QED BY <2>1, <2>2, <2>3, CarriesNothing DEF Ending
<1>2. CASE PumpData
  BY <1>2, DataCarried
<1>3. ASSUME asked' = asked, \A c \in Calls : Carried(c)' = Carried(c),
             ToSet(toServer') \subseteq ToSet(toServer), Ending => Ending'
      PROVE  CarriedInOrder'
  BY <1>3, CarriesNothing
<1>4. CASE PumpHeaders \/ PumpRst \/ PumpSkips
  <2>1. /\ toServer # <<>> /\ toServer' = Tail(toServer)
        /\ asked' = asked /\ serving' = serving /\ heard' = heard /\ recvChan' = recvChan
    BY <1>4 DEF PumpHeaders, PumpRst, PumpSkips, Reads, client, stream, handler
  <2>2. ToSet(toServer') \subseteq ToSet(toServer)
    BY <2>1, ServerReads DEF Part
  <2> QED BY <1>3, <2>1, <2>2 DEF Carried, Ending
<1>5. CASE ReadError
  <2>1. /\ toServer' = <<>> /\ asked' = asked /\ Ending' = Ending /\ heard' = heard
        /\ recvChan' = recvChan
    BY <1>5 DEF ReadError, Ending, client, handler
  <2> QED BY <1>3, <2>1, EmptyFacts DEF Carried
<1>6. CASE ShutdownResets \/ ShutdownCancels
  <2>1. /\ toServer' = toServer /\ asked' = asked /\ Ending' /\ heard' = heard
        /\ recvChan' = recvChan
    BY <1>6 DEF ShutdownResets, ShutdownCancels, Ending, client, handler
  <2> QED BY <1>3, <2>1 DEF Carried
<1>7. ASSUME NEW c \in Calls, Handler(c) PROVE CarriedInOrder'
  <2>1. toServer' = toServer /\ asked' = asked /\ Ending' = Ending
    BY <1>7 DEF Handler, Hear, HearEof, Say, Return, Unregister, Ending, client
  <2>2. CASE Hear(c)
    <3>1. /\ heard[c] \in Seq(Nat) /\ recvChan[c] \in Seq(Nat) /\ recvChan[c] # <<>>
          /\ heard'[c] = Append(heard[c], Head(recvChan[c])) /\ recvChan'[c] = Tail(recvChan[c])
          /\ \A d \in Calls : d # c => heard'[d] = heard[d] /\ recvChan'[d] = recvChan[d]
      BY <2>2 DEF Hear, TypeInv, Types
    <3>2. Append(heard[c], Head(recvChan[c])) \o Tail(recvChan[c]) = heard[c] \o recvChan[c]
      BY <3>1, HearCarries
    <3>3. ASSUME NEW d \in Calls PROVE Carried(d)' = Carried(d)
      BY <3>1, <3>2 DEF Carried
    <3> QED BY <1>3, <2>1, <3>3
  <2>3. CASE ~Hear(c)
    <3>1. heard' = heard /\ recvChan' = recvChan
      BY <1>7, <2>3 DEF Handler, HearEof, Say, Return, Unregister, stream, handler
    <3> QED BY <1>3, <2>1, <3>1 DEF Carried
  <2> QED BY <2>2, <2>3
<1>8. CASE UNCHANGED vars
  <2>1. asked' = asked /\ heard' = heard /\ recvChan' = recvChan /\ toServer' = toServer
        /\ Ending' = Ending
    BY <1>8 DEF vars, Ending, client, stream, handler
  <2> QED BY <1>3, <2>1 DEF Carried
<1> QED BY <1>1, <1>2, <1>4, <1>5, <1>6, <1>7, <1>8 DEF Next, Pump

\* The read loop takes one frame away; a message that fits and whose stream is
\* there or to come is not dropped.
ReadsOne ==
    /\ toServer # <<>> /\ toServer' = Tail(toServer) /\ asked' = asked /\ serving' = serving
    /\ \A c \in Calls : c \in registered' \/ Coming(c)' => c \in registered \/ Coming(c)
    /\ \A c \in Calls : ToSet(Carried(c)) \subseteq ToSet(Carried(c)')
    /\ serving = "yes" /\ "DATA" \in Head(toServer).flags =>
        \A c \in Calls : Head(toServer).streamId = StreamId(c) =>
            \/ c \notin registered' /\ ~Coming(c)'
            \/ ~FitsAt(c, Head(toServer).payload.n)
            \/ Head(toServer).payload.n \in ToSet(Carried(c)')

\* Reading one frame leaves no hole, if that frame's message is kept.
LEMMA ReadKeepsRest ==
  ASSUME TypeInv, NoneMissing, ReadsOne
  PROVE  NoneMissing'
<1> USE DEF ReadsOne
<1> SUFFICES ASSUME serving' = "yes", NEW c \in Calls, c \in registered' \/ Coming(c)',
                    NEW f \in ToSet(toServer'), f.streamId = StreamId(c), "DATA" \in f.flags,
                    NEW j \in 1 .. (f.payload.n - 1), FitsAt(c, j)'
             PROVE  \/ j \in ToSet(Carried(c)')
                    \/ \E g : Before(toServer', g, f) /\ g.streamId = StreamId(c)
                              /\ "DATA" \in g.flags /\ g.payload.n = j
  BY DEF NoneMissing, StreamId
<1>1. /\ serving = "yes" /\ f \in ToSet(toServer) /\ FitsAt(c, j)
      /\ \A g : Before(toServer, g, f) => g = Head(toServer) \/ Before(toServer', g, f)
  BY ServerReads DEF Part, FitsAt
<1>2. \/ j \in ToSet(Carried(c))
      \/ \E g : Before(toServer, g, f) /\ g.streamId = StreamId(c)
                /\ "DATA" \in g.flags /\ g.payload.n = j
  BY <1>1 DEF NoneMissing
<1> QED BY <1>1, <1>2

\* No step lets a message go missing ahead of one that is on its way.
LEMMA MissingStep ==
  ASSUME TypeInv, Harmless, NoneMissing, [Next]_vars
  PROVE  NoneMissing'
<1>1. CASE Client
  <2> SUFFICES ASSUME serving' = "yes", NEW c \in Calls, c \in registered' \/ Coming(c)',
                      NEW f \in ToSet(toServer'), f.streamId = StreamId(c), "DATA" \in f.flags,
                      NEW j \in 1 .. (f.payload.n - 1), FitsAt(c, j)'
               PROVE  \/ j \in ToSet(Carried(c)')
                      \/ \E g : Before(toServer', g, f) /\ g.streamId = StreamId(c)
                                /\ "DATA" \in g.flags /\ g.payload.n = j
    BY DEF NoneMissing, StreamId
  <2>1. /\ serving = "yes" /\ registered' = registered /\ heard' = heard /\ recvChan' = recvChan
        /\ \A d \in Calls : outcome[d] # "none" => asked'[d] = asked[d]
    BY <1>1, ClientSteps DEF stream, handler
  <2>2. CASE f \notin ToSet(toServer)
    BY <1>1, <2>2, ClientSends
  <2>3. CASE f \in ToSet(toServer)
    <3>1. outcome[c] # "none"
      BY <2>3, DataFields
    <3>2. Coming(c)' => Coming(c)
      <4>1. ASSUME NEW h \in ToSet(toServer'), h.streamId = StreamId(c), "HEADERS" \in h.flags
            PROVE  h \in ToSet(toServer)
        BY <1>1, <3>1, <4>1, ClientSends, StreamIds
      <4> QED BY <4>1 DEF Coming, StreamId
    <3>3. \A g : Before(toServer, g, f) => Before(toServer', g, f)
      <4>1. toServer' # <<>>
        BY EmptyFacts
      <4> QED BY <1>1, <4>1, ClientSends
    <3>4. FitsAt(c, j) /\ Carried(c)' = Carried(c)
      BY <2>1, <3>1 DEF FitsAt, Carried
    <3> QED BY <2>1, <2>3, <3>2, <3>3, <3>4 DEF NoneMissing
  <2> QED BY <2>2, <2>3
<1>2. ASSUME Part(toServer', toServer) PROVE \A c : Coming(c)' => Coming(c)
  BY <1>2 DEF Coming, Part, StreamId
<1>3. CASE PumpHeaders
  <2>1. /\ toServer # <<>> /\ toServer' = Tail(toServer) /\ "HEADERS" \in Head(toServer).flags
        /\ asked' = asked /\ serving' = serving /\ heard' = heard /\ recvChan' = recvChan
    BY <1>3 DEF PumpHeaders, Reads, client
  <2>2. PICK c \in Calls : /\ c = CallOf(Head(toServer).streamId) /\ FromClient(c, Head(toServer))
    BY <2>1, ServerReads
  <2>3. Coming(c) /\ Part(toServer', toServer) /\ "DATA" \notin Head(toServer).flags
    <3>1. Head(toServer) \in ToSet(toServer) /\ Part(toServer', toServer)
      BY <2>1, ServerReads
    <3>2. Head(toServer).streamId = StreamId(c) /\ Head(toServer).flags = {"HEADERS"}
      BY <2>1, <2>2 DEF FromClient, DataFlags
    <3> QED BY <3>1, <3>2 DEF Coming
  <2>4. \A d \in Calls : d \in registered' \/ Coming(d)' => d \in registered \/ Coming(d)
    BY <1>2, <1>3, <2>2, <2>3 DEF PumpHeaders
  <2>5. \A d \in Calls : Carried(d)' = Carried(d)
    BY <2>1 DEF Carried
  <2>6. ReadsOne
    BY <2>1, <2>3, <2>4, <2>5 DEF ReadsOne
  <2> QED BY <2>6, ReadKeepsRest
<1>4. CASE PumpData
  <2> DEFINE h == Head(toServer)
  <2>1. /\ toServer # <<>> /\ toServer' = Tail(toServer) /\ "DATA" \in h.flags
        /\ asked' = asked /\ serving' = serving /\ heard' = heard
        /\ registered' = registered /\ cancelled' = cancelled
    BY <1>4 DEF PumpData, Reads, client, handler
  <2>2. PICK c \in Calls : c = CallOf(h.streamId) /\ h.streamId = StreamId(c)
    BY <2>1, ServerReads DEF FromClient
  <2>3. /\ Part(toServer', toServer) /\ h \in ToSet(toServer)
        /\ \A g \in ToSet(toServer') : Before(toServer, h, g)
    BY <2>1, ServerReads
  <2> HIDE DEF h
  <2>4. \A d \in Calls : d \in registered' \/ Coming(d)' => d \in registered \/ Coming(d)
    BY <1>2, <2>1, <2>3
  <2>5. ~Coming(c)'
    <3>1. ~\E g \in ToSet(toServer') : g.streamId = StreamId(c) /\ "HEADERS" \in g.flags
      BY <2>2, <2>3 DEF TypeInv, InOrder
    <3> QED BY <3>1 DEF Coming, StreamId
  <2>6. h.payload.n \in Nat
    BY <2>1, <2>2, <2>3, DataFields
  <2>7. CASE Dropped(c) /\ recvChan' = recvChan
    <3>1. \A d \in Calls : Carried(d)' = Carried(d)
      BY <2>1, <2>7 DEF Carried
    <3>2. ASSUME NEW d \in Calls, serving = "yes", d \in registered' \/ Coming(d)',
                 h.streamId = StreamId(d)
          PROVE  FALSE
      <4>1. d = c
        BY <2>2, <3>2, StreamIds
      <4> QED BY <2>1, <2>5, <2>7, <3>2, <4>1 DEF Dropped, Harmless
    <3>3. ReadsOne
      BY <2>1, <2>4, <3>1, <3>2 DEF ReadsOne, h
    <3> QED BY <3>3, ReadKeepsRest
  <2>8. CASE recvChan' = [recvChan EXCEPT ![c] = Append(@, h.payload.n)]
    <3>1. /\ recvChan'[c] = Append(recvChan[c], h.payload.n)
          /\ \A d \in Calls : d # c => recvChan'[d] = recvChan[d]
      BY <2>8 DEF TypeInv, Types
    <3>2. ASSUME NEW d \in Calls, d # c PROVE Carried(d)' = Carried(d)
      BY <2>1, <3>1, <3>2 DEF Carried
    <3>3. ToSet(Carried(c)') = ToSet(Carried(c)) \cup {h.payload.n}
      <4>1. heard[c] \in Seq(Nat) /\ recvChan[c] \in Seq(Nat) /\ Carried(c) \in Seq(Nat)
        BY CarriedTypes
      <4>2. Carried(c)' = Append(Carried(c), h.payload.n)
        <5>1. Carried(c)' = heard[c] \o Append(recvChan[c], h.payload.n)
          BY <2>1, <3>1 DEF Carried
        <5> QED BY <2>6, <4>1, <5>1, DataCarries DEF Carried
      <4>3. ToSet(Append(Carried(c), h.payload.n)) = ToSet(Carried(c)) \cup {h.payload.n}
        BY <2>6, <4>1, AppendFacts
      <4> QED BY <4>2, <4>3
    <3>4. \A d \in Calls : ToSet(Carried(d)) \subseteq ToSet(Carried(d)')
      BY <3>2, <3>3
    <3>5. \A d \in Calls : h.streamId = StreamId(d) => h.payload.n \in ToSet(Carried(d)')
      BY <2>2, <3>3, StreamIds
    <3>6. ReadsOne
      BY <2>1, <2>4, <3>4, <3>5 DEF ReadsOne, h
    <3> QED BY <3>6, ReadKeepsRest
  <2> QED BY <1>4, <2>2, <2>7, <2>8 DEF PumpData, h
<1>5. CASE PumpRst \/ PumpSkips
  <2>1. /\ toServer # <<>> /\ toServer' = Tail(toServer)
        /\ asked' = asked /\ serving' = serving /\ heard' = heard /\ recvChan' = recvChan
        /\ registered' \subseteq registered
        /\ "RST_STREAM" \in Head(toServer).flags \/ ~Decodes(Head(toServer))
    BY <1>5 DEF PumpRst, PumpSkips, Reads, client, stream, handler
  <2>2. PICK c \in Calls : FromClient(c, Head(toServer))
    BY <2>1, ServerReads
  <2>3. Part(toServer', toServer) /\ Head(toServer) \in ToSet(toServer)
    BY <2>1, ServerReads
  <2>4. \A d \in Calls : Carried(d)' = Carried(d)
    BY <2>1 DEF Carried
  <2>5. ASSUME NEW d \in Calls, Head(toServer).streamId = StreamId(d), "DATA" \in Head(toServer).flags
        PROVE  ~FitsAt(d, Head(toServer).payload.n)
    <3>1. /\ asked[d].sizes[Head(toServer).payload.n] = Head(toServer).payload.size
          /\ Head(toServer).length = Head(toServer).payload.size
          /\ Head(toServer).payload.n \in DOMAIN asked[d].sizes
      BY <2>3, <2>5, DataFields
    <3>2. "RST_STREAM" \notin Head(toServer).flags
      BY <2>2, <2>5 DEF FromClient, DataFlags
    <3>3. Head(toServer).length \in Nat
      BY <2>1, ServerReads DEF AnyFrame
    <3> QED BY <2>1, <3>1, <3>2, <3>3 DEF Decodes, FitsAt
  <2>6. \A d \in Calls : d \in registered' \/ Coming(d)' => d \in registered \/ Coming(d)
    BY <1>2, <2>1, <2>3
  <2>7. ReadsOne
    BY <2>1, <2>4, <2>5, <2>6 DEF ReadsOne
  <2> QED BY <2>7, ReadKeepsRest
<1>6. CASE ReadError \/ ShutdownResets \/ ShutdownCancels
  BY <1>6 DEF ReadError, ShutdownResets, ShutdownCancels, NoneMissing
<1>7. ASSUME toServer' = toServer, asked' = asked, serving' = serving, registered' \subseteq registered,
             \A c \in Calls : Carried(c)' = Carried(c)
      PROVE  NoneMissing'
  BY <1>7 DEF NoneMissing, Coming, FitsAt, StreamId
<1>8. ASSUME NEW c \in Calls, Handler(c) PROVE NoneMissing'
  <2>1. toServer' = toServer /\ asked' = asked /\ serving' = serving /\ registered' \subseteq registered
    BY <1>8 DEF Handler, Hear, HearEof, Say, Return, Unregister, client, stream
  <2>2. CASE Hear(c)
    <3>1. /\ heard[c] \in Seq(Nat) /\ recvChan[c] \in Seq(Nat) /\ recvChan[c] # <<>>
          /\ heard'[c] = Append(heard[c], Head(recvChan[c])) /\ recvChan'[c] = Tail(recvChan[c])
          /\ \A d \in Calls : d # c => heard'[d] = heard[d] /\ recvChan'[d] = recvChan[d]
      BY <2>2 DEF Hear, TypeInv, Types
    <3>2. Append(heard[c], Head(recvChan[c])) \o Tail(recvChan[c]) = heard[c] \o recvChan[c]
      BY <3>1, HearCarries
    <3>3. ASSUME NEW d \in Calls PROVE Carried(d)' = Carried(d)
      BY <3>1, <3>2 DEF Carried
    <3> QED BY <1>7, <2>1, <3>3
  <2>3. CASE ~Hear(c)
    <3>1. heard' = heard /\ recvChan' = recvChan
      BY <1>8, <2>3 DEF Handler, HearEof, Say, Return, Unregister, stream, handler
    <3> QED BY <1>7, <2>1, <3>1 DEF Carried
  <2> QED BY <2>2, <2>3
<1>9. CASE UNCHANGED vars
  <2>1. asked' = asked /\ heard' = heard /\ recvChan' = recvChan /\ toServer' = toServer
        /\ serving' = serving /\ registered' = registered
    BY <1>9 DEF vars, client, stream, handler
  <2> QED BY <1>7, <2>1 DEF Carried
<1> QED BY <1>1, <1>3, <1>4, <1>5, <1>6, <1>8, <1>9 DEF Next, Pump

-----------------------------------------------------------------------------
(* The replies reach their caller in order and before the end.             *)

\* A reply or an end is not a reset.
LEMMA ReplyFlags ==
  ASSUME NEW c, NEW n
  PROVE  Reply(c, n).flags = {"DATA"} /\ End(c, n).flags = {"TRAILERS"}
         /\ Refusal(c, n).flags = {"RST_STREAM"}
BY DEF Reply, End, Refusal, EncodeFrame

\* The number of a reply is in its frame.
LEMMA SameReply ==
  ASSUME NEW c \in Calls, StreamId(c) < Word
  PROVE  \A n, m : /\ Reply(c, n) = Reply(c, m) => n = m
                   /\ End(c, n) = End(c, m) => n = m
<1>1. \A n : Reply(c, n).payload.n = n /\ End(c, n).payload.status = n
  BY ServerFields
<1> QED BY <1>1

\* Nothing is on its way to a call that was not made.
LEMMA NoReplyYet ==
  ASSUME TypeInv, NEW c \in Calls, outcome[c] = "none", StreamId(c) < Word
  PROVE  \A n : Reply(c, n) \notin ToSet(toClient) /\ End(c, n) \notin ToSet(toClient)
<1>1. ASSUME NEW f \in ToSet(toClient) PROVE f.streamId # StreamId(c)
  <2>1. PICK d \in Calls : outcome[d] # "none" /\ FromServer(d, f)
    BY DEF TypeInv, SentByServer
  <2>2. f.streamId = StreamId(d)
    BY <2>1, ServerFields DEF FromServer, TypeInv, Ids
  <2> QED BY <2>1, <2>2, StreamIds
<1>2. \A n : Reply(c, n).streamId = StreamId(c) /\ End(c, n).streamId = StreamId(c)
  BY ServerFields
<1> QED BY <1>1, <1>2

\* How many replies c's caller was told, and how many there are.
LEMMA Counts ==
  ASSUME TypeInv, NEW c \in Calls
  PROVE  told[c] \in Seq(Nat) /\ Len(told[c]) \in Nat /\ said[c] \in Nat
BY WireAssumption DEF TypeInv, Types

\* A step that sends no reply, takes none, and ends no connection but its own.
RepliesStay ==
    /\ told' = told /\ said' = said
    /\ \A c \in Calls : outcome'[c] = "waiting" =>
          outcome[c] = "waiting" \/ (outcome[c] = "none" /\ StreamId(c) < Word)
    /\ ToSet(toClient) \subseteq ToSet(toClient')
    /\ \A f \in ToSet(toClient') : f \in ToSet(toClient) \/ f.flags = {"RST_STREAM"}
    /\ \A f, g : Before(toClient, f, g) => Before(toClient', f, g)
    /\ \A f : "RST_STREAM" \notin f.flags /\ Before(toClient', f, f) => Before(toClient, f, f)
    /\ serving' \in {"yes", "reset"} /\ readyState' # "CLOSED" =>
          serving \in {"yes", "reset"} /\ readyState # "CLOSED"

\* A step that only adds resets, and tells the caller nothing, keeps replies in order.
LEMMA RepliesKept ==
  ASSUME TypeInv, RepliesInOrder, RepliesStay
  PROVE  RepliesInOrder'
<1>1. /\ \A f : "RST_STREAM" \notin f.flags => ~Before(toClient', f, f)
      /\ \A c \in Calls : Len(told'[c]) <= said'[c]
  BY DEF RepliesInOrder, RepliesStay
<1>2. ASSUME NEW c \in Calls, outcome'[c] = "waiting"
      PROVE  /\ \A n \in Nat : Reply(c, n) \in ToSet(toClient') =>
                  /\ n > Len(told[c])
                  /\ \A l \in (Len(told[c]) + 1) .. (n - 1) : Before(toClient', Reply(c, l), Reply(c, n))
             /\ \A code \in 0 .. 16 : End(c, code) \in ToSet(toClient') =>
                  \A l \in (Len(told[c]) + 1) .. said[c] : Before(toClient', Reply(c, l), End(c, code))
             /\ serving' \in {"yes", "reset"} /\ readyState' # "CLOSED" =>
                  \A l \in (Len(told[c]) + 1) .. said[c] : Reply(c, l) \in ToSet(toClient')
  <2>1. /\ \A n : Reply(c, n) \in ToSet(toClient') => Reply(c, n) \in ToSet(toClient)
        /\ \A n : End(c, n) \in ToSet(toClient') => End(c, n) \in ToSet(toClient)
    BY ReplyFlags DEF RepliesStay
  <2>2. CASE outcome[c] = "waiting"
    BY <2>1, <2>2 DEF RepliesInOrder, RepliesStay
  <2>3. CASE outcome[c] = "none" /\ StreamId(c) < Word
    <3>1. \A n : Reply(c, n) \notin ToSet(toClient') /\ End(c, n) \notin ToSet(toClient')
      BY <2>1, <2>3, NoReplyYet
    <3>2. said[c] = 0
      BY <2>3 DEF TypeInv, Unstarted
    <3>3. (Len(told[c]) + 1) .. said[c] = {}
      BY <3>2, Counts
    <3> QED BY <3>1, <3>3
  <2> QED BY <1>2, <2>2, <2>3 DEF RepliesStay
<1>3. told' = told /\ said' = said /\ \A c, n : Reply(c, n)' = Reply(c, n) /\ End(c, n)' = End(c, n)
  BY DEF RepliesStay, Reply, End, StreamId
<1> QED BY <1>1, <1>2, <1>3 DEF RepliesInOrder

\* What the client reads is the next reply, or the end after the last.
LEMMA NextReply ==
  ASSUME TypeInv, RepliesInOrder, toClient # <<>>, NEW c \in Calls, outcome[c] = "waiting"
  PROVE  /\ \A n \in Nat : Head(toClient) = Reply(c, n) => n = Len(told[c]) + 1 /\ n <= said[c]
         /\ \A code \in 0 .. 16 : Head(toClient) = End(c, code) =>
              Len(told[c]) = said[c] /\ ret[c] = GrpcStatus[code]
<1> DEFINE h == Head(toClient)
<1>1. StreamId(c) < Word
  BY DEF TypeInv, Ids
<1>2. /\ h \in ToSet(toClient)
      /\ \A g \in ToSet(Tail(toClient)) : Before(toClient, h, g)
      /\ \A f, g : Before(toClient, f, g) => f = h \/ Before(Tail(toClient), f, g)
  BY ClientReads
<1>3. PICK d \in Calls : FromServer(d, h) /\ StreamId(d) < Word /\ h.streamId = StreamId(d)
  BY ClientReads
<1> HIDE DEF h
<1>4. ASSUME NEW f, Before(toClient, f, h), "RST_STREAM" \notin h.flags PROVE FALSE
  <2>1. ~Before(toClient, h, h)
    BY <1>4 DEF RepliesInOrder
  <2>2. Before(Tail(toClient), f, h)
    BY <1>2, <1>4, <2>1
  <2>3. h \in ToSet(Tail(toClient))
    BY <2>2 DEF Before, ToSet
  <2> QED BY <1>2, <2>1, <2>3
<1>5. ASSUME NEW n \in Nat, h = Reply(c, n) PROVE n = Len(told[c]) + 1 /\ n <= said[c]
  <2>1. "RST_STREAM" \notin h.flags /\ h.flags = {"DATA"}
    BY <1>5, ReplyFlags
  <2>2. n > Len(told[c]) /\ \A l \in (Len(told[c]) + 1) .. (n - 1) : FALSE
    BY <1>2, <1>4, <1>5, <2>1 DEF RepliesInOrder
  <2>3. c = d
    BY <1>1, <1>3, <1>5, ServerFields, StreamIds
  <2>4. n <= said[c]
    <3>0. ASSUME NEW k PROVE h # End(c, k) /\ h # Refusal(c, k)
      <4>1. End(c, k).flags = {"TRAILERS"} /\ Refusal(c, k).flags = {"RST_STREAM"}
        BY ReplyFlags
      <4>2. {"DATA"} # {"TRAILERS"} /\ {"DATA"} # {"RST_STREAM"}
        OBVIOUS
      <4> QED BY <2>1, <4>1, <4>2
    <3>1. PICK m \in 1 .. said[c] : h = Reply(c, m)
      BY <1>3, <2>3, <3>0 DEF FromServer
    <3>2. m = n
      BY <1>1, <1>5, <3>1, SameReply
    <3> QED BY <3>2, Counts
  <2>5. n = Len(told[c]) + 1
    <3>1. Len(told[c]) \in Nat
      BY Counts
    <3>2. ASSUME n > Len(told[c]) + 1 PROVE FALSE
      <4>1. n - 1 \in (Len(told[c]) + 1) .. (n - 1)
        BY <3>1, <3>2
      <4> QED BY <2>2, <4>1
    <3> QED BY <2>2, <3>1, <3>2
  <2> QED BY <2>4, <2>5
<1>6. ASSUME NEW code \in 0 .. 16, h = End(c, code)
      PROVE  Len(told[c]) = said[c] /\ ret[c] = GrpcStatus[code]
  <2>1. "RST_STREAM" \notin h.flags /\ h.flags = {"TRAILERS"}
    BY <1>6, ReplyFlags
  <2>2. \A l \in (Len(told[c]) + 1) .. said[c] : FALSE
    BY <1>2, <1>4, <1>6, <2>1 DEF RepliesInOrder
  <2>3. Len(told[c]) = said[c]
    <3>1. Len(told[c]) \in Nat /\ said[c] \in Nat
      BY Counts
    <3>2. Len(told[c]) <= said[c]
      BY DEF RepliesInOrder
    <3>3. ASSUME Len(told[c]) < said[c] PROVE FALSE
      <4>1. said[c] \in (Len(told[c]) + 1) .. said[c]
        BY <3>1, <3>3
      <4> QED BY <2>2, <4>1
    <3> QED BY <3>1, <3>2, <3>3
  <2>4. c = d
    BY <1>1, <1>3, <1>6, ServerFields, StreamIds
  <2>5. PICK k \in 0 .. 16 : h = End(c, k) /\ ret[c] = GrpcStatus[k]
    <3>1. {"TRAILERS"} # {"DATA"} /\ {"TRAILERS"} # {"RST_STREAM"}
      OBVIOUS
    <3>2. ASSUME NEW n PROVE h # Reply(c, n) /\ h # Refusal(c, n)
      <4>1. Reply(c, n).flags = {"DATA"} /\ Refusal(c, n).flags = {"RST_STREAM"}
        BY ReplyFlags
      <4> QED BY <2>1, <3>1, <4>1
    <3>3. FromServer(c, h)
      BY <1>3, <2>4
    <3> QED BY <3>2, <3>3 DEF FromServer
  <2>6. k = code
    BY <1>1, <1>6, <2>5, SameReply
  <2> QED BY <2>3, <2>5, <2>6
<1> QED BY <1>5, <1>6 DEF h

\* Taking a frame of a call that does not wait, or its reply, keeps the order of
\* what is left.
LEMMA ReplyTaken ==
  ASSUME TypeInv, RepliesInOrder, toClient # <<>>, toClient' = Tail(toClient),
         UNCHANGED <<readyState, serving, said>>, NEW c \in Calls, StreamId(c) < Word,
         Head(toClient).streamId = StreamId(c),
         \A d \in Calls : outcome'[d] = "waiting" => outcome[d] = "waiting",
         \A d \in Calls : d # c => told'[d] = told[d],
         \/ told'[c] = told[c] /\ outcome'[c] # "waiting"
         \/ \E n \in Nat : outcome[c] = "waiting" /\ Head(toClient) = Reply(c, n)
                           /\ told'[c] = Append(told[c], n)
  PROVE  RepliesInOrder'
<1> DEFINE h == Head(toClient)
<1>1. /\ Part(toClient', toClient) /\ h \in ToSet(toClient)
      /\ \A g \in ToSet(toClient') : Before(toClient, h, g)
      /\ \A f \in ToSet(toClient) : f = h \/ f \in ToSet(toClient')
      /\ \A f, g : Before(toClient, f, g) => f = h \/ Before(toClient', f, g)
  BY ClientReads
<1>2. h.streamId = StreamId(c)
  OBVIOUS
<1> HIDE DEF h
<1>3. \A f : "RST_STREAM" \notin f.flags => ~Before(toClient', f, f)
  BY <1>1 DEF RepliesInOrder, Part
<1> DEFINE R(d) ==
             /\ \A n \in Nat : Reply(d, n) \in ToSet(toClient') =>
                  /\ n > Len(told'[d])
                  /\ \A l \in (Len(told'[d]) + 1) .. (n - 1) : Before(toClient', Reply(d, l), Reply(d, n))
             /\ \A code \in 0 .. 16 : End(d, code) \in ToSet(toClient') =>
                  \A l \in (Len(told'[d]) + 1) .. said[d] : Before(toClient', Reply(d, l), End(d, code))
             /\ serving \in {"yes", "reset"} /\ readyState # "CLOSED" =>
                  \A l \in (Len(told'[d]) + 1) .. said[d] : Reply(d, l) \in ToSet(toClient')
<1>4. ASSUME NEW d \in Calls, d # c, outcome'[d] = "waiting" PROVE R(d)
  <2>1. StreamId(d) < Word /\ outcome[d] = "waiting" /\ told'[d] = told[d]
    BY <1>4 DEF TypeInv, Ids
  <2>2. \A n : Reply(d, n) # h
    BY <1>2, <1>4, <2>1, ServerFields, StreamIds
  <2>3. ToSet(toClient') \subseteq ToSet(toClient)
    BY <1>1 DEF Part
  <2> QED BY <1>1, <2>1, <2>2, <2>3 DEF RepliesInOrder
<1>5. ASSUME NEW n \in Nat, outcome[c] = "waiting", h = Reply(c, n), told'[c] = Append(told[c], n)
      PROVE  R(c) /\ Len(told'[c]) <= said[c]
  <2>1. n = Len(told[c]) + 1 /\ n <= said[c]
    BY <1>5, NextReply DEF h
  <2>2. Len(told'[c]) = n /\ Len(told[c]) \in Nat /\ said[c] \in Nat
    BY <1>5, <2>1, Counts
  <2>3. \A l : l # n => Reply(c, l) # h
    BY <1>5, ServerFields
  <2>4. h \notin ToSet(toClient')
    <3>1. "RST_STREAM" \notin h.flags
      BY <1>5, ReplyFlags
    <3> QED BY <1>1, <3>1 DEF RepliesInOrder
  <2>5. ToSet(toClient') \subseteq ToSet(toClient)
    BY <1>1 DEF Part
  <2>6. ASSUME NEW m \in Nat, Reply(c, m) \in ToSet(toClient')
        PROVE  /\ m > n
               /\ \A l \in (n + 1) .. (m - 1) : Before(toClient', Reply(c, l), Reply(c, m))
    <3>1. m > Len(told[c])
          /\ \A l \in (Len(told[c]) + 1) .. (m - 1) : Before(toClient, Reply(c, l), Reply(c, m))
      BY <1>5, <2>5, <2>6 DEF RepliesInOrder
    <3>2. m # n
      BY <1>5, <2>4, <2>6
    <3>3. m > n
      BY <2>1, <2>2, <3>1, <3>2
    <3>4. ASSUME NEW l \in (n + 1) .. (m - 1) PROVE Before(toClient', Reply(c, l), Reply(c, m))
      <4>1. l \in (Len(told[c]) + 1) .. (m - 1) /\ l # n
        BY <2>1, <2>2
      <4> QED BY <1>1, <2>3, <3>1, <4>1
    <3> QED BY <3>3, <3>4
  <2>7. ASSUME NEW code \in 0 .. 16, End(c, code) \in ToSet(toClient'), NEW l \in (n + 1) .. said[c]
        PROVE  Before(toClient', Reply(c, l), End(c, code))
    <3>1. l \in (Len(told[c]) + 1) .. said[c] /\ l # n
      BY <2>1, <2>2
    <3>2. Before(toClient, Reply(c, l), End(c, code))
      BY <1>5, <2>5, <2>7, <3>1 DEF RepliesInOrder
    <3> QED BY <1>1, <2>3, <3>1, <3>2
  <2>8. ASSUME serving \in {"yes", "reset"}, readyState # "CLOSED", NEW l \in (n + 1) .. said[c]
        PROVE  Reply(c, l) \in ToSet(toClient')
    <3>1. l \in (Len(told[c]) + 1) .. said[c] /\ l # n
      BY <2>1, <2>2
    <3>2. Reply(c, l) \in ToSet(toClient)
      BY <1>5, <2>8, <3>1 DEF RepliesInOrder
    <3> QED BY <1>1, <2>3, <3>1, <3>2
  <2> QED BY <2>1, <2>2, <2>6, <2>7, <2>8
<1>6. \A d \in Calls : outcome'[d] = "waiting" => R(d)
  BY <1>4, <1>5 DEF h
<1>7. \A d \in Calls : Len(told'[d]) <= said[d]
  BY <1>5 DEF h, RepliesInOrder
<1>8. said' = said /\ serving' = serving /\ readyState' = readyState
      /\ \A d, n : Reply(d, n)' = Reply(d, n) /\ End(d, n)' = End(d, n)
  BY DEF Reply, End, StreamId
<1> QED BY <1>3, <1>6, <1>7, <1>8 DEF RepliesInOrder

\* What the frames to the client say of a call whose handler runs.
LEMMA RunningReplies ==
  ASSUME TypeInv, NEW c \in Calls, Running(c)
  PROVE  /\ StreamId(c) < Word /\ outcome[c] # "none"
         /\ \A n \in Nat : Reply(c, n) \in ToSet(toClient) => n <= said[c]
         /\ \A code : End(c, code) \notin ToSet(toClient)
<1>1. StreamId(c) < Word /\ outcome[c] # "none" /\ ret[c] = "running"
  BY DEF TypeInv, Unstarted, Ids, Running
<1>2. ASSUME NEW f \in ToSet(toClient), f.streamId = StreamId(c) PROVE FromServer(c, f)
  <2>1. PICK d \in Calls : outcome[d] # "none" /\ FromServer(d, f)
    BY DEF TypeInv, SentByServer
  <2>2. f.streamId = StreamId(d)
    BY <2>1, ServerFields DEF FromServer, TypeInv, Ids
  <2> QED BY <1>2, <2>1, <2>2, StreamIds
<1>3. ASSUME NEW n \in Nat, Reply(c, n) \in ToSet(toClient) PROVE n <= said[c]
  <2>1. FromServer(c, Reply(c, n))
    BY <1>1, <1>2, <1>3, ServerFields
  <2>2. ASSUME NEW m PROVE Reply(c, n) # End(c, m) /\ Reply(c, n) # Refusal(c, m)
    <3>1. Reply(c, n).flags = {"DATA"} /\ End(c, m).flags = {"TRAILERS"}
          /\ Refusal(c, m).flags = {"RST_STREAM"}
      BY ReplyFlags
    <3>2. {"DATA"} # {"TRAILERS"} /\ {"DATA"} # {"RST_STREAM"}
      OBVIOUS
    <3> QED BY <3>1, <3>2
  <2>3. PICK m \in 1 .. said[c] : Reply(c, n) = Reply(c, m)
    BY <2>1, <2>2 DEF FromServer
  <2>4. m = n
    BY <1>1, <2>3, SameReply
  <2> QED BY <2>3, <2>4, Counts
<1>4. ASSUME NEW code, End(c, code) \in ToSet(toClient) PROVE FALSE
  <2>1. FromServer(c, End(c, code))
    BY <1>1, <1>2, <1>4, ServerFields
  <2>2. ASSUME NEW m PROVE End(c, code) # Reply(c, m) /\ End(c, code) # Refusal(c, m)
    <3>1. Reply(c, m).flags = {"DATA"} /\ End(c, code).flags = {"TRAILERS"}
          /\ Refusal(c, m).flags = {"RST_STREAM"}
      BY ReplyFlags
    <3>2. {"TRAILERS"} # {"DATA"} /\ {"TRAILERS"} # {"RST_STREAM"}
      OBVIOUS
    <3> QED BY <3>1, <3>2
  <2>3. PICK k \in 0 .. 16 : ret[c] = GrpcStatus[k]
    BY <2>1, <2>2 DEF FromServer
  <2> QED BY <1>1, <2>3, Statuses
<1> QED BY <1>1, <1>3, <1>4

\* A reply is sent after those before it.
LEMMA RepliesSaid ==
  ASSUME TypeInv, RepliesInOrder, NEW c \in Calls, Say(c)
  PROVE  RepliesInOrder'
<1>0. Running(c)
  BY DEF Say
<1>1. PICK n \in Nat : n = said[c] + 1
  BY Counts
<1> DEFINE r == Reply(c, n)
<1>2. /\ Send(r) /\ said' = [said EXCEPT ![c] = @ + 1]
      /\ UNCHANGED <<readyState, told, outcome, serving>>
  BY <1>1 DEF Say, Reply, client
<1>3. said'[c] = n /\ \A d \in Calls : d # c => said'[d] = said[d]
  BY <1>1, <1>2 DEF TypeInv, Types
<1>4. /\ StreamId(c) < Word /\ \A m \in Nat : Reply(c, m) \in ToSet(toClient) => m <= said[c]
      /\ \A code : End(c, code) \notin ToSet(toClient)
  BY <1>0, RunningReplies
<1>5. r \in AnyFrame /\ r \notin ToSet(toClient) /\ r.flags = {"DATA"} /\ r.streamId = StreamId(c)
  <2>1. r \notin ToSet(toClient)
    BY <1>1, <1>4, Counts
  <2> QED BY <1>4, <2>1, Fields, ServerFields
<1>6. \A d \in Calls : \A m : d # c /\ outcome[d] = "waiting" => Reply(d, m) # r /\ End(d, m) # r
  <2>1. ASSUME NEW d \in Calls, NEW m, d # c, outcome[d] = "waiting"
        PROVE  Reply(d, m) # r /\ End(d, m) # r
    <3>1. StreamId(d) < Word /\ StreamId(d) # StreamId(c)
      BY <2>1, StreamIds DEF TypeInv, Ids
    <3>2. Reply(d, m).streamId = StreamId(d) /\ End(d, m).streamId = StreamId(d)
      BY <3>1, ServerFields
    <3> QED BY <1>5, <3>1, <3>2
  <2> QED BY <2>1
<1>7. \A code : End(c, code) # r
  <2>1. {"TRAILERS"} # {"DATA"}
    OBVIOUS
  <2> QED BY <1>5, <2>1, ReplyFlags
<1>8. \A m : Reply(c, m) = r => m = n
  BY <1>4, SameReply
<1> HIDE DEF r
<1>9. \/ toClient' = toClient /\ ~(serving \in {"yes", "reset"} /\ readyState # "CLOSED")
      \/ /\ serving \in {"yes", "reset"} /\ readyState # "CLOSED"
         /\ ToSet(toClient') = ToSet(toClient) \cup {r}
         /\ \A f, g : Before(toClient', f, g) <=>
               Before(toClient, f, g) \/ (f \in ToSet(toClient) /\ g = r)
  BY <1>2, <1>5, SendFacts
<1>10. \A d \in Calls : Len(told[d]) <= said'[d]
  <2>1. Len(told[c]) <= n
    BY <1>1, Counts DEF RepliesInOrder
  <2> QED BY <1>3, <2>1 DEF RepliesInOrder
<1>11. \A f : "RST_STREAM" \notin f.flags => ~Before(toClient', f, f)
  BY <1>5, <1>9 DEF RepliesInOrder
<1> DEFINE R(d) ==
             /\ \A m \in Nat : Reply(d, m) \in ToSet(toClient') =>
                  /\ m > Len(told[d])
                  /\ \A l \in (Len(told[d]) + 1) .. (m - 1) : Before(toClient', Reply(d, l), Reply(d, m))
             /\ \A code \in 0 .. 16 : End(d, code) \in ToSet(toClient') =>
                  \A l \in (Len(told[d]) + 1) .. said'[d] : Before(toClient', Reply(d, l), End(d, code))
             /\ serving \in {"yes", "reset"} /\ readyState # "CLOSED" =>
                  \A l \in (Len(told[d]) + 1) .. said'[d] : Reply(d, l) \in ToSet(toClient')
<1>12. ASSUME NEW d \in Calls, d # c, outcome[d] = "waiting" PROVE R(d)
  <2>1. /\ \A m : Reply(d, m) \in ToSet(toClient') <=> Reply(d, m) \in ToSet(toClient)
        /\ \A m : End(d, m) \in ToSet(toClient') <=> End(d, m) \in ToSet(toClient)
        /\ \A f, g : Before(toClient, f, g) => Before(toClient', f, g)
    BY <1>6, <1>9, <1>12
  <2>2. said'[d] = said[d]
    BY <1>3, <1>12
  <2> QED BY <1>12, <2>1, <2>2 DEF RepliesInOrder
<1>13. ASSUME outcome[c] = "waiting" PROVE R(c)
  <2>1. Len(told[c]) \in Nat /\ said[c] \in Nat /\ Len(told[c]) <= said[c]
    BY Counts DEF RepliesInOrder
  <2>2. \A code : End(c, code) \notin ToSet(toClient')
    BY <1>4, <1>7, <1>9
  <2>3. ASSUME serving \in {"yes", "reset"}, readyState # "CLOSED", NEW l \in (Len(told[c]) + 1) .. (n - 1)
        PROVE  Reply(c, l) \in ToSet(toClient)
    <3>1. l \in (Len(told[c]) + 1) .. said[c]
      BY <1>1, <2>1
    <3> QED BY <1>13, <2>3, <3>1 DEF RepliesInOrder
  <2>4. ASSUME NEW m \in Nat, Reply(c, m) \in ToSet(toClient')
        PROVE  /\ m > Len(told[c])
               /\ \A l \in (Len(told[c]) + 1) .. (m - 1) : Before(toClient', Reply(c, l), Reply(c, m))
    <3>1. CASE Reply(c, m) \in ToSet(toClient)
      BY <1>9, <1>13, <3>1 DEF RepliesInOrder
    <3>2. CASE Reply(c, m) \notin ToSet(toClient)
      <4>1. Reply(c, m) = r /\ serving \in {"yes", "reset"} /\ readyState # "CLOSED"
        BY <1>9, <2>4, <3>2
      <4>2. m = n
        BY <1>8, <4>1
      <4>3. m > Len(told[c])
        BY <1>1, <2>1, <4>2
      <4>4. \A l \in (Len(told[c]) + 1) .. (m - 1) : Before(toClient', Reply(c, l), Reply(c, m))
        BY <1>9, <2>3, <4>1, <4>2
      <4> QED BY <4>3, <4>4
    <3> QED BY <3>1, <3>2
  <2>5. ASSUME serving \in {"yes", "reset"}, readyState # "CLOSED", NEW l \in (Len(told[c]) + 1) .. n
        PROVE  Reply(c, l) \in ToSet(toClient')
    <3>1. CASE l = n
      BY <1>9, <2>5, <3>1 DEF r
    <3>2. CASE l # n
      <4>1. l \in (Len(told[c]) + 1) .. (n - 1)
        BY <2>1, <3>2
      <4> QED BY <1>9, <2>3, <2>5, <4>1
    <3> QED BY <3>1, <3>2
  <2> QED BY <1>3, <2>2, <2>4, <2>5
<1>14. \A d \in Calls : outcome[d] = "waiting" => R(d)
  BY <1>12, <1>13
<1>15. \A d, m : Reply(d, m)' = Reply(d, m) /\ End(d, m)' = End(d, m)
  BY DEF Reply, End, StreamId
<1> QED BY <1>2, <1>10, <1>11, <1>14, <1>15 DEF RepliesInOrder

\* The end is sent after every reply.
LEMMA RepliesEnded ==
  ASSUME TypeInv, RepliesInOrder, NEW c \in Calls, NEW k \in {0} \cup Failures, Return(c, k)
  PROVE  RepliesInOrder'
<1> DEFINE r == End(c, k)
<1>1. Running(c) /\ k \in 0 .. 16
  BY WireAssumption DEF Return
<1>2. Send(r) /\ UNCHANGED <<readyState, told, outcome, serving, said>>
  BY DEF Return, End, client
<1>3. StreamId(c) < Word /\ \A code : End(c, code) \notin ToSet(toClient)
  BY <1>1, RunningReplies
<1>4. r \in AnyFrame /\ r \notin ToSet(toClient) /\ r.flags = {"TRAILERS"} /\ r.streamId = StreamId(c)
  BY <1>1, <1>3, Fields, ServerFields
<1>5. \A d \in Calls : \A m : outcome[d] = "waiting" => Reply(d, m) # r /\ (End(d, m) = r => d = c)
  <2>1. ASSUME NEW d \in Calls, NEW m, outcome[d] = "waiting"
        PROVE  Reply(d, m) # r /\ (End(d, m) = r => d = c)
    <3>1. StreamId(d) < Word
      BY <2>1 DEF TypeInv, Ids
    <3>2. End(d, m).streamId = StreamId(d) /\ Reply(d, m).flags = {"DATA"}
      BY <3>1, ServerFields
    <3>3. {"TRAILERS"} # {"DATA"}
      OBVIOUS
    <3> QED BY <1>4, <3>2, <3>3, StreamIds
  <2> QED BY <2>1
<1> HIDE DEF r
<1>6. \/ toClient' = toClient
      \/ /\ serving \in {"yes", "reset"} /\ readyState # "CLOSED"
         /\ ToSet(toClient') = ToSet(toClient) \cup {r}
         /\ \A f, g : Before(toClient', f, g) <=>
               Before(toClient, f, g) \/ (f \in ToSet(toClient) /\ g = r)
  BY <1>2, <1>4, SendFacts
<1>7. CASE toClient' = toClient
  BY <1>2, <1>7 DEF RepliesInOrder, Reply, End, StreamId
<1>8. CASE /\ serving \in {"yes", "reset"} /\ readyState # "CLOSED"
           /\ ToSet(toClient') = ToSet(toClient) \cup {r}
           /\ \A f, g : Before(toClient', f, g) <=>
                 Before(toClient, f, g) \/ (f \in ToSet(toClient) /\ g = r)
  <2>1. \A f : "RST_STREAM" \notin f.flags => ~Before(toClient', f, f)
    BY <1>4, <1>8 DEF RepliesInOrder
  <2>2. ASSUME NEW d \in Calls, outcome[d] = "waiting"
        PROVE  /\ \A m \in Nat : Reply(d, m) \in ToSet(toClient') =>
                  /\ m > Len(told[d])
                  /\ \A l \in (Len(told[d]) + 1) .. (m - 1) : Before(toClient', Reply(d, l), Reply(d, m))
               /\ \A code \in 0 .. 16 : End(d, code) \in ToSet(toClient') =>
                  \A l \in (Len(told[d]) + 1) .. said[d] : Before(toClient', Reply(d, l), End(d, code))
               /\ serving \in {"yes", "reset"} /\ readyState # "CLOSED" =>
                  \A l \in (Len(told[d]) + 1) .. said[d] : Reply(d, l) \in ToSet(toClient')
    BY <1>5, <1>8, <2>2 DEF RepliesInOrder
  <2>3. \A d, m : Reply(d, m)' = Reply(d, m) /\ End(d, m)' = End(d, m)
    BY DEF Reply, End, StreamId
  <2> QED BY <1>2, <2>1, <2>2, <2>3 DEF RepliesInOrder
<1> QED BY <1>6, <1>7, <1>8

-----------------------------------------------------------------------------
(* What a frame that arrives does to the call it names.                    *)

\* The client drops the frame, emits the next reply, or ends the call: with what
\* the handler returned after its last reply, because the server refused it, or
\* because of a shutdown.
Received(c) ==
    /\ StreamId(c) < Word /\ Head(toClient).streamId = StreamId(c)
    /\ \/ outcome[c] # "waiting" /\ UNCHANGED <<told, outcome>>
       \/ /\ outcome[c] = "waiting" /\ outcome' = outcome /\ Len(told[c]) < said[c]
          /\ Head(toClient) = Reply(c, Len(told[c]) + 1)
          /\ told' = [told EXCEPT ![c] = Append(@, Len(told[c]) + 1)]
       \/ /\ outcome[c] = "waiting" /\ told' = told /\ Len(told[c]) = said[c]
          /\ ret[c] \notin {"none", "running"} /\ Settle(c, ret[c])
       \/ /\ outcome[c] = "waiting" /\ told' = told /\ ret[c] = "none"
          /\ \E status \in {"RESOURCE_EXHAUSTED", "UNAVAILABLE"} : Settle(c, status)
       \/ /\ outcome[c] = "waiting" /\ told' = told /\ Ending
          /\ Settle(c, "OK")

\* OnMessage() does one of these.
LEMMA FrameReceived ==
  ASSUME TypeInv, RepliesInOrder, OnMessage
  PROVE  \E c \in Calls : Received(c)
<1>1. PICK c \in Calls : /\ c = CallOf(Head(toClient).streamId) /\ outcome[c] # "none"
                         /\ Head(toClient).streamId = StreamId(c)
                         /\ FromServer(c, Head(toClient)) /\ StreamId(c) < Word
  BY ClientReads DEF OnMessage
<1>2. StreamId(c) \in streamMap <=> outcome[c] = "waiting"
  BY InMap
<1>3. toClient # <<>>
  BY DEF OnMessage
<1>4. CASE outcome[c] # "waiting"
  BY <1>1, <1>2, <1>4 DEF OnMessage, DecodeFrame, Received
<1> DEFINE head == Head(toClient)
<1> HIDE DEF head
<1>5. ASSUME outcome[c] = "waiting", NEW n \in 1 .. said[c], head = Reply(c, n) PROVE Received(c)
  <2>1. head.flags = {"DATA"} /\ head.payload.n = n /\ n \in Nat
    BY <1>1, <1>5, ServerFields, Counts
  <2>2. n = Len(told[c]) + 1 /\ n <= said[c]
    BY <1>3, <1>5, <2>1, NextReply DEF head
  <2>3. "TRAILERS" \notin head.flags /\ "RST_STREAM" \notin head.flags
    BY <2>1
  <2>4. told' = [told EXCEPT ![c] = Append(@, n)] /\ outcome' = outcome
    BY <1>1, <1>2, <1>5, <2>1, <2>3 DEF OnMessage, DecodeFrame, head
  <2>5. Len(told[c]) < said[c]
    BY <2>2, Counts
  <2> QED BY <1>1, <1>5, <2>2, <2>4, <2>5 DEF Received, head
<1>6. ASSUME outcome[c] = "waiting", NEW k \in 0 .. 16, head = End(c, k), ret[c] = GrpcStatus[k]
      PROVE  Received(c)
  <2>1. head.flags = {"TRAILERS"} /\ head.payload.status = k
    BY <1>1, <1>6, ServerFields
  <2>2. Len(told[c]) = said[c]
    BY <1>3, <1>6, NextReply DEF head
  <2>3. "DATA" \notin head.flags /\ "RST_STREAM" \notin head.flags
    BY <2>1
  <2>4. told' = told /\ Settle(c, GrpcStatus[k])
    BY <1>1, <1>2, <1>6, <2>1, <2>3 DEF OnMessage, DecodeFrame, head
  <2>5. ret[c] \notin {"none", "running"}
    BY <1>6, Statuses
  <2> QED BY <1>1, <1>6, <2>2, <2>4, <2>5 DEF Received
<1>7. ASSUME outcome[c] = "waiting", NEW k, head = Refusal(c, k)
      PROVE  told' = told /\ Settle(c, ResetStatus(k))
  <2>1. head.flags = {"RST_STREAM"} /\ head.payload.code = k
    BY <1>1, <1>7, ServerFields
  <2>2. "DATA" \notin head.flags /\ "TRAILERS" \notin head.flags
    BY <2>1
  <2> QED BY <1>1, <1>2, <1>7, <2>1, <2>2 DEF OnMessage, DecodeFrame, head
<1>8. /\ ResetStatus(RESOURCE_EXHAUSTED) = "RESOURCE_EXHAUSTED"
      /\ ResetStatus(REFUSED_STREAM) = "UNAVAILABLE" /\ ResetStatus(NO_ERROR) = "OK"
  BY DEF ResetStatus, RESOURCE_EXHAUSTED, REFUSED_STREAM, NO_ERROR
<1>9. ASSUME outcome[c] = "waiting" PROVE Received(c)
  <2>1. CASE \E n \in 1 .. said[c] : head = Reply(c, n)
    BY <1>5, <1>9, <2>1
  <2>2. CASE \E k \in 0 .. 16 : head = End(c, k) /\ ret[c] = GrpcStatus[k]
    BY <1>6, <1>9, <2>2
  <2>3. CASE /\ \E k \in {RESOURCE_EXHAUSTED, REFUSED_STREAM} : head = Refusal(c, k)
             /\ ret[c] = "none"
    BY <1>1, <1>7, <1>8, <1>9, <2>3 DEF Received
  <2>4. CASE head = Refusal(c, NO_ERROR) /\ Ending
    BY <1>1, <1>7, <1>8, <1>9, <2>4 DEF Received
  <2>5. FromServer(c, head)
    BY <1>1 DEF head
  <2> QED BY <2>1, <2>2, <2>3, <2>4, <2>5 DEF FromServer
<1> QED BY <1>4, <1>9

\* What the client does keeps the replies in order.
LEMMA RepliesOfClient ==
  ASSUME TypeInv, RepliesInOrder, Client
  PROVE  RepliesInOrder'
<1>1. UNCHANGED <<serving, stream, handler>>
  BY ClientSteps
<1>2. ASSUME NEW method \in Methods, NEW sizes \in Payloads, OpenStream(method, sizes)
      PROVE  RepliesInOrder'
  <2>1. /\ CallOf(nextStreamId) \in Calls /\ outcome[CallOf(nextStreamId)] = "none"
        /\ StreamId(CallOf(nextStreamId)) < Word
    BY <1>2, NextCall DEF OpenStream
  <2>2. \A c \in Calls : outcome'[c] = "waiting" =>
          outcome[c] = "waiting" \/ (outcome[c] = "none" /\ StreamId(c) < Word)
    BY <1>2, <2>1 DEF OpenStream
  <2>3. toClient' = toClient /\ told' = told /\ readyState' = readyState
    BY <1>2 DEF OpenStream
  <2>4. RepliesStay
    BY <1>1, <2>2, <2>3 DEF RepliesStay, handler
  <2> QED BY <2>4, RepliesKept
<1>3. ASSUME NEW c \in Calls, Unsubscribe(c) PROVE RepliesInOrder'
  <2>1. toClient' = toClient /\ told' = told /\ readyState' = readyState
    BY <1>3 DEF Unsubscribe
  <2>2. \A d \in Calls : outcome'[d] = "waiting" => outcome[d] = "waiting"
    BY <1>3 DEF Unsubscribe, Settle
  <2>3. RepliesStay
    BY <1>1, <2>1, <2>2 DEF RepliesStay, handler
  <2> QED BY <2>3, RepliesKept
<1>4. CASE Exhausted
  <2>1. RepliesStay
    BY <1>1, <1>4 DEF Exhausted, RepliesStay, handler
  <2> QED BY <2>1, RepliesKept
<1>5. CASE OnMessage
  <2>1. PICK c \in Calls : Received(c)
    BY <1>5, FrameReceived
  <2>2. /\ toClient # <<>> /\ toClient' = Tail(toClient) /\ StreamId(c) < Word
        /\ Head(toClient).streamId = StreamId(c) /\ UNCHANGED <<readyState, serving, said>>
    BY <1>1, <1>5, <2>1 DEF OnMessage, Received, handler
  <2>3. /\ \A d \in Calls : outcome'[d] = "waiting" => outcome[d] = "waiting"
        /\ \A d \in Calls : d # c => told'[d] = told[d]
    BY <2>1, Statuses DEF Received, Settle, TypeInv, Types
  <2>4. \/ told'[c] = told[c] /\ outcome'[c] # "waiting"
        \/ \E n \in Nat : outcome[c] = "waiting" /\ Head(toClient) = Reply(c, n)
                          /\ told'[c] = Append(told[c], n)
    <3>1. CASE outcome[c] # "waiting" /\ UNCHANGED <<told, outcome>>
      BY <3>1
    <3>2. CASE /\ outcome[c] = "waiting" /\ Head(toClient) = Reply(c, Len(told[c]) + 1)
               /\ told' = [told EXCEPT ![c] = Append(@, Len(told[c]) + 1)]
      <4>1. PICK n \in Nat : n = Len(told[c]) + 1
        BY Counts
      <4>2. told'[c] = Append(told[c], n)
        BY <3>2, <4>1 DEF TypeInv, Types
      <4> QED BY <3>2, <4>1, <4>2
    <3>3. ASSUME NEW status, status # "waiting", Settle(c, status), told' = told
          PROVE  told'[c] = told[c] /\ outcome'[c] # "waiting"
      BY <3>3 DEF Settle, TypeInv, Types
    <3>4. ret[c] # "waiting"
      BY Statuses DEF TypeInv, Types
    <3> QED BY <2>1, <3>1, <3>2, <3>3, <3>4 DEF Received
  <2> QED BY <2>2, <2>3, <2>4, ReplyTaken
<1>6. CASE OnClose
  <2>1. /\ toClient' = <<>> /\ told' = told /\ readyState' = "CLOSED" /\ said' = said
        /\ \A c \in Calls : outcome'[c] # "waiting"
    BY <1>1, <1>6, InMap DEF OnClose, handler
  <2>2. \A f, g : ~Before(toClient', f, g)
    BY <2>1, EmptyFacts
  <2> QED BY <2>1, <2>2 DEF RepliesInOrder
<1> QED BY <1>2, <1>3, <1>4, <1>5, <1>6 DEF Client, Request, ClientStream

\* So does what the server reads: of its answers only a refusal is sent at once.
LEMMA RepliesOfPump ==
  ASSUME TypeInv, RepliesInOrder, Pump
  PROVE  RepliesInOrder'
<1>1. client' = client /\ said' = said /\ (serving' = serving \/ serving' \in {"closed", "over"})
  BY DEF Pump, PumpHeaders, PumpData, PumpRst, PumpSkips, ReadError, handler
<1>2. ASSUME toClient' = toClient PROVE RepliesInOrder'
  <2>1. RepliesStay
    BY <1>1, <1>2 DEF RepliesStay, client
  <2> QED BY <2>1, RepliesKept
<1>3. ASSUME PumpHeaders, toClient' # toClient PROVE RepliesInOrder'
  <2>1. toServer # <<>> /\ serving' = serving
    BY <1>3 DEF PumpHeaders, Reads
  <2>2. PICK c \in Calls : FromClient(c, Head(toServer)) /\ StreamId(c) < Word
    BY <2>1, ServerReads
  <2>3. PICK code \in {RESOURCE_EXHAUSTED, REFUSED_STREAM} : Send(Refusal(c, code))
    BY <1>3, <2>2 DEF PumpHeaders, SendReset, Refusal, FromClient
  <2>4. code \in 0 .. 16
    BY DEF RESOURCE_EXHAUSTED, REFUSED_STREAM
  <2>5. Refusal(c, code) \in AnyFrame /\ Refusal(c, code).flags = {"RST_STREAM"}
    BY <2>2, <2>4, Fields, ServerFields
  <2>6. /\ ToSet(toClient') = ToSet(toClient) \cup {Refusal(c, code)}
        /\ \A f, g : Before(toClient', f, g) <=>
              Before(toClient, f, g) \/ (f \in ToSet(toClient) /\ g = Refusal(c, code))
    BY <1>3, <2>3, <2>5, SendFacts
  <2>7. RepliesStay
    BY <1>1, <2>1, <2>5, <2>6 DEF RepliesStay, client
  <2> QED BY <2>7, RepliesKept
<1>4. CASE PumpData \/ PumpRst \/ PumpSkips \/ ReadError
  BY <1>2, <1>4 DEF PumpData, PumpRst, PumpSkips, ReadError
<1> QED BY <1>2, <1>3, <1>4 DEF Pump

\* And what the handlers and a shutdown do.
LEMMA RepliesOfHandlers ==
  ASSUME TypeInv, RepliesInOrder,
         (\E c \in Calls : Handler(c)) \/ ShutdownResets \/ ShutdownCancels
  PROVE  RepliesInOrder'
<1>1. client' = client
  BY DEF Handler, Hear, HearEof, Say, Return, Unregister, ShutdownResets, ShutdownCancels
<1>2. ASSUME NEW c \in Calls, Hear(c) \/ HearEof(c) \/ Unregister(c) PROVE RepliesInOrder'
  <2>1. toClient' = toClient /\ said' = said /\ serving' = serving
    BY <1>2 DEF Hear, HearEof, Unregister, handler
  <2>2. RepliesStay
    BY <1>1, <2>1 DEF RepliesStay, client
  <2> QED BY <2>2, RepliesKept
<1>3. ASSUME NEW c \in Calls, Say(c) PROVE RepliesInOrder'
  BY <1>3, RepliesSaid
<1>4. ASSUME NEW c \in Calls, NEW k \in {0} \cup Failures, Return(c, k) PROVE RepliesInOrder'
  BY <1>4, RepliesEnded
<1>5. CASE ShutdownResets
  <2>1. said' = said /\ serving = "yes"
    BY <1>5 DEF ShutdownResets, handler
  <2>2. PICK queued \in SUBSET registered : \E order \in SetToSeqs(queued) :
            toClient' = IF readyState = "CLOSED" THEN toClient ELSE toClient \o
                [i \in DOMAIN order |->
                    EncodeFrame(StreamId(order[i]), {"RST_STREAM"}, ResetCode(NO_ERROR))]
    BY <1>5 DEF ShutdownResets
  <2>3. /\ ToSet(toClient) \subseteq ToSet(toClient')
        /\ \A f \in ToSet(toClient') : f \in ToSet(toClient) \/ f.flags = {"RST_STREAM"}
        /\ \A f, g : Before(toClient, f, g) => Before(toClient', f, g)
        /\ \A f : "RST_STREAM" \notin f.flags /\ Before(toClient', f, f) => Before(toClient, f, f)
    <3>1. CASE toClient' = toClient
      BY <3>1
    <3>2. CASE toClient' # toClient
      <4>1. \A c \in registered : Refusal(c, NO_ERROR).flags = {"RST_STREAM"}
        BY ReplyFlags
      <4>2. PICK order \in SetToSeqs(queued) : toClient' = toClient \o
                [i \in DOMAIN order |->
                    EncodeFrame(StreamId(order[i]), {"RST_STREAM"}, ResetCode(NO_ERROR))]
        BY <2>2, <3>2
      <4> QED BY <4>1, <4>2, ShutdownSends
    <3> QED BY <3>1, <3>2
  <2>4. RepliesStay
    BY <1>1, <2>1, <2>3 DEF RepliesStay, client
  <2> QED BY <2>4, RepliesKept
<1>6. CASE ShutdownCancels
  <2>1. said' = said /\ serving' = "stopped"
    BY <1>6 DEF ShutdownCancels, handler
  <2>2. PICK k \in 0 .. Len(toClient) : toClient' = SubSeq(toClient, 1, k)
    BY <1>6 DEF ShutdownCancels
  <2>3. toClient \in Seq(AnyFrame)
    BY DEF TypeInv, Types
  <2>4. /\ ToSet(toClient') \subseteq ToSet(toClient)
        /\ \A f, g : Before(toClient', f, g) => Before(toClient, f, g)
        /\ \A f, g : Before(toClient, f, g) /\ ~Before(toClient, g, g) /\ g \in ToSet(toClient')
                        => Before(toClient', f, g)
    BY <2>2, <2>3, PrefixFacts
  <2>5. ASSUME NEW g, g \in ToSet(toClient'), "RST_STREAM" \notin g.flags
        PROVE  g \in ToSet(toClient) /\ \A f : Before(toClient, f, g) => Before(toClient', f, g)
    BY <2>4, <2>5 DEF RepliesInOrder
  <2>6. \A c, n : "RST_STREAM" \notin Reply(c, n).flags /\ "RST_STREAM" \notin End(c, n).flags
    BY ReplyFlags
  <2>7. ASSUME NEW c \in Calls, outcome[c] = "waiting"
        PROVE  /\ \A n \in Nat : Reply(c, n) \in ToSet(toClient') =>
                    /\ n > Len(told[c])
                    /\ \A l \in (Len(told[c]) + 1) .. (n - 1) : Before(toClient', Reply(c, l), Reply(c, n))
               /\ \A code \in 0 .. 16 : End(c, code) \in ToSet(toClient') =>
                    \A l \in (Len(told[c]) + 1) .. said[c] : Before(toClient', Reply(c, l), End(c, code))
    BY <2>5, <2>6, <2>7 DEF RepliesInOrder
  <2>8. \A f : "RST_STREAM" \notin f.flags => ~Before(toClient', f, f)
    BY <2>4 DEF RepliesInOrder
  <2>9. \A c, n : Reply(c, n)' = Reply(c, n) /\ End(c, n)' = End(c, n)
    BY DEF Reply, End, StreamId
  <2>10. told' = told /\ outcome' = outcome /\ \A c \in Calls : Len(told[c]) <= said[c]
    BY <1>1 DEF client, RepliesInOrder
  <2> QED BY <2>1, <2>7, <2>8, <2>9, <2>10 DEF RepliesInOrder
<1> QED BY <1>2, <1>3, <1>4, <1>5, <1>6 DEF Handler

\* A step of any kind.
LEMMA RepliesStep ==
  ASSUME TypeInv, RepliesInOrder, [Next]_vars
  PROVE  RepliesInOrder'
<1>1. CASE UNCHANGED vars
  <2>1. RepliesStay
    BY <1>1 DEF vars, client, handler, RepliesStay
  <2> QED BY <2>1, RepliesKept
<1> QED BY <1>1, RepliesOfClient, RepliesOfPump, RepliesOfHandlers DEF Next

-----------------------------------------------------------------------------
(* What holds always.                                                      *)

\* The inductive invariant holds at first.
LEMMA InitInv == Init => IInv
<1> SUFFICES ASSUME Init PROVE IInv
  OBVIOUS
<1>1. ToSet(<<>>) = {} /\ \A f, g : ~Before(<<>>, f, g)
  BY EmptyFacts
<1>2. Harmless
  BY DEF Init, Harmless, Running
<1>3. \A c \in Calls : Carried(c) = <<>>
  BY DEF Init, Carried
<1>4. CarriedInOrder
  BY <1>1, <1>3 DEF CarriedInOrder
<1>5. NoneMissing
  BY <1>1 DEF Init, NoneMissing
<1>6. RepliesInOrder
  BY <1>1 DEF Init, RepliesInOrder
<1> QED BY <1>2, <1>4, <1>5, <1>6, TypeInit DEF IInv

\* Every step preserves it.
LEMMA NextInv == IInv /\ [Next]_vars => IInv'
BY TypeStep, HarmlessStep, CarriedStep, MissingStep, RepliesStep DEF IInv

\* In every reachable state of a connection the frames in flight, the two ends'
\* tables of streams and what the callers and handlers were given agree.
THEOREM WireInvariant == Spec => []IInv
<1>1. Init => IInv
  BY InitInv
<1>2. IInv /\ [Next]_vars => IInv'
  BY NextInv
<1> QED BY <1>1, <1>2, PTL DEF Spec

\* Every variable of both programs keeps its type, and the client's streamMap is
\* exactly the set of streams whose caller waits.
THEOREM WireTypes == Spec => []TypeOK
<1>1. ASSUME TypeInv PROVE TypeOK
  <2>1. Asked \subseteq [method : Methods, sizes : Payloads]
    BY DEF Asked
  <2> QED BY <1>1, <2>1 DEF TypeInv, Types, TypeOK
<1> QED BY <1>1, WireInvariant, PTL DEF IInv

\* The RST_STREAM of a teardown stops no handler but that of its own call: while
\* the connection serves, the context of a handler that runs is done only if its
\* caller no longer waits.
THEOREM ResetsAreHarmless == Spec => []ResetHarmless
<1>1. Harmless => ResetHarmless
  BY DEF Harmless, ResetHarmless
<1> QED BY <1>1, WireInvariant, PTL DEF IInv

\* Whatever FirstId and the number of calls, a frame names a stream that this
\* client opened, also when the ids of 32 bits have run out.
THEOREM FramesKeepStream == Spec => []FramesKeepTheirStream
<1>1. ASSUME TypeInv PROVE FramesKeepTheirStream
  <2>1. \A i \in DOMAIN toServer : toServer[i] \in ToSet(toServer)
    BY DEF ToSet
  <2>2. \A c \in Calls : outcome[c] # "none" => asked[c] # Nothing
    BY <1>1 DEF TypeInv, Ids
  <2>3. \A i \in DOMAIN toServer : \E c \in Calls :
            outcome[c] # "none" /\ toServer[i].streamId = StreamId(c)
    BY <1>1, <2>1 DEF TypeInv, SentByClient, FromClient
  <2> QED BY <2>2, <2>3 DEF FramesKeepTheirStream
<1> QED BY <1>1, WireInvariant, PTL DEF IInv

-----------------------------------------------------------------------------
(* Both programs together implement Rpc.                                   *)

\* What a caller is told, and how its call ends, is a step that Rpc allows.
LEMMA ReceivedImplements ==
  ASSUME IInv, OnMessage
  PROVE  [Abstract!Next]_(Abstract!vars)
<1>1. UNCHANGED <<asked, handler>> /\ Ending' = Ending
  BY DEF OnMessage, Ending
<1>2. PICK c \in Calls : Received(c)
  BY FrameReceived DEF IInv
<1>3. CASE UNCHANGED <<told, outcome>>
  BY <1>1, <1>3 DEF Abstract!vars, handler
<1>4. CASE /\ outcome[c] = "waiting" /\ outcome' = outcome /\ Len(told[c]) < said[c]
           /\ told' = [told EXCEPT ![c] = Append(@, Len(told[c]) + 1)]
  <2>1. Abstract!Tell(c)
    BY <1>1, <1>4 DEF Abstract!Tell, Abstract!server, handler
  <2> QED BY <2>1 DEF Abstract!Next
<1>5. ASSUME NEW status, Settle(c, status), outcome[c] = "waiting", told' = told
      PROVE  Abstract!Settle(c, status)
  BY <1>1, <1>5 DEF Settle, Abstract!Settle, Abstract!server, handler
<1>6. CASE /\ outcome[c] = "waiting" /\ told' = told /\ Len(told[c]) = said[c]
           /\ ret[c] \notin {"none", "running"} /\ Settle(c, ret[c])
  <2>1. Abstract!Settle(c, ret[c])
    BY <1>5, <1>6
  <2>2. Abstract!Finish(c)
    BY <1>6, <2>1 DEF Abstract!Finish
  <2> QED BY <2>2 DEF Abstract!Next
<1>7. ASSUME outcome[c] = "waiting", told' = told, ret[c] = "none",
             NEW status \in {"RESOURCE_EXHAUSTED", "UNAVAILABLE"}, Settle(c, status)
      PROVE  Abstract!Next
  <2>1. heard[c] = <<>> /\ said[c] = 0
    BY <1>7 DEF IInv, TypeInv, Unstarted
  <2>2. Abstract!Settle(c, status)
    BY <1>5, <1>7
  <2>3. Abstract!Refuse(c, status)
    BY <1>7, <2>1, <2>2 DEF Abstract!Refuse
  <2> QED BY <2>3 DEF Abstract!Next
<1>8. CASE outcome[c] = "waiting" /\ told' = told /\ Ending /\ Settle(c, "OK")
  <2>1. Abstract!Settle(c, "OK")
    BY <1>5, <1>8
  <2>2. Abstract!CutShort(c)
    BY <1>8, <2>1 DEF Abstract!CutShort
  <2> QED BY <2>2 DEF Abstract!Next
<1> QED BY <1>2, <1>3, <1>4, <1>6, <1>7, <1>8 DEF Received

\* So is what else a client does.
LEMMA ClientImplements ==
  ASSUME IInv, Client
  PROVE  [Abstract!Next]_(Abstract!vars)
<1>1. UNCHANGED handler /\ Ending' = Ending
  BY ClientSteps DEF IInv, Ending
<1>2. ASSUME NEW method \in Methods, NEW sizes \in Payloads,
             Request(method, sizes) \/ ClientStream(method, sizes)
      PROVE  Abstract!Next
  <2> DEFINE c == CallOf(nextStreamId)
             request == [method |-> method, sizes |-> sizes]
  <2>1. OpenStream(method, sizes) /\ request \in Asked
    BY <1>2 DEF Asked, Request, ClientStream
  <2>2. c \in Calls /\ outcome[c] = "none"
    BY <2>1, NextCall DEF OpenStream, IInv
  <2>3. /\ asked' = [asked EXCEPT ![c] = request] /\ told' = told
        /\ outcome' = [outcome EXCEPT ![c] = "waiting"]
    BY <2>1 DEF OpenStream
  <2> HIDE DEF c, request
  <2>4. Abstract!Ask(c, request)
    BY <1>1, <2>2, <2>3 DEF Abstract!Ask, Abstract!server, handler
  <2>5. \E r \in Asked : Abstract!Ask(c, r)
    BY <2>1, <2>4
  <2> QED BY <2>2, <2>5 DEF Abstract!Next, Asked
<1>3. ASSUME NEW c \in Calls, Unsubscribe(c) PROVE Abstract!Next
  <2>1. Abstract!Cancel(c)
    BY <1>1, <1>3 DEF Unsubscribe, Settle, Abstract!Cancel, Abstract!Settle, Abstract!server, handler
  <2> QED BY <2>1 DEF Abstract!Next
<1>4. CASE Exhausted
  BY <1>1, <1>4 DEF Exhausted, Abstract!vars, handler
<1>5. CASE OnMessage
  BY <1>5, ReceivedImplements
<1>6. CASE OnClose
  <2>1. \A c \in Calls : StreamId(c) \in streamMap <=> outcome[c] = "waiting"
    BY InMap DEF IInv
  <2>2. /\ outcome' = [c \in Calls |-> IF outcome[c] = "waiting" THEN "UNAVAILABLE" ELSE outcome[c]]
        /\ UNCHANGED <<asked, told>>
    BY <1>6, <2>1 DEF OnClose
  <2>3. Abstract!ConnectionLost
    BY <1>1, <2>2 DEF Abstract!ConnectionLost, Abstract!server, handler
  <2> QED BY <2>3 DEF Abstract!Next
<1> QED BY <1>2, <1>3, <1>4, <1>5, <1>6 DEF Client

\* The server reads without being seen: a handler that starts is in Rpc one that
\* has not returned.
LEMMA PumpImplements ==
  ASSUME IInv, Pump
  PROVE  [Abstract!Next]_(Abstract!vars)
<1>1. client' = client /\ heard' = heard /\ said' = said
  BY DEF Pump, PumpHeaders, PumpData, PumpRst, PumpSkips, ReadError, handler
<1>2. CASE PumpHeaders
  <2>1. Ending' = Ending /\ toServer # <<>> /\ "HEADERS" \in Head(toServer).flags
    BY <1>2 DEF PumpHeaders, Reads, Ending
  <2>2. PICK c \in Calls : /\ c = CallOf(Head(toServer).streamId)
                           /\ FromClient(c, Head(toServer)) /\ Head(toServer) \in ToSet(toServer)
    BY <2>1, ServerReads DEF IInv
  <2>3. ret[c] = "none"
    BY <2>1, <2>2 DEF FromClient, Coming, IInv, TypeInv, Unstarted
  <2>4. ret' = ret \/ ret' = [ret EXCEPT ![c] = "running"]
    BY <1>2, <2>2 DEF PumpHeaders
  <2>5. \A d \in Calls : (IF ret'[d] = "none" THEN "running" ELSE ret'[d])
                           = IF ret[d] = "none" THEN "running" ELSE ret[d]
    BY <2>3, <2>4 DEF IInv, TypeInv, Types
  <2> QED BY <1>1, <2>1, <2>5 DEF Abstract!vars, client
<1>3. CASE PumpData \/ PumpRst \/ PumpSkips
  BY <1>1, <1>3 DEF PumpData, PumpRst, PumpSkips, Ending, Abstract!vars, client, handler
<1>4. CASE ReadError
  <2>1. Ending' = Ending
    BY <1>4 DEF ReadError, Ending
  <2> QED BY <1>1, <1>4, <2>1 DEF ReadError, Abstract!vars, client, handler
<1> QED BY <1>2, <1>3, <1>4 DEF Pump

\* The next message in a handler's buffer is one that Rpc lets it hear: all that
\* came before it was heard, was too large, or the server is being shut down.
LEMMA HearImplements ==
  ASSUME IInv, NEW c \in Calls, Hear(c)
  PROVE  Abstract!Next
<1> DEFINE i == Head(recvChan[c])
           sizes == asked[c].sizes
           Known(j) == \E k \in DOMAIN heard[c] : heard[c][k] = j
<1>1. /\ ret[c] = "running" /\ recvChan[c] # <<>> /\ heard' = [heard EXCEPT ![c] = Append(@, i)]
      /\ UNCHANGED <<asked, said, ret, told, outcome>> /\ Ending' = Ending
  BY DEF Hear, Running, Ending, client
<1>2. asked[c] # Nothing
  BY <1>1 DEF IInv, TypeInv, Unstarted, Ids
<1>3. /\ ToSet(Carried(c)) = ToSet(heard[c]) \cup ToSet(recvChan[c])
      /\ \A k, j : Before(Carried(c), k, j) <=>
           \/ Before(heard[c], k, j)
           \/ Before(recvChan[c], k, j)
           \/ k \in ToSet(heard[c]) /\ j \in ToSet(recvChan[c])
      /\ recvChan[c] \in Seq(Nat) /\ heard[c] \in Seq(Nat)
  BY CarriedTypes DEF IInv
<1>4. /\ i \in Nat /\ ToSet(recvChan[c]) = {i} \cup ToSet(Tail(recvChan[c]))
      /\ \A j \in ToSet(Tail(recvChan[c])) : Before(recvChan[c], i, j)
  BY <1>1, <1>3, TailFacts
<1>5. /\ \A k, j : Before(Carried(c), k, j) => k < j
      /\ FitsAt(c, i)
      /\ ~Ending => \A j \in 1 .. (i - 1) : FitsAt(c, j) => j \in ToSet(Carried(c))
  BY <1>3, <1>4 DEF IInv, CarriedInOrder
<1>6. /\ Len(sizes) \in Nat /\ DOMAIN sizes = 1 .. Len(sizes)
      /\ \A j \in DOMAIN sizes : j \in Nat /\ sizes[j] \in Nat
  <2>1. asked[c] \in Asked
    BY <1>2 DEF IInv, TypeInv, Types
  <2>2. sizes \in Seq(0 .. (Word - 1))
    BY <2>1, WireAssumption DEF Asked
  <2> HIDE DEF sizes
  <2>3. Len(sizes) \in Nat /\ DOMAIN sizes = 1 .. Len(sizes)
    BY <2>2
  <2>4. ASSUME NEW j \in DOMAIN sizes PROVE j \in Nat /\ sizes[j] \in Nat
    <3>1. sizes[j] \in 0 .. (Word - 1)
      BY <2>2, <2>3, ElementOfSeq
    <3> QED BY <2>3, <3>1
  <2> QED BY <2>3, <2>4
<1>7. \A j : Known(j) <=> j \in ToSet(heard[c])
  BY DEF ToSet
<1>8. i \in DOMAIN sizes /\ i \in 1 .. Len(sizes) /\ sizes[i] <= MaxPayloadSize
  BY <1>5, <1>6 DEF FitsAt
<1>9. ASSUME NEW j \in DOMAIN sizes, j >= i PROVE ~Known(j)
  <2> SUFFICES ASSUME j \in ToSet(heard[c]) PROVE FALSE
    BY <1>7
  <2>1. j < i
    BY <1>3, <1>4, <1>5
  <2>2. j \in Nat
    BY <1>6
  <2> QED BY <1>4, <1>9, <2>1, <2>2
<1>10. ASSUME NEW j \in 1 .. (i - 1) PROVE Known(j) \/ sizes[j] > MaxPayloadSize \/ Ending
  <2> SUFFICES ASSUME j \notin ToSet(heard[c]), ~Ending PROVE sizes[j] > MaxPayloadSize
    BY <1>7
  <2> HIDE DEF i, sizes
  <2>0. j \in Nat /\ j < i /\ j \in 1 .. Len(sizes)
    BY <1>4, <1>6, <1>8
  <2>1. j \in DOMAIN sizes /\ sizes[j] \in Nat /\ j \in Nat /\ j < i
    BY <1>6, <2>0
  <2>2. j \notin ToSet(recvChan[c])
    <3> SUFFICES ASSUME j \in ToSet(Tail(recvChan[c])) PROVE FALSE
      BY <1>4, <2>1
    <3>1. i < j
      BY <1>3, <1>4, <1>5
    <3> QED BY <1>4, <2>1, <3>1
  <2>3. ~FitsAt(c, j)
    BY <1>3, <1>5, <2>2
  <2> QED BY <2>1, <2>3, FrameAssumption DEF FitsAt, sizes
<1> HIDE DEF i
<1>11. Abstract!Hear(c, i)
  BY <1>1, <1>2, <1>8, <1>9, <1>10 DEF Abstract!Hear
<1> QED BY <1>8, <1>11 DEF Abstract!Next

\* The other steps of the handlers and of a shutdown.
LEMMA HandlerImplements ==
  ASSUME IInv, (\E c \in Calls : Handler(c)) \/ ShutdownResets \/ ShutdownCancels
  PROVE  [Abstract!Next]_(Abstract!vars)
<1>1. client' = client
  BY DEF Handler, Hear, HearEof, Say, Return, Unregister, ShutdownResets, ShutdownCancels
<1>2. \A c \in Calls : Running(c) => ret[c] = "running" /\ asked[c] # Nothing
  BY DEF Running, IInv, TypeInv, Unstarted, Ids
<1>3. ASSUME NEW c \in Calls, Hear(c) PROVE Abstract!Next
  BY <1>3, HearImplements
<1>4. ASSUME NEW c \in Calls, HearEof(c) \/ Unregister(c) PROVE UNCHANGED Abstract!vars
  BY <1>1, <1>4 DEF HearEof, Unregister, Ending, Abstract!vars, client, handler
<1>5. ASSUME NEW c \in Calls, Say(c) PROVE Abstract!Next
  <2>1. Abstract!Say(c)
    BY <1>1, <1>2, <1>5 DEF Say, Ending, Abstract!Say, client
  <2> QED BY <2>1 DEF Abstract!Next
<1>6. ASSUME NEW c \in Calls, NEW code \in {0} \cup Failures, Return(c, code) PROVE Abstract!Next
  <2>1. PICK status \in {GrpcStatus[k] : k \in {0} \cup Failures} :
            status = GrpcStatus[code] /\ status # "none"
    <3>1. code \in 0 .. 16
      BY WireAssumption
    <3> QED BY <3>1, Statuses
  <2>2. /\ ret[c] = "running" /\ asked[c] # Nothing /\ ret' = [ret EXCEPT ![c] = status]
        /\ UNCHANGED <<asked, heard, said, told, outcome>> /\ Ending' = Ending
    BY <1>1, <1>2, <1>6, <2>1 DEF Return, Ending, client
  <2>3. [d \in Calls |-> IF ret'[d] = "none" THEN "running" ELSE ret'[d]]
          = [[d \in Calls |-> IF ret[d] = "none" THEN "running" ELSE ret[d]] EXCEPT ![c] = status]
    BY <2>1, <2>2 DEF IInv, TypeInv, Types
  <2>4. Abstract!Return(c, status)
    BY <2>2, <2>3 DEF Abstract!Return
  <2> QED BY <2>4 DEF Abstract!Next
<1>7. CASE ShutdownResets
  <2>1. Abstract!End
    BY <1>1, <1>7 DEF ShutdownResets, Ending, Abstract!End, Abstract!server, client, handler
  <2> QED BY <2>1 DEF Abstract!Next
<1>8. CASE ShutdownCancels
  BY <1>1, <1>8 DEF ShutdownCancels, Ending, Abstract!vars, client, handler
<1> QED BY <1>3, <1>4, <1>5, <1>6, <1>7, <1>8 DEF Handler

\* Across both programs, and for any number of calls of any shape, a call behaves
\* as Rpc says: the handler hears the caller's messages in order, the caller the
\* handler's replies in order and without a gap, the handler's status only after
\* all of them; a refused call was never started.
THEOREM WireImplementsRpc == Spec => ImplementsRpc
<1>1. Init => Abstract!Init
  BY DEF Init, Ending, Abstract!Init
<1>2. IInv /\ [Next]_vars => [Abstract!Next]_(Abstract!vars)
  <2> SUFFICES ASSUME IInv, [Next]_vars PROVE [Abstract!Next]_(Abstract!vars)
    OBVIOUS
  <2>1. CASE UNCHANGED vars
    BY <2>1 DEF vars, Ending, client, handler, Abstract!vars
  <2> QED BY <2>1, ClientImplements, PumpImplements, HandlerImplements DEF Next
<1> QED BY <1>1, <1>2, WireInvariant, PTL DEF Spec, ImplementsRpc, Abstract!Spec
=============================================================================
