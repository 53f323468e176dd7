-------------------------------- MODULE Frame --------------------------------
(***************************************************************************)
(* The frame codecs, frontend/projects/client/src/lib/frame.ts and         *)
(* wsgrpc/frame.go, and the status codes of errors.ts.  A frame's header   *)
(* is a set of flags and two unsigned 32-bit fields; Word stands for 2^32. *)
(* A payload is a record with its size; how a number is laid out in bytes  *)
(* is left out, what fits in its field is not.                             *)
(***************************************************************************)
EXTENDS Integers, Sequences

CONSTANTS
    Word,           \* values of a 32-bit header field
    MaxPayloadSize, \* ServerOption.MaxPayloadSize
    Margin          \* what the WebSocket's read limit adds to it

ASSUME FrameAssumption ==
    /\ {Word, MaxPayloadSize, Margin} \subseteq Nat \ {0}
    /\ MaxPayloadSize + Margin < Word

Flags == {"HEADERS", "DATA", "TRAILERS", "RST_STREAM", "EOS", "PING", "PONG"}

\* DataView.setUint32 and binary.BigEndian.PutUint32 keep the low 32 bits.
Uint32(n) == n % Word

EncodeFrame(streamId, flags, payload) ==
    [flags |-> flags, streamId |-> Uint32(streamId), length |-> Uint32(payload.size),
     payload |-> payload]

\* frame.ts reads its fields with getUint32, and has no limit of its own.
SignedDecode(f) ==  \* mutant: getInt32
    [f EXCEPT !.streamId = IF f.streamId < Word \div 2 THEN f.streamId ELSE f.streamId - Word]
DecodeFrame(f) == f

\* frame.go refuses a payload over the limit; a longer one still the read limit
\* of the socket stops.  WebSocket messages arrive whole or not at all.
Decodes(f) == f.length <= MaxPayloadSize /\ f.length <= f.payload.size
OverReadLimit(f) == f.payload.size > MaxPayloadSize + Margin

-----------------------------------------------------------------------------
(* Payloads.                                                               *)

Headers(method) == [size |-> 4, path |-> method]
Message(n, size) == [size |-> size, n |-> n]
Trailers(code) == [size |-> 4, status |-> code]
ResetCode(code) == [size |-> 4, code |-> code]

NO_ERROR == 0
REFUSED_STREAM == 6
CANCEL == 7
RESOURCE_EXHAUSTED == 8

\* errors.ts: the gRPC code a number in TRAILERS stands for.
GrpcStatus == [n \in 0 .. 16 |->
    <<"OK", "CANCELLED", "UNKNOWN", "INVALID_ARGUMENT", "DEADLINE_EXCEEDED", "NOT_FOUND",
      "ALREADY_EXISTS", "PERMISSION_DENIED", "RESOURCE_EXHAUSTED", "FAILED_PRECONDITION",
      "ABORTED", "OUT_OF_RANGE", "UNIMPLEMENTED", "INTERNAL", "UNAVAILABLE", "DATA_LOSS",
      "UNAUTHENTICATED">>[n + 1]]

FewerCodes(code) == IF code = NO_ERROR THEN "OK" ELSE "CANCELLED"  \* mutant: no switch
\* client.ts: the gRPC code it makes of the code in a RST_STREAM.
ResetStatus(code) ==
    CASE code = NO_ERROR -> "OK"
      [] code \in 1 .. 4 -> "INTERNAL"
      [] code \in {5, RESOURCE_EXHAUSTED} -> "RESOURCE_EXHAUSTED"
      [] code \in {REFUSED_STREAM, 9} -> "UNAVAILABLE"
      [] OTHER -> "CANCELLED"
=============================================================================
