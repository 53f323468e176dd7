--------------------------------- MODULE Rpc ---------------------------------
(***************************************************************************)
(* What remote calls over one connection promise, as seen from both ends:  *)
(* the caller asks and is told, the handler hears and says.                *)
(***************************************************************************)
EXTENDS Integers, Sequences

CONSTANTS
    Calls,
    Requests,      \* what may be asked: records with the sizes of the messages
    Nothing,       \* stands for a request that was not made
    MaxPayloadSize,
    Statuses       \* the gRPC codes a handler may return

VARIABLES
    asked,    \* per call: one of Requests, or Nothing
    heard,    \* per call: the numbers of the messages its handler received
    said,     \* per call: how many replies its handler sent
    ret,      \* per call: the status its handler returned, or "running"
    told,     \* per call: the numbers of the replies the caller received
    outcome,  \* per call: "none", "waiting", "cancelled" or a status
    ending    \* the server is being shut down

vars == <<asked, heard, said, ret, told, outcome, ending>>
server == <<heard, said, ret>>

Init ==
    /\ asked = [c \in Calls |-> Nothing] /\ outcome = [c \in Calls |-> "none"]
    /\ heard = [c \in Calls |-> <<>>] /\ told = [c \in Calls |-> <<>>]
    /\ said = [c \in Calls |-> 0] /\ ret = [c \in Calls |-> "running"]
    /\ ending = FALSE

Ask(c, request) ==
    /\ outcome[c] = "none"
    /\ asked' = [asked EXCEPT ![c] = request]
    /\ outcome' = [outcome EXCEPT ![c] = "waiting"]
    /\ UNCHANGED <<server, told, ending>>

\* In order and without repetition; what is left out is too large for the
\* server, or the server is being shut down.
Hear(c, i) ==
    /\ asked[c] # Nothing /\ ret[c] = "running"
    /\ LET Heard(j) == \E k \in DOMAIN heard[c] : heard[c][k] = j
           size == asked[c].sizes IN
       /\ i \in DOMAIN size /\ size[i] <= MaxPayloadSize
       /\ \A j \in DOMAIN size : j >= i => ~Heard(j)
       /\ \A j \in 1 .. (i - 1) : Heard(j) \/ size[j] > MaxPayloadSize \/ ending
    /\ heard' = [heard EXCEPT ![c] = Append(@, i)]
    /\ UNCHANGED <<asked, said, ret, told, outcome, ending>>

Say(c) ==
    /\ asked[c] # Nothing /\ ret[c] = "running"
    /\ said' = [said EXCEPT ![c] = @ + 1]
    /\ UNCHANGED <<asked, heard, ret, told, outcome, ending>>

Return(c, status) ==
    /\ asked[c] # Nothing /\ ret[c] = "running"
    /\ ret' = [ret EXCEPT ![c] = status]
    /\ UNCHANGED <<asked, heard, said, told, outcome, ending>>

Tell(c) ==
    /\ outcome[c] = "waiting" /\ Len(told[c]) < said[c]
    /\ told' = [told EXCEPT ![c] = Append(@, Len(@) + 1)]
    /\ UNCHANGED <<asked, server, outcome, ending>>

Settle(c, status) ==
    /\ outcome[c] = "waiting"
    /\ outcome' = [outcome EXCEPT ![c] = status]
    /\ UNCHANGED <<asked, server, told, ending>>

\* The caller learns what the handler returned after all that it said.
Finish(c) ==
    /\ ret[c] # "running" /\ Len(told[c]) = said[c]
    /\ Settle(c, ret[c])

\* A server with no room, or without the method, has not started the call.
Refuse(c, status) ==
    /\ status \in {"RESOURCE_EXHAUSTED", "UNAVAILABLE"}
    /\ heard[c] = <<>> /\ said[c] = 0 /\ ret[c] = "running"
    /\ Settle(c, status)

Cancel(c) == Settle(c, "cancelled")

\* Shutdown ends the calls that are under way without an error.
CutShort(c) == ending /\ Settle(c, "OK")

End == ending' = TRUE /\ UNCHANGED <<asked, server, told, outcome>>

ConnectionLost ==
    /\ outcome' = [c \in Calls |-> IF outcome[c] = "waiting" THEN "UNAVAILABLE" ELSE outcome[c]]
    /\ UNCHANGED <<asked, server, told, ending>>

Next ==
    \/ \E c \in Calls :
        \/ \E request \in Requests : Ask(c, request)
        \/ \E i \in 1 .. Len(asked[c].sizes) : Hear(c, i)
        \/ Say(c) \/ \E status \in Statuses : Return(c, status)
        \/ Tell(c) \/ Finish(c) \/ Cancel(c) \/ CutShort(c)
        \/ \E status \in {"RESOURCE_EXHAUSTED", "UNAVAILABLE"} : Refuse(c, status)
    \/ End \/ ConnectionLost

Spec == Init /\ [][Next]_vars
=============================================================================
