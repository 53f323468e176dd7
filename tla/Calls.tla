-------------------------------- MODULE Calls --------------------------------
(***************************************************************************)
(* What the client's queue promises about a call: it is carried by one     *)
(* connection at most, is never queued again once a frame of it was sent,  *)
(* and ends once.                                                          *)
(***************************************************************************)
CONSTANTS Requests, Sockets

VARIABLES
    phase,   \* per call: "none", "queued", "open", "ok", "failed", "cancelled"
    carrier  \* per call: the sockets a frame of it was sent on

vars == <<phase, carrier>>

Init ==
    /\ phase = [r \in Requests |-> "none"]
    /\ carrier = [r \in Requests |-> {}]

Keeps(r) == phase'[r] = phase[r] /\ carrier'[r] = carrier[r]

Queue(r) == phase[r] = "none" /\ phase'[r] = "queued" /\ carrier'[r] = {}

\* Sent whole, or cut short: then the call fails with what was sent.
Send(r) ==
    /\ phase[r] \in {"none", "queued"} /\ phase'[r] \in {"open", "failed"}
    /\ carrier[r] = {} /\ \E s \in Sockets : carrier'[r] = {s}

\* Only a call that was sent can succeed.
End(r) ==
    /\ \/ phase[r] = "queued" /\ phase'[r] \in {"failed", "cancelled"}
       \/ phase[r] = "open" /\ phase'[r] \in {"ok", "failed", "cancelled"}
    /\ carrier'[r] = carrier[r]

\* One event may concern many calls: a flush, a lost connection.
Next ==
    /\ DOMAIN phase' = Requests /\ DOMAIN carrier' = Requests
    /\ \A r \in Requests : Keeps(r) \/ Queue(r) \/ Send(r) \/ End(r)

Spec == Init /\ [][Next]_vars
=============================================================================
