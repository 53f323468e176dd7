------------------------------ MODULE MCClient ------------------------------
(* A client with few requests and few sockets for TLC.                     *)
EXTENDS Client, TLC
AnyTime == AppStates
Once == {"fresh"}
=============================================================================
