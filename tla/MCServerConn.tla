---------------------------- MODULE MCServerConn ----------------------------
(* Small connections for TLC.                                              *)
EXTENDS ServerConn, TLC
CONSTANTS s1, s2
Two == {s1, s2}
\* Streams are interchangeable: no run tells s1 from s2.
Symm == Permutations(Two)
=============================================================================
