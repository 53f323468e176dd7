---------------------------- MODULE ServerProofs ----------------------------
(***************************************************************************)
(* Server for any number of connections and of calls of Shutdown.          *)
(***************************************************************************)
EXTENDS Server, TLAPS

\* The registered connections are those whose handler is between registration
\* and the end of its defer.
Registered == \A c \in Conns : c \in connections <=> at[c] \in {"reading", "ended"}

\* A caller that has begun has set the flag, and since then no connection passes
\* the check: those that have passed it and are not registered are overtaken.
FlagIsSet == \A k \in Callers : stage[k] # "idle" => shutdown
CheckedIsOvertaken == shutdown => \A c \in Conns : at[c] = "checked" => c \in overtaken

\* What the pass of a caller still has to do: nothing, once it has ended.
TodoOrTold ==
    \A k \in Callers, c \in connections :
        stage[k] # "idle" => c \in cancelled \cup overtaken \cup todo[k] \cup turn[k]
PassIsOver ==
    \A k \in Callers :
        /\ stage[k] \notin {"reset", "sleep", "panic"} => turn[k] = {}
        /\ stage[k] \in Waiting \cup Returned => todo[k] = {}
        /\ stage[k] = "reset" => left[k] > 0

IInv ==
    /\ TypeOK /\ Registered /\ FlagIsSet /\ CheckedIsOvertaken /\ TodoOrTold
    /\ PassIsOver /\ NilMeansClosed

\* Before anything happens the strengthened invariant holds.
LEMMA InitIInv == Init => IInv
<1> SUFFICES ASSUME Init PROVE IInv OBVIOUS
<1> USE DEF Init, Waiting, Returned
<1>1. TypeOK
  <2>1. 0 \in 0..MaxStreams BY ServerAssumption
  <2> QED BY <2>1 DEF TypeOK, Places, Stages
<1>2. Registered /\ FlagIsSet /\ CheckedIsOvertaken /\ TodoOrTold
  BY DEF Registered, FlagIsSet, CheckedIsOvertaken, TodoOrTold
<1>3. PassIsOver /\ NilMeansClosed BY DEF PassIsOver, NilMeansClosed
<1> QED BY <1>1, <1>2, <1>3 DEF IInv

\* Types are kept by every step.
LEMMA NextTypeOK == TypeOK /\ PassIsOver /\ [Next]_vars => TypeOK'
<1> SUFFICES ASSUME TypeOK, PassIsOver, [Next]_vars PROVE TypeOK' OBVIOUS
<1> USE ServerAssumption DEF TypeOK, Places, Stages, Waiting, Returned, Goto, Enter,
                             conn, pass, caller
<1>1. ASSUME NEW c \in Conns, HandleConnection(c) PROVE TypeOK'
  BY <1>1 DEF HandleConnection, CheckShutdown, Register, ReadEnds, Unregister
<1>2. ASSUME NEW c \in Conns, Closes(c) \/ Peer(c) PROVE TypeOK'
  BY <1>2 DEF Closes, KeepAliveCloses, WriterCloses, Peer, Accept, PeerCloses, PeerGoesSilent
<1>3. ASSUME NEW k \in Callers, Shutdown(k) PROVE TypeOK'
  <2>1. CASE ShutdownBegin(k) BY <2>1 DEF ShutdownBegin
  <2>2. CASE PassEnds(k) \/ Look(k) \/ Tick(k) \/ GiveUp(k)
    BY <2>2 DEF PassEnds, Look, Tick, GiveUp
  <2>3. CASE \E c \in Conns : PassReaches(k, c) BY <2>3 DEF PassReaches, ResetsLeft
  <2>4. CASE ResetStream(k)
    <3>1. left[k] \in 1..MaxStreams BY <2>4 DEF ResetStream, PassIsOver
    <3>2. left[k] - 1 \in 0..MaxStreams BY <3>1
    <3> QED BY <2>4, <3>2 DEF ResetStream, ResetsLeft
  <2>5. CASE ResetPanics(k) BY <2>5 DEF ResetPanics
  <2>6. CASE CancelConnection(k) BY <2>6 DEF CancelConnection
  <2> QED BY <1>3, <2>1, <2>2, <2>3, <2>4, <2>5, <2>6 DEF Shutdown, Pass
<1>4. ASSUME NEW k \in Callers, Expire(k) PROVE TypeOK' BY <1>4 DEF Expire
<1>5. CASE UNCHANGED vars BY <1>5 DEF vars
<1> QED BY <1>1, <1>2, <1>3, <1>4, <1>5 DEF Next

\* The steps of connections: each moves one of them, and none of a caller.
LEMMA ConnectionStep ==
  ASSUME IInv, NEW c \in Conns, HandleConnection(c) \/ Closes(c) \/ Peer(c)
  PROVE  Registered' /\ FlagIsSet' /\ CheckedIsOvertaken' /\ TodoOrTold'
         /\ PassIsOver' /\ NilMeansClosed'
<1> USE DEF IInv, TypeOK, Registered, FlagIsSet, CheckedIsOvertaken, TodoOrTold,
            PassIsOver, NilMeansClosed, Goto, caller, pass
<1>1. CASE CheckShutdown(c) BY <1>1 DEF CheckShutdown, MayServe
<1>2. CASE Register(c)
  \* Its handler had passed the check, so a begun caller has overtaken it.
  <2>1. shutdown => c \in overtaken BY <1>2 DEF Register
  <2>2. Registered' /\ FlagIsSet' /\ CheckedIsOvertaken' /\ PassIsOver' BY <1>2 DEF Register
  <2>3. TodoOrTold' BY <1>2, <2>1 DEF Register
  <2>4. NilMeansClosed' BY <1>2, <2>1 DEF Register
  <2> QED BY <2>2, <2>3, <2>4
<1>3. CASE ReadEnds(c) BY <1>3 DEF ReadEnds
<1>4. CASE Unregister(c) BY <1>4 DEF Unregister
<1>5. CASE Closes(c) BY <1>5 DEF Closes, KeepAliveCloses, WriterCloses
<1>6. CASE Peer(c) BY <1>6 DEF Peer, Accept, PeerCloses, PeerGoesSilent
<1> QED BY <1>1, <1>2, <1>3, <1>4, <1>5, <1>6 DEF HandleConnection

\* The steps of a call of Shutdown.
LEMMA ShutdownStep ==
  ASSUME IInv, NEW k \in Callers, Shutdown(k)
  PROVE  Registered' /\ FlagIsSet' /\ CheckedIsOvertaken' /\ TodoOrTold'
         /\ PassIsOver' /\ NilMeansClosed'
<1> USE DEF IInv, TypeOK, Registered, FlagIsSet, CheckedIsOvertaken, TodoOrTold,
            PassIsOver, NilMeansClosed, conn, pass, Enter, Waiting, Returned
<1>1. CASE ShutdownBegin(k)
  \* The copy holds every connection; earlier callers keep what they know, for
  \* overtaken changes only when the flag is set for the first time.
  <2>1. overtaken \subseteq overtaken' \/ \A j \in Callers : stage[j] = "idle"
    BY <1>1 DEF ShutdownBegin
  <2>2. Registered' /\ FlagIsSet' /\ CheckedIsOvertaken' BY <1>1 DEF ShutdownBegin
  <2>3. TodoOrTold' BY <1>1, <2>1 DEF ShutdownBegin
  <2>4. NilMeansClosed' BY <1>1, <2>1 DEF ShutdownBegin
  <2>5. PassIsOver' BY <1>1 DEF ShutdownBegin
  <2> QED BY <2>2, <2>3, <2>4, <2>5
<1>2. CASE \E c \in Conns : PassReaches(k, c)
  <2> PICK c \in Conns : PassReaches(k, c) BY <1>2
  <2>1. Registered' /\ FlagIsSet' /\ CheckedIsOvertaken' /\ NilMeansClosed'
    BY DEF PassReaches, ResetsLeft
  <2>2. TodoOrTold' BY DEF PassReaches, ResetsLeft
  <2>3. PassIsOver' BY ServerAssumption DEF PassReaches, ResetsLeft
  <2> QED BY <2>1, <2>2, <2>3
<1>3. CASE ResetStream(k) BY <1>3, ServerAssumption DEF ResetStream, ResetsLeft
<1>4. CASE ResetPanics(k) BY <1>4 DEF ResetPanics
<1>5. CASE CancelConnection(k) BY <1>5 DEF CancelConnection
<1>6. CASE PassEnds(k) BY <1>6 DEF PassEnds
<1>7. CASE Look(k)
  <2>1. connections = {} => \A c \in Conns : at[c] \notin {"reading", "ended"} OBVIOUS
  <2>2. Registered' /\ FlagIsSet' /\ CheckedIsOvertaken' /\ TodoOrTold' /\ PassIsOver'
    BY <1>7 DEF Look
  <2>3. NilMeansClosed' BY <1>7, <2>1 DEF Look, Remaining
  <2> QED BY <2>2, <2>3
<1>8. CASE Tick(k) \/ GiveUp(k) BY <1>8 DEF Tick, GiveUp
<1> QED BY <1>1, <1>2, <1>3, <1>4, <1>5, <1>6, <1>7, <1>8 DEF Shutdown, Pass

\* So is the strengthened invariant: checks, registrations, passes of Shutdown.
LEMMA NextIInv == IInv /\ [Next]_vars => IInv'
<1> SUFFICES ASSUME IInv, [Next]_vars PROVE IInv' OBVIOUS
<1>1. TypeOK' BY NextTypeOK DEF IInv
<1>2. Registered' /\ FlagIsSet' /\ CheckedIsOvertaken' /\ TodoOrTold'
         /\ PassIsOver' /\ NilMeansClosed'
  <2>1. ASSUME NEW k \in Callers, Expire(k)
        PROVE  Registered' /\ FlagIsSet' /\ CheckedIsOvertaken' /\ TodoOrTold'
         /\ PassIsOver' /\ NilMeansClosed'
    BY <2>1 DEF Expire, IInv, Registered, FlagIsSet, CheckedIsOvertaken, TodoOrTold,
                PassIsOver, NilMeansClosed, conn, pass
  <2>2. CASE UNCHANGED vars
    BY <2>2 DEF vars, IInv, Registered, FlagIsSet, CheckedIsOvertaken, TodoOrTold,
                PassIsOver, NilMeansClosed
  <2> QED BY <2>1, <2>2, ConnectionStep, ShutdownStep DEF Next
<1> QED BY <1>1, <1>2 DEF IInv

\* Every variable keeps its type, in every execution of the server.
THEOREM TypeCorrect == Spec => []TypeOK
<1>1. IInv => TypeOK BY DEF IInv
<1> QED BY InitIInv, NextIInv, <1>1, PTL DEF Spec

\* Whatever connections and callers do, a caller past its pass has told every
\* registered connection to end, the overtaken ones excepted.
THEOREM AllTold == Spec => []ToldUnlessOvertaken
<1>1. IInv => ToldUnlessOvertaken BY DEF IInv, PassIsOver, TodoOrTold, ToldUnlessOvertaken,
                                      Waiting, Returned
<1> QED BY InitIInv, NextIInv, <1>1, PTL DEF Spec

\* A call of Shutdown that returned nil has seen every read loop end, the
\* overtaken connections excepted.
THEOREM NilIsTrue == Spec => []NilMeansClosed
<1>1. IInv => NilMeansClosed BY DEF IInv
<1> QED BY InitIInv, NextIInv, <1>1, PTL DEF Spec
=============================================================================
