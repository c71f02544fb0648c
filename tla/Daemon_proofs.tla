--------------------------- MODULE Daemon_proofs ---------------------------
(***************************************************************************)
(* The daemon's count of its children, for any limit and any number of     *)
(* processes, interrupts and stops.                                        *)
(***************************************************************************)
EXTENDS Daemon, FiniteSetTheorems, TLAPS

\* The record is only added to by Fork, which comes after the loop at the limit was left.
Counted ==
  /\ IsFiniteSet(childPIDRecord)
  /\ Cardinality(childPIDRecord) <= MaxConnections
  /\ main \in {"reap", "accept", "fork"} => Cardinality(childPIDRecord) < MaxConnections

\* One that has been reaped is as good as one that never was.
Fresh == \A p \in Pids : child[p] = "none" => stop[p] = "never"

\* The thread that waits for signals waits for two; after its first the server is
\* canceled, and main forks at most for the connection it already has.
Canceling ==
  /\ sigwait.calls = 2 => sigwait.at = "cancel" \/ main = "exited"
  /\ late \in 0 .. 1
  /\ late = 1 => canceled /\ main # "fork"

IInv == TypeOK /\ RecordExact /\ Counted /\ Fresh /\ Canceling
-----------------------------------------------------------------------------
LEMMA InitEstablishes == Init => IInv
<1>. SUFFICES ASSUME Init PROVE IInv
  OBVIOUS
<1>1. TypeOK
  <2>1. canceled \in BOOLEAN
    BY Zenon DEF Init
  <2>2. sigwait \in [at : {"wait", "cancel"}, calls : 0 .. 2]
    BY DEF Init
  <2>. QED BY <2>1, <2>2 DEF Init, TypeOK
<1>2. RecordExact /\ Fresh
  BY DEF Init, RecordExact, Fresh, Waited
<1>3. Counted
  BY FS_EmptySet, DaemonAssumption DEF Init, Counted
<1>4. Canceling
  BY DEF Init, Canceling
<1>. QED BY <1>1, <1>2, <1>3, <1>4 DEF IInv

\* Taking something out of the record, whatever it is, keeps it finite and within the
\* limit.
LEMMA ForgetCounts ==
  ASSUME Counted, NEW x, Forget(x)
  PROVE  /\ IsFiniteSet(childPIDRecord')
         /\ Cardinality(childPIDRecord') <= Cardinality(childPIDRecord)
         /\ Cardinality(childPIDRecord') \in Nat /\ Cardinality(childPIDRecord) \in Nat
<1>1. childPIDRecord' \subseteq childPIDRecord
  BY DEF Forget
<1>. QED BY <1>1, FS_Subset, FS_CardinalityType DEF Counted

LEMMA WaitPreserves == IInv /\ (WaitAtLimit \/ ReapEnded) => IInv'
<1>. SUFFICES ASSUME IInv, WaitAtLimit \/ ReapEnded PROVE IInv'
  OBVIOUS
<1>. USE DEF IInv, signalVars
<1>1. /\ UNCHANGED <<main, canceled, late, sigwait, pending, interrupts, heard, stops>>
      /\ main \in {"limit", "reap"}
  BY DEF WaitAtLimit, ReapEnded
<1>2. ASSUME NEW p \in Pids, Reap(p) PROVE IInv'
  <2>. USE <1>1, <1>2 DEF Reap
  <2>1. TypeOK'
    BY DEF TypeOK, Forget
  <2>2. RecordExact'
    BY DaemonAssumption DEF TypeOK, RecordExact, Forget, Waited
  <2>3. Counted'
    BY ForgetCounts, DaemonAssumption DEF Counted
  <2>4. Fresh' /\ Canceling'
    BY DEF TypeOK, Fresh, Canceling
  <2>. QED BY <2>1, <2>2, <2>3, <2>4
<1>3. ASSUME NEW p \in Pids, ReportStop(p) PROVE IInv'
  <2>. USE <1>1, <1>3 DEF ReportStop
  <2>1. TypeOK' /\ RecordExact'
    BY DaemonAssumption DEF TypeOK, RecordExact, Forget, Waited, Alive
  <2>2. Counted'
    BY ForgetCounts, DaemonAssumption DEF Counted
  <2>3. Fresh' /\ Canceling'
    BY DEF TypeOK, Fresh, Canceling, Alive
  <2>. QED BY <2>1, <2>2, <2>3
<1>4. CASE Forget(Failed) /\ UNCHANGED <<child, stop>>
  <2>. USE <1>1, <1>4
  <2>1. TypeOK' /\ Fresh' /\ Canceling'
    BY DEF TypeOK, Forget, Fresh, Canceling
  <2>2. RecordExact'
    BY DaemonAssumption DEF RecordExact, Forget, Waited
  <2>3. Counted'
    BY ForgetCounts, DaemonAssumption DEF Counted
  <2>. QED BY <2>1, <2>2, <2>3
<1>. QED BY <1>2, <1>3, <1>4 DEF WaitAtLimit, ReapEnded

\* Fork and a fork that fails add one to a record that is below the limit.
LEMMA AddCounts ==
  ASSUME IInv, main = "fork", NEW x, childPIDRecord' = childPIDRecord \cup {x},
         main' = "limit"
  PROVE  Counted'
<1>1. Cardinality(childPIDRecord) \in Nat
  BY FS_CardinalityType DEF IInv, Counted
<1>2. Cardinality(childPIDRecord') <= Cardinality(childPIDRecord) + 1
  <2>1. /\ IsFiniteSet(childPIDRecord)
        /\ childPIDRecord' = childPIDRecord \cup {x}
    BY DEF IInv, Counted
  <2>2. Cardinality(childPIDRecord') = IF x \in childPIDRecord
                                       THEN Cardinality(childPIDRecord)
                                       ELSE Cardinality(childPIDRecord) + 1
    BY <2>1, FS_AddElement, Zenon
  <2>. QED BY <1>1, <2>2
<1>3. IsFiniteSet(childPIDRecord') /\ Cardinality(childPIDRecord') \in Nat
  BY FS_AddElement, FS_CardinalityType DEF IInv, Counted
<1>. QED BY <1>1, <1>2, <1>3, DaemonAssumption DEF IInv, Counted

LEMMA MainPreserves ==
  ASSUME IInv,
         \/ BelowLimit \/ NoneEnded \/ Connect \/ CloseServer \/ ForkFails
         \/ \E p \in Pids : Fork(p)
  PROVE  IInv'
<1>. USE DEF IInv, signalVars, childVars
<1>1. CASE BelowLimit \/ NoneEnded \/ Connect \/ CloseServer
  <2>. USE <1>1 DEF BelowLimit, NoneEnded, Connect, CloseServer
  <2>1. TypeOK' /\ RecordExact' /\ Fresh'
    BY DEF TypeOK, RecordExact, Waited, Fresh
  <2>2. Canceling'
    BY DEF TypeOK, Canceling
  <2>3. Counted'
    BY FS_CardinalityType, DaemonAssumption DEF Counted, AtLimit
  <2>. QED BY <2>1, <2>2, <2>3
<1>2. CASE ForkFails
  <2>. USE <1>2 DEF ForkFails
  <2>1. TypeOK' /\ RecordExact' /\ Fresh' /\ Canceling'
    BY DEF TypeOK, RecordExact, Waited, Fresh, Canceling
  <2>. QED BY <2>1, AddCounts
<1>3. ASSUME NEW p \in Pids, Fork(p) PROVE IInv'
  <2>. USE <1>3 DEF Fork
  <2>1. TypeOK'
    BY DEF TypeOK
  <2>2. RecordExact' /\ Fresh'
    BY DEF TypeOK, RecordExact, Waited, Fresh
  <2>3. Canceling'
    BY DEF TypeOK, Canceling
  <2>4. Counted'
    BY AddCounts
  <2>. QED BY <2>1, <2>2, <2>3, <2>4
<1>. QED BY <1>1, <1>2, <1>3

LEMMA SignalPreserves == IInv /\ (Interrupt \/ BeginCancel \/ EndCancel) => IInv'
<1>. SUFFICES ASSUME IInv, Interrupt \/ BeginCancel \/ EndCancel PROVE IInv'
  OBVIOUS
<1>. USE DEF IInv, mainVars, childVars
<1>1. CASE Interrupt
  BY <1>1 DEF Interrupt, TypeOK, RecordExact, Counted, Fresh, Canceling, Waited, Alive
<1>2. CASE BeginCancel
  BY <1>2 DEF BeginCancel, TypeOK, RecordExact, Counted, Fresh, Canceling, Waited
<1>3. CASE EndCancel
  BY <1>3 DEF EndCancel, TypeOK, RecordExact, Counted, Fresh, Canceling, Waited
<1>. QED BY <1>1, <1>2, <1>3

\* A child goes from one state to another; neither is "none".
LEMMA GoesPreserves ==
  ASSUME IInv, NEW p \in Pids, NEW from,
         NEW to \in {"armed", "serving", "canceled", "hung", "ended"},
         Goes(p, from, to), pending' \subseteq pending, heard' \subseteq Pids
  PROVE  IInv'
<1>. USE DEF IInv, Goes, mainVars
<1>1. TypeOK'
  BY DEF TypeOK
<1>2. RecordExact'
  BY DEF TypeOK, RecordExact, Waited, Runs, Alive
<1>3. Counted' /\ Fresh' /\ Canceling'
  BY DEF TypeOK, Counted, Fresh, Canceling
<1>. QED BY <1>1, <1>2, <1>3

LEMMA ChildPreserves ==
  ASSUME IInv, NEW p \in Pids, Starts(p) \/ Leave(p) \/ StopChild(p) \/ Continue(p)
  PROVE  IInv'
<1>0. heard \subseteq Pids
  BY DEF IInv, TypeOK
<1>1. CASE Arm(p) \/ Serve(p) \/ Leave(p) \/ EndCanceled(p)
  BY <1>0, <1>1, GoesPreserves DEF Arm, Serve, Leave, EndCanceled
<1>2. CASE Hear(p)
  <2>1. PICK from \in {"armed", "serving", "canceled", "hung"} :
          Goes(p, from, IF p \in heard THEN "ended"
                        ELSE IF from = "serving" THEN "canceled" ELSE from)
    BY <1>2 DEF Hear
  <2>2. pending' \subseteq pending /\ heard' \subseteq Pids
    BY <1>0, <1>2 DEF Hear
  <2>. QED BY <2>1, <2>2, GoesPreserves
<1>3. CASE StopChild(p)
  BY <1>3 DEF IInv, StopChild, Runs, mainVars, signalVars, TypeOK, RecordExact, Waited,
     Counted, Fresh, Canceling, Alive
<1>4. CASE Continue(p)
  BY <1>4 DEF IInv, Continue, mainVars, signalVars, TypeOK, RecordExact, Waited, Counted,
     Fresh, Canceling, Alive
<1>. QED BY <1>1, <1>2, <1>3, <1>4 DEF Starts

LEMMA NextPreserves == IInv /\ [Next]_vars => IInv'
<1>. SUFFICES ASSUME IInv, [Next]_vars PROVE IInv'
  OBVIOUS
<1>1. CASE UNCHANGED vars
  BY <1>1 DEF vars, mainVars, signalVars, childVars, IInv, TypeOK, RecordExact, Waited,
     Counted, Fresh, Canceling
<1>2. CASE MainNext \/ Connect
  BY <1>2, WaitPreserves, MainPreserves DEF MainNext
<1>3. CASE HandlerNext \/ Interrupt
  BY <1>3, SignalPreserves DEF HandlerNext
<1>4. CASE \E p \in Pids : Starts(p) \/ Leave(p) \/ StopChild(p) \/ Continue(p)
  BY <1>4, ChildPreserves
<1>. QED BY <1>1, <1>2, <1>3, <1>4 DEF Next

LEMMA Invariance == Spec => []IInv
  BY InitEstablishes, NextPreserves, PTL DEF Spec
-----------------------------------------------------------------------------
\* The daemon, its record, the signals and the children keep their types; ORHandlerThread
\* is called twice at most.
THEOREM TypeCorrect == Spec => []TypeOK
<1>1. IInv => TypeOK
  BY DEF IInv
<1>. QED BY <1>1, Invariance, PTL

\* childPIDRecord holds only children that wait3 can still return, or a failed fork, and
\* all children that were never stopped.
THEOREM RecordIsExact == Spec => []RecordExact
<1>1. IInv => RecordExact
  BY DEF IInv
<1>. QED BY <1>1, Invariance, PTL

\* The loop at the limit keeps the children that were never stopped within it.
THEOREM LimitHolds == Spec => []AtMostMax
<1>1. IInv => AtMostMax
  <2>. SUFFICES ASSUME IInv PROVE AtMostMax
    OBVIOUS
  <2>1. {p \in Alive : stop[p] = "never"} \subseteq childPIDRecord
    BY DEF IInv, RecordExact, Alive, Waited
  <2>2. Cardinality({p \in Alive : stop[p] = "never"}) <= Cardinality(childPIDRecord)
    BY <2>1, FS_Subset DEF IInv, Counted
  <2>3. /\ Cardinality({p \in Alive : stop[p] = "never"}) \in Nat
        /\ Cardinality(childPIDRecord) \in Nat
    BY <2>1, FS_Subset, FS_CardinalityType DEF IInv, Counted
  <2>. QED BY <2>2, <2>3, DaemonAssumption DEF IInv, Counted, AtMostMax
<1>. QED BY <1>1, Invariance, PTL

\* The loop at the limit waits for something: when there is no child to wait for, what fills
\* the record is a failed fork, and the failure of wait3 takes it out.  Only with a limit of 0
\* it spins, and then the daemon never accepts a connection.
WaitsForSomething ==
  /\ main = "limit" /\ AtLimit /\ Waited = {} => Failed \in childPIDRecord \/ MaxConnections = 0
  /\ MaxConnections = 0 => main \in {"limit", "exited"}

THEOREM SpinsOnlyAtZero == Spec => []WaitsForSomething
<1>1. IInv => WaitsForSomething
  <2>. SUFFICES ASSUME IInv PROVE WaitsForSomething
    OBVIOUS
  <2>1. Cardinality(childPIDRecord) \in Nat
    BY FS_CardinalityType DEF IInv, Counted
  <2>2. ASSUME AtLimit, Waited = {}, Failed \notin childPIDRecord PROVE MaxConnections = 0
    <3>1. childPIDRecord = {}
      BY <2>2 DEF IInv, RecordExact
    <3>. QED BY <2>2, <3>1, FS_EmptySet, DaemonAssumption DEF AtLimit
  <2>3. MaxConnections = 0 => main \in {"limit", "exited"}
    BY <2>1 DEF IInv, Counted, TypeOK
  <2>. QED BY <2>2, <2>3 DEF WaitsForSomething
<1>. QED BY <1>1, Invariance, PTL

\* A canceled server accepts nothing, and main has at most one connection from before.
THEOREM OneMore == Spec => []OneMoreAtMost
<1>1. IInv => OneMoreAtMost
  BY DEF IInv, Canceling, OneMoreAtMost
<1>. QED BY <1>1, Invariance, PTL
=============================================================================
