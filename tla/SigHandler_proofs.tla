------------------------- MODULE SigHandler_proofs -------------------------
(***************************************************************************)
(* The registry of handlers, for any threads, handlers and cancelers: it   *)
(* names the handlers that live, a cancel touches no other and misses      *)
(* none.                                                                   *)
(***************************************************************************)
EXTENDS SigHandler, TLAPS

\* A canceler that is out of CancelAll has no handler left to cancel.  The write lock
\* is only granted when all are out, so nothing is freed while it is pending.
OutIsDone == \A c \in Cancelers : at[c] = "out" => pending[c] = {}

\* A handler that a cancel found ready has been through its constructor, which alone
\* sets the flag to something else.
DueConstructed == \A c \in Cancelers : \A h \in due[c] : life[h] \notin {"none", "registered"}

IInv == /\ TypeOK /\ RegistryExact /\ OnlyLiving /\ CancelReaches
        /\ OutIsDone /\ DueConstructed
-----------------------------------------------------------------------------
LEMMA InitEstablishes == Init => IInv
  BY HandlersAssumption DEF Init, IInv, TypeOK, RegistryExact, OnlyLiving, CancelReaches,
     OutIsDone, DueConstructed, Known

LEMMA RegisterPreserves ==
  ASSUME IInv, NEW h \in Handlers, NEW t \in Threads, Register(t, h) PROVE IInv'
<1>. USE DEF IInv, Register, cancelVars
<1>1. TypeOK'
  BY DEF TypeOK, WithHandler, Known
<1>2. RegistryExact'
  BY DEF TypeOK, RegistryExact, WithHandler, Known
<1>3. OnlyLiving' /\ CancelReaches' /\ OutIsDone' /\ DueConstructed'
  BY DEF TypeOK, OnlyLiving, CancelReaches, OutIsDone, DueConstructed
<1>. QED BY <1>1, <1>2, <1>3

LEMMA UnregisterPreserves ==
  ASSUME IInv, NEW h \in Handlers, Unregister(h) PROVE IInv'
<1>. USE DEF IInv, Unregister, cancelVars
<1>1. TypeOK'
  BY DEF TypeOK, WithoutHandler, Known
<1>2. RegistryExact'
  BY DEF TypeOK, RegistryExact, WithoutHandler, Known
<1>3. \A c \in Cancelers : pending[c] = {}
  BY DEF CanWrite, OutIsDone
<1>4. OnlyLiving' /\ CancelReaches' /\ OutIsDone' /\ DueConstructed'
  BY <1>3 DEF TypeOK, OnlyLiving, CancelReaches, OutIsDone, DueConstructed
<1>. QED BY <1>1, <1>2, <1>4

\* The rest of a handler's life, Cancel and UnCancel, leave the lists alone.
LEMMA HandlerPreserves ==
  ASSUME IInv, NEW h \in Handlers,
         ClearFlag(h) \/ Destroy(h) \/ Cancel(h) \/ UnCancel(h)
  PROVE IInv'
<1>. USE DEF IInv, ClearFlag, Destroy, Cancel, UnCancel, cancelVars
<1>1. TypeOK'
  <2>1. CASE ClearFlag(h)
    BY <2>1 DEF TypeOK, Known
  <2>2. CASE Destroy(h)
    BY <2>2 DEF TypeOK, Known
  <2>3. CASE UnCancel(h)
    BY <2>3 DEF TypeOK, Known
  <2>4. CASE Cancel(h)
    BY <2>4 DEF TypeOK, Known
  <2>. QED BY <2>1, <2>2, <2>3, <2>4
<1>2. RegistryExact'
  BY DEF TypeOK, RegistryExact, Known
<1>3. OnlyLiving' /\ OutIsDone'
  BY DEF TypeOK, OnlyLiving, OutIsDone
<1>4. DueConstructed'
  BY DEF TypeOK, DueConstructed
<1>5. CancelReaches'
  BY DEF TypeOK, CancelReaches, DueConstructed
<1>. QED BY <1>1, <1>2, <1>3, <1>4, <1>5

\* A cancel finds every ready handler of its threads in the lists, which are exact.
LEMMA BeginCancelPreserves ==
  ASSUME IInv, NEW c \in Cancelers, NEW ts \in SUBSET Threads, BeginCancel(c, ts)
  PROVE IInv'
<1>. USE DEF IInv, BeginCancel
<1>1. UNION {handlers[t] : t \in ts \cap Known} \subseteq Handlers
  BY DEF TypeOK
<1>2. TypeOK'
  BY <1>1, HandlersAssumption DEF TypeOK, Known, Ready
<1>3. RegistryExact'
  BY DEF RegistryExact, Known
<1>4. OnlyLiving'
  BY <1>1 DEF TypeOK, OnlyLiving, RegistryExact
<1>5. {h \in Ready : owner[h] \in ts} \subseteq UNION {handlers[t] : t \in ts \cap Known}
  BY DEF Ready, RegistryExact
<1>6. CancelReaches'
  BY <1>5 DEF TypeOK, CancelReaches
<1>7. OutIsDone' /\ DueConstructed'
  BY DEF TypeOK, OutIsDone, DueConstructed, Ready
<1>. QED BY <1>2, <1>3, <1>4, <1>6, <1>7

LEMMA CancelPreserves ==
  ASSUME IInv, NEW c \in Cancelers,
         \/ EndCancel(c) \/ \E h \in Handlers : CancelAnInstance(c, h)
         \/ CancelAll(c) \/ \E t \in Threads : CancelAllInThread(c, t)
  PROVE IInv'
<1>1. CASE CancelAll(c)
  BY <1>1, BeginCancelPreserves DEF CancelAll
<1>2. ASSUME NEW t \in Threads, BeginCancel(c, {t}) PROVE IInv'
  BY <1>2, BeginCancelPreserves
<1>3. ASSUME NEW t \in Threads, CancelAllInThread(c, t), ~BeginCancel(c, {t}) PROVE IInv'
  BY <1>3, HandlersAssumption DEF IInv, CancelAllInThread, TypeOK, RegistryExact, Known,
     OnlyLiving, CancelReaches, OutIsDone, DueConstructed
<1>4. CASE EndCancel(c)
  BY <1>4 DEF IInv, EndCancel, TypeOK, RegistryExact, Known, OnlyLiving, CancelReaches,
     OutIsDone, DueConstructed
<1>5. ASSUME NEW h \in Handlers, CancelAnInstance(c, h) PROVE IInv'
  <2>. USE <1>5 DEF IInv, CancelAnInstance
  <2>1. TypeOK' /\ RegistryExact'
    BY DEF TypeOK, RegistryExact, Known
  <2>2. OnlyLiving' /\ CancelReaches' /\ OutIsDone' /\ DueConstructed'
    BY DEF TypeOK, OnlyLiving, CancelReaches, OutIsDone, DueConstructed
  <2>. QED BY <2>1, <2>2
<1>. QED BY <1>1, <1>2, <1>3, <1>4, <1>5

LEMMA NextPreserves == IInv /\ [Next]_vars => IInv'
<1>. SUFFICES ASSUME IInv, [Next]_vars PROVE IInv'
  OBVIOUS
<1>1. CASE UNCHANGED vars
  BY <1>1 DEF vars, cancelVars, IInv, TypeOK, RegistryExact, Known, OnlyLiving,
     CancelReaches, OutIsDone, DueConstructed
<1>2. CASE ClearFlags
  BY <1>2, HandlerPreserves DEF ClearFlags
<1>3. CASE Unregisters
  BY <1>3, UnregisterPreserves DEF Unregisters
<1>4. CASE CancelSteps
  BY <1>4, CancelPreserves DEF CancelSteps
<1>5. CASE \E h \in Handlers : Destroy(h) \/ Cancel(h) \/ UnCancel(h) \/ \E t \in Threads : Register(t, h)
  BY <1>5, HandlerPreserves, RegisterPreserves
<1>6. CASE \E c \in Cancelers : CancelAll(c) \/ \E t \in Threads : CancelAllInThread(c, t)
  BY <1>6, CancelPreserves
<1>. QED BY <1>1, <1>2, <1>3, <1>4, <1>5, <1>6 DEF Next

LEMMA Invariance == Spec => []IInv
  BY InitEstablishes, NextPreserves, PTL DEF Spec
-----------------------------------------------------------------------------
\* The registry, the flags and what the cancels have yet to do keep their types; read
\* locks are left behind, never given back twice.
THEOREM TypeCorrect == Spec => []TypeOK
<1>1. IInv => TypeOK
  BY DEF IInv
<1>. QED BY <1>1, Invariance, PTL

\* fgHandlers names a handler, under its own thread, from the section of its constructor
\* that registers it to the section of its destructor that removes it.
THEOREM RegistryIsExact == Spec => []RegistryExact
<1>1. IInv => RegistryExact
  BY DEF IInv
<1>. QED BY <1>1, Invariance, PTL

\* CancelAll and CancelAllInThread never set the flag of a handler that is freed.
THEOREM CancelsOnlyLiving == Spec => []OnlyLiving
<1>1. IInv => OnlyLiving
  BY DEF IInv
<1>. QED BY <1>1, Invariance, PTL

\* CancelAll and CancelAllInThread set the flag of every handler that was constructed
\* when they took the lock.
THEOREM CancelsReachAll == Spec => []CancelReaches
<1>1. IInv => CancelReaches
  BY DEF IInv
<1>. QED BY <1>1, Invariance, PTL
=============================================================================
