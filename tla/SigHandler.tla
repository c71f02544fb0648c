----------------------------- MODULE SigHandler -----------------------------
(***************************************************************************)
(* ORVSigHandler: the registry of handlers by thread, and its lock.        *)
(*                                                                         *)
(* Threads construct and destroy handlers, each its own (readers, the      *)
(* processing manager, servers), while ORHandlerThread, woken by SIGINT,   *)
(* or any other thread cancels them.  A section that takes fgBaseRWLock    *)
(* for writing never waits in it and is one action, enabled when no thread *)
(* holds the lock for reading; a cancel holds it for reading over as many  *)
(* steps as there are handlers.  fRWLock of a handler is never held over   *)
(* two steps, and its sections are steps.                                  *)
(***************************************************************************)
EXTENDS Naturals

CONSTANTS
  Threads,    (* the threads that own handlers                           *)
  Handlers,   (* the handlers: objects, each constructed once            *)
  Cancelers,  (* the threads that cancel: ORHandlerThread, and others    *)
  MaxCancels  (* bound: cancels per canceler; ORHandlerThread makes two  *)

ASSUME HandlersAssumption == MaxCancels \in Nat

NoThread == "none"   \* fMyThread before the constructor has set it

VARIABLES
  handlers,    (* fgHandlers: the handlers of each thread it knows        *)
  life,        (* how far each handler is between "none" and "gone"       *)
  owner,       (* fMyThread                                               *)
  setToCancel, (* fSetToCancel                                            *)
  pending,     (* for each canceler, the handlers it has yet to cancel    *)
  at,          (* what each canceler does: it is out of CancelAll, or in it *)
  cancels,     (* how often each has canceled                             *)
  leftLocks,   (* read locks that were taken and will never be given back *)
  due          (* history: the handlers that were ready when a cancel began *)

cancelVars == <<pending, at, cancels, leftLocks, due>>
vars == <<handlers, life, owner, setToCancel, cancelVars>>

Known      == DOMAIN handlers
CanWrite   == leftLocks = 0 /\ \A c \in Cancelers : at[c] = "out"
-----------------------------------------------------------------------------
(***************************************************************************)
(* The owners' threads.                                                    *)
(***************************************************************************)

\* Mutant: a handler takes the place of its thread's others.
OnlyHandler(t, h) == [u \in Known \cup {t} |-> IF u = t THEN {h} ELSE handlers[u]]

\* The registry with h in the list of thread t, which may be new to it.
WithHandler(t, h) ==
  [u \in Known \cup {t} |-> (IF u \in Known THEN handlers[u] ELSE {})
                            \cup (IF u = t THEN {h} ELSE {})]

\* The constructor registers the handler; its flag is still whatever memory held.
Register(t, h) ==
  /\ life[h] = "none" /\ CanWrite
  /\ life' = [life EXCEPT ![h] = "registered"]
  /\ owner' = [owner EXCEPT ![h] = t]
  /\ handlers' = WithHandler(t, h)
  /\ \E b \in BOOLEAN : setToCancel' = [setToCancel EXCEPT ![h] = b]
  /\ UNCHANGED cancelVars

\* The rest of the constructor.
ClearFlag(h) ==
  /\ life[h] = "registered"
  /\ life' = [life EXCEPT ![h] = "ready"]
  /\ setToCancel' = [setToCancel EXCEPT ![h] = FALSE]
  /\ UNCHANGED <<handlers, owner, cancelVars>>

\* The destructor begins, and waits for the lock ...
Destroy(h) ==
  /\ life[h] = "ready"
  /\ life' = [life EXCEPT ![h] = "dying"]
  /\ UNCHANGED <<handlers, owner, setToCancel, cancelVars>>

\* Mutant: the handler is looked for in the list of another thread.
WithoutNothing(h) == handlers

WithoutHandler(h) == [handlers EXCEPT ![owner[h]] = @ \ {h}]

\* Mutant: the destructor waits for nobody.
UnregisterAtOnce(h) ==
  /\ life[h] = "dying"
  /\ life' = [life EXCEPT ![h] = "gone"]
  /\ handlers' = WithoutHandler(h)
  /\ UNCHANGED <<owner, setToCancel, cancelVars>>

\* ... takes the handler out of its thread's list, which stays, and frees it.
Unregister(h) ==
  /\ life[h] = "dying" /\ CanWrite
  /\ life' = [life EXCEPT ![h] = "gone"]
  /\ handlers' = WithoutHandler(h)
  /\ UNCHANGED <<owner, setToCancel, cancelVars>>
-----------------------------------------------------------------------------
(***************************************************************************)
(* Cancels.                                                                *)
(***************************************************************************)
Ready == {h \in Handlers : life[h] = "ready"}

\* A cancel takes the read lock, which others may hold too, and finds the handlers
\* of the threads ts.
BeginCancel(c, ts) ==
  /\ at[c] = "out" /\ cancels[c] < MaxCancels
  /\ at' = [at EXCEPT ![c] = "in"]
  /\ cancels' = [cancels EXCEPT ![c] = @ + 1]
  /\ pending' = [pending EXCEPT ![c] = UNION {handlers[t] : t \in ts \cap Known}]
  /\ due' = [due EXCEPT ![c] = {h \in Ready : owner[h] \in ts}]
  /\ UNCHANGED <<handlers, life, owner, setToCancel, leftLocks>>

CancelAll(c) == BeginCancel(c, Threads)

\* For a thread the registry does not know, CancelAllInThread returns with the lock:
\* from then on nobody gets the write lock.
CancelAllInThread(c, t) ==
  \/ t \in Known /\ BeginCancel(c, {t})
  \/ /\ t \notin Known /\ at[c] = "out" /\ cancels[c] < MaxCancels
     /\ leftLocks' = leftLocks + 1
     /\ cancels' = [cancels EXCEPT ![c] = @ + 1]
     /\ UNCHANGED <<handlers, life, owner, setToCancel, pending, at, due>>

CancelAnInstance(c, h) ==
  /\ at[c] = "in" /\ h \in pending[c]
  /\ setToCancel' = [setToCancel EXCEPT ![h] = TRUE]
  /\ pending' = [pending EXCEPT ![c] = @ \ {h}]
  /\ UNCHANGED <<handlers, life, owner, at, cancels, leftLocks, due>>

\* Mutant: the lock is not given back.
EndCancelKeepingLock(c) ==
  /\ at[c] = "in" /\ pending[c] = {}
  /\ due' = [due EXCEPT ![c] = {}]
  /\ UNCHANGED <<handlers, life, owner, setToCancel, pending, at, cancels, leftLocks>>

EndCancel(c) ==
  /\ at[c] = "in" /\ pending[c] = {}
  /\ at' = [at EXCEPT ![c] = "out"]
  /\ due' = [due EXCEPT ![c] = {}]
  /\ UNCHANGED <<handlers, life, owner, setToCancel, pending, cancels, leftLocks>>

\* Anyone may cancel a single handler, without the registry.
Cancel(h) ==
  /\ life[h] = "ready" /\ ~setToCancel[h]
  /\ setToCancel' = [setToCancel EXCEPT ![h] = TRUE]
  /\ UNCHANGED <<handlers, life, owner, cancelVars>>

\* Anyone may uncancel a handler, one that a cancel has just reached too.
UnCancel(h) ==
  /\ life[h] = "ready" /\ setToCancel[h]
  /\ setToCancel' = [setToCancel EXCEPT ![h] = FALSE]
  /\ due' = [c \in Cancelers |-> due[c] \ {h}]
  /\ UNCHANGED <<handlers, life, owner, pending, at, cancels, leftLocks>>
-----------------------------------------------------------------------------
Init ==
  /\ handlers = << >>
  /\ life = [h \in Handlers |-> "none"]
  /\ owner = [h \in Handlers |-> NoThread]
  /\ setToCancel = [h \in Handlers |-> FALSE]
  /\ pending = [c \in Cancelers |-> {}] /\ due = [c \in Cancelers |-> {}]
  /\ at = [c \in Cancelers |-> "out"] /\ cancels = [c \in Cancelers |-> 0]
  /\ leftLocks = 0

ClearFlags  == \E h \in Handlers : ClearFlag(h)
Unregisters == \E h \in Handlers : Unregister(h)
CancelSteps == \E c \in Cancelers : EndCancel(c) \/ \E h \in Handlers : CancelAnInstance(c, h)

Next ==
  \/ ClearFlags \/ Unregisters \/ CancelSteps
  \/ \E h \in Handlers : Destroy(h) \/ Cancel(h) \/ UnCancel(h) \/ \E t \in Threads : Register(t, h)
  \/ \E c \in Cancelers : CancelAll(c) \/ \E t \in Threads : CancelAllInThread(c, t)

Spec == Init /\ [][Next]_vars

\* A thread that has begun a section goes on; the write lock is granted when cancels,
\* of which there are finitely many, no longer hold it.
FairSpec == /\ Spec /\ WF_vars(ClearFlags) /\ WF_vars(CancelSteps)
            /\ \A h \in Handlers : WF_vars(Unregister(h))
-----------------------------------------------------------------------------
TypeOK ==
  /\ Known \subseteq Threads
  /\ handlers \in [Known -> SUBSET Handlers]
  /\ life \in [Handlers -> {"none", "registered", "ready", "dying", "gone"}]
  /\ owner \in [Handlers -> Threads \cup {NoThread}]
  /\ setToCancel \in [Handlers -> BOOLEAN]
  /\ pending \in [Cancelers -> SUBSET Handlers] /\ due \in [Cancelers -> SUBSET Handlers]
  /\ at \in [Cancelers -> {"out", "in"}]
  /\ cancels \in [Cancelers -> 0 .. MaxCancels]
  /\ leftLocks \in Nat

\* The registry holds exactly the handlers between their constructor's first section
\* and their destructor's last, in the list of their own thread.
RegistryExact ==
  \A h \in Handlers : \A t \in Threads :
    (t \in Known /\ h \in handlers[t])
      <=> (owner[h] = t /\ life[h] \in {"registered", "ready", "dying"})

\* A cancel touches no handler that has been freed, although it takes as many steps as
\* there are handlers and their owners destroy them meanwhile.
OnlyLiving ==
  \A c \in Cancelers : \A h \in pending[c] : life[h] \in {"registered", "ready", "dying"}

\* A cancel reaches every handler that was constructed when it began: each is canceled,
\* or still to be, unless it has been uncanceled since.
CancelReaches ==
  \A c \in Cancelers : \A h \in due[c] : h \in pending[c] \/ setToCancel[h]

\* A destructor ends, whatever cancels there are, unless CancelAllInThread was called
\* for a thread that never had a handler.
DestructorsEnd ==
  \A h \in Handlers : life[h] = "dying" ~> life[h] = "gone" \/ leftLocks > 0
=============================================================================
