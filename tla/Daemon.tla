------------------------------- MODULE Daemon -------------------------------
(***************************************************************************)
(* orcaroot as a daemon: one process accepts connections and forks a child *)
(* for each, up to a limit; interrupts come to all of them.                *)
(*                                                                         *)
(* SIGINT is blocked in every thread; ORHandlerThread of each process      *)
(* waits for it and cancels, the second time it ends the process.  A child *)
(* starts without that thread, and one of its own comes later.             *)
(***************************************************************************)
EXTENDS Integers, FiniteSets

CONSTANTS
  Pids,           (* the process ids of children                           *)
  MaxConnections, (* maxConnections                                        *)
  MaxInterrupts,  (* bound: interrupts sent to the process group           *)
  MaxStops        (* bound: children stopped from outside                  *)

Failed == -1    \* what fork returns when it fails, and wait3 when there is no child

\* What is given for the limit, if it is not a number, is 0.
ASSUME DaemonAssumption == MaxConnections \in Nat /\ Failed \notin Pids

VARIABLES
  main,           (* where the daemon's main thread is in its loop         *)
  childPIDRecord, (* the children it counts                                *)
  sigwait,        (* the daemon's ORHandlerThread: its state, calls        *)
  canceled,       (* TestCancel() of the server                            *)
  pending,        (* the processes with a SIGINT not yet taken             *)
  child,          (* what each child does                                  *)
  heard,          (* the children whose ORHandlerThread was called once    *)
  stop,           (* whether each was stopped, and its parent told         *)
  interrupts, stops, (* how many of each there were                        *)
  late            (* history: how many were forked when canceled was set   *)

mainVars   == <<main, childPIDRecord, canceled, late>>
signalVars == <<sigwait, pending, interrupts>>
childVars  == <<child, heard, stop, stops>>
vars       == <<mainVars, signalVars, childVars>>

Main    == "daemon"
Alive   == {p \in Pids : child[p] \notin {"none", "ended"}}
Waited  == {p \in Pids : child[p] # "none"}   \* the children the daemon may wait for
Runs(p) == p \in Alive /\ stop[p] \in {"never", "continued"}
-----------------------------------------------------------------------------
(***************************************************************************)
(* The loop of the daemon.                                                 *)
(***************************************************************************)

\* Mutant: one too many.
AtLimitLate == Cardinality(childPIDRecord) > MaxConnections

AtLimit == Cardinality(childPIDRecord) >= MaxConnections

\* Mutant: the record keeps the children that have ended.
ForgetNobody(p) == childPIDRecord' = childPIDRecord

Forget(p) == childPIDRecord' = childPIDRecord \ {p}

\* wait3 returns a child that has ended, which is then no more ...
Reap(p) ==
  /\ child[p] = "ended"
  /\ child' = [child EXCEPT ![p] = "none"]
  /\ stop' = [stop EXCEPT ![p] = "never"]
  /\ Forget(p)

\* ... or, with WUNTRACED, one that has been stopped, once.
ReportStop(p) ==
  /\ p \in Alive /\ stop[p] = "stopped"
  /\ stop' = [stop EXCEPT ![p] = "reported"]
  /\ Forget(p) /\ UNCHANGED child

\* At the limit wait3 waits; it fails when there is nothing to wait for.
WaitAtLimit ==
  /\ main = "limit" /\ AtLimit
  /\ \/ \E p \in Pids : Reap(p) \/ ReportStop(p)
     \/ Waited = {} /\ Forget(Failed) /\ UNCHANGED <<child, stop>>
  /\ UNCHANGED <<main, canceled, late, signalVars, heard, stops>>

BelowLimit ==
  /\ main = "limit" /\ ~AtLimit /\ main' = "reap"
  /\ UNCHANGED <<childPIDRecord, canceled, late, signalVars, childVars>>

ReapEnded ==
  /\ main = "reap" /\ \E p \in Pids : Reap(p)
  /\ UNCHANGED <<main, canceled, late, signalVars, heard, stops>>

NoneEnded ==
  /\ main = "reap" /\ \A p \in Pids : child[p] # "ended"
  /\ main' = "accept"
  /\ UNCHANGED <<childPIDRecord, canceled, late, signalVars, childVars>>

\* A connection comes while Accept polls; its socket may be invalid.  A cancel after
\* Accept has looked for one finds main where this step leaves it.
Connect ==
  /\ main = "accept" /\ ~canceled /\ main' \in {"fork", "limit"}
  /\ UNCHANGED <<childPIDRecord, canceled, late, signalVars, childVars>>

\* Mutant: main does not look whether the server is still valid.
CloseAndGoOn ==
  /\ main = "accept" /\ canceled /\ main' = "limit"
  /\ UNCHANGED <<childPIDRecord, canceled, late, signalVars, childVars>>

\* Canceled, Accept closes the server, and main returns.
CloseServer ==
  /\ main = "accept" /\ canceled /\ main' = "exited"
  /\ UNCHANGED <<childPIDRecord, canceled, late, signalVars, childVars>>

\* The child has the parent's memory, and so the registry's lock as it is now: if
\* ORHandlerThread is in CancelAll, the child, which has no such thread, is jammed at
\* its first write lock, that of ~ORServer.
Fork(p) ==
  /\ main = "fork" /\ main' = "limit" /\ child[p] = "none"
  /\ child' = [child EXCEPT ![p] = IF sigwait.at = "cancel" THEN "jammed" ELSE "born"]
  /\ childPIDRecord' = childPIDRecord \cup {p}
  /\ pending' = pending \ {p} /\ heard' = heard \ {p}
  /\ late' = IF canceled THEN late + 1 ELSE late
  /\ UNCHANGED <<canceled, sigwait, interrupts, stop, stops>>

\* The result is not tested for failure, and counted.
ForkFails ==
  /\ main = "fork" /\ main' = "limit"
  /\ childPIDRecord' = childPIDRecord \cup {Failed}
  /\ UNCHANGED <<canceled, late, signalVars, childVars>>
-----------------------------------------------------------------------------
(***************************************************************************)
(* Interrupts, and ORHandlerThread of the daemon.                          *)
(***************************************************************************)
Interrupt ==
  /\ interrupts < MaxInterrupts /\ main # "exited"
  /\ interrupts' = interrupts + 1
  /\ pending' = pending \cup {Main} \cup Alive
  /\ UNCHANGED <<mainVars, sigwait, childVars>>

BeginCancel ==
  /\ main # "exited" /\ sigwait.at = "wait" /\ Main \in pending
  /\ sigwait' = [at |-> "cancel", calls |-> sigwait.calls + 1]
  /\ pending' = pending \ {Main}
  /\ UNCHANGED <<mainVars, interrupts, childVars>>

\* The second time exit ends the process, whatever main does.
EndCancel ==
  /\ main # "exited" /\ sigwait.at = "cancel"
  /\ sigwait' = [sigwait EXCEPT !.at = "wait"]
  /\ canceled' = TRUE
  /\ main' = IF sigwait.calls = 2 THEN "exited" ELSE main
  /\ UNCHANGED <<childPIDRecord, late, pending, interrupts, childVars>>
-----------------------------------------------------------------------------
(***************************************************************************)
(* The children.                                                           *)
(***************************************************************************)

\* The child of p goes from one state to another.
Goes(p, from, to) ==
  /\ Runs(p) /\ child[p] = from /\ child' = [child EXCEPT ![p] = to]
  /\ UNCHANGED <<mainVars, sigwait, interrupts, stop, stops>>

\* ~ORServer takes the registry's lock, and a new ORHandlerThread starts; then the
\* reader is registered, which the thread can cancel.
Arm(p)   == Goes(p, "born", "armed") /\ UNCHANGED <<pending, heard>>
Serve(p) == Goes(p, "armed", "serving") /\ UNCHANGED <<pending, heard>>

\* The connection is closed, or the child cannot read from it.
Leave(p) == Goes(p, "serving", "ended") /\ UNCHANGED heard /\ pending' = pending \ {p}

\* ORHandlerThread of the child: a first call cancels the reader, if there is one, a
\* second one ends the child.
Hear(p) ==
  /\ p \in pending /\ pending' = pending \ {p} /\ heard' = heard \cup {p}
  /\ \E from \in {"armed", "serving", "canceled", "hung"} :
       Goes(p, from, IF p \in heard THEN "ended"
                     ELSE IF from = "serving" THEN "canceled" ELSE from)

\* A canceled child ends, or hangs in the destructor of its reader (SocketReaderThreads).
EndCanceled(p) ==
  /\ UNCHANGED heard
  /\ \/ Goes(p, "canceled", "ended") /\ pending' = pending \ {p}
     \/ Goes(p, "canceled", "hung") /\ UNCHANGED pending

\* Somebody stops a child, and may let it continue.
StopChild(p) ==
  /\ Runs(p) /\ stops < MaxStops /\ stops' = stops + 1
  /\ stop' = [stop EXCEPT ![p] = "stopped"]
  /\ UNCHANGED <<mainVars, signalVars, child, heard>>

Continue(p) ==
  /\ p \in Alive /\ ~Runs(p) /\ stop' = [stop EXCEPT ![p] = "continued"]
  /\ UNCHANGED <<mainVars, signalVars, child, heard, stops>>
-----------------------------------------------------------------------------
Init ==
  /\ main = "limit" /\ childPIDRecord = {} /\ canceled = FALSE /\ late = 0
  /\ sigwait = [at |-> "wait", calls |-> 0] /\ pending = {} /\ interrupts = 0
  /\ child = [p \in Pids |-> "none"] /\ heard = {}
  /\ stop = [p \in Pids |-> "never"] /\ stops = 0

MainNext ==
  \/ WaitAtLimit \/ BelowLimit \/ ReapEnded \/ NoneEnded \/ CloseServer
  \/ ForkFails \/ \E p \in Pids : Fork(p)

HandlerNext == BeginCancel \/ EndCancel

Starts(p) == Arm(p) \/ Serve(p) \/ Hear(p) \/ EndCanceled(p)

Next ==
  \/ MainNext \/ HandlerNext \/ Connect \/ Interrupt
  \/ \E p \in Pids : Starts(p) \/ Leave(p) \/ StopChild(p) \/ Continue(p)

Spec == Init /\ [][Next]_vars

\* Every thread of a process that is not stopped runs, and a canceled child ends or
\* hangs.  Nobody has to connect, leave, interrupt, stop or continue anything.
FairSpec == /\ Spec /\ WF_vars(MainNext) /\ WF_vars(HandlerNext)
            /\ \A p \in Pids : WF_vars(Starts(p))
-----------------------------------------------------------------------------
TypeOK ==
  /\ main \in {"limit", "reap", "accept", "fork", "exited"}
  /\ childPIDRecord \subseteq Pids \cup {Failed}
  /\ canceled \in BOOLEAN /\ late \in Nat
  /\ sigwait \in [at : {"wait", "cancel"}, calls : 0 .. 2]
  /\ pending \subseteq Pids \cup {Main} /\ heard \subseteq Pids
  /\ child \in [Pids -> {"none", "born", "jammed", "armed", "serving", "canceled",
                         "hung", "ended"}]
  /\ stop \in [Pids -> {"never", "stopped", "reported", "continued"}]
  /\ interrupts \in Nat /\ stops \in Nat

\* The daemon counts only children it can still wait for, or a failed fork, so that
\* the loop at the limit never waits for nothing; and it counts every child that nobody
\* has ever stopped.
RecordExact ==
  /\ childPIDRecord \subseteq Waited \cup {Failed}
  /\ {p \in Waited : stop[p] = "never"} \subseteq childPIDRecord

\* There are never more children than the limit, not counting those that have been
\* stopped: wait3 reports them as if they had ended.
AtMostMax == Cardinality({p \in Alive : stop[p] = "never"}) <= MaxConnections

\* After the server has been canceled at most one more connection gets a child.
OneMoreAtMost == late <= 1

\* A child that an interrupt will not end: it was born after it, or heard of it before
\* there was a reader to cancel, or hangs.
Deaf(p) == \/ child[p] \in {"jammed", "hung"}
           \/ child[p] \in {"born", "armed", "serving"} /\ p \notin pending

\* An interrupt ends the daemon, although main blocks in wait3 when it is at the limit,
\* unless it counts a child that does not hear of it, or a fork that failed, or spins
\* because its limit is 0.
InterruptEndsDaemon ==
  interrupts > 0 ~> \/ main = "exited" \/ Failed \in childPIDRecord \/ MaxConnections = 0
                    \/ \E p \in childPIDRecord \cap Pids : Deaf(p)
=============================================================================
