--------------------------- MODULE DataProcManager ---------------------------
(***************************************************************************)
(* ORDataProcManager: ProcessDataStream and ProcessRun, with the run       *)
(* context they keep (ORRunContext, moved by ORRunDataProcessor), and the  *)
(* processors they call as an ORCompoundDataProcessor.                     *)
(*                                                                         *)
(* The records come from an ORSocketReader, here the lossy stream that     *)
(* module SocketReader implements: a queue of kept records.  Processors    *)
(* are known by their place in fDataProcessors; a call of one function of  *)
(* all of them is one action, which chooses what each of them returns.     *)
(***************************************************************************)
EXTENDS Integers, Sequences

CONSTANTS
  NProcessors,  (* fDataProcessors.size()                                 *)
  DataIdOf,     (* the records each processor is for: an id, by processor *)
  DataIds,      (* the ids of records that are neither headers nor run records *)
  StartCodes, RecordCodes, EndCodes, (* what the processors' functions may return *)
  HeaderFaults, (* what may be wrong with a header: "xml", "runControl"   *)
  Modes,        (* fRunAsDaemon, as the application may set it            *)
  Lossy,        (* the reader may throw records away                      *)
  QueueLength,  (* bound: records kept by the reader and not yet read     *)
  Numbers       (* bound: run and sub-run numbers repeat after so many    *)

kSuccess == 0
kFailure == 1
kBreak   == 2
kAlarm   == 3

ASSUME ManagerAssumption ==
  /\ NProcessors \in Nat
  /\ DataIdOf \in [1 .. NProcessors -> DataIds \cup {"run"}] /\ DataIds \cap {"run", "header"} = {}
  /\ StartCodes \cup RecordCodes \cup EndCodes \subseteq kSuccess .. kAlarm
  /\ HeaderFaults \subseteq {"xml", "runControl"}
  /\ Modes \subseteq BOOLEAN /\ Lossy \in BOOLEAN
  /\ QueueLength \in Nat \ {0} /\ Numbers \in Nat \ {0}

VARIABLES
  phase,          (* where ProcessDataStream and ProcessRun are           *)
  record,         (* the record in ProcessRun's buffer                    *)
  headerIsReadIn,
  context,        (* fRunContext: state, run number and sub-run number    *)
  mustSwap,       (* fRunContext->fMustSwap                               *)
  isRecordSwapped,(* fRunContext->fIsRecordSwapped                        *)
  doProcess, doProcessRun, (* fDoProcess and fDoProcessRun, by processor  *)
  managerRun,     (* the manager's own fDoProcessRun                      *)
  daemon,         (* fRunAsDaemon                                         *)
  readerCanceled, (* what TestCancel returns to the reader                *)
  canceled,       (* what TestCancel returns to the manager               *)
  readKept,       (* the reader has kept its own read lock                *)
  queue, closed,  (* the reader: the records kept, and not fSocketIsOK    *)
  sender,         (* where the peer is in its runs                        *)
  streamSwapped,  (* the peer's byte order is not ours                    *)
  swaps,          (* how often the bytes of record have been swapped      *)
  run,            (* history: what each processor was told of its run     *)
  alarmed         (* history: a processor has returned kAlarm             *)

contextVars == <<context, mustSwap, isRecordSwapped>>
procVars    == <<doProcess, doProcessRun, managerRun, run, alarmed>>
bufferVars  == <<record, headerIsReadIn, swaps>>
streamVars  == <<queue, closed, sender, streamSwapped>>
fixedVars   == <<daemon, readerCanceled, canceled, readKept>>
vars == <<phase, contextVars, procVars, bufferVars, streamVars, fixedVars>>

Processors == 1 .. NProcessors
kIdle               == 0
kStarting           == 1
kRunning            == 2
kPreparingForSubRun == 3
kStopping           == 4
NoRecord            == [id |-> "none", bits |-> {}, run |-> 0, sub |-> 0]
-----------------------------------------------------------------------------
(***************************************************************************)
(* The peer: runs 0, 1, ... of sub-runs 0, 1, ...                          *)
(***************************************************************************)
RunRecord(s, flags) == [id |-> "run", bits |-> flags, run |-> s.run, sub |-> s.sub]
Header(s)           == [RunRecord(s, {}) EXCEPT !.id = "header"]
NextRun(s)          == [at |-> "between", run |-> (s.run + 1) % Numbers, sub |-> 0]
NextSubRun(s)       == [s EXCEPT !.at = "running", !.sub = (s.sub + 1) % Numbers]
At(s, a)            == [s EXCEPT !.at = a]

\* What a peer in state s sends next, and its state then.
Sends(s) ==
  CASE s.at = "between"   -> {<<Header(s), At(s, "announced")>>}
    [] s.at = "announced" -> {<<RunRecord(s, {"start"}), At(s, "running")>>}
    [] s.at = "running"   -> {<<[RunRecord(s, {}) EXCEPT !.id = i], s>> : i \in DataIds}
                             \cup {<<RunRecord(s, {"heartbeat"}), s>>,
                                   <<RunRecord(s, {"prepare"}), At(s, "preparing")>>,
                                   <<RunRecord(s, {}), NextRun(s)>>}
    [] s.at = "preparing" -> {<<RunRecord(NextSubRun(s), {"subStart"}), NextSubRun(s)>>,
                              <<RunRecord(s, {}), NextRun(s)>>}

SendRecord ==
  /\ ~closed /\ ~readKept   \* the readout thread stores a record under the write lock
  /\ \E s \in Sends(sender) :
       /\ sender' = s[2]
       /\ \/ Len(queue) < QueueLength /\ queue' = Append(queue, s[1])
          \/ Lossy /\ UNCHANGED queue
  /\ UNCHANGED <<phase, contextVars, procVars, bufferVars, fixedVars, closed, streamSwapped>>

PeerCloses ==
  /\ ~closed /\ closed' = TRUE
  /\ UNCHANGED <<phase, contextVars, procVars, bufferVars, fixedVars, queue, sender, streamSwapped>>

\* CancelAll sets the handlers' flags in the order they were constructed in: the
\* applications construct their reader before the manager.
CancelReader ==
  /\ ~readerCanceled /\ readerCanceled' = TRUE
  /\ UNCHANGED <<phase, contextVars, procVars, bufferVars, streamVars, daemon, canceled, readKept>>

CancelManager ==
  /\ readerCanceled /\ ~canceled /\ canceled' = TRUE
  /\ UNCHANGED <<phase, contextVars, procVars, bufferVars, streamVars, daemon, readerCanceled,
                 readKept>>
-----------------------------------------------------------------------------
(***************************************************************************)
(* ORCompoundDataProcessor: the processors are called in order, up to and  *)
(* including the first that returns kBreak or worse.                       *)
(***************************************************************************)
fBreakRetCode == kFailure

Reached(codes)      == {p \in Processors : \A q \in 1 .. p - 1 : codes[q] < kBreak}
CompoundCode(codes) == IF \E p \in Processors : codes[p] >= kBreak THEN fBreakRetCode ELSE kSuccess
Alarm(codes)        == \E p \in Reached(codes) : codes[p] = kAlarm
\* For ProcessDataRecord, kAlarm is not turned into fBreakRetCode.
RecordCode(codes)   == IF Alarm(codes) THEN kAlarm ELSE CompoundCode(codes)

\* Mutant: none of the processors is killed.
KillNone(codes) == {}

\* The processors that KillProcessor or KillRun is called for.
Failing(codes)      == {p \in Reached(codes) : codes[p] >= kFailure}

\* The processors whose ProcessMyDataRecord is called with the record.
Takers == {p \in Processors : managerRun /\ doProcess[p] /\ doProcessRun[p]
                              /\ DataIdOf[p] = record.id}
-----------------------------------------------------------------------------
(***************************************************************************)
(* ORRunDataProcessor and ORRunContext.                                    *)
(***************************************************************************)

\* Mutant: the run stays in kStarting.
StayStarting(c) == c

\* OnStartRunComplete, OnEndRunComplete.
OnStartRunComplete(c) == [c EXCEPT !.state = kRunning]
OnEndRunComplete(c)   == [c EXCEPT !.state = kIdle]

\* Mutant: the record of a sub-run start is not loaded.
LoadNothing(c, r) == c

\* LoadRunStartRecord.
LoadRunStartRecord(c, r) == [c EXCEPT !.run = r.run, !.sub = r.sub]

\* The run context c after the run record r, as ORRunDecoder tells its kind.
AfterRunRecord(c, r) ==
  IF "heartbeat" \in r.bits THEN c
  ELSE IF "start" \in r.bits THEN [LoadRunStartRecord(c, r) EXCEPT !.state = kStarting]
  ELSE IF "prepare" \in r.bits THEN [c EXCEPT !.state = kPreparingForSubRun]
  ELSE IF "subStart" \in r.bits THEN OnStartRunComplete(LoadRunStartRecord(c, r))
  ELSE [c EXCEPT !.state = kStopping]
-----------------------------------------------------------------------------
(***************************************************************************)
(* The record's bytes: the first to interpret it swaps it, "only once".    *)
(***************************************************************************)

\* Mutant: the flag of the record before is kept.
KeepRecordFlags == isRecordSwapped

\* ResetRecordFlags, and the condition for Swap.
ResetRecordFlags     == FALSE
MustSwapNow(swapped) == mustSwap /\ ~swapped

Interpret(takes, wasSwapped) ==
  /\ isRecordSwapped' = (wasSwapped \/ (takes /\ MustSwapNow(wasSwapped)))
  /\ swaps' = swaps + (IF takes /\ MustSwapNow(wasSwapped) THEN 1 ELSE 0)
-----------------------------------------------------------------------------
(***************************************************************************)
(* ProcessDataStream and ProcessRun.                                       *)
(***************************************************************************)

\* StartProcessing, and fReader->Open().
StartProcessing(codes) ==
  /\ phase = "start"
  /\ doProcess' = [p \in Processors |->
                     doProcess[p] /\ p \notin Failing(codes)]
  /\ phase' \in (IF CompoundCode(codes) >= kFailure THEN {"done"} ELSE {"done", "run"})
  /\ alarmed' = Alarm(codes)
  /\ UNCHANGED <<contextVars, doProcessRun, managerRun, run, bufferVars, streamVars, fixedVars>>

\* ProcessRun begins, with every processor that has not been killed for good.
BeginRun ==
  /\ phase = "run" /\ phase' = "read"
  /\ doProcessRun' = [p \in Processors |-> TRUE] /\ managerRun' = TRUE
  /\ headerIsReadIn' = FALSE
  /\ UNCHANGED <<contextVars, doProcess, run, alarmed, record, swaps, streamVars, fixedVars>>

\* ReadRecord returns the next record.
ReadRecord ==
  /\ phase = "read" /\ queue # << >>
  /\ record' = Head(queue) /\ queue' = Tail(queue)
  /\ swaps' = 0
  /\ phase' = IF Head(queue).id = "header" THEN "header"
              ELSE IF headerIsReadIn THEN "record" ELSE "endRun"
  /\ UNCHANGED <<contextVars, procVars, headerIsReadIn, closed, sender, streamSwapped, fixedVars>>

\* ReadRecord returns false: the socket has failed, or the reader is canceled and
\* keeps its read lock (module SocketReaderThreads).
ReadFails ==
  /\ phase = "read" /\ queue = << >>
  /\ \/ closed /\ UNCHANGED readKept
     \/ readerCanceled /\ readKept' = TRUE
  /\ phase' = "endRun"
  /\ UNCHANGED <<contextVars, procVars, bufferVars, streamVars, daemon, readerCanceled, canceled>>

\* The header is loaded, or its run control information is missing.
LoadHeader ==
  /\ phase = "header"
  /\ mustSwap' = streamSwapped
  /\ \/ /\ phase' = "read" /\ headerIsReadIn' = TRUE
        /\ context' = [context EXCEPT !.run = IF daemon THEN -1 ELSE record.run]
     \/ /\ "runControl" \in HeaderFaults /\ ~daemon
        /\ phase' = "endRun" /\ headerIsReadIn' = FALSE
        /\ context' = [context EXCEPT !.run = -1]
  /\ UNCHANGED <<isRecordSwapped, procVars, record, swaps, streamVars,
                 fixedVars>>

\* The header's XML cannot be parsed: it is taken for a record like any other.
HeaderUnreadable ==
  /\ phase = "header" /\ "xml" \in HeaderFaults
  /\ phase' = IF headerIsReadIn THEN "record" ELSE "endRun"
  /\ UNCHANGED <<contextVars, procVars, bufferVars, streamVars, fixedVars>>

\* ResetRecordFlags, and ORRunDataProcessor's turn.
Dispatch ==
  /\ phase = "record"
  /\ LET mine == ~daemon /\ record.id = "run"
     IN  /\ Interpret(mine, ResetRecordFlags)
         /\ context' = IF mine THEN AfterRunRecord(context, record) ELSE context
  /\ phase' = IF context'.state <= kStarting THEN "startRun" ELSE "process"
  /\ UNCHANGED <<mustSwap, procVars, record, headerIsReadIn, streamVars,
                 fixedVars>>

\* StartRun of all processors, and OnStartRunComplete.
StartRun(codes) ==
  /\ phase = "startRun" /\ phase' = "process"
  /\ run' = [p \in Processors |-> IF p \notin Reached(codes) THEN run[p]
                                  ELSE IF codes[p] = kSuccess THEN "open" ELSE "failed"]
  /\ doProcessRun' = [p \in Processors |-> doProcessRun[p] /\ p \notin Failing(codes)]
  /\ managerRun' = (managerRun /\ CompoundCode(codes) = kSuccess)
  /\ alarmed' = (alarmed \/ Alarm(codes))
  /\ context' = IF daemon THEN context ELSE OnStartRunComplete(context)
  /\ UNCHANGED <<mustSwap, isRecordSwapped, doProcess, bufferVars,
                 streamVars, fixedVars>>

\* ProcessDataRecord of all processors.
ProcessDataRecord(codes) ==
  /\ phase = "process"
  /\ \A p \in Processors \ Takers : codes[p] = kSuccess
  /\ Interpret(Takers # {}, isRecordSwapped)
  /\ phase' = IF RecordCode(codes) >= kAlarm THEN "done" ELSE "after"
  /\ alarmed' = (alarmed \/ Alarm(codes))
  /\ UNCHANGED <<context, mustSwap, doProcess, doProcessRun, managerRun,
                 run, record, headerIsReadIn, streamVars, fixedVars>>

\* Mutant: a cancel leaves both loops at once.
LeaveBothLoops ==
  /\ phase = "after"
  /\ phase' = IF canceled THEN "close" ELSE IF context.state = kStopping THEN "endRun" ELSE "read"
  /\ UNCHANGED <<contextVars, procVars, bufferVars, streamVars, fixedVars>>

\* The run has stopped, or the manager is canceled, or the loop goes on.
RecordDone ==
  /\ phase = "after"
  /\ phase' = IF context.state = kStopping \/ canceled THEN "endRun" ELSE "read"
  /\ UNCHANGED <<contextVars, procVars, bufferVars, streamVars, fixedVars>>

\* EndRun of all processors, and OnEndRunComplete.  It cannot return kAlarm.
EndRun(codes) ==
  /\ phase = "endRun" /\ phase' = "afterRun"
  /\ run' = [p \in Processors |-> IF p \in Reached(codes) THEN "closed" ELSE run[p]]
  /\ alarmed' = (alarmed \/ Alarm(codes))
  /\ context' = IF daemon THEN context ELSE OnEndRunComplete(context)
  /\ record' = NoRecord /\ swaps' = 0
  /\ UNCHANGED <<mustSwap, isRecordSwapped, doProcess, doProcessRun,
                 managerRun, headerIsReadIn, streamVars, fixedVars>>


\* TestCancel, and OKToRead: the next run, or the end.
RunDone ==
  /\ phase = "afterRun"
  /\ phase' = IF canceled \/ closed THEN "close" ELSE "run"
  /\ UNCHANGED <<contextVars, procVars, bufferVars, streamVars, fixedVars>>

\* fReader->Close().
Close ==
  /\ phase = "close" /\ phase' = "ending"
  /\ UNCHANGED <<contextVars, procVars, bufferVars, streamVars, fixedVars>>

\* With a read lock of its own kept, Close may join a thread that waits for ever for
\* the write lock, or ReadRecord may wait for ever for it (SocketReaderThreads says when).
Blocks ==
  /\ phase \in {"read", "close"} /\ readKept /\ phase' = "blocked"
  /\ UNCHANGED <<contextVars, procVars, bufferVars, streamVars, fixedVars>>

EndProcessing(codes) ==
  /\ phase = "ending" /\ phase' = "done"
  /\ alarmed' = (alarmed \/ Alarm(codes))
  /\ UNCHANGED <<contextVars, doProcess, doProcessRun, managerRun, run, bufferVars, streamVars,
                 fixedVars>>
-----------------------------------------------------------------------------
Init ==
  /\ phase = "start" /\ record = NoRecord /\ headerIsReadIn = FALSE
  /\ context = [state |-> kIdle, run |-> 0, sub |-> 0]
  /\ mustSwap \in BOOLEAN   \* ORRunContext's constructor leaves it uninitialised
  /\ isRecordSwapped = FALSE
  /\ doProcess = [p \in Processors |-> TRUE] /\ doProcessRun = [p \in Processors |-> TRUE]
  /\ managerRun = TRUE /\ daemon \in Modes
  /\ readerCanceled = FALSE /\ canceled = FALSE /\ readKept = FALSE
  /\ queue = << >> /\ closed = FALSE
  /\ sender = [at |-> "between", run |-> 0, sub |-> 0] /\ streamSwapped \in BOOLEAN
  /\ swaps = 0 /\ run = [p \in Processors |-> "closed"] /\ alarmed = FALSE

Calls == \/ \E codes \in [Processors -> StartCodes] : StartProcessing(codes) \/ StartRun(codes)
         \/ \E codes \in [Processors -> RecordCodes] : ProcessDataRecord(codes)
         \/ \E codes \in [Processors -> EndCodes] : EndRun(codes) \/ EndProcessing(codes)

ManagerNext == \/ BeginRun \/ ReadRecord \/ ReadFails \/ LoadHeader \/ HeaderUnreadable
               \/ Dispatch \/ RecordDone \/ RunDone \/ Close \/ Blocks \/ Calls

Next == ManagerNext \/ SendRecord \/ PeerCloses \/ CancelReader \/ CancelManager

Spec == Init /\ [][Next]_vars

\* The processors' functions return, and ReadRecord returns a record when it has one
\* and false when the socket has failed or the reader is canceled, unless it blocks.
\* A CancelAll that has begun ends.  Nothing is assumed of the peer.
FairSpec == Spec /\ WF_vars(ManagerNext) /\ WF_vars(CancelManager)
-----------------------------------------------------------------------------
Records == [id : DataIds \cup {"run", "header", "none"},
            bits : SUBSET {"start", "heartbeat", "prepare", "subStart"},
            run : 0 .. Numbers - 1, sub : 0 .. Numbers - 1]

TypeOK ==
  /\ phase \in {"start", "run", "read", "header", "record", "startRun", "process", "after",
                "endRun", "afterRun", "close", "ending", "blocked", "done"}
  /\ record \in Records /\ queue \in Seq(Records)
  /\ context \in [state : kIdle .. kStopping, run : -1 .. Numbers - 1, sub : 0 .. Numbers - 1]
  /\ headerIsReadIn \in BOOLEAN /\ mustSwap \in BOOLEAN /\ isRecordSwapped \in BOOLEAN
  /\ managerRun \in BOOLEAN /\ daemon \in BOOLEAN
  /\ readerCanceled \in BOOLEAN /\ canceled \in BOOLEAN /\ readKept \in BOOLEAN
  /\ closed \in BOOLEAN /\ streamSwapped \in BOOLEAN /\ alarmed \in BOOLEAN
  /\ doProcess \in [Processors -> BOOLEAN] /\ doProcessRun \in [Processors -> BOOLEAN]
  /\ run \in [Processors -> {"closed", "open", "failed"}]
  /\ sender \in [at : {"between", "announced", "running", "preparing"},
                run : 0 .. Numbers - 1, sub : 0 .. Numbers - 1]
  /\ swaps \in 0 .. 1

\* If the reader loses nothing, a record is handed to a processor only if the
\* processor has started its run, with success, whatever other processors return.
RecordsInStartedRuns ==
  phase = "process" /\ ~Lossy => \A p \in Takers : run[p] = "open"

\* If the reader loses nothing, a processor that handles a record finds the
\* number of the record's run, and of its sub-run, in the run context.
RightRun ==
  (phase = "process" /\ ~Lossy /\ ~daemon /\ record.id # "header") =>
    context.run = record.run /\ context.sub = record.sub

\* If the reader loses nothing, no run is started for a processor that has not
\* been told the end of the one before.
StartsPaired ==
  [][(phase = "startRun" /\ phase' = "process" /\ ~daemon /\ ~Lossy)
       => \A p \in Processors : run[p] = "closed"]_vars

\* A record that any processor interprets is in our byte order by then, having been
\* swapped exactly once if the peer's is another, for however many processors.
SwappedOnce ==
  (phase = "after" /\ (Takers # {} \/ (~daemon /\ record.id = "run"))) =>
    swaps = IF streamSwapped THEN 1 ELSE 0

\* Unless a processor raised an alarm, processing does not end with a run open: files
\* and trees are closed when the peer goes away or the program is interrupted.
NoRunLeftOpen ==
  (phase \in {"close", "ending", "done"} /\ ~alarmed) => \A p \in Processors : run[p] = "closed"

=============================================================================
