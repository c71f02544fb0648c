----------------------- MODULE DataProcManager_proofs -----------------------
(***************************************************************************)
(* What holds of ORDataProcManager for any number of processors, whatever  *)
(* they return, and for any stream of records.                             *)
(***************************************************************************)
EXTENDS DataProcManager, SequenceTheorems, TLAPS

\* Records are handled only after a header, and with the byte order it came in.
HeaderFirst ==
  /\ phase \in {"record", "startRun", "process", "after"} => headerIsReadIn
  /\ headerIsReadIn => mustSwap = streamSwapped

\* How often the record has been swapped, on its way through ProcessRun.
SwapsSoFar ==
  /\ phase \in {"header", "record"} => swaps = 0
  /\ phase \in {"startRun", "process"} =>
       /\ isRecordSwapped <=> (mustSwap /\ ~daemon /\ record.id = "run")
       /\ swaps = IF isRecordSwapped THEN 1 ELSE 0

SwapInv == HeaderFirst /\ SwapsSoFar /\ SwappedOnce

\* Between two runs every processor has been told the end of its run.
ClosedBetweenRuns ==
  phase \in {"start", "run", "afterRun", "close", "ending"} =>
    \A p \in Processors : run[p] = "closed"

\* An EndRun that stops before the last processor, or alarms, is excluded.
EndsGoOn == EndCodes \subseteq {kSuccess, kFailure}
-----------------------------------------------------------------------------
\* What the actions keep in their types.
LEMMA TypeInit == Init => TypeOK
<1>. SUFFICES ASSUME Init PROVE TypeOK
  OBVIOUS
<1>. USE ManagerAssumption
<1>1. record \in Records /\ queue \in Seq(Records)
  BY DEF Init, NoRecord, Records
<1>2. context \in [state : kIdle .. kStopping, run : -1 .. Numbers - 1, sub : 0 .. Numbers - 1]
  BY DEF Init, kIdle, kStopping
<1>3. daemon \in BOOLEAN
  BY DEF Init
<1>4. /\ doProcess \in [Processors -> BOOLEAN] /\ doProcessRun \in [Processors -> BOOLEAN]
      /\ run \in [Processors -> {"closed", "open", "failed"}]
  BY DEF Init
<1>5. sender \in [at : {"between", "announced", "running", "preparing"},
                 run : 0 .. Numbers - 1, sub : 0 .. Numbers - 1]
  BY DEF Init
<1>6. phase \in {"start", "run", "read", "header", "record", "startRun", "process", "after",
                "endRun", "afterRun", "close", "ending", "blocked", "done"} /\ swaps \in 0 .. 1
  BY DEF Init
<1>7. /\ headerIsReadIn \in BOOLEAN /\ mustSwap \in BOOLEAN /\ isRecordSwapped \in BOOLEAN
      /\ managerRun \in BOOLEAN /\ closed \in BOOLEAN
      /\ readerCanceled \in BOOLEAN /\ canceled \in BOOLEAN /\ readKept \in BOOLEAN
      /\ streamSwapped \in BOOLEAN /\ alarmed \in BOOLEAN
  BY DEF Init
<1>. QED BY <1>1, <1>2, <1>3, <1>4, <1>5, <1>6, <1>7 DEF TypeOK

\* The next number of a run or sub-run is a number.
LEMMA NextNumber ==
  ASSUME NEW n \in 0 .. Numbers - 1
  PROVE  (n + 1) % Numbers \in 0 .. Numbers - 1
  BY ManagerAssumption

\* What the peer sends is a record, and leaves it in one of its states.
LEMMA SendsType ==
  ASSUME TypeOK, NEW s \in Sends(sender)
  PROVE  /\ s[1] \in Records
         /\ s[2] \in [at : {"between", "announced", "running", "preparing"},
                      run : 0 .. Numbers - 1, sub : 0 .. Numbers - 1]
<1>. DEFINE S == [at : {"between", "announced", "running", "preparing"},
                  run : 0 .. Numbers - 1, sub : 0 .. Numbers - 1]
<1>1. sender \in S /\ 0 \in 0 .. Numbers - 1
  BY ManagerAssumption DEF TypeOK
<1>2. NextRun(sender) \in S /\ NextSubRun(sender) \in S
  <2>1. (sender.run + 1) % Numbers \in 0 .. Numbers - 1 /\ (sender.sub + 1) % Numbers \in 0 .. Numbers - 1
    BY <1>1, NextNumber
  <2>. QED BY <1>1, <2>1 DEF NextRun, NextSubRun
<1>3. \A a \in {"announced", "running", "preparing"} : At(sender, a) \in S
  BY <1>1 DEF At
<1>4. ASSUME NEW u \in S, NEW flags \in SUBSET {"start", "heartbeat", "prepare", "subStart"},
             NEW i \in DataIds
      PROVE  /\ RunRecord(u, flags) \in Records /\ Header(u) \in Records
             /\ [RunRecord(u, flags) EXCEPT !.id = i] \in Records
  BY <1>4 DEF RunRecord, Header, Records
<1>5. CASE sender.at = "between"
  <2>1. s = <<Header(sender), At(sender, "announced")>>
    BY <1>5 DEF Sends
  <2>2. Header(sender) \in Records
    BY <1>1 DEF RunRecord, Header, Records
  <2>. QED BY <2>1, <2>2, <1>3
<1>6. CASE sender.at = "announced"
  <2>1. s = <<RunRecord(sender, {"start"}), At(sender, "running")>>
    BY <1>6 DEF Sends
  <2>2. RunRecord(sender, {"start"}) \in Records
    BY <1>1 DEF RunRecord, Records
  <2>. QED BY <2>1, <2>2, <1>3
<1>7. CASE sender.at = "running"
  <2>1. \/ \E i \in DataIds : s = <<[RunRecord(sender, {}) EXCEPT !.id = i], sender>>
        \/ s = <<RunRecord(sender, {"heartbeat"}), sender>>
        \/ s = <<RunRecord(sender, {"prepare"}), At(sender, "preparing")>>
        \/ s = <<RunRecord(sender, {}), NextRun(sender)>>
    BY <1>7 DEF Sends
  <2>2. /\ RunRecord(sender, {"heartbeat"}) \in Records /\ RunRecord(sender, {"prepare"}) \in Records
        /\ RunRecord(sender, {}) \in Records
        /\ \A i \in DataIds : [RunRecord(sender, {}) EXCEPT !.id = i] \in Records
    BY <1>1 DEF RunRecord, Records
  <2>. QED BY <2>1, <2>2, <1>1, <1>2, <1>3
<1>8. CASE sender.at = "preparing"
  <2>1. \/ s = <<RunRecord(NextSubRun(sender), {"subStart"}), NextSubRun(sender)>>
        \/ s = <<RunRecord(sender, {}), NextRun(sender)>>
    BY <1>8 DEF Sends
  <2>2. RunRecord(NextSubRun(sender), {"subStart"}) \in Records /\ RunRecord(sender, {}) \in Records
    BY <1>1, <1>2 DEF RunRecord, Records
  <2>. QED BY <2>1, <2>2, <1>2
<1>. QED BY <1>1, <1>5, <1>6, <1>7, <1>8

\* A run record leaves the run context in one of its states.
LEMMA RunRecordType ==
  ASSUME TypeOK
  PROVE  AfterRunRecord(context, record)
           \in [state : kIdle .. kStopping, run : -1 .. Numbers - 1, sub : 0 .. Numbers - 1]
<1>. DEFINE C == [state : kIdle .. kStopping, run : -1 .. Numbers - 1, sub : 0 .. Numbers - 1]
<1>1. context \in C /\ record.run \in -1 .. Numbers - 1 /\ record.sub \in 0 .. Numbers - 1
  BY ManagerAssumption DEF TypeOK, Records
<1>2. LoadRunStartRecord(context, record) \in C
  BY <1>1 DEF LoadRunStartRecord
<1>3. \A c \in C : \A n \in {kIdle, kStarting, kRunning, kPreparingForSubRun, kStopping} :
        [c EXCEPT !.state = n] \in C
  BY DEF kIdle, kStarting, kRunning, kPreparingForSubRun, kStopping
<1>. QED BY <1>1, <1>2, <1>3 DEF AfterRunRecord, OnStartRunComplete

\* The swap count stays within its type, since a record is swapped only once.
LEMMA TypeStep == TypeOK /\ SwapInv /\ [Next]_vars => TypeOK'
<1>. SUFFICES ASSUME TypeOK, SwapInv, [Next]_vars PROVE TypeOK'
  OBVIOUS
<1>. USE DEF contextVars, procVars, bufferVars, streamVars, fixedVars
<1>. DEFINE C == [state : kIdle .. kStopping, run : -1 .. Numbers - 1, sub : 0 .. Numbers - 1]
<1>0. context \in C /\ record \in Records /\ Numbers \in Nat \ {0}
  BY ManagerAssumption DEF TypeOK
<1>1. CASE SendRecord
  <2>1. PICK s \in Sends(sender) :
          /\ sender' = s[2]
          /\ queue' = Append(queue, s[1]) \/ queue' = queue
    BY <1>1 DEF SendRecord
  <2>2. queue' \in Seq(Records)
    <3>1. s[1] \in Records
      BY SendsType
    <3>2. queue \in Seq(Records)
      BY DEF TypeOK
    <3>. QED BY <2>1, <3>1, <3>2
  <2>. QED BY <1>1, <2>1, <2>2, SendsType DEF SendRecord, TypeOK
<1>2a. CASE PeerCloses
  BY <1>2a DEF PeerCloses, TypeOK
<1>2b. CASE CancelReader
  BY <1>2b DEF CancelReader, TypeOK
<1>2c. CASE CancelManager
  BY <1>2c DEF CancelManager, TypeOK
<1>3. ASSUME NEW codes \in [Processors -> StartCodes], StartProcessing(codes) PROVE TypeOK'
  <2>1. doProcess' \in [Processors -> BOOLEAN]
    BY <1>3 DEF StartProcessing, TypeOK
  <2>2. phase' \in {"done", "run"}
    BY <1>3 DEF StartProcessing
  <2>3. alarmed' \in BOOLEAN
    BY <1>3 DEF StartProcessing, Alarm
  <2>. QED BY <1>3, <2>1, <2>2, <2>3 DEF StartProcessing, TypeOK
<1>4. CASE BeginRun
  <2>1. doProcessRun' \in [Processors -> BOOLEAN] /\ managerRun' \in BOOLEAN
    BY <1>4 DEF BeginRun
  <2>2. headerIsReadIn' \in BOOLEAN /\ phase' = "read"
    BY <1>4 DEF BeginRun
  <2>. QED BY <1>4, <2>1, <2>2 DEF BeginRun, TypeOK
<1>5. CASE ReadRecord
  <2>1. record' \in Records /\ queue' \in Seq(Records)
    BY <1>5 DEF ReadRecord, TypeOK
  <2>. QED BY <1>5, <2>1 DEF ReadRecord, TypeOK
<1>6a. CASE ReadFails
  <2>1. phase' = "endRun" /\ readKept' \in BOOLEAN
    BY <1>6a DEF ReadFails, TypeOK
  <2>. QED BY <1>6a, <2>1 DEF ReadFails, TypeOK
<1>6b. CASE Close \/ Blocks
  BY <1>6b DEF Close, Blocks, TypeOK
<1>6c. CASE HeaderUnreadable \/ RunDone
  BY <1>6c DEF HeaderUnreadable, RunDone, TypeOK
<1>7. CASE LoadHeader
  <2>1. context' \in C
    <3>1. record.run \in -1 .. Numbers - 1 /\ -1 \in -1 .. Numbers - 1
      BY <1>0 DEF Records
    <3>. QED BY <1>0, <1>7, <3>1 DEF LoadHeader
  <2>. QED BY ZenonT(40), <1>7, <2>1 DEF LoadHeader, TypeOK
<1>8. CASE Dispatch
  <2>1. context' \in C
    BY <1>0, <1>8, RunRecordType DEF Dispatch
  <2>2. swaps' \in 0 .. 1
    BY <1>8 DEF Dispatch, Interpret, MustSwapNow, SwapInv, SwapsSoFar
  <2>3. isRecordSwapped' \in BOOLEAN /\ phase' \in {"startRun", "process"}
    BY <1>8 DEF Dispatch, Interpret
  <2>. QED BY <1>8, <2>1, <2>2, <2>3 DEF Dispatch, TypeOK
<1>9. ASSUME NEW codes \in [Processors -> StartCodes], StartRun(codes) PROVE TypeOK'
  <2>1. context' \in C
    BY <1>0, <1>9 DEF StartRun, OnStartRunComplete, kIdle, kRunning, kStopping
  <2>2. run' \in [Processors -> {"closed", "open", "failed"}]
    BY <1>9 DEF StartRun, TypeOK
  <2>3. doProcessRun' \in [Processors -> BOOLEAN]
    BY <1>9 DEF StartRun, TypeOK
  <2>4. managerRun' \in BOOLEAN /\ alarmed' \in BOOLEAN
    BY <1>9 DEF StartRun
  <2>. QED BY <1>9, <2>1, <2>2, <2>3, <2>4 DEF StartRun, TypeOK
<1>10. ASSUME NEW codes \in [Processors -> RecordCodes], ProcessDataRecord(codes) PROVE TypeOK'
  <2>1. swaps' \in 0 .. 1
    BY <1>10 DEF ProcessDataRecord, Interpret, MustSwapNow, SwapInv, SwapsSoFar
  <2>2. isRecordSwapped' \in BOOLEAN /\ phase' \in {"done", "after"} /\ alarmed' \in BOOLEAN
    BY <1>10 DEF ProcessDataRecord, Interpret
  <2>. QED BY <1>10, <2>1, <2>2 DEF ProcessDataRecord, TypeOK
<1>11. CASE RecordDone
  <2>1. phase' \in {"endRun", "read"}
    BY <1>11 DEF RecordDone
  <2>. QED BY <1>11, <2>1 DEF RecordDone, TypeOK
<1>12. ASSUME NEW codes \in [Processors -> EndCodes], EndRun(codes) PROVE TypeOK'
  <2>1. context' \in C
    BY <1>0, <1>12 DEF EndRun, OnEndRunComplete, kIdle, kStopping
  <2>2. run' \in [Processors -> {"closed", "open", "failed"}]
    BY <1>12 DEF EndRun, TypeOK
  <2>3. record' \in Records /\ alarmed' \in BOOLEAN /\ swaps' \in 0 .. 1
    BY <1>0, <1>12 DEF EndRun, NoRecord, Records
  <2>. QED BY <1>12, <2>1, <2>2, <2>3 DEF EndRun, TypeOK
<1>13. ASSUME NEW codes \in [Processors -> EndCodes], EndProcessing(codes) PROVE TypeOK'
  <2>1. alarmed' \in BOOLEAN
    BY <1>13 DEF EndProcessing
  <2>. QED BY <1>13, <2>1 DEF EndProcessing, TypeOK
<1>14. CASE UNCHANGED vars
  BY <1>14 DEF vars, TypeOK
<1>. QED BY <1>1, <1>2a, <1>2b, <1>2c, <1>3, <1>4, <1>5, <1>6a, <1>6b, <1>6c, <1>7, <1>8, <1>9,
            <1>10, <1>11, <1>12, <1>13, <1>14 DEF Next, ManagerNext, Calls

-----------------------------------------------------------------------------
(* The invariant of the swaps. *)

\* The swap flag and the header's byte order are what ProcessRun relies on: every
\* step that hands the record on leaves its bytes swapped as often as needed.
LEMMA SwapStep == TypeOK /\ SwapInv /\ [Next]_vars => SwapInv'
<1>. SUFFICES ASSUME TypeOK, SwapInv, [Next]_vars PROVE SwapInv'
  OBVIOUS
<1>. USE DEF SwapInv, contextVars, procVars, bufferVars, streamVars, fixedVars
<1>. DEFINE Handled == Takers # {} \/ (~daemon /\ record.id = "run")
<1>1. CASE SendRecord \/ PeerCloses \/ CancelReader \/ CancelManager \/ UNCHANGED vars
  BY <1>1 DEF SendRecord, PeerCloses, CancelReader, CancelManager, vars, HeaderFirst, SwapsSoFar, SwappedOnce,
              Takers
<1>2. ASSUME NEW codes \in [Processors -> StartCodes], StartProcessing(codes) PROVE SwapInv'
  <2>1. phase' \in {"done", "run"}
    BY <1>2 DEF StartProcessing
  <2>. QED BY <1>2, <2>1 DEF StartProcessing, HeaderFirst, SwapsSoFar, SwappedOnce
<1>3. CASE BeginRun \/ ReadFails \/ Close \/ Blocks \/ LoadHeader \/ RunDone \/ RecordDone
  <2>1. phase' \in {"read", "endRun", "close", "run", "ending", "blocked"}
    BY <1>3 DEF BeginRun, ReadFails, Close, Blocks, LoadHeader, RunDone, RecordDone
  <2>2. headerIsReadIn' => mustSwap' = streamSwapped'
    <3>1. CASE BeginRun
      BY <3>1 DEF BeginRun
    <3>2. CASE LoadHeader
      BY <3>2 DEF LoadHeader
    <3>3. CASE ReadFails \/ Close \/ Blocks \/ RunDone \/ RecordDone
      BY <3>3 DEF ReadFails, Close, Blocks, RunDone, RecordDone, HeaderFirst
    <3>. QED BY <1>3, <3>1, <3>2, <3>3
  <2>. QED BY <2>1, <2>2 DEF HeaderFirst, SwapsSoFar, SwappedOnce
<1>4. CASE ReadRecord
  BY <1>4 DEF ReadRecord, HeaderFirst, SwapsSoFar, SwappedOnce
<1>5. CASE HeaderUnreadable
  BY <1>5 DEF HeaderUnreadable, HeaderFirst, SwapsSoFar, SwappedOnce
<1>6. CASE Dispatch
  <2>1. phase' \in {"startRun", "process"} /\ headerIsReadIn' /\ mustSwap' = streamSwapped'
    BY <1>6 DEF Dispatch, HeaderFirst
  <2>2. isRecordSwapped' <=> (mustSwap /\ ~daemon /\ record.id = "run")
    BY <1>6 DEF Dispatch, Interpret, MustSwapNow, ResetRecordFlags
  <2>3. swaps' = IF isRecordSwapped' THEN 1 ELSE 0
    BY <1>6, <2>2 DEF Dispatch, Interpret, MustSwapNow, ResetRecordFlags, SwapsSoFar
  <2>4. UNCHANGED <<mustSwap, daemon, record>>
    BY <1>6 DEF Dispatch
  <2>. QED BY <2>1, <2>2, <2>3, <2>4 DEF HeaderFirst, SwapsSoFar, SwappedOnce
<1>7. ASSUME NEW codes \in [Processors -> StartCodes], StartRun(codes) PROVE SwapInv'
  BY <1>7 DEF StartRun, HeaderFirst, SwapsSoFar, SwappedOnce
<1>8. ASSUME NEW codes \in [Processors -> RecordCodes], ProcessDataRecord(codes) PROVE SwapInv'
  <2>1. phase' \in {"done", "after"} /\ headerIsReadIn' /\ mustSwap' = streamSwapped'
    BY <1>8 DEF ProcessDataRecord, HeaderFirst
  <2>2. Handled' <=> Handled
    BY <1>8 DEF ProcessDataRecord, Takers
  <2>3. Handled => swaps' = IF mustSwap THEN 1 ELSE 0
    <3>1. /\ isRecordSwapped <=> (mustSwap /\ ~daemon /\ record.id = "run")
          /\ swaps = IF isRecordSwapped THEN 1 ELSE 0
      BY <1>8 DEF ProcessDataRecord, SwapsSoFar
    <3>2. swaps' = swaps + (IF Takers # {} /\ mustSwap /\ ~isRecordSwapped THEN 1 ELSE 0)
      BY <1>8 DEF ProcessDataRecord, Interpret, MustSwapNow
    <3>. QED BY <3>1, <3>2
  <2>4. UNCHANGED <<mustSwap, streamSwapped>> /\ mustSwap = streamSwapped
    BY <1>8, <2>1 DEF ProcessDataRecord
  <2>. QED BY <2>1, <2>2, <2>3, <2>4 DEF HeaderFirst, SwapsSoFar, SwappedOnce
<1>9. ASSUME NEW codes \in [Processors -> EndCodes], EndRun(codes) \/ EndProcessing(codes)
      PROVE SwapInv'
  BY <1>9 DEF EndRun, EndProcessing, HeaderFirst, SwapsSoFar, SwappedOnce
<1>. QED BY <1>1, <1>2, <1>3, <1>4, <1>5, <1>6, <1>7, <1>8, <1>9 DEF Next, ManagerNext, Calls

\* Every state is of the right type and the swap count is as it should be.
THEOREM SwapInvariance == Spec => [](TypeOK /\ SwapInv)
<1>1. Init => SwapInv
  BY DEF Init, SwapInv, HeaderFirst, SwapsSoFar, SwappedOnce
<1>. QED BY <1>1, TypeInit, TypeStep, SwapStep, PTL DEF Spec

\* ORDataProcManager's state, and the reader's, keep their types.
THEOREM TypeCorrect == Spec => []TypeOK
BY SwapInvariance, PTL

\* "This only must be done once!": a record any processor interprets has been swapped
\* once if the peer's byte order is not ours, and not at all otherwise.
THEOREM SwapsOnce == Spec => []SwappedOnce
<1>1. TypeOK /\ SwapInv => SwappedOnce
  BY DEF SwapInv
<1>. QED BY <1>1, SwapInvariance, PTL
-----------------------------------------------------------------------------
(* The end of runs. *)

\* If nothing stops EndRun half way, it reaches every processor.
LEMMA EndReachesAll ==
  ASSUME EndsGoOn, NEW codes \in [Processors -> EndCodes]
  PROVE  Reached(codes) = Processors /\ Alarm(codes) = FALSE
<1>1. \A p \in Processors : codes[p] \in {kSuccess, kFailure}
  BY DEF EndsGoOn
<1>2. \A p \in Processors : \A q \in 1 .. p - 1 : q \in Processors
  BY ManagerAssumption DEF Processors
<1>3. \A p \in Processors : codes[p] < kBreak /\ codes[p] # kAlarm
  BY <1>1 DEF kSuccess, kFailure, kBreak, kAlarm
<1>. QED BY <1>2, <1>3 DEF Reached, Alarm

\* Every way out of a run goes through EndRun, but for an alarm.
LEMMA ClosedStep ==
  ASSUME EndsGoOn
  PROVE  ClosedBetweenRuns /\ NoRunLeftOpen /\ [Next]_vars
           => ClosedBetweenRuns' /\ NoRunLeftOpen'
<1>. SUFFICES ASSUME ClosedBetweenRuns, NoRunLeftOpen, [Next]_vars
              PROVE  ClosedBetweenRuns' /\ NoRunLeftOpen'
  OBVIOUS
<1>. USE DEF ClosedBetweenRuns, NoRunLeftOpen, contextVars, procVars, bufferVars, streamVars,
             fixedVars
<1>1. CASE SendRecord \/ PeerCloses \/ CancelReader \/ CancelManager \/ UNCHANGED vars
  BY <1>1 DEF SendRecord, PeerCloses, CancelReader, CancelManager, vars
<1>2. ASSUME NEW codes \in [Processors -> StartCodes], StartProcessing(codes)
      PROVE ClosedBetweenRuns' /\ NoRunLeftOpen'
  BY <1>2 DEF StartProcessing
<1>3. CASE BeginRun \/ ReadRecord \/ ReadFails \/ Blocks \/ LoadHeader \/ HeaderUnreadable
           \/ Dispatch \/ RecordDone
  <2>1. phase' \notin {"start", "run", "afterRun", "close", "ending", "done"}
    BY <1>3 DEF BeginRun, ReadRecord, ReadFails, Blocks, LoadHeader, HeaderUnreadable, Dispatch,
                RecordDone
  <2>. QED BY <2>1
<1>4. ASSUME NEW codes \in [Processors -> StartCodes], StartRun(codes)
      PROVE ClosedBetweenRuns' /\ NoRunLeftOpen'
  BY <1>4 DEF StartRun
<1>5. ASSUME NEW codes \in [Processors -> RecordCodes], ProcessDataRecord(codes)
      PROVE ClosedBetweenRuns' /\ NoRunLeftOpen'
  <2>1. phase' = "done" => Alarm(codes)
    BY <1>5 DEF ProcessDataRecord, RecordCode, CompoundCode, fBreakRetCode, kAlarm, kFailure,
                kSuccess
  <2>. QED BY <1>5, <2>1 DEF ProcessDataRecord
<1>6. ASSUME NEW codes \in [Processors -> EndCodes], EndRun(codes)
      PROVE ClosedBetweenRuns' /\ NoRunLeftOpen'
  <2>1. run' = [p \in Processors |-> "closed"]
    BY <1>6, EndReachesAll DEF EndRun
  <2>. QED BY <1>6, <2>1 DEF EndRun
<1>7. CASE RunDone \/ Close
  BY <1>7 DEF RunDone, Close
<1>8. ASSUME NEW codes \in [Processors -> EndCodes], EndProcessing(codes)
      PROVE ClosedBetweenRuns' /\ NoRunLeftOpen'
  BY <1>8 DEF EndProcessing
<1>. QED BY <1>1, <1>2, <1>3, <1>4, <1>5, <1>6, <1>7, <1>8 DEF Next, ManagerNext, Calls

\* Whatever the peer and the user do, ProcessDataStream ends every run it began, if no
\* processor alarms and none keeps EndRun from the others.
THEOREM ClosesRuns == EndsGoOn => (Spec => []NoRunLeftOpen)
<1>. SUFFICES ASSUME EndsGoOn PROVE Spec => []NoRunLeftOpen
  OBVIOUS
<1>1. Init => ClosedBetweenRuns /\ NoRunLeftOpen
  BY DEF Init, ClosedBetweenRuns, NoRunLeftOpen
<1>2. ClosedBetweenRuns /\ NoRunLeftOpen /\ [Next]_vars => ClosedBetweenRuns' /\ NoRunLeftOpen'
  BY ClosedStep
<1>. QED BY <1>1, <1>2, PTL DEF Spec
-----------------------------------------------------------------------------
(* The manager and the stream of a peer, if the reader loses nothing. *)

\* The states of a peer, and the one it is in when it has sent the record r.
Peers == [at : {"between", "announced", "running", "preparing"},
          run : 0 .. Numbers - 1, sub : 0 .. Numbers - 1]

PeerAfter(r) ==
  IF r.id = "header" THEN [at |-> "announced", run |-> r.run, sub |-> r.sub]
  ELSE IF r.id = "run" /\ r.bits = {}
       THEN [at |-> "between", run |-> (r.run + 1) % Numbers, sub |-> 0]
       ELSE [at |-> IF "prepare" \in r.bits THEN "preparing" ELSE "running",
             run |-> r.run, sub |-> r.sub]

SentFrom(s, r) == <<r, PeerAfter(r)>> \in Sends(s)

\* The kept records, and what will come, are what a peer in state s sends.
GoesOnFrom(s) == IF queue = << >> THEN sender = s ELSE SentFrom(s, queue[1])

QueueInOrder ==
  /\ \A i \in 1 .. Len(queue) - 1 : SentFrom(PeerAfter(queue[i]), queue[i + 1])
  /\ queue # << >> => sender = PeerAfter(queue[Len(queue)])

\* From its header to its end a run's records follow the one in the buffer; between
\* runs records may be skipped.
InRun == \/ phase \in {"header", "record", "startRun", "process", "after"}
         \/ phase = "read" /\ headerIsReadIn

StreamInv == QueueInOrder /\ (InRun => GoesOnFrom(PeerAfter(record)))

\* What the context's state is, and what the processors know, when the peer is at s.
StateAt(at) == CASE at = "announced" -> kIdle   [] at = "preparing" -> kPreparingForSubRun
                 [] at = "running"   -> kRunning [] at = "between"  -> kStopping
SameRun(s)  == context.run = s.run /\ context.sub = s.sub
Opened      == managerRun => \A p \in Processors : doProcessRun[p] => run[p] = "open"
InStep(s)   == /\ context.state = StateAt(s.at) /\ s.at # "between"
               /\ s.at # "announced" => SameRun(s) /\ Opened

ContextInv ==
  /\ phase \in {"start", "run", "afterRun", "header"} => context.state = kIdle
  /\ phase = "read" /\ ~headerIsReadIn => context.state = kIdle
  /\ phase = "header" => ~headerIsReadIn /\ record.id = "header"
  /\ phase = "read" /\ headerIsReadIn => InStep(PeerAfter(record))
  /\ phase = "record" => \E s \in Peers : InStep(s) /\ SentFrom(s, record)
  /\ phase = "startRun" =>
       /\ context.state = kStarting /\ SameRun(record)
       /\ PeerAfter(record).at = "running"
  /\ phase \in {"process", "after"} =>
       /\ context.state = StateAt(PeerAfter(record).at) /\ PeerAfter(record).at # "announced"
       /\ SameRun(record) /\ Opened

\* As a daemon the manager starts the run anew for every record.
DaemonInv == daemon => context.state = kIdle /\ (phase = "process" => Opened)

RunInv == (~Lossy => StreamInv /\ (~daemon => ContextInv)) /\ DaemonInv
-----------------------------------------------------------------------------
\* What a peer may send, by where it is.
LEMMA Grammar ==
  ASSUME NEW s \in Peers, NEW t \in Sends(s)
  PROVE  /\ t = <<t[1], t[2]>> /\ t[2] = PeerAfter(t[1])
         /\ s.at = "between" => t[1].id = "header"
         /\ s.at # "between" => /\ t[1].id # "header"
                                /\ PeerAfter(t[1]).at # "announced"
         /\ s.at = "announced" => t[1].id = "run" /\ t[1].bits = {"start"}
         /\ s.at = "running" => /\ t[1].run = s.run /\ t[1].sub = s.sub
                                /\ \/ t[1].id \in DataIds /\ t[1].bits = {}
                                   \/ t[1].id = "run" /\ t[1].bits \in {{"heartbeat"}, {"prepare"}, {}}
         /\ s.at = "preparing" => /\ t[1].id = "run"
                                  /\ \/ t[1].bits = {"subStart"}
                                     \/ t[1].bits = {} /\ t[1].run = s.run /\ t[1].sub = s.sub
<1>. USE DEF PeerAfter, RunRecord, Header, At, NextRun, NextSubRun
<1>0. "header" \notin DataIds /\ "run" \notin DataIds
  BY ManagerAssumption
<1>1. CASE s.at = "between"
  <2>1. t = <<Header(s), At(s, "announced")>>
    BY <1>1 DEF Sends
  <2>. QED BY <2>1, <1>1 DEF Peers
<1>2. CASE s.at = "announced"
  <2>1. t = <<RunRecord(s, {"start"}), At(s, "running")>>
    BY <1>2 DEF Sends
  <2>. QED BY <2>1, <1>2 DEF Peers
<1>3. CASE s.at = "running"
  <2>1. \/ \E i \in DataIds : t = <<[RunRecord(s, {}) EXCEPT !.id = i], s>>
        \/ t = <<RunRecord(s, {"heartbeat"}), s>>
        \/ t = <<RunRecord(s, {"prepare"}), At(s, "preparing")>>
        \/ t = <<RunRecord(s, {}), NextRun(s)>>
    BY <1>3 DEF Sends
  <2>2. CASE \E i \in DataIds : t = <<[RunRecord(s, {}) EXCEPT !.id = i], s>>
    BY <2>2, <1>0, <1>3 DEF Peers
  <2>3. CASE t = <<RunRecord(s, {"heartbeat"}), s>>
    BY <2>3, <1>3 DEF Peers
  <2>4. CASE t = <<RunRecord(s, {"prepare"}), At(s, "preparing")>>
    BY <2>4, <1>3 DEF Peers
  <2>5. CASE t = <<RunRecord(s, {}), NextRun(s)>>
    BY <2>5, <1>3 DEF Peers
  <2>. QED BY <2>1, <2>2, <2>3, <2>4, <2>5
<1>4. CASE s.at = "preparing"
  <2>1. \/ t = <<RunRecord(NextSubRun(s), {"subStart"}), NextSubRun(s)>>
        \/ t = <<RunRecord(s, {}), NextRun(s)>>
    BY <1>4 DEF Sends
  <2>2. CASE t = <<RunRecord(NextSubRun(s), {"subStart"}), NextSubRun(s)>>
    <3>1. t[1].id = "run" /\ t[1].bits = {"subStart"} /\ t[2] = NextSubRun(s)
      BY <2>2
    <3>2. PeerAfter(t[1]) = [at |-> "running", run |-> t[1].run, sub |-> t[1].sub]
      BY <3>1
    <3>3. t[1].run = s.run /\ t[1].sub = (s.sub + 1) % Numbers
      BY <2>2 DEF Peers
    <3>. QED BY <1>4, <2>2, <3>1, <3>2, <3>3 DEF Peers
  <2>3. CASE t = <<RunRecord(s, {}), NextRun(s)>>
    BY <2>3, <1>4 DEF Peers
  <2>. QED BY <2>1, <2>2, <2>3
<1>. QED BY <1>1, <1>2, <1>3, <1>4 DEF Peers

\* A record that is kept goes on where the queue ended.
LEMMA QueueGrows ==
  ASSUME TypeOK, QueueInOrder, NEW t \in Sends(sender), sender' = t[2], ~Lossy,
         queue' = Append(queue, t[1])
  PROVE  QueueInOrder' /\ \A s : GoesOnFrom(s) => GoesOnFrom(s)'
<1>1. queue \in Seq(Records) /\ sender \in Peers
  BY DEF TypeOK, Peers
<1>2. t = <<t[1], t[2]>> /\ t[2] = PeerAfter(t[1])
  BY <1>1, Grammar
<1>3. SentFrom(sender, t[1])
  BY <1>2 DEF SentFrom
<1>4. /\ Len(queue') = Len(queue) + 1 /\ queue'[Len(queue) + 1] = t[1] /\ queue' # << >>
      /\ \A i \in 1 .. Len(queue) : queue'[i] = queue[i]
  BY <1>1
<1>5. sender' = PeerAfter(queue'[Len(queue')])
  BY <1>2, <1>4
<1>6. ASSUME NEW i \in 1 .. Len(queue') - 1 PROVE SentFrom(PeerAfter(queue'[i]), queue'[i + 1])
  <2>1. CASE i = Len(queue)
    BY <2>1, <1>1, <1>3, <1>4 DEF QueueInOrder
  <2>2. CASE i # Len(queue)
    <3>1. i \in 1 .. Len(queue) - 1 /\ i \in 1 .. Len(queue) /\ i + 1 \in 1 .. Len(queue)
      BY <2>2, <1>1, <1>4
    <3>. QED BY <3>1, <1>4 DEF QueueInOrder
  <2>. QED BY <2>1, <2>2
<1>7. ASSUME NEW s, GoesOnFrom(s) PROVE GoesOnFrom(s)'
  <2>1. CASE queue = << >>
    <3>1. SentFrom(s, queue'[1])
      BY <2>1, <1>3, <1>4, <1>7 DEF GoesOnFrom
    <3>. QED BY <3>1, <1>4 DEF GoesOnFrom
  <2>2. CASE queue # << >>
    <3>1. queue'[1] = queue[1]
      BY <2>2, <1>1, <1>4
    <3>. QED BY <2>2, <3>1, <1>4, <1>7 DEF GoesOnFrom
  <2>. QED BY <2>1, <2>2
<1>8. QueueInOrder'
  BY <1>5, <1>6 DEF QueueInOrder
<1>. QED BY <1>7, <1>8

\* What is left when a record is taken out follows it.
LEMMA QueueShrinks ==
  ASSUME TypeOK, QueueInOrder, queue # << >>, queue' = Tail(queue), sender' = sender
  PROVE  QueueInOrder' /\ \A s : s = PeerAfter(Head(queue)) => GoesOnFrom(s)'
<1>1. /\ queue \in Seq(Records) /\ Len(queue) \in Nat \ {0}
      /\ Head(queue) = queue[1] /\ Len(queue') = Len(queue) - 1
      /\ \A i \in 1 .. Len(queue) - 1 : queue'[i] = queue[i + 1]
  BY DEF TypeOK
<1>2. queue' = << >> <=> Len(queue) = 1
  <2>1. queue' \in Seq(Records)
    BY <1>1
  <2>2. Len(queue') = 0 => queue' = << >>
    BY <2>1, EmptySeq
  <2>3. queue' = << >> => Len(queue') = 0
    OBVIOUS
  <2>. QED BY <2>2, <2>3, <1>1
<1>3. \A i \in 1 .. Len(queue') - 1 : SentFrom(PeerAfter(queue'[i]), queue'[i + 1])
  <2>. TAKE i \in 1 .. Len(queue') - 1
  <2>1. i \in 1 .. Len(queue) - 1 /\ i + 1 \in 1 .. Len(queue) - 1
    BY <1>1
  <2>. QED BY <2>1, <1>1 DEF QueueInOrder
<1>4. queue' # << >> => sender' = PeerAfter(queue'[Len(queue')])
  <2>1. SUFFICES ASSUME queue' # << >> PROVE queue'[Len(queue')] = queue[Len(queue)]
    BY DEF QueueInOrder
  <2>. QED BY <2>1, <1>1, <1>2
<1>5. ASSUME NEW s, s = PeerAfter(queue[1]) PROVE GoesOnFrom(s)'
  <2>1. CASE queue' = << >>
    BY <2>1, <1>1, <1>2, <1>5 DEF QueueInOrder, GoesOnFrom
  <2>2. CASE queue' # << >>
    <3>1. SentFrom(s, queue[2]) /\ queue'[1] = queue[2]
      BY <2>2, <1>1, <1>2, <1>5 DEF QueueInOrder
    <3>. QED BY <2>2, <3>1 DEF GoesOnFrom
  <2>. QED BY <2>1, <2>2
<1>6. QueueInOrder'
  BY <1>3, <1>4 DEF QueueInOrder
<1>. QED BY <1>1, <1>5, <1>6

\* The record in the buffer has no part in what is sent and kept meanwhile.
LEMMA StreamStep == TypeOK /\ ~Lossy /\ StreamInv /\ [Next]_vars => StreamInv'
<1>. SUFFICES ASSUME TypeOK, ~Lossy, StreamInv, [Next]_vars PROVE StreamInv'
  OBVIOUS
<1>. USE DEF StreamInv, InRun, contextVars, procVars, bufferVars, streamVars, fixedVars
<1>0. ASSUME UNCHANGED <<queue, sender>>
      PROVE  QueueInOrder' /\ \A s : GoesOnFrom(s) => GoesOnFrom(s)'
  <2>1. QueueInOrder'
    BY <1>0 DEF QueueInOrder
  <2>2. ASSUME NEW s, GoesOnFrom(s) PROVE GoesOnFrom(s)'
    BY <1>0, <2>2 DEF GoesOnFrom
  <2>. QED BY <2>1, <2>2
<1>a. ASSUME QueueInOrder', \A s : GoesOnFrom(s) => GoesOnFrom(s)', record' = record, InRun' => InRun
      PROVE  StreamInv'
  BY <1>a
<1>1. CASE SendRecord
  <2>1. PICK t \in Sends(sender) :
          /\ sender' = t[2]
          /\ queue' = Append(queue, t[1])
    BY <1>1 DEF SendRecord
  <2>2. QueueInOrder' /\ \A s : GoesOnFrom(s) => GoesOnFrom(s)'
    BY <2>1, QueueGrows
  <2>. QED BY <1>1, <2>2, <1>a DEF SendRecord
<1>2. CASE PeerCloses \/ CancelReader \/ CancelManager \/ ReadFails \/ Close \/ Blocks
           \/ HeaderUnreadable \/ RunDone \/ RecordDone \/ UNCHANGED vars
  <2>1. UNCHANGED <<queue, sender, record, headerIsReadIn>>
    BY <1>2 DEF PeerCloses, CancelReader, CancelManager, ReadFails, Close, Blocks,
              HeaderUnreadable, RunDone, RecordDone, vars
  <2>2. InRun' => InRun
    BY <1>2 DEF PeerCloses, CancelReader, CancelManager, ReadFails, Close, Blocks,
              HeaderUnreadable, RunDone, RecordDone, vars
  <2>. QED BY <2>1, <2>2, <1>0, <1>a
<1>3. CASE BeginRun \/ LoadHeader \/ Dispatch
  <2>1. UNCHANGED <<queue, sender, record>>
    BY <1>3 DEF BeginRun, LoadHeader, Dispatch
  <2>2. InRun' => InRun
    BY <1>3 DEF BeginRun, LoadHeader, Dispatch
  <2>. QED BY <2>1, <2>2, <1>0, <1>a
<1>4. CASE ReadRecord
  <2>1. QueueInOrder' /\ \A s : s = PeerAfter(Head(queue)) => GoesOnFrom(s)'
    BY <1>4, QueueShrinks DEF ReadRecord
  <2>. QED BY <1>4, <2>1 DEF ReadRecord
<1>5. ASSUME NEW codes, \/ StartProcessing(codes) \/ StartRun(codes) \/ ProcessDataRecord(codes)
                        \/ EndRun(codes) \/ EndProcessing(codes)
      PROVE  StreamInv'
  <2>1. UNCHANGED <<queue, sender, headerIsReadIn>>
    BY <1>5 DEF StartProcessing, StartRun, ProcessDataRecord, EndRun, EndProcessing
  <2>2. CASE StartProcessing(codes) \/ EndRun(codes) \/ EndProcessing(codes)
    BY <2>1, <2>2, <1>0 DEF StartProcessing, EndRun, EndProcessing
  <2>3. CASE StartRun(codes) \/ ProcessDataRecord(codes)
    <3>1. UNCHANGED record /\ (InRun' => InRun)
      BY <2>3 DEF StartRun, ProcessDataRecord
    <3>. QED BY <2>1, <3>1, <1>0, <1>a
  <2>. QED BY <1>5, <2>2, <2>3
<1>. QED BY <1>1, <1>2, <1>3, <1>4, <1>5 DEF Next, ManagerNext, Calls

\* A processor that may take records after StartRun has started its run.
LEMMA StartOpens ==
  ASSUME NEW codes \in [Processors -> StartCodes], StartRun(codes)
  PROVE  Opened'
<1>. USE DEF kSuccess, kFailure, kBreak, kAlarm
<1>0. \A p \in Processors : codes[p] \in 0 .. 3
  BY ManagerAssumption
<1>1. SUFFICES ASSUME managerRun', NEW p \in Processors, doProcessRun'[p]
               PROVE  run'[p] = "open"
  BY DEF Opened
<1>2. \A q \in Processors : codes[q] < kBreak
  <2>1. CompoundCode(codes) = kSuccess
    BY <1>1 DEF StartRun
  <2>2. ~ \E q \in Processors : codes[q] >= kBreak
    BY <2>1 DEF CompoundCode, fBreakRetCode
  <2>. QED BY <1>0, <2>2
<1>3. p \in Reached(codes) /\ p \notin Failing(codes)
  <2>1. \A q \in 1 .. p - 1 : q \in Processors
    BY ManagerAssumption DEF Processors
  <2>. QED BY <2>1, <1>1, <1>2 DEF StartRun, Reached
<1>4. codes[p] = kSuccess
  BY <1>0, <1>3 DEF Failing
<1>. QED BY <1>3, <1>4 DEF StartRun

\* What ORRunDataProcessor makes of the record that a peer in state s sends next.
LEMMA AfterSent ==
  ASSUME TypeOK, NEW s \in Peers, InStep(s), SentFrom(s, record), ~daemon,
         phase = "record", Dispatch
  PROVE  /\ phase' = "startRun" =>
              /\ context'.state = kStarting /\ PeerAfter(record).at = "running"
              /\ s.at = "announced"
         /\ phase' = "process" => /\ context'.state = StateAt(PeerAfter(record).at)
                                  /\ PeerAfter(record).at # "announced" /\ s.at # "announced"
         /\ context'.run = record.run /\ context'.sub = record.sub
<1>. USE DEF kIdle, kStarting, kRunning, kPreparingForSubRun, kStopping
<1>0. context \in [state : 0 .. 4, run : -1 .. Numbers - 1, sub : 0 .. Numbers - 1]
  BY DEF TypeOK
<1>1. /\ context' = IF record.id = "run" THEN AfterRunRecord(context, record) ELSE context
      /\ phase' = IF context'.state <= kStarting THEN "startRun" ELSE "process"
  BY DEF Dispatch
<1>2. "run" \notin DataIds /\ "header" \notin DataIds
  BY ManagerAssumption
<1>. USE DEF InStep, SameRun, StateAt
<1>3. CASE s.at = "announced"
  <2>1. record.id = "run" /\ record.bits = {"start"}
    BY <1>3, Grammar DEF SentFrom
  <2>2. context' = [LoadRunStartRecord(context, record) EXCEPT !.state = kStarting]
    BY <1>1, <2>1 DEF AfterRunRecord
  <2>3. context'.state = kStarting /\ context'.run = record.run /\ context'.sub = record.sub
    BY <1>0, <2>2 DEF LoadRunStartRecord
  <2>. QED BY <1>1, <1>3, <2>1, <2>3 DEF PeerAfter
<1>4. CASE s.at = "running"
  <2>0. context.state = kRunning /\ record.run = s.run /\ record.sub = s.sub
        /\ context.run = s.run /\ context.sub = s.sub
    BY <1>4, Grammar DEF SentFrom
  <2>1. \/ record.id \in DataIds /\ record.bits = {}
        \/ record.id = "run" /\ record.bits \in {{"heartbeat"}, {"prepare"}, {}}
    BY <1>4, Grammar DEF SentFrom
  <2>2. CASE record.id \in DataIds
    BY <1>0, <1>1, <1>2, <1>4, <2>0, <2>1, <2>2 DEF PeerAfter
  <2>3. CASE record.id = "run" /\ record.bits = {"heartbeat"}
    BY <1>0, <1>1, <1>4, <2>0, <2>3 DEF PeerAfter, AfterRunRecord
  <2>4. CASE record.id = "run" /\ record.bits = {"prepare"}
    BY <1>0, <1>1, <1>4, <2>0, <2>4 DEF PeerAfter, AfterRunRecord
  <2>5. CASE record.id = "run" /\ record.bits = {}
    BY <1>0, <1>1, <1>4, <2>0, <2>5 DEF PeerAfter, AfterRunRecord
  <2>. QED BY <2>1, <2>2, <2>3, <2>4, <2>5
<1>5. CASE s.at = "preparing"
  <2>1. /\ record.id = "run" /\ context.run = s.run /\ context.sub = s.sub
        /\ \/ record.bits = {"subStart"}
           \/ record.bits = {} /\ record.run = s.run /\ record.sub = s.sub
    BY <1>5, Grammar DEF SentFrom
  <2>2. CASE record.bits = {"subStart"}
    <3>1. context' = OnStartRunComplete(LoadRunStartRecord(context, record))
      BY <1>1, <2>1, <2>2 DEF AfterRunRecord
    <3>2. context'.state = kRunning /\ context'.run = record.run /\ context'.sub = record.sub
      BY <1>0, <3>1 DEF LoadRunStartRecord, OnStartRunComplete
    <3>. QED BY <1>1, <1>5, <2>1, <2>2, <3>2 DEF PeerAfter
  <2>3. CASE record.bits = {}
    BY <1>0, <1>1, <1>5, <2>1, <2>3 DEF PeerAfter, AfterRunRecord
  <2>. QED BY <2>1, <2>2, <2>3
<1>. QED BY <1>3, <1>4, <1>5 DEF Peers

\* The run context follows the peer from the header to the end of the run.
LEMMA ContextStep ==
  TypeOK /\ ~Lossy /\ ~daemon /\ HeaderFirst /\ StreamInv /\ ContextInv
    /\ [Next]_vars => ContextInv'
<1>. SUFFICES ASSUME TypeOK, ~Lossy, ~daemon, HeaderFirst, StreamInv, ContextInv, [Next]_vars
              PROVE  ContextInv'
  OBVIOUS
<1>. USE DEF contextVars, procVars, bufferVars, streamVars, fixedVars
<1>0. record \in Records /\ queue \in Seq(Records)
  BY DEF TypeOK
<1>1. CASE SendRecord \/ PeerCloses \/ CancelReader \/ CancelManager \/ UNCHANGED vars
  <2>1. UNCHANGED <<phase, record, headerIsReadIn, context, managerRun, doProcessRun, run>>
    BY <1>1 DEF SendRecord, PeerCloses, CancelReader, CancelManager, vars
  <2>. QED BY <2>1 DEF ContextInv, InStep, SameRun, Opened
<1>2. ASSUME NEW codes \in [Processors -> StartCodes], StartProcessing(codes)
      PROVE  ContextInv'
  BY <1>2 DEF StartProcessing, ContextInv
<1>3. CASE BeginRun
  BY <1>3 DEF BeginRun, ContextInv
<1>4. CASE ReadRecord
  <2>1. record' = queue[1] /\ UNCHANGED <<headerIsReadIn, context, managerRun, doProcessRun, run>>
    BY <1>0, <1>4 DEF ReadRecord
  <2>2. CASE ~headerIsReadIn
    BY <1>4, <2>2 DEF ReadRecord, ContextInv
  <2>3. CASE headerIsReadIn
    <3>1. InStep(PeerAfter(record)) /\ SentFrom(PeerAfter(record), record')
      BY <1>4, <2>1, <2>3 DEF ReadRecord, ContextInv, StreamInv, InRun, GoesOnFrom
    <3>2. PeerAfter(record) \in Peers
      BY <1>0, <1>4, <2>3, NextNumber, ManagerAssumption DEF Records, Peers, PeerAfter
    <3>3. record'.id # "header"
      BY <3>1, <3>2, Grammar DEF InStep, SentFrom
    <3>4. phase' = "record"
      BY <1>0, <1>4, <2>1, <2>3, <3>3 DEF ReadRecord
    <3>5. \A s : InStep(s) => InStep(s)'
      BY <2>1 DEF InStep, SameRun, Opened
    <3>. QED BY <2>3, <3>1, <3>2, <3>4, <3>5, <2>1 DEF ContextInv
  <2>. QED BY <2>2, <2>3
<1>5. CASE ReadFails \/ Close \/ Blocks \/ RunDone
  BY <1>5 DEF ReadFails, Close, Blocks, RunDone, ContextInv
<1>6. CASE LoadHeader
  <2>1. phase' \in {"read", "endRun"} /\ context'.state = kIdle
    BY <1>6 DEF LoadHeader, ContextInv, TypeOK
  <2>2. PeerAfter(record').at = "announced"
    BY <1>6 DEF LoadHeader, ContextInv, PeerAfter
  <2>3. phase' = "read" => headerIsReadIn'
    BY <1>6 DEF LoadHeader
  <2>. QED BY <2>1, <2>2, <2>3 DEF ContextInv, InStep, StateAt
<1>7. CASE HeaderUnreadable
  BY <1>7 DEF HeaderUnreadable, ContextInv
<1>8. CASE Dispatch
  <2>1. PICK s \in Peers : InStep(s) /\ SentFrom(s, record)
    BY <1>8 DEF Dispatch, ContextInv
  <2>2. UNCHANGED <<record, headerIsReadIn, managerRun, doProcessRun, run, daemon>>
    BY <1>8 DEF Dispatch
  <2>3. s.at # "announced" => Opened'
    BY <2>1, <2>2 DEF InStep, Opened
  <2>4. /\ phase' = "startRun" =>
             /\ context'.state = kStarting /\ PeerAfter(record).at = "running"
        /\ phase' = "process" => /\ context'.state = StateAt(PeerAfter(record).at)
                                 /\ PeerAfter(record).at # "announced" /\ s.at # "announced"
        /\ context'.run = record.run /\ context'.sub = record.sub
    BY <1>8, <2>1, AfterSent DEF Dispatch
  <2>5. phase' \in {"startRun", "process"}
    BY <1>8 DEF Dispatch
  <2>. QED BY <2>2, <2>3, <2>4, <2>5 DEF ContextInv, SameRun
<1>9. ASSUME NEW codes \in [Processors -> StartCodes], StartRun(codes) PROVE ContextInv'
  <2>1. Opened'
    BY <1>9, StartOpens
  <2>2. phase' = "process" /\ record' = record
    BY <1>9 DEF StartRun
  <2>3. context' = [context EXCEPT !.state = kRunning] /\ SameRun(record)
        /\ PeerAfter(record).at = "running"
    BY <1>9 DEF StartRun, OnStartRunComplete, ContextInv
  <2>4. context'.state = StateAt("running") /\ SameRun(record)'
    BY <2>2, <2>3 DEF SameRun, StateAt, TypeOK
  <2>. QED BY <2>1, <2>2, <2>3, <2>4 DEF ContextInv
<1>10. ASSUME NEW codes \in [Processors -> RecordCodes], ProcessDataRecord(codes)
       PROVE  ContextInv'
  <2>1. phase' \in {"done", "after"}
        /\ UNCHANGED <<record, headerIsReadIn, context, managerRun, doProcessRun, run>>
    BY <1>10 DEF ProcessDataRecord
  <2>2. phase = "process"
    BY <1>10 DEF ProcessDataRecord
  <2>. QED BY <2>1, <2>2 DEF ContextInv, SameRun, Opened
<1>11. CASE RecordDone
  <2>1. UNCHANGED <<record, headerIsReadIn, context, managerRun, doProcessRun, run>>
        /\ phase = "after"
    BY <1>11 DEF RecordDone
  <2>2. CASE context.state = kStopping \/ canceled
    BY <1>11, <2>2 DEF RecordDone, ContextInv
  <2>3. CASE context.state # kStopping /\ ~canceled
    <3>1. phase' = "read" /\ headerIsReadIn
      BY <1>11, <2>3 DEF RecordDone, HeaderFirst
    <3>2. InStep(PeerAfter(record))
      BY <2>1, <2>3 DEF ContextInv, InStep, SameRun, StateAt, PeerAfter
    <3>3. InStep(PeerAfter(record))'
      BY <2>1, <3>2 DEF InStep, SameRun, Opened
    <3>. QED BY <2>1, <3>1, <3>3 DEF ContextInv
  <2>. QED BY <2>2, <2>3
<1>12. ASSUME NEW codes \in [Processors -> EndCodes], EndRun(codes) PROVE ContextInv'
  <2>1. phase' = "afterRun" /\ context'.state = kIdle
    BY <1>12 DEF EndRun, OnEndRunComplete, TypeOK
  <2>. QED BY <2>1 DEF ContextInv
<1>13. ASSUME NEW codes \in [Processors -> EndCodes], EndProcessing(codes) PROVE ContextInv'
  BY <1>13 DEF EndProcessing, ContextInv
<1>. QED BY <1>1, <1>2, <1>3, <1>4, <1>5, <1>6, <1>7, <1>8, <1>9, <1>10, <1>11, <1>12, <1>13
         DEF Next, ManagerNext, Calls

\* A daemon's context stays idle, so that each record is preceded by a StartRun.
LEMMA DaemonStep == TypeOK /\ DaemonInv /\ [Next]_vars => DaemonInv'
<1>. SUFFICES ASSUME TypeOK, DaemonInv, [Next]_vars, daemon' PROVE DaemonInv'
  BY DEF DaemonInv
<1>. USE DEF DaemonInv, contextVars, procVars, bufferVars, streamVars, fixedVars
<1>1. CASE SendRecord \/ PeerCloses \/ CancelReader \/ CancelManager \/ ReadRecord
           \/ ReadFails \/ Close \/ Blocks \/ HeaderUnreadable
           \/ RecordDone \/ RunDone \/ BeginRun \/ UNCHANGED vars
  BY <1>1 DEF SendRecord, PeerCloses, CancelReader, CancelManager, ReadRecord, ReadFails, Close,
              Blocks, HeaderUnreadable,
              RecordDone, RunDone, BeginRun, vars, Opened
<1>2. CASE LoadHeader
  BY <1>2 DEF LoadHeader, TypeOK
<1>3. CASE Dispatch
  BY <1>3 DEF Dispatch, kIdle, kStarting
<1>4. ASSUME NEW codes \in [Processors -> StartCodes], StartRun(codes) PROVE DaemonInv'
  BY <1>4, StartOpens DEF StartRun
<1>5. ASSUME NEW codes, \/ StartProcessing(codes) \/ ProcessDataRecord(codes)
                        \/ EndRun(codes) \/ EndProcessing(codes)
      PROVE  DaemonInv'
  BY <1>5 DEF StartProcessing, ProcessDataRecord, EndRun, EndProcessing
<1>. QED BY <1>1, <1>2, <1>3, <1>4, <1>5 DEF Next, ManagerNext, Calls

\* The run context and the processors follow the stream.
THEOREM RunInvariance == Spec => []RunInv
<1>1. Init => RunInv
  <2>. SUFFICES ASSUME Init PROVE RunInv
    OBVIOUS
  <2>1. QueueInOrder
    BY DEF Init, QueueInOrder
  <2>. QED BY <2>1 DEF Init, RunInv, StreamInv, InRun, ContextInv, DaemonInv
<1>2. TypeOK /\ SwapInv /\ RunInv /\ [Next]_vars => RunInv'
  <2>1. [Next]_vars => UNCHANGED daemon
    BY DEF Next, ManagerNext, Calls, vars, contextVars, procVars, bufferVars, streamVars,
           fixedVars, SendRecord, PeerCloses, CancelReader, CancelManager, ReadRecord, ReadFails,
           Close, Blocks, LoadHeader,
           HeaderUnreadable, RecordDone, RunDone, BeginRun, Dispatch, StartProcessing, StartRun,
           ProcessDataRecord, EndRun, EndProcessing
  <2>. QED BY <2>1, StreamStep, ContextStep, DaemonStep DEF RunInv, SwapInv
<1>. QED BY <1>1, <1>2, SwapInvariance, PTL DEF Spec

\* Whatever the other processors return, one that takes a record has started the
\* record's run with success.
THEOREM TakersHaveStarted == Spec => []RecordsInStartedRuns
<1>1. RunInv => RecordsInStartedRuns
  BY DEF RunInv, ContextInv, DaemonInv, Opened, RecordsInStartedRuns, Takers
<1>. QED BY <1>1, RunInvariance, PTL

\* A processor that handles a record finds its run's and sub-run's number.
THEOREM FindsRightRun == Spec => []RightRun
<1>1. RunInv => RightRun
  BY DEF RunInv, ContextInv, SameRun, RightRun
<1>. QED BY <1>1, RunInvariance, PTL

\* When a run can start, none is open.
ClosedBeforeStart ==
  /\ ~Lossy /\ ~daemon
  /\ \/ phase \in {"header", "startRun"}
     \/ phase = "read" /\ ~headerIsReadIn
     \/ phase \in {"read", "record"} /\ context.state = kIdle
  => \A p \in Processors : run[p] = "closed"

\* Only a start record that follows a header begins a run.
LEMMA PairingStep ==
  TypeOK /\ SwapInv /\ RunInv /\ RunInv' /\ ClosedBetweenRuns /\ ClosedBeforeStart
    /\ [Next]_vars => ClosedBeforeStart'
<1>. SUFFICES ASSUME TypeOK, SwapInv, RunInv, RunInv', ClosedBetweenRuns, ClosedBeforeStart, [Next]_vars,
                     ~Lossy, ~daemon'
              PROVE  ClosedBeforeStart'
  BY DEF ClosedBeforeStart
<1>. USE DEF contextVars, procVars, bufferVars, streamVars, fixedVars
<1>1. CASE SendRecord \/ PeerCloses \/ CancelReader \/ CancelManager \/ UNCHANGED vars
  BY <1>1 DEF SendRecord, PeerCloses, CancelReader, CancelManager, vars, ClosedBeforeStart
<1>2. CASE ReadRecord
  BY <1>2 DEF ReadRecord, ClosedBeforeStart, RunInv, ContextInv
<1>3. CASE BeginRun
  BY <1>3 DEF BeginRun, ClosedBeforeStart, ClosedBetweenRuns
<1>4. CASE LoadHeader
  BY <1>4 DEF LoadHeader, ClosedBeforeStart
<1>5. CASE HeaderUnreadable
  BY <1>5 DEF HeaderUnreadable, ClosedBeforeStart
<1>6. CASE Dispatch
  <2>1. ~daemon /\ phase' \in {"startRun", "process"} /\ run' = run /\ phase = "record"
    BY <1>6 DEF Dispatch
  <2>2. PICK s \in Peers : InStep(s) /\ SentFrom(s, record)
    BY <1>6, <2>1 DEF RunInv, ContextInv
  <2>3. phase' = "startRun" => context.state = kIdle
    BY <1>6, <2>1, <2>2, AfterSent DEF InStep, StateAt
  <2>. QED BY <2>1, <2>3 DEF ClosedBeforeStart
<1>7. CASE RecordDone
  <2>1. ~daemon /\ context.state # kIdle /\ context' = context
    BY <1>7 DEF RecordDone, RunInv, ContextInv, StateAt, kIdle, kRunning, kPreparingForSubRun, kStopping, PeerAfter
  <2>2. phase' \in {"endRun", "read"} /\ headerIsReadIn'
    BY <1>7 DEF RecordDone, SwapInv, HeaderFirst
  <2>. QED BY <2>1, <2>2 DEF ClosedBeforeStart
<1>8. CASE ReadFails \/ Close \/ Blocks \/ RunDone
  BY <1>8 DEF ReadFails, Close, Blocks, RunDone, ClosedBeforeStart
<1>9. ASSUME NEW codes, \/ StartProcessing(codes) \/ StartRun(codes) \/ ProcessDataRecord(codes)
                        \/ EndRun(codes) \/ EndProcessing(codes)
      PROVE  ClosedBeforeStart'
  BY <1>9 DEF StartProcessing, StartRun, ProcessDataRecord, EndRun, EndProcessing, ClosedBeforeStart
<1>. QED BY <1>1, <1>2, <1>3, <1>4, <1>5, <1>6, <1>7, <1>8, <1>9 DEF Next, ManagerNext, Calls

\* A run is started for a processor only when the one before has been ended for it, if
\* none keeps EndRun from the others.
THEOREM StartsArePaired == EndsGoOn => (Spec => StartsPaired)
<1>. SUFFICES ASSUME EndsGoOn PROVE Spec => StartsPaired
  OBVIOUS
<1>. DEFINE Inv == TypeOK /\ SwapInv /\ RunInv
            Closed == ClosedBetweenRuns /\ NoRunLeftOpen /\ ClosedBeforeStart
<1>1. Init => Closed
  BY DEF Init, ClosedBetweenRuns, NoRunLeftOpen, ClosedBeforeStart
<1>2. Inv /\ Inv' /\ Closed /\ [Next]_vars => Closed'
  BY ClosedStep, PairingStep
<1>3. Closed => ((phase = "startRun" /\ phase' = "process" /\ ~daemon /\ ~Lossy)
                 => \A p \in Processors : run[p] = "closed")
  BY DEF ClosedBeforeStart
<1>. HIDE DEF Inv, Closed
<1>4. Spec => []Inv
  BY SwapInvariance, RunInvariance, PTL DEF Inv
<1>. QED BY <1>1, <1>2, <1>3, <1>4, PTL DEF Spec, StartsPaired
=============================================================================
