--------------------- MODULE SocketReaderThreads_proofs ---------------------
(***************************************************************************)
(* What holds of the reader's two threads for every size of the buffers,   *)
(* whatever the peer does and whenever the user interrupts.                *)
(***************************************************************************)
EXTENDS SocketReaderThreads, TLAPS

\* The room found for a record is still there while it is received.
RoomForRecord == thread \in {"wantFill", "fillSelect", "fillRecv"} => amount < Capacity

\* Words are copied and not yet removed only between the two sections of a read.
CopyPending == main # "commit" => copied = 0

\* A thread that is on its way out has found the socket failed.
ExitAfterFailure == thread \in {"wantExit", "leaving"} => ~socketIsOK

\* StopThread is told that the thread is not running only when it uses nothing more.
StoppedIsHarmless == ~isRunning => thread \in {"leaving", "gone"}

\* As long as the owner may read on, a thread that has ended has failed.
EndedHasFailed == ~isRunning => ~socketIsOK \/ main \in {"destroy", "stop", "freed"}

\* The thread receives a record under the write lock.
ReceivesLocked == thread \in {"fillSelect", "fillRecv"} => writeLocked

\* While the owner keeps a read lock no record is stored, and what there is to read then
\* is at most what is left of a cut record in which the reader was canceled.
KeptLockStarves ==
  readKept => ~writeLocked /\ (amount = 0 \/ (cut /\ amount = 1 /\ readerCanceled))

IInv == /\ TypeOK
        /\ RoomForRecord
        /\ CopyPending
        /\ ExitAfterFailure
        /\ StoppedIsHarmless
        /\ EndedHasFailed
        /\ ReceivesLocked
        /\ KeptLockStarves
        /\ BufferOutlivesThread
        /\ SelfDeadlockOnlyAfterCut
-----------------------------------------------------------------------------
LEMMA InitInv == Init => IInv
<1>. SUFFICES ASSUME Init PROVE IInv
  OBVIOUS
<1>1. TypeOK
  <2>1. amount \in 0 .. Capacity /\ copied \in 0 .. amount
    BY ThreadsAssumption DEF Init
  <2>2. /\ isRunning \in BOOLEAN /\ socketIsOK \in BOOLEAN /\ readerCanceled \in BOOLEAN
        /\ managerCanceled \in BOOLEAN /\ cancelRequest \in BOOLEAN /\ writeLocked \in BOOLEAN
        /\ readKept \in BOOLEAN /\ cut \in BOOLEAN
    BY DEF Init
  <2>3. /\ thread = "top" /\ main = "read" /\ caller = "none" /\ peer = "open"
    BY DEF Init
  <2>. QED BY <2>1, <2>2, <2>3 DEF TypeOK
<1>2. /\ RoomForRecord /\ CopyPending /\ ExitAfterFailure /\ StoppedIsHarmless /\ EndedHasFailed
      /\ ReceivesLocked /\ KeptLockStarves /\ BufferOutlivesThread /\ SelfDeadlockOnlyAfterCut
  BY DEF Init, RoomForRecord, CopyPending, ExitAfterFailure, StoppedIsHarmless,
     EndedHasFailed, ReceivesLocked, KeptLockStarves, BufferOutlivesThread, SelfDeadlockOnlyAfterCut
<1>. QED BY <1>1, <1>2 DEF IInv

\* Every step of SocketReadoutThread keeps the invariant.
LEMMA ThreadStep ==
  IInv /\ (ThreadAlone \/ PeekData \/ RestOfRecord) => IInv'
<1>. SUFFICES ASSUME IInv, ThreadAlone \/ PeekData \/ RestOfRecord PROVE IInv'
  OBVIOUS
<1>. USE ThreadsAssumption DEF IInv, TypeOK, RoomForRecord, CopyPending, ExitAfterFailure,
     StoppedIsHarmless, EndedHasFailed, ReceivesLocked, KeptLockStarves, BufferOutlivesThread, SelfDeadlockOnlyAfterCut,
     mainVars, lockVars, bufferVars, flagVars, cancelVars
<1>1. CASE LoopTop
  BY <1>1 DEF LoopTop
<1>2. CASE PeekFails
  BY ZenonT(40), <1>2 DEF PeekFails
<1>3. CASE Measure
  BY <1>3 DEF Measure
<1>4. CASE FillBegin
  BY <1>4 DEF FillBegin, CanWrite
<1>5. CASE FillFails
  <2>1. /\ thread \in {"fillSelect", "fillRecv"} /\ thread' = "failed" /\ writeLocked' = FALSE
        /\ cut' \in BOOLEAN /\ amount' = IF cut' THEN amount + 1 ELSE amount
        /\ UNCHANGED <<main, caller, readKept, copied, isRunning, socketIsOK, readerCanceled,
                       managerCanceled, cancelRequest, peer>>
    BY <1>5 DEF FillFails, ReceiveStops, CountPart
  <2>2. writeLocked /\ ~readKept /\ amount < Capacity
    BY <2>1
  <2>3. amount' \in 0 .. Capacity /\ copied' \in 0 .. amount'
    BY <2>1, <2>2
  <2>4. TypeOK'
    BY ZenonT(40), <2>1, <2>3
  <2>5. isRunning
    BY <2>1
  <2>. QED BY ZenonT(60), <2>1, <2>2, <2>4, <2>5
<1>6. CASE CountLost \/ Leave
  BY <1>6 DEF CountLost, Leave
<1>7. CASE DiscardFails
  BY ZenonT(40), <1>7 DEF DiscardFails
<1>8. CASE Exit
  BY ZenonT(40), <1>8 DEF Exit
<1>9. CASE CancelActs
  BY <1>9 DEF CancelActs
<1>10. CASE PeekData \/ FillRecv \/ DiscardEnd
  BY <1>10 DEF PeekData, FillRecv, DiscardEnd
<1>11. CASE FillEnd
  <2>1. amount' \in 0 .. Capacity /\ copied' \in 0 .. amount'
    BY <1>11 DEF FillEnd
  <2>. QED BY <1>11, <2>1 DEF FillEnd
<1>12. CASE NoteFailure
  BY ZenonT(40), <1>12 DEF NoteFailure
<1>. QED BY <1>1, <1>2, <1>3, <1>4, <1>5, <1>6, <1>7, <1>8, <1>9, <1>10, <1>11, <1>12
         DEF ThreadAlone, RestOfRecord

\* Every step of the owner keeps the invariant.
LEMMA OwnerStep == IInv /\ MainNext => IInv'
<1>. SUFFICES ASSUME IInv, MainNext PROVE IInv'
  OBVIOUS
<1>. USE ThreadsAssumption DEF IInv, TypeOK, RoomForRecord, CopyPending, ExitAfterFailure,
     StoppedIsHarmless, EndedHasFailed, ReceivesLocked, KeptLockStarves, BufferOutlivesThread, SelfDeadlockOnlyAfterCut,
     mainVars, lockVars, bufferVars, flagVars, cancelVars
<1>1. CASE Look
  BY <1>1 DEF Look, CopyOut, CanRead
<1>2. CASE Wake
  <2>1. CASE amount >= 1 /\ CopyOut(IF Batch <= amount THEN Batch ELSE amount)
    BY <1>2, <2>1 DEF Wake, CopyOut
  <2>2. CASE /\ IF isRunning THEN MayFallShort /\ readerCanceled ELSE amount = 0
             /\ main' = "readFailed" /\ readKept' = TRUE
             /\ UNCHANGED <<thread, caller, writeLocked, bufferVars, flagVars, peer>>
    <3>1. main = "sleep" /\ ~writeLocked /\ copied = 0
      BY <1>2 DEF Wake, CanRead
    <3>2. amount = 0 \/ (cut /\ amount = 1 /\ readerCanceled)
      BY <2>2 DEF MayFallShort
    <3>3. /\ main' = "readFailed" /\ readKept' = TRUE
          /\ UNCHANGED <<thread, caller, writeLocked, amount, cut, copied, isRunning, socketIsOK,
                         readerCanceled, managerCanceled, cancelRequest, peer>>
      BY <2>2
    <3>. QED BY ZenonT(60), <3>1, <3>2, <3>3
  <2>. QED BY <1>2, <2>1, <2>2 DEF Wake
<1>3. CASE Commit
  BY <1>3 DEF Commit, CanWrite
<1>4. CASE Process
  BY <1>4 DEF Process
<1>5. CASE ReadFailed
  BY <1>5 DEF ReadFailed
<1>6. CASE CallStop
  BY <1>6 DEF CallStop
<1>7. CASE StopCheck
  BY <1>7 DEF StopCheck, AfterStop
<1>8. CASE StopCancel
  BY <1>8 DEF StopCancel
<1>9. CASE StopJoin
  BY <1>9 DEF StopJoin, AfterStop
<1>. QED BY <1>1, <1>2, <1>3, <1>4, <1>5, <1>6, <1>7, <1>8, <1>9 DEF MainNext, TakesReadLock

LEMMA OtherStep ==
  IInv /\ (CancelReader \/ CancelManager \/ PeerStalls \/ PeerCloses \/ UNCHANGED vars) => IInv'
<1>. SUFFICES ASSUME IInv, CancelReader \/ CancelManager \/ PeerStalls \/ PeerCloses \/ UNCHANGED vars PROVE IInv'
  OBVIOUS
<1>. USE DEF IInv, TypeOK, RoomForRecord, CopyPending, ExitAfterFailure,
     StoppedIsHarmless, EndedHasFailed, ReceivesLocked, KeptLockStarves, BufferOutlivesThread, SelfDeadlockOnlyAfterCut,
     mainVars, lockVars, bufferVars, flagVars, cancelVars
<1>1. CASE CancelReader \/ CancelManager
  <2>1. /\ readerCanceled' \in BOOLEAN /\ managerCanceled' \in BOOLEAN
        /\ readerCanceled => readerCanceled'
        /\ UNCHANGED <<thread, main, caller, writeLocked, readKept, amount, cut, copied, isRunning,
                       socketIsOK, cancelRequest, peer>>
    BY <1>1 DEF CancelReader, CancelManager
  <2>2. TypeOK'
    <3>1. /\ UNCHANGED <<thread, main, caller, amount, copied, peer>>
          /\ UNCHANGED <<writeLocked, readKept, cut, isRunning, socketIsOK, cancelRequest>>
      BY <2>1
    <3>2. /\ thread' \in {"top", "peek", "measure", "wantFill", "fillSelect", "fillRecv",
                          "failed", "wantCount", "discard", "wantExit", "leaving", "gone"}
          /\ main' \in {"read", "sleep", "commit", "process", "readFailed", "close", "destroy",
                        "stop", "cancel", "join", "freed"}
          /\ caller' \in {"none", "close", "destroy"}
          /\ amount' \in 0 .. Capacity /\ copied' \in 0 .. amount'
          /\ peer' \in {"open", "stalled", "closed"}
      BY <3>1
    <3>3. /\ writeLocked' \in BOOLEAN /\ readKept' \in BOOLEAN /\ cut' \in BOOLEAN
          /\ isRunning' \in BOOLEAN /\ socketIsOK' \in BOOLEAN /\ cancelRequest' \in BOOLEAN
      BY Zenon, <3>1
    <3>. QED BY Zenon, <2>1, <3>2, <3>3
  <2>3. KeptLockStarves' /\ SelfDeadlockOnlyAfterCut'
    BY <2>1
  <2>4. RoomForRecord' /\ CopyPending' /\ ExitAfterFailure' /\ StoppedIsHarmless'
    BY <2>1
  <2>5. EndedHasFailed' /\ ReceivesLocked' /\ BufferOutlivesThread'
    BY <2>1
  <2>. QED BY ZenonT(40), <2>2, <2>3, <2>4, <2>5
<1>2. CASE PeerStalls \/ PeerCloses
  BY <1>2 DEF PeerStalls, PeerCloses
<1>3. CASE UNCHANGED vars
  BY <1>3 DEF vars
<1>. QED BY <1>1, <1>2, <1>3

THEOREM Invariance == Spec => []IInv
<1>1. IInv /\ [Next]_vars => IInv'
  BY ThreadStep, OwnerStep, OtherStep DEF Next
<1>. QED BY InitInv, <1>1, PTL DEF Spec

\* The buffer never holds more than it has room for, and everything else keeps its type.
THEOREM TypeCorrect == Spec => []TypeOK
<1>1. IInv => TypeOK
  BY DEF IInv
<1>. QED BY <1>1, Invariance, PTL

\* ~ORSocketReader frees nothing that SocketReadoutThread may still use.
THEOREM BufferOutlives == Spec => []BufferOutlivesThread
<1>1. IInv => BufferOutlivesThread
  BY DEF IInv
<1>. QED BY <1>1, Invariance, PTL

\* The owner waits for a lock that it holds itself only in a record that the socket cut
\* and in which it was canceled.
THEOREM OwnerBlocksItselfOnlyAfterCut == Spec => []SelfDeadlockOnlyAfterCut
<1>1. IInv => SelfDeadlockOnlyAfterCut
  BY DEF IInv
<1>. QED BY <1>1, Invariance, PTL
=============================================================================
