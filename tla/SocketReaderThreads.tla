------------------------- MODULE SocketReaderThreads -------------------------
(***************************************************************************)
(* The lock, the cancellation and the end of ORSocketReader's two threads. *)
(*                                                                         *)
(* Here cbMutex is modelled as what it is, a read-write lock that calls    *)
(* wait for, and the words as what matters to waiting: how many records    *)
(* there are.  A section that takes the lock, never waits in it and gives  *)
(* it back is one action, enabled when the lock can be had; the two        *)
(* sections that wait or return while they hold it are not.  As in glibc's *)
(* default lock, a waiting writer does not keep readers out, and waiting   *)
(* for a lock is not a cancellation point while select and recv are.       *)
(***************************************************************************)
EXTENDS Naturals

CONSTANTS
  Capacity,      (* records the circular buffer has room for            *)
  Batch          (* records that fill the local buffer                  *)

ASSUME ThreadsAssumption == Capacity \in Nat \ {0} /\ Batch \in 1 .. Capacity

VARIABLES
  thread,        (* where SocketReadoutThread is                         *)
  main,          (* where the thread that owns the reader is             *)
  caller,        (* who called StopThread                                *)
  writeLocked,   (* cbMutex is held for writing (by SocketReadoutThread) *)
  readKept,      (* the owner has returned from a read without giving its *)
                 (* read lock back, which nothing does later             *)
  amount,        (* records in the circular buffer                       *)
  cut,           (* the last of them is the part of one the socket cut    *)
  copied,        (* records copied out, before readIndex is moved        *)
  isRunning, socketIsOK,
  readerCanceled, (* the reader's ORVSigHandler flag, which its TestCancel reads *)
  managerCanceled, (* the flag of ORDataProcManager, the owner's other handler *)
  cancelRequest, (* pthread_cancel has been called                       *)
  peer           (* the other end of the socket, which may stop sending  *)

bufferVars == <<amount, cut, copied>>
cancelVars == <<readerCanceled, managerCanceled>>
flagVars   == <<isRunning, socketIsOK, cancelVars, cancelRequest>>
lockVars   == <<writeLocked, readKept>>
mainVars   == <<main, caller>>
vars == <<thread, main, caller, writeLocked, readKept, amount, cut, copied, isRunning,
          socketIsOK, readerCanceled, managerCanceled, cancelRequest, peer>>

CanRead  == ~writeLocked
CanWrite == ~writeLocked /\ ~readKept
-----------------------------------------------------------------------------
(***************************************************************************)
(* SocketReadoutThread.                                                    *)
(***************************************************************************)

\* The loop condition, and pthread_testcancel.
LoopTop ==
  /\ thread = "top"
  /\ thread' = IF ~socketIsOK THEN "wantExit" ELSE IF cancelRequest THEN "gone" ELSE "peek"
  /\ UNCHANGED <<mainVars, lockVars, bufferVars, flagVars, peer>>

\* ReadoutRootSocket(kPeek): a record begins.
PeekData ==
  /\ thread = "peek" /\ peer = "open"
  /\ thread' = "measure"
  /\ UNCHANGED <<mainVars, lockVars, bufferVars, flagVars, peer>>

\* ReadoutRootSocket(kPeek) gives up: the peer has closed, or select has timed out
\* and the reader is canceled.
PeekFails ==
  /\ thread = "peek" /\ (peer = "closed" \/ readerCanceled)
  /\ thread' = "wantExit" /\ socketIsOK' = FALSE
  /\ UNCHANGED <<mainVars, lockVars, bufferVars, isRunning, cancelVars, cancelRequest, peer>>

\* Under the read lock: is there room for the record?
Measure ==
  /\ thread = "measure" /\ CanRead
  /\ thread' = IF amount < Capacity THEN "wantFill" ELSE "wantCount"
  /\ UNCHANGED <<mainVars, lockVars, bufferVars, flagVars, peer>>

\* The write lock is taken and held while the record is received ...
FillBegin ==
  /\ thread = "wantFill" /\ CanWrite
  /\ thread' = "fillSelect" /\ writeLocked' = TRUE
  /\ UNCHANGED <<mainVars, readKept, bufferVars, flagVars, peer>>

\* ... select finds some of it there, and recv waits for all of it ...
FillRecv ==
  /\ thread = "fillSelect" /\ peer = "open"
  /\ thread' = "fillRecv"
  /\ UNCHANGED <<mainVars, lockVars, bufferVars, flagVars, peer>>

\* ... until it has come ...
FillEnd ==
  /\ thread = "fillRecv" /\ peer = "open"
  /\ thread' = "top" /\ writeLocked' = FALSE
  /\ amount' = amount + 1
  /\ UNCHANGED <<mainVars, readKept, cut, copied, flagVars, peer>>

\* ... or the peer closes, or select times out and the reader is canceled: what came
\* up to the end of the buffer counts, what came after it does not.
ReceiveStops ==
  \/ thread = "fillSelect" /\ (peer = "closed" \/ readerCanceled)
  \/ thread = "fillRecv" /\ peer = "closed"

CountPart ==
  /\ cut' \in BOOLEAN
  /\ amount' = IF cut' THEN amount + 1 ELSE amount

\* Mutant: the write lock is not given back when the socket fails.
FillFailsKeepingLock ==
  /\ ReceiveStops /\ CountPart
  /\ thread' = "failed"
  /\ UNCHANGED <<mainVars, lockVars, copied, flagVars, peer>>

\* The write lock is given back, and only then is the failure noted.
FillFails ==
  /\ ReceiveStops /\ CountPart
  /\ thread' = "failed" /\ writeLocked' = FALSE
  /\ UNCHANGED <<mainVars, readKept, copied, flagVars, peer>>

NoteFailure ==
  /\ thread = "failed"
  /\ thread' = "wantExit" /\ socketIsOK' = FALSE
  /\ UNCHANGED <<mainVars, lockVars, bufferVars, isRunning, cancelVars, cancelRequest, peer>>

CountLost ==
  /\ thread = "wantCount" /\ CanWrite
  /\ thread' = "discard"
  /\ UNCHANGED <<mainVars, lockVars, bufferVars, flagVars, peer>>

DiscardEnd ==
  /\ thread = "discard" /\ peer = "open"
  /\ thread' = "top"
  /\ UNCHANGED <<mainVars, lockVars, bufferVars, flagVars, peer>>

DiscardFails ==
  /\ thread = "discard" /\ (peer = "closed" \/ readerCanceled)
  /\ thread' = "top" /\ socketIsOK' = FALSE
  /\ UNCHANGED <<mainVars, lockVars, bufferVars, isRunning, cancelVars, cancelRequest, peer>>

\* Mutant: the thread leaves without a word.
ExitSilently ==
  /\ thread = "wantExit" /\ CanWrite
  /\ thread' = "leaving"
  /\ UNCHANGED <<mainVars, lockVars, bufferVars, flagVars, peer>>

Exit ==
  /\ thread = "wantExit" /\ CanWrite
  /\ thread' = "leaving" /\ isRunning' = FALSE
  /\ UNCHANGED <<mainVars, lockVars, bufferVars, socketIsOK, cancelVars, cancelRequest, peer>>

Leave ==
  /\ thread = "leaving"
  /\ thread' = "gone"
  /\ UNCHANGED <<mainVars, lockVars, bufferVars, flagVars, peer>>

\* A cancellation request ends the thread in select or recv, with what it holds.
CancelActs ==
  /\ cancelRequest /\ thread \in {"peek", "fillSelect", "fillRecv", "discard"}
  /\ thread' = "gone"
  /\ UNCHANGED <<mainVars, lockVars, bufferVars, flagVars, peer>>

\* What the thread does without the peer's help, and what it cannot do without it
\* in a record that has begun.
ThreadAlone == \/ LoopTop \/ PeekFails \/ Measure \/ FillBegin \/ FillFails
               \/ NoteFailure \/ CountLost \/ DiscardFails \/ Exit \/ Leave \/ CancelActs
RestOfRecord == FillRecv \/ FillEnd \/ DiscardEnd
-----------------------------------------------------------------------------
(***************************************************************************)
(* The owner: ReadFromCircularBuffer as ProcessRun calls it.               *)
(***************************************************************************)

\* Mutant: the read lock is kept after the copy.
CopyOutKeepingLock(n) ==
  /\ copied' = n /\ main' = "commit" /\ readKept' = TRUE
  /\ UNCHANGED <<thread, caller, writeLocked, amount, cut, flagVars, peer>>

\* Words are copied under the read lock, which is given back.
CopyOut(n) ==
  /\ copied' = n /\ main' = "commit"
  /\ UNCHANGED <<thread, caller, lockVars, amount, cut, flagVars, peer>>

\* The first look: copy, or sleep without the lock.
Look ==
  /\ main = "read" /\ CanRead
  /\ \/ Batch <= amount /\ CopyOut(Batch)
     \/ /\ Batch > amount
        /\ main' = "sleep"
        /\ UNCHANGED <<thread, caller, lockVars, bufferVars, flagVars, peer>>

\* There may be fewer words than Read waits for: none, or some of a record that was
\* cut, whose first words an earlier read has taken.
MayFallShort == amount = 0 \/ (cut /\ amount = 1)

\* After a sleep: copy; or return 0, with the read lock still held, because the
\* thread has left an empty buffer or because the reader is canceled.
Wake ==
  /\ main = "sleep" /\ CanRead
  /\ \/ amount >= 1 /\ CopyOut(IF Batch <= amount THEN Batch ELSE amount)
     \/ /\ IF isRunning THEN MayFallShort /\ readerCanceled ELSE amount = 0
        /\ main' = "readFailed" /\ readKept' = TRUE
        /\ UNCHANGED <<thread, caller, writeLocked, bufferVars, flagVars, peer>>

Commit ==
  /\ main = "commit" /\ CanWrite
  /\ amount' = amount - copied /\ copied' = 0 /\ main' = "process"
  /\ UNCHANGED <<thread, caller, lockVars, cut, flagVars, peer>>

\* The records are processed: on to the next, or out of ProcessDataStream, through
\* Close (the manager is canceled; or the run ended and the socket has failed) or around it
\* (a processor returned kAlarm).
Process ==
  /\ main = "process"
  /\ main' \in {"read", "destroy"} \cup (IF managerCanceled \/ ~socketIsOK THEN {"close"} ELSE {})
  /\ managerCanceled => main' # "read"
  /\ UNCHANGED <<thread, caller, lockVars, bufferVars, flagVars, peer>>

\* ReadRecord has returned false: EndRun, then Close, or another ProcessRun, which the
\* reader's cancellation alone does not prevent: OKToRead does not ask for it.
ReadFailed ==
  /\ main = "readFailed"
  /\ main' = IF managerCanceled \/ ~socketIsOK THEN "close" ELSE "read"
  /\ UNCHANGED <<thread, caller, lockVars, bufferVars, flagVars, peer>>

\* Close, or the destructor, calls StopThread.
CallStop ==
  /\ main \in {"close", "destroy"}
  /\ IF main = "close" /\ ~readerCanceled /\ socketIsOK
       THEN main' = "destroy" /\ UNCHANGED caller
       ELSE main' = "stop" /\ caller' = main
  /\ UNCHANGED <<thread, lockVars, bufferVars, flagVars, peer>>

AfterStop == IF caller = "close" THEN "destroy" ELSE "freed"

\* ThreadIsStillRunning, under the read lock.
StopCheck ==
  /\ main = "stop" /\ CanRead
  /\ main' = IF isRunning THEN "cancel" ELSE AfterStop
  /\ UNCHANGED <<thread, caller, lockVars, bufferVars, flagVars, peer>>

\* Mutant: the thread is not waited for.
StopCancelNoJoin ==
  /\ main = "cancel"
  /\ cancelRequest' = TRUE /\ isRunning' = FALSE /\ main' = AfterStop
  /\ UNCHANGED <<thread, caller, lockVars, bufferVars, socketIsOK, cancelVars, peer>>

StopCancel ==
  /\ main = "cancel"
  /\ cancelRequest' = TRUE /\ main' = "join"
  /\ UNCHANGED <<thread, caller, lockVars, bufferVars, isRunning, socketIsOK, cancelVars, peer>>

StopJoin ==
  /\ main = "join" /\ thread = "gone"
  /\ isRunning' = FALSE /\ main' = AfterStop
  /\ UNCHANGED <<thread, caller, lockVars, bufferVars, socketIsOK, cancelVars, cancelRequest, peer>>

TakesReadLock == Look \/ Wake \/ StopCheck
MainNext == TakesReadLock \/ Commit \/ Process \/ ReadFailed \/ CallStop \/ StopCancel \/ StopJoin
-----------------------------------------------------------------------------
\* SIGINT arrives: ORVSigHandler::CancelAll walks the owner's handlers in the order of
\* their construction, the reader first.
CancelReader ==
  /\ ~readerCanceled
  /\ readerCanceled' = TRUE
  /\ UNCHANGED <<thread, mainVars, lockVars, bufferVars, isRunning, socketIsOK,
                 managerCanceled, cancelRequest, peer>>

CancelManager ==
  /\ readerCanceled /\ ~managerCanceled
  /\ managerCanceled' = TRUE
  /\ UNCHANGED <<thread, mainVars, lockVars, bufferVars, isRunning, socketIsOK,
                 readerCanceled, cancelRequest, peer>>

\* The peer sends no more, in the middle of a record perhaps, and stays connected ...
PeerStalls ==
  /\ peer = "open"
  /\ peer' = "stalled"
  /\ UNCHANGED <<thread, mainVars, lockVars, bufferVars, flagVars>>

\* ... or goes away.
PeerCloses ==
  /\ peer # "closed"
  /\ peer' = "closed"
  /\ UNCHANGED <<thread, mainVars, lockVars, bufferVars, flagVars>>

\* StartThread has just returned.
Init ==
  /\ thread = "top" /\ main = "read" /\ caller = "none"
  /\ writeLocked = FALSE /\ readKept = FALSE
  /\ amount = 0 /\ cut = FALSE /\ copied = 0
  /\ isRunning = TRUE /\ socketIsOK = TRUE /\ cancelRequest = FALSE
  /\ readerCanceled = FALSE /\ managerCanceled = FALSE
  /\ peer = "open"

Next == ThreadAlone \/ PeekData \/ RestOfRecord \/ MainNext
        \/ CancelReader \/ CancelManager \/ PeerStalls \/ PeerCloses

Spec == Init /\ [][Next]_vars

\* Both threads run; select times out; a lock that readers may have again and again
\* is given to the one that waits, since no writer keeps it out; a peer that has not
\* stalled sends the rest of a record it has begun; and CancelAll goes through its list.
FairSpec == Spec /\ WF_vars(ThreadAlone) /\ WF_vars(MainNext) /\ SF_vars(TakesReadLock)
                 /\ WF_vars(RestOfRecord) /\ WF_vars(CancelManager)
-----------------------------------------------------------------------------
TypeOK ==
  /\ thread \in {"top", "peek", "measure", "wantFill", "fillSelect", "fillRecv",
                 "failed", "wantCount", "discard", "wantExit", "leaving", "gone"}
  /\ main \in {"read", "sleep", "commit", "process", "readFailed", "close", "destroy",
               "stop", "cancel", "join", "freed"}
  /\ caller \in {"none", "close", "destroy"}
  /\ writeLocked \in BOOLEAN /\ readKept \in BOOLEAN
  /\ amount \in 0 .. Capacity /\ cut \in BOOLEAN /\ copied \in 0 .. amount
  /\ isRunning \in BOOLEAN /\ socketIsOK \in BOOLEAN
  /\ readerCanceled \in BOOLEAN /\ managerCanceled \in BOOLEAN /\ cancelRequest \in BOOLEAN
  /\ peer \in {"open", "stalled", "closed"}

\* The buffers and the lock are not freed while the thread may still use them,
\* even though StopThread joins it only if it finds it running.
BufferOutlivesThread == main = "freed" => thread \in {"leaving", "gone"}

\* The owner waits for the write lock with a read lock of its own that it never gives
\* back, which is for ever, in one case only: the reader was canceled in a record that
\* the socket cut, and ProcessDataStream called ProcessRun once more before the failure
\* was noted and before CancelAll had come to the manager.
SelfDeadlockOnlyAfterCut == readKept /\ main = "commit" => cut /\ readerCanceled

\* ReadFromCircularBuffer gets its lock, and the owner goes on, unless the peer stops
\* sending in the middle of a record: recv then waits with the write lock held.
ReadGetsLock == main = "read" ~> main # "read" \/ peer = "stalled"

\* When the peer closes, or once the owner has begun to close while the peer sends,
\* both threads end; a cancellation (ExitsNicely), begun or complete, may spoil it.
ClosesDown == peer = "closed" \/ main \in {"close", "destroy"}
                ~> main = "freed" \/ peer = "stalled" \/ readerCanceled
-----------------------------------------------------------------------------
\* What the class documentation says: the reader "periodically times out to check if it
\* has been canceled ( from ORVSigHandler ) and exits nicely if so".  A peer that stalls
\* is not even asked for.
ExitsNicely == managerCanceled ~> main = "freed" \/ peer = "stalled"
=============================================================================
