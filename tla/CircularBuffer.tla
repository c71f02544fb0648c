--------------------------- MODULE CircularBuffer ---------------------------
(***************************************************************************)
(* The circular buffer of ORSocketReader (struct CircularBufferStruct) and *)
(* the two threads' critical sections on it:                               *)
(*                                                                         *)
(*   - SocketReadoutThread measures the room for the next record under the *)
(*     read lock, releases it, and only then takes the write lock to store *)
(*     the record or to count it as lost;                                  *)
(*   - ReadFromCircularBuffer copies words out under the read lock,        *)
(*     releases it, and only then takes the write lock to move readIndex.  *)
(*                                                                         *)
(* Each critical section is one action: what matters here is what the      *)
(* other thread does between two of them.  The lock itself is the subject  *)
(* of module SocketReaderThreads.                                          *)
(*                                                                         *)
(* A word is represented by its ordinal among the words stored so far      *)
(* (0, 1, 2, ...), so "in order and intact" is arithmetic on ordinals.     *)
(***************************************************************************)
EXTENDS Integers, Sequences

CONSTANTS
  BufferLength,   (* fCircularBuffer.bufferLength, in words              *)
  RecordLengths,  (* the record lengths the peer's stream may announce   *)
  Requests,       (* the word counts Read may still need when it refills *)
  MaxWords        (* bound: words announced by the peer in a behaviour   *)

ASSUME BufferAssumption ==
  /\ BufferLength \in Nat /\ BufferLength >= 16
  /\ RecordLengths \subseteq Nat
  /\ Requests \subseteq Nat \ {0}
  /\ MaxWords \in Nat

VARIABLES
  buffer,          (* the words, by slot                                   *)
  amountInBuffer, writeIndex, readIndex, lostLongCount, isRunning,
  writer,          (* the locals SocketReadoutThread carries from one      *)
                   (* critical section to the next                         *)
  taker,           (* the same for ReadFromCircularBuffer                  *)
  localBuffer,     (* fLocalBuffer.buffer, the words last copied out       *)
  overran,         (* an access has left the buffer: nothing after it is   *)
                   (* defined, and the behaviour ends there                *)
  filled, taken,   (* history: words stored, words removed                 *)
  discarded, noticed (* history: words thrown away, words logged as such   *)

bufferVars  == <<buffer, amountInBuffer, writeIndex, readIndex, isRunning>>
historyVars == <<filled, taken, discarded, noticed>>
vars == <<buffer, amountInBuffer, writeIndex, readIndex, lostLongCount,
          isRunning, writer, taker, localBuffer, overran, filled, taken,
          discarded, noticed>>

Slots       == 0 .. BufferLength - 1
LocalLength == BufferLength \div 16      (* fBufferLength >> 4 *)
Garbage     == -1                        (* whatever lies in uninitialised memory *)

Least(a, b) == IF a <= b THEN a ELSE b
Wrap(i)     == IF i < BufferLength THEN i ELSE i - BufferLength
NoWriter    == [at |-> "idle", n |-> 0, first |-> 0]
NoTaker     == [at |-> "idle", n |-> 0, next |-> 0, min |-> 0]
-----------------------------------------------------------------------------
(***************************************************************************)
(* SocketReadoutThread.                                                    *)
(***************************************************************************)

\* Contiguous words that can be stored at writeIndex before the buffer wraps.
FirstWrite == IF writeIndex >= readIndex THEN BufferLength - writeIndex
                                         ELSE readIndex - writeIndex

\* Mutant: the words already in the buffer are not counted.
RoomIgnoringAmount(n) ==
  /\ ~overran /\ isRunning /\ writer.at = "idle"
  /\ filled + discarded + n <= MaxWords
  /\ writer' = IF BufferLength < n
                 THEN [at |-> "drop", n |-> n, first |-> 0]
                 ELSE [at |-> "fill", n |-> n, first |-> Least(FirstWrite, n)]
  /\ UNCHANGED <<bufferVars, historyVars, lostLongCount, taker, localBuffer, overran>>

\* Under the read lock: is there room for a record of n words?
Room(n) ==
  /\ ~overran /\ isRunning /\ writer.at = "idle"
  /\ filled + discarded + n <= MaxWords
  /\ writer' = IF BufferLength - amountInBuffer < n
                 THEN [at |-> "drop", n |-> n, first |-> 0]
                 ELSE [at |-> "fill", n |-> n, first |-> Least(FirstWrite, n)]
  /\ UNCHANGED <<bufferVars, historyVars, lostLongCount, taker, localBuffer, overran>>

\* Under the write lock: a record there was no room for is counted as lost.
Drop ==
  /\ ~overran /\ writer.at = "drop"
  /\ lostLongCount' = lostLongCount + writer.n
  /\ discarded' = discarded + writer.n
  /\ writer' = NoWriter
  /\ UNCHANGED <<bufferVars, taker, localBuffer, overran, filled, taken, noticed>>

\* The buffer b with k consecutive words from ordinal w stored at slot s.
Store(b, s, k, w) ==
  [j \in Slots |-> IF s <= j /\ j < s + k THEN w + (j - s) ELSE b[j]]

AfterFirst  == IF writeIndex + writer.first = BufferLength
                 THEN 0 ELSE writeIndex + writer.first
Second      == writer.n - writer.first
FirstStored == Store(buffer, writeIndex, writer.first, filled)

\* Mutant: the second part is stored but not counted.
FillForgettingSecond ==
  /\ ~overran /\ writer.at = "fill" /\ writer.n > 0
  /\ buffer' = Store(FirstStored, AfterFirst, Second, filled + writer.first)
  /\ writeIndex' = AfterFirst + Second
  /\ amountInBuffer' = amountInBuffer + writer.first
  /\ filled' = filled + writer.n
  /\ writer' = NoWriter
  /\ UNCHANGED <<readIndex, lostLongCount, isRunning, taker, localBuffer,
                 overran, taken, discarded, noticed>>

\* Under the write lock: the whole record is received into the buffer.
Fill ==
  /\ ~overran /\ writer.at = "fill" /\ writer.n > 0
  /\ buffer' = Store(FirstStored, AfterFirst, Second, filled + writer.first)
  /\ writeIndex' = AfterFirst + Second
  /\ amountInBuffer' = amountInBuffer + writer.n
  /\ filled' = filled + writer.n
  /\ writer' = NoWriter
  /\ UNCHANGED <<readIndex, lostLongCount, isRunning, taker, localBuffer,
                 overran, taken, discarded, noticed>>

\* The socket fails after k words of the first part: the indices stay.  A
\* record that announces no words ends here too.
FailFirst(k) ==
  /\ ~overran /\ writer.at = "fill"
  /\ (k < writer.first \/ (k = 0 /\ writer.first = 0))
  /\ buffer' = Store(buffer, writeIndex, k, filled)
  /\ writer' = [writer EXCEPT !.at = "failed"]
  /\ UNCHANGED <<amountInBuffer, writeIndex, readIndex, lostLongCount, isRunning,
                 taker, localBuffer, overran, historyVars>>

\* The socket fails in the second part: the first part is already accounted for.
FailSecond(k) ==
  /\ ~overran /\ writer.at = "fill" /\ k < Second
  /\ buffer' = Store(FirstStored, AfterFirst, k, filled + writer.first)
  /\ writeIndex' = AfterFirst
  /\ amountInBuffer' = amountInBuffer + writer.first
  /\ filled' = filled + writer.first
  /\ writer' = [writer EXCEPT !.at = "failed"]
  /\ UNCHANGED <<readIndex, lostLongCount, isRunning, taker, localBuffer,
                 overran, taken, discarded, noticed>>

\* Under the write lock: the thread is about to exit.
Stop ==
  /\ ~overran /\ isRunning /\ writer.at \in {"idle", "failed"}
  /\ isRunning' = FALSE
  /\ writer' = NoWriter
  /\ UNCHANGED <<buffer, amountInBuffer, writeIndex, readIndex, lostLongCount,
                 taker, localBuffer, overran, historyVars>>
-----------------------------------------------------------------------------
(***************************************************************************)
(* ReadFromCircularBuffer(fLocalBuffer.buffer, LocalLength, min).          *)
(***************************************************************************)

\* Contiguous words that can be copied from readIndex before the buffer wraps.
FirstRead(n) == Least(IF readIndex > writeIndex THEN BufferLength - readIndex
                                                ELSE writeIndex - readIndex, n)
\* Mutant: the copy does not wrap.
AfterReadNoReset(n) == readIndex + FirstRead(n)
AfterRead(n) == IF readIndex + FirstRead(n) = BufferLength
                  THEN 0 ELSE readIndex + FirstRead(n)
\* Mutant: the second part of a copy starts one slot late.
SlotReadLate(n, i) == IF i <= FirstRead(n) THEN readIndex + i - 1
                                           ELSE AfterRead(n) + (i - FirstRead(n))
SlotRead(n, i) == IF i <= FirstRead(n) THEN readIndex + i - 1
                                       ELSE AfterRead(n) + (i - FirstRead(n)) - 1

\* Copy n words out, under the read lock, and log what was lost so far.
Copy(n) ==
  /\ localBuffer' = [i \in 1 .. n |-> IF SlotRead(n, i) \in Slots
                                        THEN buffer[SlotRead(n, i)] ELSE Garbage]
  /\ overran' = \E i \in 1 .. n : SlotRead(n, i) \notin Slots
  /\ noticed' = noticed + lostLongCount
  /\ taker' = [taker EXCEPT !.at = "commit", !.n = n,
                            !.next = AfterRead(n) + (n - FirstRead(n))]
  /\ UNCHANGED <<bufferVars, lostLongCount, writer, filled, taken, discarded>>

\* The first look: a full local buffer's worth, or sleep.
Check(min) ==
  /\ ~overran /\ taker.at = "idle"
  /\ IF LocalLength <= amountInBuffer
       THEN Copy(LocalLength)
       ELSE /\ taker' = [NoTaker EXCEPT !.at = "sleep", !.min = min]
            /\ UNCHANGED <<bufferVars, historyVars, lostLongCount, writer,
                           localBuffer, overran>>

\* Mutant: more words than requested have to be there.
WakeStrict ==
  /\ ~overran /\ taker.at = "sleep"
  /\ \/ LocalLength <= amountInBuffer /\ Copy(LocalLength)
     \/ /\ LocalLength > amountInBuffer /\ amountInBuffer > 0
        /\ (~isRunning \/ amountInBuffer > taker.min)
        /\ Copy(amountInBuffer)

\* After a sleep: a full local buffer's worth, or all there is if that covers
\* the request or nothing more will come.
Wake ==
  /\ ~overran /\ taker.at = "sleep"
  /\ \/ LocalLength <= amountInBuffer /\ Copy(LocalLength)
     \/ /\ LocalLength > amountInBuffer /\ amountInBuffer > 0
        /\ (~isRunning \/ amountInBuffer >= taker.min)
        /\ Copy(amountInBuffer)

\* Mutant: the reader gives up although the thread is still running.
WakeEmptyEarly ==
  /\ ~overran /\ taker.at = "sleep"
  /\ amountInBuffer = 0
  /\ taker' = NoTaker
  /\ localBuffer' = << >>
  /\ UNCHANGED <<bufferVars, historyVars, lostLongCount, writer, overran>>

\* After a sleep: the thread is gone and the buffer is empty; 0 is returned.
WakeEmpty ==
  /\ ~overran /\ taker.at = "sleep"
  /\ ~isRunning /\ amountInBuffer = 0
  /\ taker' = NoTaker
  /\ localBuffer' = << >>
  /\ UNCHANGED <<bufferVars, historyVars, lostLongCount, writer, overran>>

\* Under the write lock: the copied words leave the buffer.
Commit ==
  /\ ~overran /\ taker.at = "commit"
  /\ readIndex' = taker.next
  /\ amountInBuffer' = amountInBuffer - taker.n
  /\ lostLongCount' = 0
  /\ taken' = taken + taker.n
  /\ taker' = NoTaker
  /\ UNCHANGED <<buffer, writeIndex, isRunning, writer, localBuffer, overran,
                 filled, discarded, noticed>>
-----------------------------------------------------------------------------
Init ==
  /\ buffer = [j \in Slots |-> Garbage]
  /\ amountInBuffer = 0 /\ writeIndex = 0 /\ readIndex = 0
  /\ lostLongCount = 0 /\ isRunning = TRUE
  /\ writer = NoWriter /\ taker = NoTaker
  /\ localBuffer = << >> /\ overran = FALSE
  /\ filled = 0 /\ taken = 0 /\ discarded = 0 /\ noticed = 0

WriterNext ==
  \/ \E n \in RecordLengths : Room(n)
  \/ Drop
  \/ Fill
  \/ \E k \in 0 .. BufferLength : FailFirst(k)
  \/ \E k \in 0 .. BufferLength : FailSecond(k)
  \/ Stop

TakerNext == (\E min \in Requests : Check(min)) \/ Wake \/ WakeEmpty \/ Commit

Next == WriterNext \/ TakerNext

Spec == Init /\ [][Next]_vars
-----------------------------------------------------------------------------
TypeOK ==
  /\ buffer \in [Slots -> Int]
  /\ amountInBuffer \in 0 .. BufferLength
  /\ writeIndex \in Slots
  /\ readIndex \in 0 .. BufferLength
  /\ lostLongCount \in Nat /\ isRunning \in BOOLEAN /\ overran \in BOOLEAN
  /\ writer \in [at : {"idle", "fill", "drop", "failed"}, n : Nat, first : Nat]
  /\ taker \in [at : {"idle", "sleep", "commit"}, n : Nat, next : Nat, min : Nat]
  /\ localBuffer \in Seq(Int)
  /\ filled \in Nat /\ taken \in Nat /\ discarded \in Nat /\ noticed \in Nat

\* The amountInBuffer words that follow readIndex are exactly the stored words
\* not yet removed, oldest first, and writeIndex is the slot after the newest.
\* This is what the separate fields of CircularBufferStruct have to agree on
\* whatever the two threads do between their critical sections.
FifoContents ==
  /\ amountInBuffer = filled - taken
  /\ writeIndex = Wrap(Wrap(readIndex) + amountInBuffer)
  /\ \A i \in 0 .. amountInBuffer - 1 : buffer[Wrap(Wrap(readIndex) + i)] = taken + i

\* Up to the first access outside the buffer, the words copied out are the
\* oldest ones, all of them intact, while the write lock is awaited.
FaithfulCopy ==
  (taker.at = "commit" /\ ~overran) =>
    /\ taker.n = Len(localBuffer) /\ taker.n <= amountInBuffer
    /\ \A i \in 1 .. taker.n : localBuffer[i] = taken + i - 1

\* The room measured under the read lock is still there when the write lock is
\* taken, and the split in two parts measured then still ends at the last slot.
RoomStaysValid ==
  writer.at = "fill" =>
    /\ writer.n <= BufferLength - amountInBuffer
    /\ writer.first = Least(BufferLength - writeIndex, writer.n)

\* No word is overwritten before ReadFromCircularBuffer has removed it.
NoOverwrite ==
  [][\A j \in Slots : buffer'[j] # buffer[j] => buffer[j] < taken]_vars

\* Memory outside the buffer is only ever touched when the buffer is exactly
\* full and fewer words than are wanted lie between readIndex and its end.
OverrunOnlyWhenFull ==
  [][overran' => \/ overran
                 \/ /\ amountInBuffer = BufferLength
                    /\ readIndex + LocalLength > BufferLength]_vars

\* Lost words are never logged twice: the log never claims more than was lost.
NoPhantomLoss == noticed + (IF taker.at = "commit" THEN 0 ELSE lostLongCount) <= discarded
-----------------------------------------------------------------------------
\* What the source says: "First and second reads are set to make sure the
\* wrapping works correctly" - no copy leaves the buffer.
NoOverrun == ~overran
=============================================================================
