------------------------ MODULE SocketReader_proofs ------------------------
(***************************************************************************)
(* The threads of ORSocketReader use the circular buffer as its own        *)
(* specification allows, so what is proved of CircularBuffer holds of it   *)
(* between any peer and any reader; and together they give ReadRecord a    *)
(* lossy stream of whole records.                                          *)
(***************************************************************************)
EXTENDS SocketReader, SequenceTheorems, TLAPS

RingProofs == INSTANCE CircularBuffer_proofs

LEMMA RingAssumption == RingProofs!BufferAssumption
  BY SocketAssumption DEF RingProofs!BufferAssumption

\* The lengths the histories and the thread remember are lengths the peer has
\* announced.
LengthsKnown ==
  /\ \A i \in DOMAIN accepted : Len(accepted[i]) \in RecordLengths
  /\ truncated.n \in RecordLengths \cup {0}
  /\ writer.at \in {"fill", "drop"} => writer.n \in RecordLengths

\* What Read waits for is one word, or no more than the rest of a record.
NeedKnown ==
  /\ reader.phase = "first" => reader.need = 1
  /\ reader.phase = "rest" => \E n \in RecordLengths : reader.need \in 1 .. n - 1

Types ==
  /\ accepted \in Seq(Seq(Int)) /\ localRead \in Nat
  /\ truncated \in [at : Int, n : Nat]
  /\ reader \in [phase : {"first", "rest", "eof"}, need : Nat]

SInv == RingProofs!IInv /\ Types /\ LengthsKnown /\ NeedKnown
-----------------------------------------------------------------------------
LEMMA InitEstablishes == Init => SInv
<1>. SUFFICES ASSUME Init PROVE SInv
  OBVIOUS
<1>1. Ring!Init
  BY DEF Init
<1>2. RingProofs!IInv
  <2>1. RingProofs!Init
    BY <1>1 DEF Ring!Init, RingProofs!Init, Ring!Slots, RingProofs!Slots, Ring!Garbage,
                RingProofs!Garbage, Ring!NoWriter, RingProofs!NoWriter, Ring!NoTaker,
                RingProofs!NoTaker
  <2>. QED BY <2>1, RingAssumption, RingProofs!InitEstablishes
<1>3. Types /\ NeedKnown
  BY DEF Init, Types, NeedKnown, None, AwaitFirst
<1>4. LengthsKnown
  BY <1>1 DEF Init, LengthsKnown, None, Ring!Init, Ring!NoWriter
<1>. QED BY <1>2, <1>3, <1>4 DEF SInv
-----------------------------------------------------------------------------
(* The steps, as steps on the circular buffer. *)

\* The two instances of CircularBuffer are the same specification.
LEMMA SameNext == [Ring!Next]_Ring!vars => [RingProofs!Next]_RingProofs!vars
  BY DEF Ring!Next, Ring!vars, Ring!WriterNext, Ring!TakerNext, Ring!Room, Ring!Drop,
     Ring!Fill, Ring!FailFirst, Ring!FailSecond, Ring!Stop, Ring!Check, Ring!Wake,
     Ring!WakeEmpty, Ring!Commit, Ring!Copy, Ring!SlotRead, Ring!AfterRead,
     Ring!FirstRead, Ring!FirstStored, Ring!Second, Ring!AfterFirst, Ring!Store,
     Ring!FirstWrite, Ring!NoTaker, Ring!NoWriter, Ring!Least, Ring!Garbage,
     Ring!LocalLength, Ring!Slots, Ring!bufferVars, Ring!historyVars,
     RingProofs!Next, RingProofs!vars, RingProofs!WriterNext, RingProofs!TakerNext,
     RingProofs!Room, RingProofs!Drop,
     RingProofs!Fill, RingProofs!FailFirst, RingProofs!FailSecond, RingProofs!Stop,
     RingProofs!Check, RingProofs!Wake,
     RingProofs!WakeEmpty, RingProofs!Commit, RingProofs!Copy, RingProofs!SlotRead,
     RingProofs!AfterRead,
     RingProofs!FirstRead, RingProofs!FirstStored, RingProofs!Second,
     RingProofs!AfterFirst, RingProofs!Store,
     RingProofs!FirstWrite, RingProofs!NoTaker, RingProofs!NoWriter, RingProofs!Least,
     RingProofs!Garbage,
     RingProofs!LocalLength, RingProofs!Slots, RingProofs!bufferVars,
     RingProofs!historyVars

\* Every step is a step on the circular buffer, or leaves it alone.
LEMMA RingStep ==
  ASSUME NeedKnown, Types, [Next]_vars
  PROVE  [Ring!Next]_Ring!vars
<1>. USE DEF Ring!Next, Ring!WriterNext, Ring!TakerNext
<1>1. ringVars = Ring!vars
  BY DEF ringVars, Ring!vars
<1>2. ASSUME NEW n \in RecordLengths, Announce(n) PROVE Ring!Next
  BY <1>2 DEF Announce
<1>3. CASE CountLost \/ StoreRecord \/ StoreFails \/ ThreadExit
  BY <1>3, SocketAssumption DEF CountLost, StoreRecord, StoreFails, ThreadExit
<1>4. CASE RefillBegin
  <2>1. reader.need \in Requests
    <3>1. CASE reader.phase = "first"
      BY <3>1, SocketAssumption DEF NeedKnown
    <3>2. CASE reader.phase = "rest"
      BY <3>2, SocketAssumption DEF NeedKnown
    <3>. QED BY <1>4, <3>1, <3>2 DEF RefillBegin, Types
  <2>. QED BY <1>4, <2>1 DEF RefillBegin
<1>5. CASE RefillWake \/ RefillEnd \/ RefillNone
  BY <1>5 DEF RefillWake, RefillEnd, RefillNone
<1>6. CASE PeekFails \/ LeaveLoop \/ Discard \/ ReceiveBegin \/ FirstWord \/ MoreWords \/ UNCHANGED vars
  BY <1>6 DEF PeekFails, LeaveLoop, Discard, ReceiveBegin, FirstWord, MoreWords, vars, ringVars, Ring!vars
<1>. QED BY <1>1, <1>2, <1>3, <1>4, <1>5, <1>6 DEF Next, ThreadNext, ReaderNext
-----------------------------------------------------------------------------
(* The rest of the invariant. *)

LEMMA ThreadStep ==
  ASSUME SInv, ThreadNext
  PROVE  Types' /\ LengthsKnown' /\ NeedKnown'
<1>1. /\ writer \in [at : {"idle", "fill", "drop", "failed"}, n : Nat, first : Nat]
      /\ filled \in Nat
  BY DEF SInv, RingProofs!IInv, RingProofs!TypeOK
<1>2. Types /\ LengthsKnown /\ NeedKnown
  BY DEF SInv
<1>3. NeedKnown'
  BY <1>2 DEF ThreadNext, Announce, PeekFails, LeaveLoop, CountLost, Discard, ReceiveBegin, StoreRecord,
              StoreFails, ThreadExit, readerVars, NeedKnown
<1>4. ASSUME NEW n \in RecordLengths, Announce(n) PROVE Types' /\ LengthsKnown'
  <2>1. UNCHANGED <<accepted, truncated, localRead, reader>> /\ writer'.n = n
    BY <1>4 DEF Announce, Ring!Room, threadVars, readerVars
  <2>. QED BY <1>2, <2>1 DEF Types, LengthsKnown
<1>5. CASE PeekFails \/ LeaveLoop \/ Discard \/ ReceiveBegin
  BY <1>2, <1>3, <1>5 DEF PeekFails, LeaveLoop, Discard, ReceiveBegin, ringVars, readerVars, Types, LengthsKnown
<1>6. CASE CountLost \/ ThreadExit
  <2>1. UNCHANGED <<accepted, truncated, localRead, reader>> /\ writer'.at = "idle"
    BY <1>6 DEF CountLost, ThreadExit, Ring!Drop, Ring!Stop, Ring!NoWriter, readerVars
  <2>. QED BY <1>2, <1>3, <2>1 DEF Types, LengthsKnown
<1>7. CASE StoreRecord
  <2>. DEFINE r == Words(filled, writer.n)
  <2>1. /\ UNCHANGED <<truncated, localRead, reader>> /\ writer'.at = "idle"
        /\ accepted' = Append(accepted, r) /\ writer.at = "fill"
    BY <1>7 DEF StoreRecord, Ring!Fill, Ring!NoWriter, readerVars
  <2>2. r \in Seq(Int) /\ Len(r) = writer.n /\ writer.n \in RecordLengths
    BY <1>1, <1>2, <2>1 DEF Words, LengthsKnown
  <2>. HIDE DEF r
  <2>. QED BY <1>2, <1>3, <2>1, <2>2 DEF Types, LengthsKnown
<1>8. CASE StoreFails
  <2>1. /\ UNCHANGED <<accepted, localRead, reader>>
        /\ writer.at = "fill" /\ writer'.at = "failed"
        /\ truncated' = truncated \/ truncated' = [at |-> filled, n |-> writer.n]
    BY <1>1, <1>8 DEF StoreFails, Ring!FailFirst, Ring!FailSecond, readerVars
  <2>. QED BY <1>1, <1>2, <1>3, <2>1 DEF Types, LengthsKnown
<1>. QED BY <1>3, <1>4, <1>5, <1>6, <1>7, <1>8 DEF ThreadNext

LEMMA ReaderStep ==
  ASSUME SInv, ReaderNext
  PROVE  Types' /\ LengthsKnown' /\ NeedKnown'
<1>1. /\ writer \in [at : {"idle", "fill", "drop", "failed"}, n : Nat, first : Nat]
      /\ localBuffer \in Seq(Int)
  BY DEF SInv, RingProofs!IInv, RingProofs!TypeOK
<1>2. Types /\ LengthsKnown /\ NeedKnown
  BY DEF SInv
<1>3. UNCHANGED <<accepted, truncated, writer>>
  BY DEF ReaderNext, RefillBegin, RefillWake, RefillEnd, RefillNone, FirstWord, MoreWords,
         threadVars, ringVars, Ring!Check, Ring!Wake, Ring!WakeEmpty, Ring!Commit, Ring!Copy
<1>4. LengthsKnown'
  BY <1>2, <1>3 DEF LengthsKnown
<1>5. CASE RefillBegin \/ RefillWake
  <2>1. UNCHANGED <<localRead, reader>>
    BY <1>5 DEF RefillBegin, RefillWake, readerVars
  <2>. QED BY <1>2, <1>3, <1>4, <2>1 DEF Types, NeedKnown
<1>6. CASE RefillEnd \/ RefillNone
  <2>1. localRead' = 0 /\ (reader' = reader \/ reader' = [phase |-> "eof", need |-> 0])
    BY <1>6 DEF RefillEnd, RefillNone
  <2>. QED BY <1>2, <1>3, <1>4, <2>1 DEF Types, NeedKnown
<1>7. CASE FirstWord
  <2>1. PICK n \in LengthsOf(localBuffer[localRead + 1]) :
          \/ reader' = AwaitFirst
          \/ n > 1 /\ reader' = [phase |-> "rest", need |-> n - 1]
          \/ reader' = [phase |-> "eof", need |-> 0]
    BY <1>7 DEF FirstWord
  <2>2. n \in RecordLengths \cup {0}
    BY <1>2 DEF LengthsOf, LengthsKnown
  <2>3. localRead' = localRead + 1
    BY <1>7 DEF FirstWord
  <2>4. n \in Nat
    BY <2>2, SocketAssumption
  <2>5. NeedKnown'
    <3>1. CASE n > 1 /\ reader' = [phase |-> "rest", need |-> n - 1]
      <4>1. n \in RecordLengths /\ n - 1 \in 1 .. n - 1
        BY <2>2, <2>4, <3>1
      <4>. QED BY <3>1, <4>1 DEF NeedKnown
    <3>. QED BY <2>1, <3>1 DEF NeedKnown, AwaitFirst
  <2>6. Types'
    BY <1>2, <1>3, <2>1, <2>3, <2>4 DEF Types, AwaitFirst
  <2>. QED BY <1>4, <2>5, <2>6
<1>8. CASE MoreWords
  <2>. DEFINE m == Ring!Least(reader.need, Available)
  <2>1. /\ Available \in Nat /\ Available > 0 /\ reader.phase = "rest"
        /\ reader.need \in Nat /\ localRead \in Nat
    BY SMTT(30), <1>1, <1>2, <1>8 DEF MoreWords, Available, Types
  <2>2. PICK n \in RecordLengths : reader.need \in 1 .. n - 1
    BY <1>2, <2>1 DEF NeedKnown
  <2>3. m \in 1 .. reader.need
    BY <2>1, <2>2, SocketAssumption DEF Ring!Least
  <2>4. /\ localRead' = localRead + m
        /\ \/ reader' = AwaitFirst
           \/ m # reader.need /\ reader' = [reader EXCEPT !.need = @ - m]
    BY <1>8 DEF MoreWords
  <2>. HIDE DEF m
  <2>5. CASE reader' = AwaitFirst
    BY <1>2, <1>3, <1>4, <2>1, <2>3, <2>4, <2>5 DEF AwaitFirst, Types, NeedKnown
  <2>6. CASE m # reader.need /\ reader' = [reader EXCEPT !.need = @ - m]
    <3>1. reader'.phase = "rest" /\ reader'.need = reader.need - m
      BY <1>2, <2>1, <2>6 DEF Types
    <3>2. reader'.need \in 1 .. n - 1 /\ reader'.need \in Nat
      BY <2>1, <2>2, <2>3, <2>6, <3>1, SocketAssumption
    <3>3. NeedKnown'
      BY <3>1, <3>2 DEF NeedKnown
    <3>4. reader' \in [phase : {"first", "rest", "eof"}, need : Nat]
      BY <1>2, <2>6, <3>1, <3>2 DEF Types
    <3>5. localRead' \in Nat
      BY <2>1, <2>3, <2>4
    <3>6. Types'
      BY <1>2, <1>3, <3>4, <3>5 DEF Types
    <3>. QED BY <1>4, <3>3, <3>6
  <2>. QED BY <2>4, <2>5, <2>6
<1>. QED BY <1>5, <1>6, <1>7, <1>8 DEF ReaderNext

LEMMA NextPreserves == SInv /\ [Next]_vars => SInv'
<1>. SUFFICES ASSUME SInv, [Next]_vars PROVE SInv'
  OBVIOUS
<1>1. RingProofs!IInv'
  <2>1. [RingProofs!Next]_RingProofs!vars
    BY RingStep, SameNext DEF SInv
  <2>. QED BY <2>1, RingAssumption, RingProofs!NextPreserves DEF SInv
<1>2. Types' /\ LengthsKnown' /\ NeedKnown'
  <2>1. CASE UNCHANGED vars
    BY <2>1 DEF SInv, Types, LengthsKnown, NeedKnown, vars, ringVars, threadVars, readerVars
  <2>. QED BY <2>1, ThreadStep, ReaderStep DEF Next
<1>. QED BY <1>1, <1>2 DEF SInv
-----------------------------------------------------------------------------
(* The results. *)

LEMMA Invariance == Spec => []SInv
  BY InitEstablishes, NextPreserves, PTL DEF Spec

\* Between any peer and any use of ReadRecord, the threads' steps on the circular
\* buffer are those its specification allows.
THEOREM UsesRingAsSpecified == Spec => Ring!Spec
<1>1. Init => Ring!Init
  BY DEF Init
<1>2. SInv /\ [Next]_vars => [Ring!Next]_Ring!vars
  BY RingStep DEF SInv
<1>. QED BY <1>1, <1>2, Invariance, PTL DEF Spec, Ring!Spec

\* So the occupied part of the buffer holds the words stored and not yet removed.
THEOREM RingContentsCorrect == Spec => []Ring!FifoContents
<1>1. SInv => Ring!FifoContents
  BY DEF SInv, RingProofs!IInv, RingProofs!FifoContents, RingProofs!Wrap,
         Ring!FifoContents, Ring!Wrap
<1>. QED BY <1>1, Invariance, PTL
-----------------------------------------------------------------------------
(***************************************************************************)
(* What the stream of words has to do with the records.                    *)
(***************************************************************************)
\* The ordinal of the word after the first g records stored.
StartAfter(g) == IF g = 0 THEN 0 ELSE accepted[g][1] + Len(accepted[g])

\* The words stored are those of the records, one after the other, and at the end some
\* of a record that the socket cut.
Framed ==
  /\ \A i \in 1 .. Len(accepted) :
       Len(accepted[i]) > 0 /\ accepted[i] = Words(StartAfter(i - 1), Len(accepted[i]))
  /\ \A i, j \in 0 .. Len(accepted) : i < j => StartAfter(i) < StartAfter(j)
  /\ IF truncated = None THEN filled = StartAfter(Len(accepted))
     ELSE /\ truncated.at = StartAfter(Len(accepted))
          /\ truncated.at < filled /\ filled < truncated.at + truncated.n

\* Where the thread is between two of its sections.
ThreadInv ==
  /\ pc \in {"loop", "receive", "discard", "exit", "done"} /\ socketIsOK \in BOOLEAN
  /\ isRunning <=> pc # "done"
  /\ pc = "loop" /\ writer.at # "idle" => socketIsOK
  /\ writer.at = "drop" => pc = "loop"
  /\ writer.at = "fill" => pc \in {"loop", "receive"}
  /\ writer.at = "failed" => pc = "exit"
  /\ truncated # None => pc \in {"exit", "done"}
  /\ writer.at = "fill" => filled + writer.n <= MaxWords

\* What the local buffer has is what was removed last, and it is used up when it is refilled.
LocalInv ==
  /\ taker.at # "commit" =>
       /\ ~overran /\ localRead <= Len(localBuffer)
       /\ \A i \in 1 .. Len(localBuffer) : localBuffer[i] = taken - Len(localBuffer) + i - 1
  /\ taker.at = "sleep" => localRead = Len(localBuffer)
  /\ taker.at # "idle" => reader.phase # "eof"

\* The ordinal of the next word that ReadRecord looks at, and the length of its record.
Position   == IF taker.at = "idle" THEN taken - Available ELSE taken
LengthSent == IF Len(got) < Len(accepted) THEN Len(accepted[Len(got) + 1]) ELSE truncated.n

\* What ReadRecord has of the record at hand are its first words, and the next is the one after.
InRecord ==
  /\ Len(record) > 0 /\ record = Words(StartAfter(Len(got)), Len(record))
  /\ Position = StartAfter(Len(got)) + Len(record)
  /\ Len(got) < Len(accepted) \/ truncated # None
  /\ reader.need > 0 /\ Len(record) + reader.need = LengthSent

\* ReadRecord has returned the first records stored, whole, and is at the next.
ReadInv ==
  /\ got \in Seq(Seq(Int)) /\ record \in Seq(Int)
  /\ Len(got) <= Len(accepted) /\ \A i \in 1 .. Len(got) : got[i] = accepted[i]
  /\ reader.phase = "first" => record = << >> /\ Position = StartAfter(Len(got))
  /\ reader.phase = "rest" => InRecord

StreamInv == Framed /\ ThreadInv /\ LocalInv /\ ReadInv
-----------------------------------------------------------------------------
\* A record of n words from the ordinal at has them in order.
LEMMA WordsInOrder ==
  ASSUME NEW at \in Nat, NEW n \in Nat
  PROVE  /\ Words(at, n) \in Seq(Int) /\ Len(Words(at, n)) = n
         /\ \A i \in 1 .. n : Words(at, n)[i] = at + i - 1
<1>1. Words(at, n) = [i \in 1 .. n |-> at + i - 1]
  BY DEF Words
<1> QED
  BY <1>1

\* A sequence with the ordinals of a record's words is that record.
LEMMA WordsByOrdinal ==
  ASSUME NEW at \in Nat, NEW n \in Nat, NEW s \in Seq(Int), Len(s) = n,
         \A i \in 1 .. n : s[i] = at + i - 1
  PROVE  s = Words(at, n)
<1>1. /\ Words(at, n) \in Seq(Int) /\ Len(Words(at, n)) = n
      /\ \A i \in 1 .. n : Words(at, n)[i] = at + i - 1
  BY WordsInOrder
<1>2. \A i \in 1 .. Len(s) : s[i] = Words(at, n)[i]
  BY <1>1
<1> QED
  BY <1>1, <1>2, SeqEqual

\* The words of s are consecutive, from the one of the ordinal on.
RunFrom(s, ordinal) == \A i \in 1 .. Len(s) : s[i] = ordinal + i - 1

\* A part of a record with the m words after the r-th of s.
Continued(part, s, r, m) == part \o SubSeq(s, r + 1, r + m)

\* The words that follow a part of a record continue it.
LEMMA WordsContinued ==
  ASSUME NEW at \in Nat, NEW k \in Nat, NEW lb \in Seq(Int), NEW r \in Nat,
         NEW m \in 1 .. Len(lb) - r, NEW from, from = at + k - r, RunFrom(lb, from)
  PROVE  Continued(Words(at, k), lb, r, m) = Words(at, k + m)
<1>a. PICK part, more : part = Words(at, k) /\ more = SubSeq(lb, r + 1, r + m)
  OBVIOUS
<1>1. part \in Seq(Int) /\ Len(part) = k /\ \A i \in 1 .. k : part[i] = at + i - 1
  BY <1>a, WordsInOrder
<1>2. more \in Seq(Int) /\ Len(more) = m /\ \A i \in 1 .. m : more[i] = lb[r + i]
  <2>1. /\ r + 1 \in Int /\ r + m \in Int /\ r + 1 <= r + m /\ (r + m) - (r + 1) + 1 = m
        /\ \A i \in 1 .. m : (r + 1) + i - 1 = r + i
        /\ \A i \in r + 1 .. r + m : i \in 1 .. Len(lb) /\ lb[i] \in Int
    OBVIOUS
  <2> QED
    BY <1>a, <2>1, SubSeqProperties
<1>3. \A i \in 1 .. m : more[i] = at + k + i - 1
  <2> SUFFICES ASSUME NEW i \in 1 .. m PROVE more[i] = at + k + i - 1
    OBVIOUS
  <2>0. more[i] = lb[r + i]
    BY <1>2
  <2>1. r + i \in 1 .. Len(lb) /\ more[i] = lb[r + i]
    BY <2>0
  <2>2. lb[r + i] = from + (r + i) - 1
    BY <2>1 DEF RunFrom
  <2> QED
    BY <2>1, <2>2
<1>4. /\ part \o more \in Seq(Int) /\ Len(part \o more) = k + m
      /\ \A i \in 1 .. k + m : (part \o more)[i] = IF i <= k THEN part[i] ELSE more[i - k]
  BY <1>1, <1>2, ConcatProperties
<1>5. \A i \in 1 .. k + m : (part \o more)[i] = at + i - 1
  <2> SUFFICES ASSUME NEW i \in 1 .. k + m PROVE (part \o more)[i] = at + i - 1
    OBVIOUS
  <2>1. CASE i <= k
    BY <1>1, <1>4, <2>1
  <2>2. CASE ~ (i <= k)
    <3>0. (part \o more)[i] = more[i - k]
      BY <1>4, <2>2
    <3>1. i - k \in 1 .. m
      BY <2>2
    <3>2. more[i - k] = at + k + (i - k) - 1
      BY <1>3, <3>1
    <3> QED
      BY <3>0, <3>1, <3>2
  <2> QED
    BY <2>1, <2>2
<1>6. part \o more = Words(at, k + m)
  <2> HIDE <1>a
  <2>1. k + m \in Nat
    OBVIOUS
  <2> QED
    BY <1>4, <1>5, <2>1, WordsByOrdinal
<1> QED
  BY <1>a, <1>6 DEF Continued

\* What the ring guarantees, of what the reader uses of it.
RingGives ==
  /\ amountInBuffer \in 0 .. BufferLength /\ writeIndex \in 0 .. BufferLength - 1 /\ isRunning \in BOOLEAN
  /\ writer \in [at : {"idle", "fill", "drop", "failed"}, n : Nat, first : Nat]
  /\ taker \in [at : {"idle", "sleep", "commit"}, n : Nat, next : Nat, min : Nat]
  /\ localBuffer \in Seq(Int) /\ overran \in BOOLEAN
  /\ filled \in Nat /\ taken \in Nat /\ discarded \in Nat /\ amountInBuffer = filled - taken
  /\ taker.at = "commit" /\ ~overran =>
       /\ taker.n = Len(localBuffer) /\ taker.n <= amountInBuffer
       /\ \A i \in 1 .. taker.n : localBuffer[i] = taken + i - 1
  /\ writer.at = "fill" => writer.first = Ring!Least(BufferLength - writeIndex, writer.n)
  /\ writer.at # "idle" => isRunning

LEMMA RingHolds == SInv => RingGives
BY DEF SInv, RingProofs!IInv, RingProofs!TypeOK, RingProofs!FifoContents, RingProofs!FaithfulCopy,
       RingProofs!RoomStaysValid, RingProofs!WriterRuns, RingProofs!Slots, RingProofs!Least, Ring!Least, RingGives

\* Records and words are counted by numbers.
LEMMA Lengths ==
  ASSUME Types, ReadInv
  PROVE  /\ Len(got) \in Nat /\ Len(accepted) \in Nat /\ Len(record) \in Nat
         /\ Len(got) <= Len(accepted)
BY DEF ReadInv, Types

\* The record a word begins, if one begins there: the records stored have different beginnings.
LEMMA Beginnings ==
  ASSUME Framed, Types
  PROVE  /\ \A g \in 0 .. Len(accepted) : StartAfter(g) \in Nat
         /\ \A i \in 1 .. Len(accepted) :
              /\ accepted[i][1] = StartAfter(i - 1) /\ Len(accepted[i]) \in Nat
              /\ StartAfter(i) = StartAfter(i - 1) + Len(accepted[i])
<1>1. accepted \in Seq(Seq(Int)) /\ Len(accepted) \in Nat
  BY DEF Types
<1>2. \A i \in 1 .. Len(accepted) : accepted[i] \in Seq(Int) /\ Len(accepted[i]) \in Nat /\ Len(accepted[i]) > 0
  BY <1>1, ElementOfSeq DEF Framed
<1>3. \A g \in 0 .. Len(accepted) : StartAfter(g) \in Int
  BY <1>1, <1>2, ElementOfSeq DEF StartAfter
<1>4. StartAfter(0) = 0 /\ \A g \in 1 .. Len(accepted) : StartAfter(0) < StartAfter(g)
  BY <1>1 DEF StartAfter, Framed
<1>5. \A g \in 0 .. Len(accepted) : StartAfter(g) \in Nat
  BY <1>1, <1>3, <1>4
<1>6. ASSUME NEW i \in 1 .. Len(accepted)
      PROVE  accepted[i][1] = StartAfter(i - 1) /\ StartAfter(i) = StartAfter(i - 1) + Len(accepted[i])
  <2>1. accepted[i] = Words(StartAfter(i - 1), Len(accepted[i])) /\ StartAfter(i - 1) \in Nat
    BY <1>1, <1>5 DEF Framed
  <2>2. PICK at, n : at = StartAfter(i - 1) /\ n = Len(accepted[i])
    OBVIOUS
  <2>3. accepted[i][1] = StartAfter(i - 1)
    <3>1. at \in Nat /\ n \in Nat /\ 1 \in 1 .. n
      BY <1>2, <2>1, <2>2
    <3>2. Words(at, n)[1] = at + 1 - 1
      BY <3>1, WordsInOrder
    <3> QED
      BY <2>1, <2>2, <3>1, <3>2
  <2> QED
    BY <1>1, <2>3 DEF StartAfter
<1> QED
  BY <1>2, <1>5, <1>6
-----------------------------------------------------------------------------
(* What the steps do to it. *)

\* The reader's steps leave the thread alone, and what it has stored.
LEMMA ReaderLeaves ==
  ASSUME ReaderNext
  PROVE  UNCHANGED <<pc, socketIsOK, accepted, truncated, writer, isRunning, filled>>
BY DEF ReaderNext, RefillBegin, RefillWake, RefillEnd, RefillNone, FirstWord, MoreWords, threadVars,
       ringVars, Ring!Check, Ring!Wake, Ring!WakeEmpty, Ring!Commit, Ring!Copy, Ring!bufferVars,
       Ring!historyVars

\* The thread's steps leave the reader alone, and what it has copied.
LEMMA ThreadLeaves ==
  ASSUME ThreadNext
  PROVE  UNCHANGED <<localRead, reader, record, got, taker, localBuffer, overran, taken>>
BY DEF ThreadNext, Announce, PeekFails, LeaveLoop, CountLost, Discard, ReceiveBegin, StoreRecord,
       StoreFails, ThreadExit, readerVars, ringVars, Ring!Room, Ring!Drop, Ring!Fill, Ring!FailFirst,
       Ring!FailSecond, Ring!Stop, Ring!bufferVars, Ring!historyVars

\* The thread goes from section to section as its loop says.
LEMMA ThreadGoesOn ==
  ASSUME RingGives, Types, ThreadInv, [Next]_vars
  PROVE  ThreadInv'
<1>t. /\ writer \in [at : {"idle", "fill", "drop", "failed"}, n : Nat, first : Nat]
      /\ isRunning \in BOOLEAN /\ filled \in Nat /\ discarded \in Nat
      /\ writer.at # "idle" => isRunning
  BY DEF RingGives
<1>1. ASSUME NEW n \in RecordLengths, Announce(n) PROVE ThreadInv'
  <2>1. /\ UNCHANGED <<pc, socketIsOK, truncated, filled, isRunning>> /\ pc = "loop" /\ socketIsOK
        /\ writer'.at \in {"fill", "drop"} /\ writer'.n = n /\ filled + discarded + n <= MaxWords
    BY <1>1 DEF Announce, Ring!Room, threadVars, Ring!bufferVars, Ring!historyVars
  <2>2. filled + n <= MaxWords
    BY <1>t, <2>1, SocketAssumption
  <2> QED
    BY <2>1, <2>2 DEF ThreadInv
<1>2. CASE PeekFails \/ LeaveLoop \/ Discard
  <2>1. /\ UNCHANGED <<truncated, filled, isRunning, writer>> /\ pc' # "done" /\ pc # "done"
        /\ writer.at = "idle" /\ pc' \in {"loop", "exit"} /\ socketIsOK' \in BOOLEAN
        /\ pc # "exit"
    BY <1>t, <1>2 DEF PeekFails, LeaveLoop, Discard, ringVars, ThreadInv
  <2>2. truncated = None
    BY <2>1 DEF ThreadInv
  <2> QED
    BY <2>1, <2>2 DEF ThreadInv
<1>3. CASE CountLost
  <2>1. /\ UNCHANGED <<truncated, filled, isRunning, socketIsOK>> /\ pc' = "discard"
        /\ writer.at = "drop" /\ writer'.at = "idle"
    BY <1>3 DEF CountLost, Ring!Drop, Ring!bufferVars, Ring!NoWriter
  <2> QED
    BY <2>1 DEF ThreadInv
<1>4. CASE StoreRecord
  <2>1. /\ UNCHANGED <<truncated, isRunning, socketIsOK>> /\ pc = "receive" /\ pc' = "loop"
        /\ writer.at = "fill" /\ writer'.at = "idle"
    BY <1>4 DEF StoreRecord, Ring!Fill, Ring!NoWriter
  <2> QED
    BY <2>1 DEF ThreadInv
<1>5. CASE StoreFails
  <2>1. /\ UNCHANGED isRunning /\ socketIsOK' = FALSE /\ pc' = "exit"
        /\ writer.at = "fill" /\ writer'.at = "failed"
    BY <1>t, <1>5 DEF StoreFails, Ring!FailFirst, Ring!FailSecond
  <2> QED
    BY <1>t, <2>1 DEF ThreadInv
<1>6. CASE ThreadExit
  <2>1. /\ UNCHANGED <<truncated, socketIsOK>> /\ pc' = "done" /\ isRunning' = FALSE /\ writer'.at = "idle"
    BY <1>6 DEF ThreadExit, Ring!Stop, Ring!NoWriter
  <2> QED
    BY <2>1 DEF ThreadInv
<1>7. CASE ReaderNext \/ UNCHANGED vars
  BY <1>7, ReaderLeaves DEF vars, threadVars, ringVars, ThreadInv
<1>8. CASE ReceiveBegin
  <2>1. /\ UNCHANGED <<truncated, filled, isRunning, writer, socketIsOK>>
        /\ pc = "loop" /\ pc' = "receive" /\ writer.at = "fill"
    BY <1>8 DEF ReceiveBegin, ringVars
  <2> QED
    BY <2>1 DEF ThreadInv
<1> QED
  BY <1>1, <1>2, <1>3, <1>4, <1>5, <1>6, <1>7, <1>8 DEF Next, ThreadNext

\* A record that is stored follows those before, and is the only new one.
LEMMA RecordStored ==
  ASSUME RingGives, Types, ThreadInv, Framed, StoreRecord
  PROVE  /\ Framed' /\ truncated = None /\ truncated' = None
         /\ accepted' = Append(accepted, Words(filled, writer.n))
         /\ writer.n \in Nat \ {0} /\ filled + writer.n <= MaxWords
         /\ Len(accepted') = Len(accepted) + 1
         /\ \A i \in 1 .. Len(accepted) : accepted'[i] = accepted[i]
         /\ \A g \in 0 .. Len(accepted) : StartAfter(g)' = StartAfter(g)
<1>1. /\ accepted' = Append(accepted, Words(filled, writer.n)) /\ UNCHANGED truncated
      /\ writer.at = "fill" /\ writer.n > 0 /\ filled' = filled + writer.n
  BY DEF StoreRecord, Ring!Fill
<1>n. PICK n \in Nat \ {0} : n = writer.n
  BY <1>1 DEF RingGives
<1>2. PICK r : r = Words(filled, n) /\ n = writer.n
  BY <1>n
<1>3. /\ filled \in Nat /\ accepted \in Seq(Seq(Int)) /\ Len(accepted) \in Nat
      /\ r \in Seq(Int) /\ Len(r) = n
  BY <1>2, WordsInOrder DEF RingGives, Types
<1>4. r[1] = filled
  <2>1. 1 \in 1 .. n
    BY <1>2
  <2>2. r[1] = filled + 1 - 1
    <3>1. \A i \in 1 .. n : Words(filled, n)[i] = filled + i - 1
      BY <1>3, WordsInOrder
    <3> QED
      BY <1>2, <2>1, <3>1
  <2> QED
    BY <1>3, <2>2
<1>5. truncated = None /\ filled = StartAfter(Len(accepted)) /\ filled + n <= MaxWords
  BY <1>1, <1>2 DEF ThreadInv, Framed
<1>6. PICK k \in Nat : k = Len(accepted)
  BY <1>3
<1>7. /\ Len(accepted') = k + 1 /\ accepted'[k + 1] = r
      /\ \A i \in 1 .. k : accepted'[i] = accepted[i]
  <2>1. accepted' = Append(accepted, r)
    BY <1>1, <1>2
  <2> QED
    BY <1>3, <1>6, <2>1
<1>8. \A g \in 0 .. k : StartAfter(g)' = StartAfter(g)
  BY <1>7 DEF StartAfter
<1>9. StartAfter(k + 1)' = filled + n
  <2>1. StartAfter(k + 1)' = accepted'[k + 1][1] + Len(accepted'[k + 1])
    BY DEF StartAfter
  <2> QED
    BY <1>3, <1>4, <1>7, <2>1
<1>10. \A g \in 0 .. k : StartAfter(g) \in Nat
  BY <1>6, Beginnings
<1>11. \A i \in 1 .. k + 1 :
         Len(accepted'[i]) > 0 /\ accepted'[i] = Words(StartAfter(i - 1)', Len(accepted'[i]))
  <2> SUFFICES ASSUME NEW i \in 1 .. k + 1
               PROVE  Len(accepted'[i]) > 0 /\ accepted'[i] = Words(StartAfter(i - 1)', Len(accepted'[i]))
    OBVIOUS
  <2>1. CASE i \in 1 .. k
    <3>1. i - 1 \in 0 .. k /\ accepted'[i] = accepted[i]
      BY <1>7, <2>1
    <3>2. StartAfter(i - 1)' = StartAfter(i - 1)
      BY <1>8, <3>1
    <3> QED
      BY <1>6, <2>1, <3>1, <3>2 DEF Framed
  <2>2. CASE i = k + 1
    <3>1. i - 1 \in 0 .. k /\ i - 1 = k /\ accepted'[i] = r
      BY <1>7, <2>2
    <3>2. StartAfter(i - 1)' = filled
      BY <1>5, <1>6, <1>8, <3>1
    <3> QED
      BY <1>2, <1>3, <3>1, <3>2
  <2> QED
    BY <2>1, <2>2
<1>12. ASSUME NEW i \in 0 .. k + 1, NEW j \in 0 .. k + 1, i < j
       PROVE  StartAfter(i)' < StartAfter(j)'
  <2>1. i \in 0 .. k /\ StartAfter(i)' = StartAfter(i) /\ StartAfter(i) \in Nat
    BY <1>8, <1>10, <1>12
  <2>2. CASE j \in 0 .. k
    BY <1>6, <1>8, <1>12, <2>1, <2>2 DEF Framed
  <2>3. CASE j = k + 1
    <3>1. StartAfter(i) < StartAfter(k) \/ i = k
      BY <1>6, <2>1 DEF Framed
    <3>2. StartAfter(i) <= filled
      BY <1>3, <1>5, <1>6, <2>1, <3>1
    <3>3. filled < StartAfter(j)'
      BY <1>2, <1>3, <1>9, <2>3
    <3> QED
      BY <1>3, <1>9, <2>1, <2>3, <3>2, <3>3
  <2> QED
    BY <2>2, <2>3
<1>13. Framed'
  <2>1. \A i, j \in 0 .. Len(accepted') : i < j => StartAfter(i)' < StartAfter(j)'
    BY <1>7, <1>12
  <2>2. truncated' = None /\ filled' = StartAfter(k + 1)'
    BY <1>1, <1>2, <1>5, <1>9
  <2>3. \A i \in 1 .. Len(accepted') :
          Len(accepted'[i]) > 0 /\ accepted'[i] = Words(StartAfter(i - 1)', Len(accepted'[i]))
    BY <1>7, <1>11
  <2>4. filled' = StartAfter(Len(accepted))'
    BY <1>7, <2>2 DEF StartAfter
  <2> QED
    BY <2>1, <2>2, <2>3, <2>4 DEF Framed, Words, None
<1> QED
  BY <1>1, <1>2, <1>n, <1>5, <1>6, <1>7, <1>8, <1>13

\* The socket fails in a record: if some of its words count, they are the last.
LEMMA RecordCut ==
  ASSUME RingGives, Types, ThreadInv, Framed, StoreFails
  PROVE  Framed' /\ accepted' = accepted /\ truncated = None
<1>1. /\ accepted' = accepted /\ writer.at = "fill" /\ truncated = None
      /\ \/ UNCHANGED <<truncated, filled>>
         \/ /\ \E k \in Cuts : k < writer.n - writer.first
            /\ truncated' = [at |-> filled, n |-> writer.n] /\ filled' = filled + writer.first
  BY DEF StoreFails, Ring!FailFirst, Ring!FailSecond, Ring!Second, Ring!historyVars, ThreadInv
<1>2. \A g : StartAfter(g)' = StartAfter(g)
  BY <1>1 DEF StartAfter
<1>3. filled = StartAfter(Len(accepted)) /\ filled \in Nat
  BY <1>1 DEF Framed, RingGives
<1>4. CASE UNCHANGED <<truncated, filled>>
  BY <1>1, <1>2, <1>3, <1>4 DEF Framed, Words, None
<1>5. CASE \E k \in Cuts : k < writer.n - writer.first /\ truncated' = [at |-> filled, n |-> writer.n]
             /\ filled' = filled + writer.first
  <2>1. PICK k \in Cuts, f \in Nat, n \in Nat :
          k < n - f /\ truncated' = [at |-> filled, n |-> n] /\ filled' = filled + f
          /\ f = writer.first /\ n = writer.n
    BY <1>5 DEF RingGives
  <2>2. k \in Nat /\ f < n
    BY <2>1, SocketAssumption
  <2>3. f > 0
    BY <1>1, <2>1, <2>2, SocketAssumption DEF RingGives, Ring!Least
  <2>4. truncated' # None
    BY <1>3, <2>1 DEF None
  <2>5. truncated'.at = filled /\ filled < filled' /\ filled' < truncated'.at + truncated'.n
    BY <1>3, <2>1, <2>2, <2>3
  <2>6. truncated'.at = StartAfter(Len(accepted))'
    BY <1>1, <1>2, <1>3, <2>5
  <2> QED
    BY <1>1, <1>2, <2>4, <2>5, <2>6 DEF Framed, Words, None
<1> QED
  BY <1>1, <1>4, <1>5

\* Whatever happens, the words stored are those of the records, and then of one cut.
LEMMA FramedGoesOn ==
  ASSUME RingGives, Types, ThreadInv, Framed, [Next]_vars
  PROVE  Framed'
<1>1. CASE UNCHANGED <<accepted, truncated, filled>>
  BY <1>1 DEF Framed, StartAfter, Words, None
<1>2. CASE ReaderNext \/ UNCHANGED vars
  BY <1>1, <1>2, ReaderLeaves DEF vars, threadVars, ringVars
<1>3. CASE ThreadNext
  <2>1. CASE StoreRecord
    BY <2>1, RecordStored
  <2>2. CASE StoreFails
    BY <2>2, RecordCut
  <2>3. CASE ~StoreRecord /\ ~StoreFails
    <3>1. UNCHANGED <<accepted, truncated, filled>>
      BY <1>3, <2>3 DEF ThreadNext, Announce, PeekFails, LeaveLoop, CountLost, Discard, ReceiveBegin, ThreadExit,
         threadVars, ringVars, Ring!Room, Ring!Drop, Ring!Stop, Ring!historyVars
    <3> QED
      BY <1>1, <3>1
  <2> QED
    BY <2>1, <2>2, <2>3
<1> QED
  BY <1>2, <1>3 DEF Next

\* ReadFromCircularBuffer looks, and copies words out or sleeps; no word is used meanwhile.
LEMMA Looks ==
  ASSUME RingGives, Types, LocalInv, RefillBegin \/ RefillWake
  PROVE  /\ UNCHANGED <<localRead, reader, record, got, taken, accepted, truncated>>
         /\ reader.phase # "eof" /\ Position = taken /\ Position' = taken
         /\ \/ taker'.at = "commit"
            \/ taker'.at = "sleep" /\ UNCHANGED <<localBuffer, overran>> /\ localRead = Len(localBuffer)
               /\ taker.at # "commit"
<1>1. UNCHANGED <<localRead, reader, record, got, taken, accepted, truncated>>
  BY DEF RefillBegin, RefillWake, Ring!Check, Ring!Wake, Ring!Copy, Ring!historyVars, threadVars, readerVars
<1>2. taker \in [at : {"idle", "sleep", "commit"}, n : Nat, next : Nat, min : Nat]
  BY DEF RingGives
<1>3. \A n : Ring!Copy(n) => taker'.at = "commit"
  BY <1>2 DEF Ring!Copy
<1>4. CASE RefillBegin
  <2>1. reader.phase # "eof" /\ Len(localBuffer) - localRead = 0 /\ taker.at = "idle"
    BY <1>4 DEF RefillBegin, Available, Ring!Check
  <2>2. taker'.at = "commit" \/ (taker'.at = "sleep" /\ UNCHANGED <<localBuffer, overran>>)
    BY <1>3, <1>4 DEF RefillBegin, Ring!Check, Ring!NoTaker
  <2>3. localRead = Len(localBuffer)
    BY <2>1 DEF Types, RingGives
  <2>4. Position = taken /\ Position' = taken
    BY <1>1, <2>1, <2>2 DEF Position, Available, RingGives
  <2> QED
    BY <1>1, <2>1, <2>2, <2>3, <2>4
<1>5. CASE RefillWake
  <2>1. taker.at = "sleep" /\ taker'.at = "commit"
    BY <1>3, <1>5 DEF RefillWake, Ring!Wake
  <2> QED
    BY <1>1, <2>1 DEF LocalInv, Position
<1> QED
  BY <1>4, <1>5

\* The words copied are removed from the ring, and the local buffer has them.
LEMMA Refilled ==
  ASSUME RingGives, LocalInv, RefillEnd
  PROVE  /\ LocalInv' /\ UNCHANGED <<reader, record, got, accepted, truncated>>
         /\ Position = taken /\ Position' = taken
<1>1. /\ UNCHANGED <<reader, record, got, accepted, truncated, localBuffer, overran>> /\ localRead' = 0
      /\ taken' = taken + taker.n /\ taker'.at = "idle" /\ taker.at = "commit" /\ ~overran
  BY DEF RefillEnd, Ring!Commit, Ring!NoTaker, threadVars
<1>2. PICK n \in Nat : /\ n = taker.n /\ n = Len(localBuffer) /\ taken \in Nat
                       /\ \A i \in 1 .. n : localBuffer[i] = taken + i - 1
  BY <1>1 DEF RingGives
<1>3. taken' - n = taken /\ taken' \in Nat
  BY <1>1, <1>2
<1>4. LocalInv'
  BY <1>1, <1>2, <1>3 DEF LocalInv
<1>5. Position = taken /\ Position' = taken
  BY <1>1, <1>2, <1>3 DEF Position, Available
<1> QED
  BY <1>1, <1>4, <1>5

\* What is in the local buffer are the words removed last, up to the next of them.
LEMMA LocalGoesOn ==
  ASSUME RingGives, Types, LocalInv, [Next]_vars
  PROVE  LocalInv'
<1>1. CASE ThreadNext \/ UNCHANGED vars
  BY <1>1, ThreadLeaves DEF vars, ringVars, readerVars, LocalInv
<1>2. CASE RefillBegin \/ RefillWake
  BY <1>2, Looks DEF LocalInv
<1>3. CASE RefillEnd
  BY <1>3, Refilled
<1>4. CASE RefillNone
  <2>1. taker'.at = "idle" /\ localBuffer' = << >> /\ localRead' = 0 /\ ~overran' /\ taken' = taken
    BY <1>4 DEF RefillNone, Ring!WakeEmpty, Ring!NoTaker, Ring!historyVars
  <2> QED
    BY <2>1 DEF LocalInv
<1>5. CASE FirstWord \/ MoreWords
  <2>1. /\ UNCHANGED <<taker, localBuffer, overran, taken>> /\ taker.at = "idle"
        /\ localBuffer \in Seq(Int) /\ localRead \in Nat
    BY <1>5 DEF FirstWord, MoreWords, ringVars, RingGives, Types
  <2>2. localRead' <= Len(localBuffer)
    <3>1. Len(localBuffer) - localRead > 0
      BY <1>5 DEF FirstWord, MoreWords, Available
    <3>2. localRead' = localRead + 1 \/ localRead' = localRead + Ring!Least(reader.need, Len(localBuffer) - localRead)
      BY <1>5 DEF FirstWord, MoreWords, Available
    <3> QED
      BY <2>1, <3>1, <3>2 DEF Ring!Least, Types
  <2> QED
    BY <2>1, <2>2 DEF LocalInv
<1> QED
  BY <1>1, <1>2, <1>3, <1>4, <1>5 DEF Next, ReaderNext

\* The word after the records returned is the first of the next, which announces its length.
LEMMA Announced ==
  ASSUME RingGives, Types, Framed, LocalInv, ReadInv, FirstWord, NEW w, w = localBuffer[localRead + 1]
  PROVE  /\ w = StartAfter(Len(got)) /\ Position = w /\ w \in Nat
         /\ LengthsOf(w) = {LengthSent} /\ LengthSent \in Nat \ {0}
         /\ Len(got) < Len(accepted) \/ (truncated # None /\ LengthSent > 1)
<1>1. /\ taker.at = "idle" /\ reader.phase = "first" /\ Len(localBuffer) - localRead > 0
      /\ localBuffer \in Seq(Int) /\ localRead \in Nat /\ taken \in Nat /\ taken <= filled /\ filled \in Nat
  BY DEF FirstWord, Available, RingGives, Types
<1>2. PICK lb \in Nat : lb = Len(localBuffer) /\ localRead + 1 \in 1 .. lb
  BY <1>1
<1>3. w = taken - lb + localRead /\ Position = taken - (lb - localRead)
  <2>1. \A i \in 1 .. lb : localBuffer[i] = taken - lb + i - 1
    BY <1>1, <1>2 DEF LocalInv
  <2>2. w = taken - lb + (localRead + 1) - 1
    BY <1>2, <2>1
  <2> QED
    BY <1>1, <1>2, <2>2 DEF Position, Available
<1>4. PICK g, k \in Nat : g = Len(got) /\ k = Len(accepted) /\ g \in 0 .. k
  BY Lengths
<1>5. w = StartAfter(g) /\ Position = w /\ w < taken
  BY <1>1, <1>2, <1>3, <1>4 DEF ReadInv
<1>6. /\ \A h \in 0 .. k : StartAfter(h) \in Nat
      /\ \A i \in 1 .. k : /\ accepted[i][1] = StartAfter(i - 1) /\ Len(accepted[i]) \in Nat \ {0}
      /\ \A i, j \in 0 .. k : i < j => StartAfter(i) < StartAfter(j)
  BY <1>4, Beginnings DEF Framed
<1>7. DOMAIN accepted = 1 .. k /\ w \in Nat
  BY <1>4, <1>5, <1>6 DEF Types
<1>8. PICK starts : starts = {r \in {accepted[i] : i \in DOMAIN accepted} : r[1] = w}
  OBVIOUS
<1>9. CASE g < k
  <2>1. g + 1 \in 1 .. k /\ accepted[g + 1][1] = w /\ LengthSent = Len(accepted[g + 1])
    <3>1. g + 1 \in 1 .. k /\ (g + 1) - 1 = g
      BY <1>4, <1>9
    <3> QED
      BY <1>4, <1>5, <1>6, <1>9, <3>1 DEF LengthSent
  <2>2. ASSUME NEW i \in 1 .. k, accepted[i][1] = w PROVE i = g + 1
    <3>1. i - 1 \in 0 .. k /\ StartAfter(i - 1) = StartAfter(g)
      BY <1>5, <1>6, <2>2
    <3>2. StartAfter(g) \in Nat /\ StartAfter(i - 1) \in Nat
      BY <1>4, <1>6, <3>1
    <3>3. ~ (i - 1 < g) /\ ~ (g < i - 1)
      <4>1. \A h, j \in 0 .. k : h < j => StartAfter(h) < StartAfter(j)
        BY <1>6
      <4>2. i - 1 < g => StartAfter(i - 1) < StartAfter(g)
        BY <1>4, <3>1, <4>1
      <4>3. g < i - 1 => StartAfter(g) < StartAfter(i - 1)
        BY <1>4, <3>1, <4>1
      <4> QED
        BY <3>1, <3>2, <4>2, <4>3
    <3> QED
      BY <1>4, <3>1, <3>3
  <2>3. starts = {accepted[g + 1]}
    BY <1>7, <1>8, <2>1, <2>2
  <2>4. LengthsOf(w) = {Len(r) : r \in {accepted[g + 1]}}
    <3>1. LengthsOf(w) = {Len(r) : r \in starts}
      BY <1>8, <2>3 DEF LengthsOf
    <3> QED
      BY <2>3, <3>1
  <2>5. LengthsOf(w) = {LengthSent}
    BY <2>1, <2>4
  <2> QED
    BY <1>4, <1>5, <1>6, <1>7, <1>9, <2>1, <2>5
<1>10. CASE g = k
  <2>1. truncated # None /\ truncated.at = w /\ filled < w + truncated.n /\ truncated.n \in Nat
    BY <1>1, <1>4, <1>5, <1>7, <1>10 DEF Framed, Types
  <2>2. starts = {}
    <3>1. ASSUME NEW i \in 1 .. k PROVE accepted[i][1] # w
      <4>1. i - 1 \in 0 .. k /\ i - 1 < k /\ k \in 0 .. k
        OBVIOUS
      <4>2. StartAfter(i - 1) < StartAfter(k) /\ StartAfter(i - 1) \in Nat
        BY <1>6, <4>1
      <4> QED
        BY <1>5, <1>6, <1>7, <1>10, <4>2
    <3> QED
      BY <1>7, <1>8, <3>1
  <2>3. LengthsOf(w) = {truncated.n}
    BY <1>8, <2>1, <2>2 DEF LengthsOf
  <2>4. LengthSent = truncated.n /\ truncated.n > 1
    BY <1>1, <1>4, <1>5, <1>7, <1>10, <2>1 DEF LengthSent
  <2> QED
    BY <1>4, <1>5, <1>7, <2>1, <2>3, <2>4
<1> QED
  BY <1>4, <1>9, <1>10

\* When a record is complete, what has been returned are still the first records stored.
LEMMA RecordReturned ==
  ASSUME Types, ReadInv, Len(got) < Len(accepted), NEW r, r = accepted[Len(got) + 1],
         got' = Append(got, r), accepted' = accepted, record' = << >>, reader' = AwaitFirst,
         NEW p, p = StartAfter(Len(got) + 1), Position' = p
  PROVE  ReadInv'
<1>1. PICK g, k \in Nat : g = Len(got) /\ k = Len(accepted) /\ g < k
  BY Lengths
<1>2. got \in Seq(Seq(Int)) /\ r \in Seq(Int)
  <2>1. g + 1 \in 1 .. k
    BY <1>1
  <2> QED
    BY <1>1, <2>1, ElementOfSeq DEF ReadInv, Types
<1>3. /\ got' \in Seq(Seq(Int)) /\ Len(got') = g + 1 /\ got'[g + 1] = r
      /\ \A i \in 1 .. g : got'[i] = got[i]
  BY <1>1, <1>2
<1>4. \A i \in 1 .. g + 1 : got'[i] = accepted'[i]
  <2> SUFFICES ASSUME NEW i \in 1 .. g + 1 PROVE got'[i] = accepted[i]
    OBVIOUS
  <2>1. CASE i \in 1 .. g
    BY <1>1, <1>3, <2>1 DEF ReadInv
  <2>2. CASE i = g + 1
    BY <1>1, <1>3, <2>2
  <2> QED
    BY <1>1, <2>1, <2>2
<1>5. StartAfter(Len(got))' = p
  <2>1. StartAfter(Len(got))' = IF Len(got') = 0 THEN 0 ELSE accepted'[Len(got')][1] + Len(accepted'[Len(got')])
    BY DEF StartAfter
  <2>2. p = accepted[g + 1][1] + Len(accepted[g + 1])
    BY <1>1 DEF StartAfter
  <2> QED
    BY <1>1, <1>3, <2>1, <2>2
<1>6. record' \in Seq(Int) /\ Len(got') <= Len(accepted') /\ reader'.phase = "first"
  BY <1>1, <1>3 DEF AwaitFirst
<1> QED
  BY <1>1, <1>3, <1>4, <1>5, <1>6 DEF ReadInv

\* ReadFirstWord: the record is complete, or its rest is read next; either way it is a
\* record stored, or the one that was cut.
LEMMA FirstWordRead ==
  ASSUME RingGives, Types, Framed, LocalInv, ReadInv, FirstWord
  PROVE  /\ ReadInv' /\ UNCHANGED accepted /\ reader.phase = "first" /\ reader'.phase # "eof"
         /\ \/ UNCHANGED got
            \/ /\ Len(got) < Len(accepted) /\ got' = Append(got, accepted[Len(got) + 1])
<1>0. PICK w : w = localBuffer[localRead + 1]
  OBVIOUS
<1>1. /\ w = StartAfter(Len(got)) /\ Position = w /\ w \in Nat
      /\ LengthsOf(w) = {LengthSent} /\ LengthSent \in Nat \ {0}
      /\ Len(got) < Len(accepted) \/ (truncated # None /\ LengthSent > 1)
  BY <1>0, Announced
<1>2. PICK n \in Nat \ {0} : n = LengthSent
  BY <1>1
<1>3. \/ /\ n = 1 /\ got' = Append(got, <<w>>) /\ record' = << >> /\ reader' = AwaitFirst
      \/ /\ n > 1 /\ record' = <<w>> /\ reader' = [phase |-> "rest", need |-> n - 1]
         /\ UNCHANGED got
  <2>1. PICK l \in LengthsOf(w) :
           \/ /\ l = 1
              /\ got' = Append(got, <<w>>)
              /\ record' = << >> /\ reader' = AwaitFirst
           \/ /\ l > 1
              /\ record' = <<w>> /\ reader' = [phase |-> "rest", need |-> l - 1]
              /\ UNCHANGED got
           \/ /\ l = 0
              /\ reader' = [phase |-> "eof", need |-> 0]
              /\ UNCHANGED <<record, got>>
    BY <1>0 DEF FirstWord
  <2>2. l = n
    BY <1>1, <1>2, <2>1
  <2> QED
    BY <1>2, <2>1, <2>2
<1>4. /\ UNCHANGED <<accepted, truncated, taker, taken, localBuffer>> /\ localRead' = localRead + 1
      /\ reader.phase = "first" /\ taker.at = "idle" /\ localRead \in Nat /\ taken \in Nat
      /\ localBuffer \in Seq(Int)
  BY DEF FirstWord, threadVars, ringVars, RingGives, Types
<1>5. Position' = w + 1
  BY <1>1, <1>4 DEF Position, Available
<1>6. \A g : StartAfter(g)' = StartAfter(g)
  BY <1>4 DEF StartAfter
<1>7. PICK g, k \in Nat : g = Len(got) /\ k = Len(accepted) /\ g \in 0 .. k
  BY Lengths
<1>8. CASE n = 1
  <2>1. /\ got' = Append(got, <<w>>) /\ record' = << >> /\ reader'.phase = "first"
    BY <1>3, <1>8 DEF AwaitFirst
  <2>2. g < k /\ g + 1 \in 1 .. k /\ (g + 1) - 1 = g
    BY <1>1, <1>2, <1>7, <1>8
  <2>3. accepted[g + 1] = Words(w, 1) /\ Len(accepted[g + 1]) = 1
    <3>1. Len(accepted[g + 1]) = 1
      BY <1>2, <1>7, <1>8, <2>2 DEF LengthSent
    <3> QED
      BY <1>1, <1>7, <2>2, <3>1 DEF Framed
  <2>4. <<w>> = accepted[g + 1]
    <3>1. <<w>> \in Seq(Int) /\ Len(<<w>>) = 1 /\ \A i \in 1 .. 1 : <<w>>[i] = w + i - 1
      BY <1>1
    <3>2. <<w>> = Words(w, 1)
      BY <1>1, <3>1, WordsByOrdinal
    <3> QED
      BY <2>3, <3>2
  <2>5. Position' = StartAfter(g + 1)
    BY <1>1, <1>5, <1>7, <2>2, <2>3, Beginnings
  <2>6. ReadInv'
    BY <1>3, <1>4, <1>7, <1>8, <2>2, <2>4, <2>5, RecordReturned
  <2> QED
    BY <1>3, <1>4, <1>7, <1>8, <2>1, <2>2, <2>4, <2>6
<1>9. CASE n > 1
  <2>1. record' = <<w>> /\ reader' = [phase |-> "rest", need |-> n - 1] /\ UNCHANGED got
    BY <1>3, <1>9
  <2>2. record' \in Seq(Int) /\ Len(record') = 1 /\ record' = Words(w, 1)
    <3>1. <<w>> \in Seq(Int) /\ Len(<<w>>) = 1 /\ \A i \in 1 .. 1 : <<w>>[i] = w + i - 1
      BY <1>1
    <3>2. <<w>> = Words(w, 1)
      BY <1>1, <3>1, WordsByOrdinal
    <3> QED
      BY <2>1, <3>1, <3>2
  <2>3. LengthSent' = n
    BY <1>2, <1>4, <2>1 DEF LengthSent
  <2>4. InRecord'
    <3>1. Position' = StartAfter(g) + Len(record')
      BY <1>1, <1>5, <1>7, <2>2
    <3>2. reader'.need > 0 /\ Len(record') + reader'.need = n
      BY <1>9, <2>1, <2>2
    <3>3. Len(got) < Len(accepted) \/ truncated' # None
      BY <1>1, <1>4
    <3>4. record' = Words(StartAfter(g), Len(record'))
      BY <1>1, <1>7, <2>2
    <3> QED
      BY <1>4, <1>6, <1>7, <2>1, <2>2, <2>3, <3>1, <3>2, <3>3, <3>4 DEF InRecord, None, Words, StartAfter
  <2> QED
    BY <1>4, <2>1, <2>2, <2>4 DEF ReadInv
<1> QED
  BY <1>2, <1>8, <1>9

\* ReadRestOfLongRecord: the words taken continue the record, and if they complete it, it is
\* the next of those stored.
LEMMA MoreWordsRead ==
  ASSUME RingGives, Types, Framed, LocalInv, ReadInv, MoreWords
  PROVE  /\ ReadInv' /\ UNCHANGED accepted /\ reader.phase = "rest" /\ reader'.phase # "eof"
         /\ \/ UNCHANGED got
            \/ /\ Len(got) < Len(accepted) /\ got' = Append(got, accepted[Len(got) + 1])
<1>1. /\ UNCHANGED <<accepted, truncated, taker, taken, localBuffer>> /\ reader.phase = "rest"
      /\ taker.at = "idle" /\ localRead \in Nat /\ taken \in Nat /\ localBuffer \in Seq(Int)
      /\ taken <= filled /\ filled \in Nat /\ reader.need \in Nat /\ InRecord
  <2>1. /\ UNCHANGED <<accepted, truncated, taker, taken, localBuffer>> /\ reader.phase = "rest"
        /\ taker.at = "idle"
    BY DEF MoreWords, threadVars, ringVars
  <2>2. /\ taken \in Nat /\ localBuffer \in Seq(Int) /\ filled \in Nat
        /\ amountInBuffer \in Nat /\ amountInBuffer = filled - taken
    BY SocketAssumption DEF RingGives
  <2>3. localRead \in Nat /\ reader.need \in Nat
    BY DEF Types
  <2>4. InRecord
    BY <2>1 DEF ReadInv
  <2> QED
    BY <2>1, <2>2, <2>3, <2>4
<1>2. PICK g, k \in Nat : g = Len(got) /\ k = Len(accepted) /\ g \in 0 .. k
  BY Lengths
<1>3. PICK lb, r, have, need \in Nat :
        /\ lb = Len(localBuffer) /\ r = localRead /\ have = Len(record) /\ need = reader.need
        /\ lb - r > 0 /\ need > 0
  <2>1. Len(localBuffer) - localRead > 0
    BY DEF MoreWords, Available
  <2>2. reader.need > 0 /\ Len(record) \in Nat /\ Len(localBuffer) \in Nat
    BY <1>1 DEF InRecord, ReadInv
  <2> QED
    BY <1>1, <2>1, <2>2
<1>4. PICK m \in 1 .. lb - r : m = Ring!Least(need, lb - r) /\ m <= need
  BY <1>3 DEF Ring!Least
<1>5. PICK read : read = record \o SubSeq(localBuffer, r + 1, r + m)
  OBVIOUS
<1>6. /\ localRead' = r + m
      /\ IF m = need THEN got' = Append(got, read) /\ record' = << >> /\ reader' = AwaitFirst
         ELSE record' = read /\ reader' = [reader EXCEPT !.need = @ - m] /\ UNCHANGED got
  BY <1>3, <1>4, <1>5 DEF MoreWords, Available
<1>7. PICK at \in Nat : at = StartAfter(g)
  BY <1>2, Beginnings
<1>8. /\ have > 0 /\ record = Words(at, have) /\ Position = at + have /\ have + need = LengthSent
      /\ g < k \/ truncated # None
  BY <1>1, <1>2, <1>3, <1>7 DEF InRecord
<1>9. Position = taken - (lb - r) /\ Position' = taken - (lb - (r + m))
  BY <1>1, <1>3, <1>6 DEF Position, Available
<1>10. read = Words(at, have + m)
  <2>1. PICK s \in Seq(Int) : s = localBuffer /\ Len(s) = lb
    BY <1>1, <1>3
  <2>2. at + have - r = taken - lb
    BY <1>1, <1>3, <1>8, <1>9
  <2>3. PICK from : from = at + have - r
    OBVIOUS
  <2>4. RunFrom(s, from)
    BY <1>1, <2>1, <2>2, <2>3 DEF LocalInv, RunFrom
  <2>5. m \in 1 .. Len(s) - r
    BY <2>1
  <2>6. Continued(Words(at, have), s, r, m) = Words(at, have + m)
    BY <2>3, <2>4, <2>5, WordsContinued
  <2> QED
    BY <1>5, <1>8, <2>1, <2>6 DEF Continued
<1>11. /\ read \in Seq(Int) /\ Len(read) = have + m
  BY <1>10, WordsInOrder
<1>12. Position' = at + have + m /\ at + have + m <= filled
  BY <1>1, <1>8, <1>9
<1>13. \A h : StartAfter(h)' = StartAfter(h)
  BY <1>1 DEF StartAfter
<1>14. CASE m = need
  <2>1. got' = Append(got, read) /\ record' = << >> /\ reader' = AwaitFirst
    BY <1>6, <1>14
  <2>2. g < k
    <3> SUFFICES ASSUME ~ (g < k) PROVE FALSE
      OBVIOUS
    <3>0. g = k
      BY <1>2
    <3>1. ~ (Len(got) < Len(accepted))
      BY <1>2
    <3>2. LengthSent = truncated.n
      BY <3>1 DEF LengthSent
    <3>3. truncated # None /\ have + need = truncated.n
      BY <1>8, <3>2
    <3>4. filled < at + (have + need)
      BY <1>2, <1>7, <3>0, <3>3 DEF Framed
    <3> QED
      BY <1>1, <1>12, <1>14, <3>4
  <2>3. g + 1 \in 1 .. k /\ (g + 1) - 1 = g
    BY <2>2
  <2>4. Len(accepted[g + 1]) = have + need
    BY <1>2, <1>8, <2>2 DEF LengthSent
  <2>5. read = accepted[g + 1]
    BY <1>2, <1>7, <1>10, <1>14, <2>3, <2>4 DEF Framed
  <2>6. Position' = StartAfter(g + 1)
    <3>1. StartAfter(g + 1) = StartAfter(g) + Len(accepted[g + 1])
      BY <1>2, <2>3, Beginnings
    <3> QED
      BY <1>7, <1>12, <1>14, <2>4, <3>1
  <2>7. ReadInv'
    BY <1>1, <1>2, <2>1, <2>2, <2>5, <2>6, RecordReturned
  <2> QED
    BY <1>1, <1>2, <2>1, <2>2, <2>5, <2>7 DEF AwaitFirst
<1>15. CASE m < need
  <2>1. record' = read /\ reader' = [reader EXCEPT !.need = @ - m] /\ UNCHANGED got
    BY <1>6, <1>15
  <2>2. reader'.phase = "rest" /\ reader'.need = need - m
    BY <1>1, <1>3, <2>1 DEF Types
  <2>3. LengthSent' = LengthSent
    BY <1>1, <2>1 DEF LengthSent
  <2>4. InRecord'
    <3>1. Position' = StartAfter(g) + Len(record')
      BY <1>7, <1>11, <1>12, <2>1
    <3>2. reader'.need > 0 /\ Len(record') + reader'.need = LengthSent' /\ Len(record') > 0
      <4>1. Len(record') = have + m
        BY <1>11, <2>1
      <4>2. m \in Nat /\ (have + m) + (need - m) = have + need
        OBVIOUS
      <4> QED
        BY <1>8, <1>15, <2>2, <2>3, <4>1, <4>2
    <3>3. record' = Words(StartAfter(g), Len(record'))
      BY <1>7, <1>10, <1>11, <2>1
    <3>4. Len(got) < Len(accepted) \/ truncated' # None
      BY <1>1, <1>2, <1>8
    <3> QED
      BY <1>1, <1>2, <1>13, <2>1, <2>2, <3>1, <3>2, <3>3, <3>4 DEF InRecord, None, Words, StartAfter
  <2> QED
    BY <1>1, <1>11, <2>1, <2>2, <2>4 DEF ReadInv
<1> QED
  BY <1>4, <1>14, <1>15

\* Read returns short only at the end: all records stored have been returned, and a part of
\* one that was cut may be left.
LEMMA EndReached ==
  ASSUME RingGives, Types, Framed, LocalInv, ReadInv, RefillNone
  PROVE  /\ ReadInv' /\ UNCHANGED <<accepted, got, isRunning>> /\ ~isRunning
         /\ got = accepted /\ reader.phase # "eof" /\ reader'.phase = "eof"
<1>1. /\ UNCHANGED <<accepted, truncated, got, record, isRunning>> /\ ~isRunning /\ taker.at = "sleep"
      /\ filled = taken /\ filled \in Nat /\ reader'.phase = "eof"
  BY DEF RefillNone, Ring!WakeEmpty, threadVars, RingGives, Ring!bufferVars
<1>2. reader.phase \in {"first", "rest"} /\ Position = filled
  BY <1>1 DEF LocalInv, Types, Position
<1>3. PICK g, k \in Nat : g = Len(got) /\ k = Len(accepted) /\ g \in 0 .. k
  BY Lengths
<1>4. g = k
  <2> SUFFICES ASSUME g < k PROVE FALSE
    BY <1>3
  <2>1. g + 1 \in 1 .. k /\ (g + 1) - 1 = g /\ g + 1 \in 0 .. k /\ k \in 0 .. k
    OBVIOUS
  <2>2. /\ StartAfter(g) \in Nat /\ StartAfter(g + 1) \in Nat /\ StartAfter(k) \in Nat
        /\ StartAfter(g + 1) = StartAfter(g) + Len(accepted[g + 1]) /\ Len(accepted[g + 1]) \in Nat \ {0}
    BY <1>3, <2>1, Beginnings DEF Framed
  <2>3. StartAfter(g + 1) <= StartAfter(k)
    <3>1. CASE g + 1 = k
      BY <2>2, <3>1
    <3>2. CASE g + 1 < k
      <4>1. StartAfter(g + 1) < StartAfter(k)
        BY <1>3, <2>1, <3>2 DEF Framed
      <4> QED
        BY <2>2, <4>1
    <3> QED
      BY <2>1, <3>1, <3>2
  <2>4. StartAfter(k) <= filled
    <3>1. filled = StartAfter(k) \/ (truncated.at = StartAfter(k) /\ truncated.at < filled)
      BY <1>3 DEF Framed
    <3> QED
      BY <1>1, <2>2, <3>1
  <2>5. CASE reader.phase = "first"
    <3>1. filled = StartAfter(g)
      BY <1>2, <1>3, <2>5 DEF ReadInv
    <3> QED
      BY <1>1, <2>2, <2>3, <2>4, <3>1
  <2>6. CASE reader.phase = "rest"
    <3>1. /\ filled = StartAfter(g) + Len(record) /\ reader.need > 0
          /\ Len(record) + reader.need = Len(accepted[g + 1])
      BY <1>2, <1>3, <2>6 DEF ReadInv, InRecord, LengthSent
    <3>2. Len(record) \in Nat /\ reader.need \in Nat
      BY Lengths DEF Types
    <3>3. filled < StartAfter(g) + Len(accepted[g + 1])
      <4>1. Len(record) < Len(accepted[g + 1])
        BY <2>2, <3>1, <3>2
      <4> QED
        BY <2>2, <3>1, <3>2, <4>1
    <3> QED
      BY <1>1, <2>2, <2>3, <2>4, <3>3
  <2> QED
    BY <1>2, <2>5, <2>6
<1>5. got = accepted
  BY <1>3, <1>4, SeqEqual DEF ReadInv, Types
<1>6. ReadInv'
  BY <1>1 DEF ReadInv
<1> QED
  BY <1>1, <1>2, <1>5, <1>6

\* What the thread stores meanwhile does not disturb ReadRecord.
LEMMA ReadStable ==
  ASSUME Types, ReadInv, UNCHANGED <<reader, record, got>>, Position' = Position,
         Len(accepted') \in Nat, Len(accepted) <= Len(accepted'),
         \A i \in 1 .. Len(accepted) : accepted'[i] = accepted[i],
         truncated # None => UNCHANGED <<accepted, truncated>>
  PROVE  ReadInv'
<1>1. PICK g, k \in Nat : g = Len(got) /\ k = Len(accepted) /\ g \in 0 .. k
  BY Lengths
<1>2. StartAfter(g)' = StartAfter(g)
  BY <1>1 DEF StartAfter
<1>3. /\ got' = got /\ record' = record /\ reader' = reader /\ k <= Len(accepted')
      /\ \A i \in 1 .. g : got'[i] = accepted'[i]
  <2>1. \A i \in 1 .. g : got[i] = accepted[i] /\ accepted'[i] = accepted[i]
    BY <1>1 DEF ReadInv
  <2> QED
    BY <1>1, <2>1
<1>4. StartAfter(Len(got))' = StartAfter(g)
  <2>1. StartAfter(Len(got))' = StartAfter(g)'
    BY <1>1, <1>3 DEF StartAfter
  <2> QED
    BY <1>2, <2>1
<1>5. ASSUME InRecord PROVE InRecord'
  <2>1. g < Len(accepted') \/ truncated' # None
    BY <1>1, <1>3, <1>5 DEF InRecord
  <2>2. LengthSent' = LengthSent
    <3>1. CASE g < k
      <4>1. g + 1 \in 1 .. k /\ g < Len(accepted') /\ g < Len(accepted)
        BY <1>1, <1>3, <3>1
      <4>2. accepted'[g + 1] = accepted[g + 1]
        BY <1>1, <4>1
      <4> QED
        BY <1>1, <1>3, <4>1, <4>2 DEF LengthSent
    <3>2. CASE g = k
      <4>1. truncated # None
        BY <1>1, <1>5, <3>2 DEF InRecord
      <4>2. UNCHANGED <<accepted, truncated, got>>
        BY <1>3, <4>1
      <4> QED
        BY <4>2 DEF LengthSent
    <3> QED
      BY <1>1, <3>1, <3>2
  <2>3. record' = Words(StartAfter(Len(got))', Len(record'))
    BY <1>1, <1>3, <1>4, <1>5 DEF InRecord
  <2>4. Position' = StartAfter(Len(got))' + Len(record')
    BY <1>1, <1>3, <1>4, <1>5 DEF InRecord
  <2> QED
    BY <1>1, <1>3, <1>5, <2>1, <2>2, <2>3, <2>4 DEF InRecord, None, Words
<1>6. reader.phase = "first" => record' = << >> /\ Position' = StartAfter(Len(got))'
  BY <1>1, <1>3, <1>4 DEF ReadInv
<1> QED
  BY <1>1, <1>3, <1>5, <1>6 DEF ReadInv

\* Whatever happens, ReadRecord has returned the first records stored and is at the next.
LEMMA ReadGoesOn ==
  ASSUME RingGives, Types, ThreadInv, Framed, LocalInv, ReadInv, [Next]_vars
  PROVE  ReadInv'
<1>1. Len(accepted) \in Nat
  BY Lengths
<1>2. CASE UNCHANGED <<accepted, truncated, reader, record, got>> /\ Position' = Position
  BY <1>1, <1>2, ReadStable
<1>3. CASE UNCHANGED vars
  <2>1. Position' = Position
    BY <1>3 DEF vars, ringVars, readerVars, Position, Available
  <2> QED
    BY <1>2, <1>3, <2>1 DEF vars, threadVars, readerVars
<1>4. CASE ThreadNext
  <2>1. UNCHANGED <<reader, record, got>> /\ Position' = Position
    BY <1>4, ThreadLeaves DEF Position, Available
  <2>2. CASE StoreRecord
    <3>1. /\ Len(accepted') = Len(accepted) + 1 /\ truncated = None
          /\ \A i \in 1 .. Len(accepted) : accepted'[i] = accepted[i]
      BY <2>2, RecordStored
    <3>2. Len(accepted') \in Nat /\ Len(accepted) <= Len(accepted')
      BY <1>1, <3>1
    <3> QED
      BY <2>1, <3>1, <3>2, ReadStable
  <2>3. CASE StoreFails
    <3>1. accepted' = accepted /\ truncated = None
      BY <2>3, RecordCut
    <3> QED
      BY <1>1, <2>1, <3>1, ReadStable
  <2>4. CASE ~StoreRecord /\ ~StoreFails
    <3>1. UNCHANGED <<accepted, truncated>>
      BY <1>4, <2>4 DEF ThreadNext, Announce, PeekFails, LeaveLoop, CountLost, Discard, ReceiveBegin, ThreadExit,
         threadVars
    <3> QED
      BY <1>2, <2>1, <3>1
  <2> QED
    BY <2>2, <2>3, <2>4
<1>5. CASE RefillBegin \/ RefillWake
  BY <1>2, <1>5, Looks
<1>6. CASE RefillEnd
  BY <1>2, <1>6, Refilled
<1>7. CASE RefillNone
  BY <1>7, EndReached
<1>8. CASE FirstWord
  BY <1>8, FirstWordRead
<1>9. CASE MoreWords
  BY <1>9, MoreWordsRead
<1> QED
  BY <1>3, <1>4, <1>5, <1>6, <1>7, <1>8, <1>9 DEF Next, ReaderNext
-----------------------------------------------------------------------------
(* SocketReader is a LossyRecordStream. *)

LEMMA StreamStarts == Init => StreamInv
<1> SUFFICES ASSUME Init PROVE StreamInv
  OBVIOUS
<1>1. /\ taken = 0 /\ filled = 0 /\ isRunning = TRUE /\ writer.at = "idle" /\ taker.at = "idle"
      /\ localBuffer = << >> /\ overran = FALSE
  BY DEF Init, Ring!Init, Ring!NoWriter, Ring!NoTaker
<1>2. /\ pc = "loop" /\ socketIsOK = TRUE /\ accepted = << >> /\ truncated = None /\ localRead = 0
      /\ reader = AwaitFirst /\ record = << >> /\ got = << >>
  BY DEF Init
<1>3. Len(accepted) = 0 /\ Len(got) = 0 /\ Len(localBuffer) = 0 /\ 1 .. 0 = {} /\ 0 .. 0 = {0}
  BY <1>1, <1>2
<1>4. StartAfter(0) = 0
  BY DEF StartAfter
<1>5. Framed
  BY <1>1, <1>2, <1>3, <1>4 DEF Framed
<1>6. ThreadInv
  BY <1>1, <1>2 DEF ThreadInv
<1>7. LocalInv
  BY <1>1, <1>2, <1>3 DEF LocalInv
<1>8. ReadInv
  <2>1. Position = 0
    <3>1. Position = 0 - (0 - 0)
      BY <1>1, <1>2, <1>3 DEF Position, Available
    <3> QED
      BY <3>1
  <2>2. got \in Seq(Seq(Int)) /\ record \in Seq(Int)
    BY <1>2
  <2> QED
    BY <1>2, <1>3, <1>4, <2>1, <2>2 DEF ReadInv, AwaitFirst
<1> QED
  BY <1>5, <1>6, <1>7, <1>8 DEF StreamInv

LEMMA StreamHolds == Spec => [](SInv /\ StreamInv)
<1>1. SInv /\ StreamInv /\ [Next]_vars => StreamInv'
  <2> SUFFICES ASSUME SInv, StreamInv, [Next]_vars PROVE StreamInv'
    OBVIOUS
  <2>1. RingGives /\ Types /\ Framed /\ ThreadInv /\ LocalInv /\ ReadInv
    BY RingHolds DEF SInv, StreamInv
  <2> QED
    BY <2>1, FramedGoesOn, ThreadGoesOn, LocalGoesOn, ReadGoesOn DEF StreamInv
<1> QED
  BY <1>1, InitEstablishes, NextPreserves, StreamStarts, PTL DEF Spec

\* Storing a record is keeping it, the end of the thread closes the stream, a record read to
\* its end is delivered, and a Read that ends short tells the end.
LEMMA StreamStep ==
  ASSUME SInv, StreamInv, [Next]_vars
  PROVE  [Stream!Next]_(Stream!vars)
<1>1. RingGives /\ Types /\ LengthsKnown /\ Framed /\ ThreadInv /\ LocalInv /\ ReadInv
  BY RingHolds DEF SInv, StreamInv
<1>. DEFINE streamVars == <<accepted, got, isRunning, reader>>
<1>2. CASE UNCHANGED streamVars
  BY <1>2 DEF Stream!vars
<1>3. CASE UNCHANGED vars
  BY <1>2, <1>3 DEF vars, ringVars, threadVars, readerVars
<1>4. CASE StoreRecord
  <2>1. /\ accepted' = Append(accepted, Words(filled, writer.n)) /\ writer.n \in Nat \ {0}
        /\ filled + writer.n <= MaxWords
    BY <1>1, <1>4, RecordStored
  <2>2. isRunning /\ UNCHANGED <<isRunning, got, reader>> /\ writer.at = "fill" /\ filled \in Nat
    BY <1>1, <1>4 DEF StoreRecord, Ring!Fill, RingGives, readerVars
  <2>3. writer.n \in RecordLengths \ {0} /\ filled \in 0 .. MaxWords
    BY <1>1, <2>1, <2>2, SocketAssumption DEF LengthsKnown
  <2>4. Stream!Keep(Words(filled, writer.n))
    BY <2>1, <2>2 DEF Stream!Keep
  <2> QED
    BY <2>3, <2>4 DEF Stream!Next
<1>5. CASE ThreadExit
  <2>1. isRunning /\ isRunning' = FALSE /\ UNCHANGED <<accepted, got, reader>>
    BY <1>1, <1>5 DEF ThreadExit, Ring!Stop, readerVars, ThreadInv
  <2> QED
    BY <2>1 DEF Stream!CloseStream, Stream!Next
<1>6. CASE ThreadNext /\ ~StoreRecord /\ ~ThreadExit
  <2>1. UNCHANGED <<accepted, isRunning, got, reader>>
    BY <1>6 DEF ThreadNext, Announce, PeekFails, LeaveLoop, CountLost, Discard, ReceiveBegin, StoreFails,
       threadVars, readerVars, ringVars, Ring!Room, Ring!Drop, Ring!FailFirst, Ring!FailSecond,
       Ring!bufferVars
  <2> QED
    BY <1>2, <2>1
<1>7. CASE RefillBegin \/ RefillWake \/ RefillEnd
  <2>1. UNCHANGED <<accepted, isRunning, got, reader>>
    BY <1>7, ReaderLeaves DEF ReaderNext, RefillBegin, RefillWake, RefillEnd, readerVars
  <2> QED
    BY <1>2, <2>1
<1>8. CASE RefillNone
  <2>1. /\ UNCHANGED <<accepted, got, isRunning>> /\ ~isRunning /\ got = accepted
        /\ reader.phase # "eof" /\ reader'.phase = "eof"
    BY <1>1, <1>8, EndReached
  <2>2. Stream!End
    BY <2>1 DEF Stream!End
  <2> QED
    BY <2>2 DEF Stream!Next
<1>9. CASE FirstWord \/ MoreWords
  <2>1. /\ UNCHANGED <<accepted, isRunning>> /\ reader.phase # "eof" /\ reader'.phase # "eof"
        /\ \/ UNCHANGED got
           \/ Len(got) < Len(accepted) /\ got' = Append(got, accepted[Len(got) + 1])
    BY <1>1, <1>9, FirstWordRead, MoreWordsRead, ReaderLeaves DEF ReaderNext
  <2>2. CASE UNCHANGED got
    BY <2>1, <2>2 DEF Stream!vars
  <2>3. CASE Len(got) < Len(accepted) /\ got' = Append(got, accepted[Len(got) + 1])
    <3>1. Stream!Deliver
      BY <2>1, <2>3 DEF Stream!Deliver
    <3> QED
      BY <3>1 DEF Stream!Next
  <2> QED
    BY <2>1, <2>2, <2>3
<1> QED
  BY <1>3, <1>4, <1>5, <1>6, <1>7, <1>8, <1>9 DEF Next, ThreadNext, ReaderNext

\* So ReadRecord returns the records that were stored whole: in order, each once, none changed
\* by the records lost or cut around it, and all of them before it fails.
THEOREM ImplementsLossyStream == Spec => ImplementsStream
<1>1. Init => Stream!Init
  BY DEF Init, Ring!Init, Stream!Init, AwaitFirst
<1>2. SInv /\ StreamInv /\ [Next]_vars => [Stream!Next]_(Stream!vars)
  BY StreamStep
<1> QED
  BY <1>1, <1>2, StreamHolds, PTL DEF Spec, ImplementsStream, Stream!Spec
=============================================================================
