----------------------- MODULE CircularBuffer_proofs -----------------------
(***************************************************************************)
(* What holds of the circular buffer for every buffer length, every set of *)
(* record lengths and every set of requests.                               *)
(***************************************************************************)
EXTENDS CircularBuffer, TLAPS

\* Before the socket fails, a slot that holds a word not yet removed lies in the
\* occupied part of the buffer.
LiveWordsOccupied ==
  (isRunning /\ writer.at # "failed") =>
    \A j \in Slots : buffer[j] >= taken =>
      \E i \in 0 .. amountInBuffer - 1 : j = Wrap(Wrap(readIndex) + i)

\* The index ReadFromCircularBuffer is about to store follows the words it copied.
NextFollowsCopy ==
  (taker.at = "commit" /\ ~overran) =>
    /\ taker.next \in 0 .. BufferLength
    /\ Wrap(taker.next) = Wrap(Wrap(readIndex) + taker.n)

\* Between its critical sections the thread is running.
WriterRuns == writer.at # "idle" => isRunning

IInv == /\ TypeOK
        /\ FifoContents
        /\ FaithfulCopy
        /\ RoomStaysValid
        /\ LiveWordsOccupied
        /\ NextFollowsCopy
        /\ WriterRuns
-----------------------------------------------------------------------------
(* Arithmetic of the ring. *)

\* The local buffer is not empty and no longer than the circular buffer.
LEMMA LocalLengthRange == LocalLength \in 1 .. BufferLength
  BY BufferAssumption DEF LocalLength

\* Less than a buffer length after a slot, wrapped, there is a slot.
LEMMA WrapSlot ==
  ASSUME NEW r \in Slots, NEW i \in 0 .. BufferLength - 1
  PROVE  Wrap(r + i) \in Slots
  BY BufferAssumption DEF Wrap, Slots

\* k slots after the end of a words is a + k slots after their beginning.
LEMMA WrapAdd ==
  ASSUME NEW r \in Slots, NEW a \in 0 .. BufferLength, NEW k \in 0 .. BufferLength - a
  PROVE  Wrap(Wrap(r + a) + k) = Wrap(r + (a + k))
  BY BufferAssumption DEF Wrap, Slots

\* Two words less than a buffer length apart lie in different slots.
LEMMA WrapDistinct ==
  ASSUME NEW r \in Slots, NEW i \in 0 .. BufferLength - 1,
         NEW k \in 0 .. BufferLength - 1, Wrap(r + i) = Wrap(r + k)
  PROVE  i = k
  BY BufferAssumption DEF Wrap, Slots

\* The slots a copy of n words reads are the n oldest, or some lie outside; the
\* latter only from a full buffer.
LEMMA CopySlots ==
  ASSUME TypeOK, FifoContents, NEW n \in 1 .. amountInBuffer
  PROVE  LET next == AfterRead(n) + (n - FirstRead(n))
         IN  /\ next \in Nat
             /\ \A i \in 1 .. n : SlotRead(n, i) \in Int
             /\ \/ /\ \A i \in 1 .. n : SlotRead(n, i) = Wrap(Wrap(readIndex) + (i - 1))
                   /\ next \in 0 .. BufferLength
                   /\ Wrap(next) = Wrap(Wrap(readIndex) + n)
                \/ /\ amountInBuffer = BufferLength /\ readIndex + n > BufferLength
                   /\ \E i \in 1 .. n : SlotRead(n, i) \notin Slots
<1>. DEFINE L    == BufferLength
            r    == readIndex
            a    == amountInBuffer
            f    == FirstRead(n)
            next == AfterRead(n) + (n - f)
            P(i) == Wrap(Wrap(r) + (i - 1))
            InOrder == /\ \A i \in 1 .. n : SlotRead(n, i) = P(i)
                       /\ next \in 0 .. L
                       /\ Wrap(next) = Wrap(Wrap(r) + n)
            Outside == /\ a = L /\ r + n > L
                       /\ \E i \in 1 .. n : SlotRead(n, i) \notin Slots
<1>1. /\ r \in 0 .. L /\ L \in Nat /\ L >= 16 /\ a \in 1 .. L /\ n \in 1 .. a
      /\ writeIndex \in 0 .. L - 1
      /\ writeIndex = Wrap(Wrap(r) + a)
  BY BufferAssumption DEF TypeOK, FifoContents, Slots
<1>2. \A i \in 1 .. n : P(i) \in Int
  BY <1>1 DEF Wrap
<1>. DEFINE Goal == /\ next \in Nat
                    /\ \A i \in 1 .. n : SlotRead(n, i) \in Int
                    /\ InOrder \/ Outside
<1>. SUFFICES Goal
  OBVIOUS
<1>. HIDE DEF P, a, InOrder, Outside
<1>3. CASE r = L
  <2>1. f = 0 /\ AfterRead(n) = 0
    BY <1>1, <1>3 DEF FirstRead, AfterRead, Least
  <2>2. InOrder
    BY <1>1, <1>3, <2>1 DEF InOrder, P, SlotRead, Wrap
  <2>. QED BY <1>1, <1>2, <1>3, <2>1, <2>2 DEF InOrder
<1>4. CASE r < L /\ r + a < L
  <2>1. Wrap(r) = r /\ writeIndex = r + a
    BY <1>1, <1>4 DEF Wrap
  <2>2. f = n /\ AfterRead(n) = r + n
    BY <1>1, <1>4, <2>1 DEF FirstRead, AfterRead, Least
  <2>3. InOrder
    BY <1>1, <1>4, <2>1, <2>2 DEF InOrder, P, SlotRead, Wrap
  <2>. QED BY <1>1, <1>2, <2>2, <2>3 DEF InOrder
<1>5. CASE r < L /\ r + a >= L /\ a < L
  <2>1. Wrap(r) = r /\ writeIndex = r + a - L /\ writeIndex < r
    BY <1>1, <1>5 DEF Wrap
  <2>2. CASE n < L - r
    <3>1. f = n /\ AfterRead(n) = r + n
      BY <1>1, <1>5, <2>1, <2>2 DEF FirstRead, AfterRead, Least
    <3>2. InOrder
      BY <1>1, <1>5, <2>1, <2>2, <3>1 DEF InOrder, P, SlotRead, Wrap
    <3>. QED BY <1>1, <1>2, <3>1, <3>2 DEF InOrder
  <2>3. CASE n >= L - r
    <3>1. f = L - r /\ AfterRead(n) = 0
      BY <1>1, <1>5, <2>1, <2>3 DEF FirstRead, AfterRead, Least
    <3>2. InOrder
      BY <1>1, <1>5, <2>1, <2>3, <3>1 DEF InOrder, P, SlotRead, Wrap
    <3>. QED BY <1>1, <1>2, <1>5, <2>3, <3>1, <3>2 DEF InOrder
  <2>. QED BY <1>1, <2>2, <2>3
<1>6. CASE r < L /\ a = L
  <2>1. Wrap(r) = r /\ writeIndex = r
    BY <1>1, <1>6 DEF Wrap
  <2>2. f = 0 /\ AfterRead(n) = r
    BY <1>1, <1>6, <2>1 DEF FirstRead, AfterRead, Least
  <2>3. \A i \in 1 .. n : SlotRead(n, i) = r + (i - 1)
    BY <1>1, <2>2 DEF SlotRead
  <2>4. CASE r + n <= L
    <3>1. InOrder
      BY <1>1, <1>6, <2>1, <2>2, <2>3, <2>4 DEF InOrder, P, Wrap
    <3>. QED BY <1>1, <1>2, <2>2, <3>1 DEF InOrder
  <2>5. CASE r + n > L
    <3>1. SlotRead(n, n) \notin Slots
      BY <1>1, <2>3, <2>5 DEF Slots
    <3>2. Outside
      BY <1>1, <1>6, <2>5, <3>1 DEF Outside
    <3>. QED BY <1>1, <2>2, <2>3, <3>2
  <2>. QED BY <1>1, <2>4, <2>5
<1>. QED BY <1>1, <1>3, <1>4, <1>5, <1>6
-----------------------------------------------------------------------------
(* Storing words. *)

\* The k words stored from writeIndex lie where Wrap says, and nothing else
\* changes; nothing stored so lies in the occupied part.
LEMMA StoredApart ==
  ASSUME TypeOK, FifoContents, NEW k \in 0 .. BufferLength - amountInBuffer,
         NEW d \in 0 .. k - 1, NEW i \in 0 .. amountInBuffer - 1
  PROVE  Wrap(writeIndex + d) # Wrap(Wrap(readIndex) + i)
<1>1. /\ Wrap(readIndex) \in Slots /\ BufferLength \in Nat /\ BufferLength >= 16
      /\ amountInBuffer \in 0 .. BufferLength
      /\ writeIndex = Wrap(Wrap(readIndex) + amountInBuffer)
  BY BufferAssumption DEF TypeOK, FifoContents, Wrap, Slots
<1>2. Wrap(writeIndex + d) = Wrap(Wrap(readIndex) + (amountInBuffer + d))
  BY <1>1, WrapAdd
<1>3. amountInBuffer + d \in 0 .. BufferLength - 1 /\ i \in 0 .. BufferLength - 1
      /\ amountInBuffer + d # i
  BY <1>1
<1>. QED BY <1>1, <1>2, <1>3, WrapDistinct

\* What is left of the invariant to show after words have been stored: the new
\* buffer b holds c more words, and what else it holds lies outside the old
\* occupied part.
LEMMA Appended ==
  ASSUME TypeOK, FifoContents, NEW c \in 0 .. BufferLength - amountInBuffer,
         NEW b \in [Slots -> Int],
         \A d \in 0 .. c - 1 : b[Wrap(writeIndex + d)] = filled + d,
         \A j \in Slots : b[j] # buffer[j] =>
            \E d \in 0 .. BufferLength - amountInBuffer - 1 : j = Wrap(writeIndex + d),
         buffer' = b, writeIndex' = Wrap(writeIndex + c),
         amountInBuffer' = amountInBuffer + c, filled' = filled + c,
         UNCHANGED <<readIndex, taken>>
  PROVE  FifoContents'
<1>. DEFINE L == BufferLength
            a == amountInBuffer
            r == Wrap(readIndex)
<1>1. /\ r \in Slots /\ L \in Nat /\ L >= 16 /\ a \in 0 .. L /\ c \in 0 .. L - a
      /\ writeIndex = Wrap(r + a) /\ writeIndex \in Slots
      /\ filled \in Nat /\ taken \in Nat /\ a = filled - taken
  BY BufferAssumption DEF TypeOK, FifoContents, Wrap, Slots
<1>2. Wrap(writeIndex + c) = Wrap(r + (a + c))
  BY <1>1, WrapAdd
<1>3. ASSUME NEW i \in 0 .. a + c - 1
      PROVE  b[Wrap(r + i)] = taken + i
  <2>1. CASE i < a
    <3>1. i \in 0 .. a - 1 /\ i \in 0 .. L - 1
      BY <1>1, <2>1
    <3>2. Wrap(r + i) \in Slots
      BY <1>1, <3>1, WrapSlot
    <3>3. \A d \in 0 .. L - a - 1 : Wrap(r + i) # Wrap(writeIndex + d)
      <4>1. L - a \in 0 .. BufferLength - amountInBuffer
        BY <1>1
      <4>. QED BY <3>1, <4>1, StoredApart
    <3>4. b[Wrap(r + i)] = buffer[Wrap(r + i)]
      BY <3>1, <3>2, <3>3
    <3>. QED BY <3>1, <3>4 DEF FifoContents
  <2>2. CASE i >= a
    <3>1. i - a \in 0 .. c - 1 /\ i = a + (i - a)
      BY <1>1, <2>2
    <3>2. Wrap(writeIndex + (i - a)) = Wrap(r + i)
      BY <1>1, <3>1, WrapAdd
    <3>3. b[Wrap(r + i)] = filled + (i - a)
      BY <3>1, <3>2
    <3>. QED BY <1>1, <3>3
  <2>. QED BY <1>1, <2>1, <2>2
<1>4. amountInBuffer' = filled' - taken'
  BY <1>1
<1>5. writeIndex' = Wrap(r + (a + c))
  BY <1>2
<1>. QED BY <1>3, <1>4, <1>5 DEF FifoContents, Wrap

\* What SocketReadoutThread's two stores leave in the buffer: p words from
\* writeIndex, then q more from where the index is after them.
LEMMA TwoStores ==
  ASSUME TypeOK, NEW p \in 0 .. BufferLength - writeIndex, NEW q \in Nat,
         q > 0 => p = BufferLength - writeIndex, p + q <= BufferLength,
         NEW s, s = IF writeIndex + p = BufferLength THEN 0 ELSE writeIndex + p,
         NEW b, b = Store(Store(buffer, writeIndex, p, filled), s, q, filled + p)
  PROVE  /\ b \in [Slots -> Int]
         /\ s \in Slots /\ s = Wrap(writeIndex + p) /\ s + q = Wrap(writeIndex + (p + q))
         /\ \A d \in 0 .. p + q - 1 : b[Wrap(writeIndex + d)] = filled + d
         /\ \A j \in Slots : b[j] # buffer[j] =>
              \E d \in 0 .. p + q - 1 : j = Wrap(writeIndex + d)
<1>. DEFINE L == BufferLength
            w == writeIndex
<1>1. /\ L \in Nat /\ L >= 16 /\ w \in 0 .. L - 1 /\ filled \in Nat
      /\ buffer \in [Slots -> Int]
  BY BufferAssumption DEF TypeOK, Slots
<1>2. /\ s \in Slots /\ s = Wrap(w + p) /\ s + q = Wrap(w + (p + q))
      /\ q > 0 => s = 0 /\ w + p = L
  BY <1>1 DEF Wrap, Slots
<1>3. \A j \in Slots :
        b[j] = IF s <= j /\ j < s + q THEN filled + p + (j - s)
               ELSE IF w <= j /\ j < w + p THEN filled + (j - w) ELSE buffer[j]
  BY DEF Store
<1>4. b \in [Slots -> Int]
  BY <1>1, <1>2 DEF Store, Slots
<1>5. ASSUME NEW d \in 0 .. p + q - 1
      PROVE  b[Wrap(w + d)] = filled + d
  <2>1. CASE d < p
    <3>1. Wrap(w + d) = w + d /\ w + d \in Slots
      BY <1>1, <2>1 DEF Wrap, Slots
    <3>2. ~(s <= w + d /\ w + d < s + q)
      BY <1>1, <1>2, <2>1
    <3>. QED BY <1>1, <1>3, <2>1, <3>1, <3>2
  <2>2. CASE d >= p
    <3>1. q > 0 /\ s = 0 /\ w + p = L
      BY <1>1, <1>2, <2>2
    <3>2. Wrap(w + d) = d - p /\ d - p \in Slots
      BY <1>1, <2>2, <3>1 DEF Wrap, Slots
    <3>3. s <= d - p /\ d - p < s + q
      BY <1>1, <2>2, <3>1
    <3>. QED BY <1>1, <1>3, <2>2, <3>1, <3>2, <3>3
  <2>. QED BY <1>1, <2>1, <2>2
<1>6. ASSUME NEW j \in Slots, b[j] # buffer[j]
      PROVE  \E d \in 0 .. p + q - 1 : j = Wrap(w + d)
  <2>1. CASE s <= j /\ j < s + q
    <3>1. p + j \in 0 .. p + q - 1 /\ j = Wrap(w + (p + j))
      BY <1>1, <1>2, <2>1 DEF Wrap, Slots
    <3>. QED BY <3>1
  <2>2. CASE w <= j /\ j < w + p
    <3>1. j - w \in 0 .. p + q - 1 /\ j = Wrap(w + (j - w))
      BY <1>1, <2>2 DEF Wrap, Slots
    <3>. QED BY <3>1
  <2>. QED BY <1>3, <1>6, <2>1, <2>2
<1>. QED BY <1>2, <1>4, <1>5, <1>6
-----------------------------------------------------------------------------
(* The steps of SocketReadoutThread. *)

\* Measuring the room under the read lock makes the measurement true.
LEMMA RoomStep ==
  ASSUME IInv, NEW n \in RecordLengths, Room(n)
  PROVE  IInv'
<1>1. n \in Nat
  BY BufferAssumption
<1>2. UNCHANGED <<buffer, amountInBuffer, writeIndex, readIndex, isRunning, lostLongCount,
                  taker, localBuffer, overran, filled, taken, discarded, noticed>>
  BY DEF Room, bufferVars, historyVars
<1>3. /\ FirstWrite \in Nat
      /\ n <= BufferLength - amountInBuffer =>
           Least(FirstWrite, n) = Least(BufferLength - writeIndex, n)
  <2>1. /\ readIndex \in 0 .. BufferLength /\ writeIndex \in 0 .. BufferLength - 1
        /\ amountInBuffer \in 0 .. BufferLength /\ BufferLength \in Nat
        /\ writeIndex = Wrap(Wrap(readIndex) + amountInBuffer)
    BY BufferAssumption DEF IInv, TypeOK, FifoContents, Slots
  <2>. QED BY <1>1, <2>1 DEF FirstWrite, Least, Wrap
<1>4. /\ writer' = IF BufferLength - amountInBuffer < n
                     THEN [at |-> "drop", n |-> n, first |-> 0]
                     ELSE [at |-> "fill", n |-> n, first |-> Least(FirstWrite, n)]
      /\ writer.at = "idle"
      /\ amountInBuffer \in Nat /\ BufferLength \in Nat
  BY BufferAssumption DEF Room, IInv, TypeOK
<1>5. RoomStaysValid'
  BY <1>1, <1>2, <1>3, <1>4 DEF RoomStaysValid, Least
<1>6. TypeOK'
  <2>1. writer' \in [at : {"idle", "fill", "drop", "failed"}, n : Nat, first : Nat]
    BY <1>1, <1>3, <1>4 DEF Least
  <2>. QED BY <1>2, <2>1 DEF IInv, TypeOK
<1>7. FifoContents' /\ FaithfulCopy' /\ NextFollowsCopy'
  BY <1>2 DEF IInv, FifoContents, FaithfulCopy, NextFollowsCopy
<1>8. LiveWordsOccupied'
  BY <1>2, <1>4 DEF IInv, LiveWordsOccupied
<1>9. WriterRuns'
  BY <1>2 DEF Room, WriterRuns
<1>. QED BY <1>5, <1>6, <1>7, <1>8, <1>9 DEF IInv

\* Counting a lost record touches nothing the invariant speaks of.
LEMMA DropStep ==
  ASSUME IInv, Drop
  PROVE  IInv'
<1>1. UNCHANGED <<buffer, amountInBuffer, writeIndex, readIndex, isRunning,
                  taker, localBuffer, overran, filled, taken, noticed>>
  BY DEF Drop, bufferVars
<1>2. /\ lostLongCount' \in Nat /\ discarded' \in Nat
      /\ writer' = NoWriter /\ writer.at = "drop"
  BY SMTT(30) DEF Drop, IInv, TypeOK
<1>3. TypeOK' /\ RoomStaysValid'
  BY <1>1, <1>2 DEF IInv, TypeOK, RoomStaysValid, NoWriter
<1>4. FifoContents' /\ FaithfulCopy' /\ NextFollowsCopy'
  BY <1>1 DEF IInv, FifoContents, FaithfulCopy, NextFollowsCopy
<1>5. LiveWordsOccupied'
  BY <1>1, <1>2 DEF IInv, LiveWordsOccupied, NoWriter, WriterRuns
<1>6. WriterRuns'
  BY <1>2 DEF WriterRuns, NoWriter
<1>. QED BY <1>3, <1>4, <1>5, <1>6 DEF IInv

\* What a step that stores c whole words from writeIndex keeps of the invariant;
\* the words of an interrupted second part come after them.
LEMMA StoreStep ==
  ASSUME IInv, writer.at = "fill",
         NEW p \in 0 .. writer.first, NEW q \in Nat, NEW c \in 0 .. p + q,
         q > 0 => p = writer.first /\ writer.first < writer.n,
         p + q <= writer.n,
         NEW s, s = IF writeIndex + p = BufferLength THEN 0 ELSE writeIndex + p,
         buffer' = Store(Store(buffer, writeIndex, p, filled), s, q, filled + p),
         writeIndex' = Wrap(writeIndex + c),
         amountInBuffer' = amountInBuffer + c, filled' = filled + c,
         UNCHANGED <<readIndex, lostLongCount, isRunning, taker, localBuffer, overran,
                     taken, discarded, noticed>>,
         writer'.at # "fill",
         writer' \in [at : {"idle", "fill", "drop", "failed"}, n : Nat, first : Nat],
         writer'.at # "failed" => c = p + q
  PROVE  /\ IInv'
         /\ \A j \in Slots : buffer'[j] # buffer[j] => buffer[j] < taken
<1>. DEFINE L == BufferLength
            a == amountInBuffer
            w == writeIndex
            r == Wrap(readIndex)
            b == Store(Store(buffer, w, p, filled), s, q, filled + p)
<1>1. /\ L \in Nat /\ L >= 16 /\ a \in 0 .. L /\ w \in 0 .. L - 1 /\ r \in Slots
      /\ filled \in Nat /\ taken \in Nat /\ a = filled - taken /\ w = Wrap(r + a)
      /\ writer.n \in Nat /\ writer.first \in Nat
      /\ writer.n <= L - a /\ writer.first = Least(L - w, writer.n)
  BY SMTT(30), BufferAssumption DEF IInv, TypeOK, FifoContents, RoomStaysValid, Slots, Wrap
<1>2. /\ p \in 0 .. L - w /\ (q > 0 => p = L - w) /\ p + q <= L - a
  BY <1>1 DEF Least
<1>3. /\ b \in [Slots -> Int]
      /\ \A d \in 0 .. p + q - 1 : b[Wrap(w + d)] = filled + d
      /\ \A j \in Slots : b[j] # buffer[j] =>
           \E d \in 0 .. p + q - 1 : j = Wrap(w + d)
  <2>1. TypeOK /\ p + q <= BufferLength
    BY <1>1, <1>2 DEF IInv
  <2>. HIDE DEF b
  <2>2. b = Store(Store(buffer, w, p, filled), s, q, filled + p)
    BY DEF b
  <2>. QED BY <1>2, <2>1, <2>2, TwoStores
<1>. HIDE DEF b
<1>4. buffer' = b
  BY DEF b
<1>5. FifoContents'
  <2>1. TypeOK /\ FifoContents /\ c \in 0 .. BufferLength - amountInBuffer
    BY <1>1, <1>2 DEF IInv
  <2>2. \A d \in 0 .. c - 1 : b[Wrap(w + d)] = filled + d
    BY <1>1, <1>2, <1>3
  <2>3. \A j \in Slots : b[j] # buffer[j] =>
          \E d \in 0 .. BufferLength - amountInBuffer - 1 : j = Wrap(w + d)
    BY <1>1, <1>2, <1>3
  <2>. QED BY <1>3, <1>4, <2>1, <2>2, <2>3, Appended
<1>6. TypeOK'
  <2>1. Wrap(w + c) \in Slots /\ a + c \in 0 .. L /\ filled + c \in Nat
    BY <1>1, <1>2 DEF Wrap, Slots
  <2>. QED BY <1>3, <1>4, <2>1 DEF IInv, TypeOK
<1>7. RoomStaysValid'
  BY DEF RoomStaysValid
<1>8. FaithfulCopy'
  <2>1. taker.n \in Nat /\ amountInBuffer' \in Nat /\ amountInBuffer' >= amountInBuffer
        /\ amountInBuffer \in Nat
    BY <1>1, <1>2 DEF IInv, TypeOK
  <2>2. SUFFICES ASSUME taker.at = "commit", ~overran
                 PROVE  /\ taker.n = Len(localBuffer) /\ taker.n <= amountInBuffer'
                        /\ \A i \in 1 .. taker.n : localBuffer[i] = taken + i - 1
    BY DEF FaithfulCopy
  <2>3. /\ taker.n = Len(localBuffer) /\ taker.n <= amountInBuffer
        /\ \A i \in 1 .. taker.n : localBuffer[i] = taken + i - 1
    BY <2>2 DEF IInv, FaithfulCopy
  <2>. QED BY <2>1, <2>3
<1>9. NextFollowsCopy'
  BY DEF IInv, NextFollowsCopy, Wrap
<1>10. LiveWordsOccupied'
  <2>1. /\ buffer' = b /\ isRunning' = isRunning /\ taken' = taken
        /\ amountInBuffer' = a + c /\ readIndex' = readIndex
    BY <1>4
  <2>. SUFFICES ASSUME isRunning', writer'.at # "failed", NEW j \in Slots, buffer'[j] >= taken'
                PROVE  \E i \in 0 .. amountInBuffer' - 1 : j = Wrap(Wrap(readIndex') + i)
    BY DEF LiveWordsOccupied
  <2>. SUFFICES ASSUME \A i \in 0 .. a + c - 1 : j # Wrap(r + i) PROVE FALSE
    BY <1>1, <2>1
  <2>2. CASE b[j] = buffer[j]
    <3>1. \E i \in 0 .. a - 1 : j = Wrap(r + i)
      BY <2>1, <2>2 DEF IInv, LiveWordsOccupied
    <3>. QED BY <1>1, <1>2, <3>1
  <2>3. CASE b[j] # buffer[j]
    <3>1. PICK d \in 0 .. c - 1 : j = Wrap(w + d)
      BY <1>3, <2>1, <2>3
    <3>2. a + d \in 0 .. a + c - 1 /\ d \in 0 .. L - a
      BY <1>1, <1>2
    <3>3. Wrap(w + d) = Wrap(r + (a + d))
      BY <1>1, <3>2, WrapAdd
    <3>. QED BY <3>1, <3>2, <3>3
  <2>. QED BY <2>2, <2>3
<1>11. WriterRuns'
  BY DEF IInv, WriterRuns
<1>12. ASSUME NEW j \in Slots, buffer'[j] # buffer[j]
       PROVE  buffer[j] < taken
  <2>1. isRunning /\ buffer[j] \in Int
    BY DEF IInv, WriterRuns, TypeOK
  <2>2. PICK d \in 0 .. p + q - 1 : j = Wrap(w + d)
    BY <1>3, <1>4, <1>12
  <2>3. \A i \in 0 .. amountInBuffer - 1 : j # Wrap(Wrap(readIndex) + i)
    <3>1. TypeOK /\ FifoContents /\ p + q \in 0 .. BufferLength - amountInBuffer
      BY <1>1, <1>2 DEF IInv
    <3>. QED BY <2>2, <3>1, StoredApart
  <2>4. ~(buffer[j] >= taken)
    BY <2>1, <2>3 DEF IInv, LiveWordsOccupied
  <2>. QED BY <1>1, <2>1, <2>4
<1>. QED BY <1>5, <1>6, <1>7, <1>8, <1>9, <1>10, <1>11, <1>12 DEF IInv

\* Receiving the whole record.
LEMMA FillStep ==
  ASSUME IInv, Fill
  PROVE  /\ IInv'
         /\ \A j \in Slots : buffer'[j] # buffer[j] => buffer[j] < taken
<1>. DEFINE p == writer.first
            q == Second
<1>1. /\ BufferLength \in Nat /\ writeIndex \in 0 .. BufferLength - 1
      /\ writer.n \in Nat /\ writer.first \in Nat /\ writer.at = "fill"
      /\ amountInBuffer \in 0 .. BufferLength
      /\ writer.n <= BufferLength - amountInBuffer
      /\ writer.first = Least(BufferLength - writeIndex, writer.n)
  BY BufferAssumption DEF Fill, IInv, TypeOK, RoomStaysValid, Slots
<1>2. /\ p \in 0 .. writer.first /\ q \in Nat /\ writer.n \in 0 .. p + q
      /\ (q > 0 => p = writer.first /\ writer.first < writer.n)
      /\ p + q <= writer.n
      /\ AfterFirst + q = Wrap(writeIndex + writer.n)
      /\ writer.n = p + q
  BY <1>1 DEF Second, AfterFirst, Least, Wrap
<1>3. /\ buffer' = Store(Store(buffer, writeIndex, p, filled), AfterFirst, q, filled + p)
      /\ AfterFirst = IF writeIndex + p = BufferLength THEN 0 ELSE writeIndex + p
      /\ writeIndex' = Wrap(writeIndex + writer.n)
      /\ amountInBuffer' = amountInBuffer + writer.n /\ filled' = filled + writer.n
      /\ UNCHANGED <<readIndex, lostLongCount, isRunning, taker, localBuffer, overran,
                      taken, discarded, noticed>>
  BY <1>2 DEF Fill, FirstStored, AfterFirst
<1>4. /\ writer'.at # "fill"
      /\ writer' \in [at : {"idle", "fill", "drop", "failed"}, n : Nat, first : Nat]
  BY DEF Fill, NoWriter
<1>. HIDE DEF p, q
<1>. QED BY <1>1, <1>2, <1>3, <1>4, StoreStep

\* The socket fails in the second part of a record that wraps.
LEMMA FailSecondStep ==
  ASSUME IInv, NEW k \in 0 .. BufferLength, FailSecond(k)
  PROVE  /\ IInv'
         /\ \A j \in Slots : buffer'[j] # buffer[j] => buffer[j] < taken
<1>. DEFINE p == writer.first
<1>1. /\ BufferLength \in Nat /\ writeIndex \in 0 .. BufferLength - 1
      /\ writer.n \in Nat /\ writer.first \in Nat /\ writer.at = "fill"
      /\ amountInBuffer \in 0 .. BufferLength
      /\ writer.n <= BufferLength - amountInBuffer
      /\ writer.first = Least(BufferLength - writeIndex, writer.n)
      /\ k < writer.n - writer.first /\ k \in Nat
  BY BufferAssumption DEF FailSecond, Second, IInv, TypeOK, RoomStaysValid, Slots
<1>2. /\ p \in 0 .. writer.first /\ p \in 0 .. p + k
      /\ (k > 0 => p = writer.first /\ writer.first < writer.n)
      /\ p + k <= writer.n
      /\ AfterFirst = Wrap(writeIndex + p)
  BY <1>1 DEF AfterFirst, Least, Wrap
<1>3. /\ buffer' = Store(Store(buffer, writeIndex, p, filled), AfterFirst, k, filled + p)
      /\ AfterFirst = IF writeIndex + p = BufferLength THEN 0 ELSE writeIndex + p
      /\ writeIndex' = Wrap(writeIndex + p)
      /\ amountInBuffer' = amountInBuffer + p /\ filled' = filled + p
      /\ UNCHANGED <<readIndex, lostLongCount, isRunning, taker, localBuffer, overran,
                      taken, discarded, noticed>>
  BY <1>2 DEF FailSecond, FirstStored, AfterFirst
<1>4. /\ writer'.at = "failed"
      /\ writer' \in [at : {"idle", "fill", "drop", "failed"}, n : Nat, first : Nat]
  BY DEF FailSecond, IInv, TypeOK
<1>. HIDE DEF p
<1>. QED BY <1>1, <1>2, <1>3, <1>4, StoreStep

\* The socket fails in the first part of a record.
LEMMA FailFirstStep ==
  ASSUME IInv, NEW k \in 0 .. BufferLength, FailFirst(k)
  PROVE  /\ IInv'
         /\ \A j \in Slots : buffer'[j] # buffer[j] => buffer[j] < taken
<1>. DEFINE s == IF writeIndex + k = BufferLength THEN 0 ELSE writeIndex + k
<1>1. /\ BufferLength \in Nat /\ writeIndex \in 0 .. BufferLength - 1
      /\ writer.n \in Nat /\ writer.first \in Nat /\ writer.at = "fill"
      /\ amountInBuffer \in 0 .. BufferLength /\ filled \in Nat
      /\ writer.first = Least(BufferLength - writeIndex, writer.n)
      /\ k \in 0 .. writer.first
  <2>1. BufferLength \in Nat /\ writer.at = "fill" /\ writer.first \in Nat
    BY BufferAssumption DEF FailFirst, IInv, TypeOK
  <2>2. k \in 0 .. writer.first
    BY <2>1 DEF FailFirst
  <2>. QED BY <2>1, <2>2 DEF IInv, TypeOK, RoomStaysValid, Slots
<1>2. /\ 0 \in 0 .. k + 0 /\ k + 0 <= writer.n
      /\ writeIndex = Wrap(writeIndex + 0)
  <2>1. writer.first <= writer.n
    BY <1>1 DEF Least
  <2>2. 0 \in 0 .. k + 0 /\ k + 0 <= writer.n
    BY <1>1, <2>1
  <2>3. writeIndex = Wrap(writeIndex + 0)
    BY <1>1 DEF Wrap
  <2>. QED BY <2>2, <2>3
<1>3. buffer' = Store(Store(buffer, writeIndex, k, filled), s, 0, filled + k)
  <2>1. /\ buffer' = Store(buffer, writeIndex, k, filled)
        /\ s \in Int
    BY <1>1 DEF FailFirst
  <2>. QED BY <2>1 DEF Store, Slots
<1>4. /\ writeIndex' = Wrap(writeIndex + 0)
      /\ amountInBuffer' = amountInBuffer + 0 /\ filled' = filled + 0
      /\ UNCHANGED <<readIndex, lostLongCount, isRunning, taker, localBuffer, overran,
                      taken, discarded, noticed>>
  BY <1>1, <1>2 DEF FailFirst, historyVars
<1>5. /\ writer'.at = "failed"
      /\ writer' \in [at : {"idle", "fill", "drop", "failed"}, n : Nat, first : Nat]
  BY DEF FailFirst, IInv, TypeOK
<1>. HIDE DEF s
<1>6. s = IF writeIndex + k = BufferLength THEN 0 ELSE writeIndex + k
  BY DEF s
<1>. QED BY <1>1, <1>2, <1>3, <1>4, <1>5, <1>6, StoreStep

\* The thread leaves.
LEMMA StopStep ==
  ASSUME IInv, Stop
  PROVE  IInv'
<1>1. UNCHANGED <<buffer, amountInBuffer, writeIndex, readIndex, lostLongCount,
                  taker, localBuffer, overran, filled, taken, discarded, noticed>>
  BY DEF Stop, historyVars
<1>2. isRunning' = FALSE /\ writer' = NoWriter
  BY DEF Stop
<1>3. TypeOK' /\ RoomStaysValid'
  BY <1>1, <1>2 DEF IInv, TypeOK, RoomStaysValid, NoWriter
<1>4. FifoContents' /\ FaithfulCopy' /\ NextFollowsCopy'
  BY <1>1 DEF IInv, FifoContents, FaithfulCopy, NextFollowsCopy
<1>5. LiveWordsOccupied'
  BY <1>2 DEF LiveWordsOccupied
<1>6. WriterRuns'
  BY <1>2 DEF WriterRuns, NoWriter
<1>. QED BY <1>3, <1>4, <1>5, <1>6 DEF IInv
-----------------------------------------------------------------------------
(* The steps of ReadFromCircularBuffer. *)

\* Copying words out: the oldest ones, or memory outside the buffer is read.
LEMMA CopyStep ==
  ASSUME IInv, ~overran, NEW n \in 1 .. amountInBuffer, Copy(n)
  PROVE  /\ IInv'
         /\ overran' => amountInBuffer = BufferLength /\ readIndex + n > BufferLength
<1>. DEFINE next    == AfterRead(n) + (n - FirstRead(n))
            slot(i) == SlotRead(n, i)
<1>1. UNCHANGED <<buffer, amountInBuffer, writeIndex, readIndex, isRunning,
                  lostLongCount, writer, filled, taken, discarded>>
  BY DEF Copy, bufferVars
<1>2. /\ localBuffer' = [i \in 1 .. n |-> IF slot(i) \in Slots
                                            THEN buffer[slot(i)] ELSE Garbage]
      /\ overran' = \E i \in 1 .. n : slot(i) \notin Slots
      /\ noticed' = noticed + lostLongCount
      /\ taker' = [taker EXCEPT !.at = "commit", !.n = n, !.next = next]
  BY DEF Copy
<1>3. /\ n \in Nat /\ n <= amountInBuffer /\ amountInBuffer \in Nat
      /\ buffer \in [Slots -> Int] /\ Wrap(readIndex) \in Slots
      /\ amountInBuffer \in 0 .. BufferLength
      /\ BufferLength \in Nat
      /\ taken \in Nat
  BY BufferAssumption DEF IInv, TypeOK, Wrap, Slots
<1>4. /\ next \in Nat
      /\ \/ /\ \A i \in 1 .. n : slot(i) = Wrap(Wrap(readIndex) + (i - 1))
            /\ next \in 0 .. BufferLength
            /\ Wrap(next) = Wrap(Wrap(readIndex) + n)
         \/ /\ amountInBuffer = BufferLength /\ readIndex + n > BufferLength
            /\ \E i \in 1 .. n : slot(i) \notin Slots
  BY CopySlots DEF IInv
<1>. HIDE DEF next, slot
<1>5. TypeOK'
  <2>1. taker' \in [at : {"idle", "sleep", "commit"}, n : Nat, next : Nat, min : Nat]
    BY <1>2, <1>3, <1>4 DEF IInv, TypeOK
  <2>2. localBuffer' \in Seq(Int)
    <3>1. \A i \in 1 .. n :
            (IF slot(i) \in Slots THEN buffer[slot(i)] ELSE Garbage) \in Int
      BY <1>3 DEF Garbage
    <3>. QED BY <1>2, <1>3, <3>1
  <2>3. overran' \in BOOLEAN /\ noticed' \in Nat
    BY SMTT(30), <1>2 DEF IInv, TypeOK
  <2>. QED BY <1>1, <2>1, <2>2, <2>3 DEF IInv, TypeOK
<1>6. FifoContents' /\ RoomStaysValid' /\ LiveWordsOccupied' /\ WriterRuns'
  BY <1>1 DEF IInv, FifoContents, RoomStaysValid, LiveWordsOccupied, WriterRuns
<1>7. CASE overran'
  <2>1. FaithfulCopy' /\ NextFollowsCopy'
    BY <1>7 DEF FaithfulCopy, NextFollowsCopy
  <2>2. amountInBuffer = BufferLength /\ readIndex + n > BufferLength
    <3>1. CASE \A i \in 1 .. n : slot(i) = Wrap(Wrap(readIndex) + (i - 1))
      <4>1. PICK i \in 1 .. n : slot(i) \notin Slots
        BY <1>2, <1>7
      <4>2. i - 1 \in 0 .. BufferLength - 1
        BY <1>3
      <4>3. Wrap(Wrap(readIndex) + (i - 1)) \in Slots
        BY <1>3, <4>2, WrapSlot
      <4>. QED BY <3>1, <4>1, <4>3
    <3>. QED BY <1>4, <3>1
  <2>. QED BY <1>5, <1>6, <2>1, <2>2 DEF IInv
<1>8. CASE ~overran'
  <2>1. /\ \A i \in 1 .. n : slot(i) \in Slots
        /\ \A i \in 1 .. n : slot(i) = Wrap(Wrap(readIndex) + (i - 1))
        /\ next \in 0 .. BufferLength
        /\ Wrap(next) = Wrap(Wrap(readIndex) + n)
    BY <1>2, <1>4, <1>8
  <2>2. taker'.n = n /\ taker'.next = next
    BY <1>2 DEF IInv, TypeOK
  <2>3. NextFollowsCopy'
    BY <1>1, <2>1, <2>2 DEF NextFollowsCopy
  <2>4. ASSUME NEW i \in 1 .. n
        PROVE  localBuffer'[i] = taken + i - 1
    <3>1. i - 1 \in 0 .. amountInBuffer - 1
      BY <1>3
    <3>2. buffer[Wrap(Wrap(readIndex) + (i - 1))] = taken + (i - 1)
      BY <3>1 DEF IInv, FifoContents
    <3>3. localBuffer'[i] = buffer[slot(i)]
      BY <1>2, <2>1
    <3>. QED BY <1>3, <2>1, <3>2, <3>3
  <2>5. Len(localBuffer') = n
    BY <1>2, <1>3
  <2>6. FaithfulCopy'
    BY <1>1, <1>3, <2>2, <2>4, <2>5 DEF FaithfulCopy
  <2>. QED BY <1>5, <1>6, <1>8, <2>3, <2>6 DEF IInv
<1>. QED BY <1>7, <1>8

\* The first look at the buffer, and a look after a sleep.
LEMMA LookStep ==
  ASSUME IInv, (\E min \in Requests : Check(min)) \/ Wake
  PROVE  /\ IInv'
         /\ overran' => \/ overran
                       \/ /\ amountInBuffer = BufferLength
                          /\ readIndex + LocalLength > BufferLength
<1>1. /\ amountInBuffer \in Nat /\ BufferLength \in Nat /\ BufferLength >= 16
      /\ LocalLength \in 1 .. BufferLength /\ readIndex \in Nat
  BY BufferAssumption, LocalLengthRange DEF IInv, TypeOK
<1>2. CASE LocalLength <= amountInBuffer /\ ~overran /\ Copy(LocalLength)
  <2>1. LocalLength \in 1 .. amountInBuffer
    BY <1>1, <1>2
  <2>. QED BY <1>2, <2>1, CopyStep
<1>3. CASE /\ LocalLength > amountInBuffer /\ amountInBuffer > 0
           /\ ~overran /\ Copy(amountInBuffer)
  <2>1. amountInBuffer \in 1 .. amountInBuffer /\ amountInBuffer # BufferLength
    BY <1>1, <1>3
  <2>2. IInv' /\ (overran' => amountInBuffer = BufferLength)
    BY <1>3, <2>1, CopyStep
  <2>. QED BY <2>1, <2>2
<1>4. ASSUME NEW min \in Requests, ~overran,
             taker' = [NoTaker EXCEPT !.at = "sleep", !.min = min],
             UNCHANGED <<bufferVars, historyVars, lostLongCount, writer,
                         localBuffer, overran>>
      PROVE  IInv' /\ ~overran'
  <2>1. /\ taker' \in [at : {"idle", "sleep", "commit"}, n : Nat, next : Nat, min : Nat]
        /\ taker'.at = "sleep"
    BY <1>4, BufferAssumption DEF NoTaker
  <2>2. UNCHANGED <<buffer, amountInBuffer, writeIndex, readIndex, isRunning, lostLongCount,
                    writer, localBuffer, overran, filled, taken, discarded, noticed>>
    BY <1>4 DEF bufferVars, historyVars
  <2>3. TypeOK'
    BY <2>1, <2>2 DEF IInv, TypeOK
  <2>4. FifoContents' /\ RoomStaysValid' /\ LiveWordsOccupied' /\ WriterRuns'
    BY <2>2 DEF IInv, FifoContents, RoomStaysValid, LiveWordsOccupied, WriterRuns
  <2>5. FaithfulCopy' /\ NextFollowsCopy'
    BY <2>1 DEF FaithfulCopy, NextFollowsCopy
  <2>. QED BY <1>4, <2>2, <2>3, <2>4, <2>5 DEF IInv
<1>5. CASE \E min \in Requests : Check(min)
  BY <1>2, <1>4, <1>5 DEF Check
<1>6. CASE Wake
  BY <1>2, <1>3, <1>6 DEF Wake
<1>. QED BY <1>5, <1>6

\* The end of the data.
LEMMA WakeEmptyStep ==
  ASSUME IInv, WakeEmpty
  PROVE  IInv'
<1>1. UNCHANGED <<buffer, amountInBuffer, writeIndex, readIndex, isRunning, lostLongCount,
                  writer, overran, filled, taken, discarded, noticed>>
  BY DEF WakeEmpty, bufferVars, historyVars
<1>2. taker' = NoTaker /\ localBuffer' = << >>
  BY DEF WakeEmpty
<1>3. TypeOK'
  BY <1>1, <1>2 DEF IInv, TypeOK, NoTaker
<1>4. FifoContents' /\ RoomStaysValid' /\ LiveWordsOccupied' /\ WriterRuns'
  BY <1>1 DEF IInv, FifoContents, RoomStaysValid, LiveWordsOccupied, WriterRuns
<1>5. FaithfulCopy' /\ NextFollowsCopy'
  BY <1>2 DEF FaithfulCopy, NextFollowsCopy, NoTaker
<1>. QED BY <1>3, <1>4, <1>5 DEF IInv

\* The copied words leave the buffer.
LEMMA CommitStep ==
  ASSUME IInv, Commit
  PROVE  IInv'
<1>. DEFINE L == BufferLength
            a == amountInBuffer
            n == taker.n
            r == Wrap(readIndex)
<1>1. /\ L \in Nat /\ a \in 0 .. L /\ n \in 0 .. a /\ r \in Slots
      /\ taken \in Nat /\ filled \in Nat /\ a = filled - taken
      /\ taker.next \in 0 .. L /\ Wrap(taker.next) = Wrap(r + n)
      /\ writeIndex = Wrap(r + a)
  <2>1. r \in Slots /\ L \in Nat
    BY BufferAssumption DEF IInv, TypeOK, Wrap, Slots
  <2>. QED BY <2>1 DEF Commit, IInv, TypeOK, FifoContents, FaithfulCopy, NextFollowsCopy
<1>2. /\ readIndex' = taker.next /\ amountInBuffer' = a - n /\ taken' = taken + n
      /\ lostLongCount' = 0 /\ taker' = NoTaker
      /\ UNCHANGED <<buffer, writeIndex, isRunning, writer, localBuffer, overran,
                      filled, discarded, noticed>>
  BY DEF Commit
<1>3. TypeOK'
  BY SMTT(30), <1>1, <1>2 DEF IInv, TypeOK, NoTaker
<1>4. ASSUME NEW i \in 0 .. a - n
      PROVE  Wrap(Wrap(taker.next) + i) = Wrap(r + (n + i))
  <2>1. n \in 0 .. BufferLength /\ i \in 0 .. BufferLength - n
    BY <1>1
  <2>. QED BY <1>1, <2>1, WrapAdd
<1>5. FifoContents'
  <2>1. amountInBuffer' = filled' - taken'
    BY <1>1, <1>2
  <2>2. writeIndex' = Wrap(Wrap(readIndex') + amountInBuffer')
    <3>1. a - n \in 0 .. a - n /\ n + (a - n) = a
      BY <1>1
    <3>2. Wrap(Wrap(taker.next) + (a - n)) = Wrap(r + a)
      BY <1>4, <3>1
    <3>. QED BY <1>1, <1>2, <3>2
  <2>3. ASSUME NEW i \in 0 .. a - n - 1
        PROVE  buffer[Wrap(Wrap(taker.next) + i)] = taken + n + i
    <3>1. i \in 0 .. a - n /\ n + i \in 0 .. a - 1
      BY <1>1
    <3>2. buffer[Wrap(r + (n + i))] = taken + (n + i)
      BY <3>1 DEF IInv, FifoContents
    <3>. QED BY <1>1, <1>4, <3>1, <3>2
  <2>. QED BY <1>2, <2>1, <2>2, <2>3 DEF FifoContents
<1>6. RoomStaysValid'
  <2>1. writer.at = "fill" =>
          /\ writer.n \in Nat /\ writer.n <= L - a
          /\ writer.first = Least(L - writeIndex, writer.n)
    BY DEF IInv, TypeOK, RoomStaysValid
  <2>2. L - a \in Int /\ L - (a - n) \in Int /\ L - a <= L - (a - n)
    BY <1>1
  <2>3. writer.at = "fill" => writer.n <= L - (a - n)
    BY <2>1, <2>2
  <2>. QED BY <1>2, <2>1, <2>3 DEF RoomStaysValid
<1>7. FaithfulCopy' /\ NextFollowsCopy'
  BY <1>2 DEF FaithfulCopy, NextFollowsCopy, NoTaker
<1>8. LiveWordsOccupied'
  <2>. SUFFICES ASSUME isRunning', writer'.at # "failed", NEW j \in Slots, buffer'[j] >= taken'
                PROVE  \E i \in 0 .. amountInBuffer' - 1 : j = Wrap(Wrap(readIndex') + i)
    BY DEF LiveWordsOccupied
  <2>1. buffer[j] >= taken + n /\ buffer[j] \in Int
    BY <1>2 DEF IInv, TypeOK
  <2>2. PICK i \in 0 .. a - 1 : j = Wrap(r + i)
    BY <1>1, <1>2, <2>1 DEF IInv, LiveWordsOccupied
  <2>3. buffer[j] = taken + i
    BY <2>2 DEF IInv, FifoContents
  <2>4. i - n \in 0 .. a - n - 1 /\ i - n \in 0 .. a - n /\ n + (i - n) = i
    BY <1>1, <2>1, <2>3
  <2>5. j = Wrap(Wrap(taker.next) + (i - n))
    BY <1>4, <2>2, <2>4
  <2>. QED BY <1>1, <1>2, <2>4, <2>5
<1>9. WriterRuns'
  BY <1>2 DEF IInv, WriterRuns
<1>. QED BY <1>3, <1>5, <1>6, <1>7, <1>8, <1>9 DEF IInv
-----------------------------------------------------------------------------
(* The results. *)

LEMMA InitEstablishes == Init => IInv
<1>. SUFFICES ASSUME Init PROVE IInv
  OBVIOUS
<1>1. BufferLength \in Nat /\ BufferLength >= 16
  BY BufferAssumption
<1>2. TypeOK
  BY <1>1 DEF Init, TypeOK, Slots, Garbage, NoWriter, NoTaker
<1>3. FifoContents
  BY <1>1 DEF Init, FifoContents, Wrap
<1>4. FaithfulCopy /\ RoomStaysValid /\ NextFollowsCopy
  BY DEF Init, FaithfulCopy, RoomStaysValid, NextFollowsCopy, NoWriter, NoTaker
<1>5. LiveWordsOccupied /\ WriterRuns
  BY DEF Init, LiveWordsOccupied, WriterRuns, Garbage, NoWriter
<1>. QED BY <1>2, <1>3, <1>4, <1>5 DEF IInv

LEMMA NextPreserves == IInv /\ [Next]_vars => IInv'
<1>. SUFFICES ASSUME IInv, [Next]_vars PROVE IInv'
  OBVIOUS
<1>1. CASE WriterNext
  BY <1>1, RoomStep, DropStep, FillStep, FailFirstStep, FailSecondStep, StopStep
     DEF WriterNext
<1>2. CASE TakerNext
  BY <1>2, LookStep, WakeEmptyStep, CommitStep DEF TakerNext
<1>3. CASE UNCHANGED vars
  BY <1>3 DEF IInv, vars, TypeOK, FifoContents, FaithfulCopy, RoomStaysValid,
              LiveWordsOccupied, NextFollowsCopy, WriterRuns
<1>. QED BY <1>1, <1>2, <1>3 DEF Next

\* The inductive invariant holds throughout.
THEOREM Invariance == Spec => []IInv
<1>1. IInv /\ [Next]_vars => IInv'
  BY NextPreserves
<1>. QED BY <1>1, InitEstablishes, PTL DEF Spec

\* The fields of the circular buffer keep their ranges: no index passes the
\* buffer's length and no count goes below zero, which size_t would wrap.
THEOREM TypeCorrect == Spec => []TypeOK
<1>1. IInv => TypeOK
  BY DEF IInv
<1>. QED BY <1>1, Invariance, PTL

\* The occupied part of the buffer always holds the words stored and not yet
\* removed, in order, whatever the two threads do between critical sections.
THEOREM ContentsCorrect == Spec => []FifoContents
<1>1. IInv => FifoContents
  BY DEF IInv
<1>. QED BY <1>1, Invariance, PTL

\* What ReadFromCircularBuffer has copied stays what it will remove.
THEOREM CopiesFaithful == Spec => []FaithfulCopy
<1>1. IInv => FaithfulCopy
  BY DEF IInv
<1>. QED BY <1>1, Invariance, PTL

\* SocketReadoutThread may act on the room it measured before it gave the lock up.
THEOREM RoomStays == Spec => []RoomStaysValid
<1>1. IInv => RoomStaysValid
  BY DEF IInv
<1>. QED BY <1>1, Invariance, PTL

\* One step from a state of the invariant leaves the buffer only when it is full.
LEMMA OverrunStep ==
  ASSUME IInv, [Next]_vars
  PROVE  overran' => \/ overran
                     \/ /\ amountInBuffer = BufferLength
                        /\ readIndex + LocalLength > BufferLength
<1>1. CASE WriterNext
  BY <1>1 DEF WriterNext, Room, Drop, Fill, FailFirst, FailSecond, Stop
<1>2. CASE (\E min \in Requests : Check(min)) \/ Wake
  BY <1>2, LookStep
<1>3. CASE WakeEmpty \/ Commit
  BY <1>3 DEF WakeEmpty, Commit
<1>4. CASE UNCHANGED vars
  BY <1>4 DEF vars
<1>. QED BY <1>1, <1>2, <1>3, <1>4 DEF Next, TakerNext

\* Reading outside the buffer needs an exactly full buffer.
THEOREM OverrunsOnlyWhenFull == Spec => OverrunOnlyWhenFull
<1>1. IInv /\ [Next]_vars => [overran' => \/ overran
                             \/ /\ amountInBuffer = BufferLength
                                /\ readIndex + LocalLength > BufferLength]_vars
  BY OverrunStep
<1>. QED BY <1>1, Invariance, PTL DEF Spec, OverrunOnlyWhenFull

\* So a buffer that never fills to the last slot is never read outside.
THEOREM NeverFullNeverOverruns ==
  Spec /\ [](amountInBuffer < BufferLength) => []NoOverrun
<1>1. IInv /\ [Next]_vars /\ NoOverrun /\ amountInBuffer < BufferLength => NoOverrun'
  BY OverrunStep, BufferAssumption DEF NoOverrun, IInv, TypeOK
<1>2. Init => NoOverrun
  BY DEF Init, NoOverrun
<1>. QED BY <1>1, <1>2, Invariance, PTL DEF Spec

\* One step from a state of the invariant overwrites no word that is still wanted.
LEMMA OverwriteStep ==
  ASSUME IInv, [Next]_vars
  PROVE  \A j \in Slots : buffer'[j] # buffer[j] => buffer[j] < taken
<1>1. CASE Fill \/ \E k \in 0 .. BufferLength : FailFirst(k) \/ FailSecond(k)
  BY <1>1, FillStep, FailFirstStep, FailSecondStep
<1>2. CASE (\E n \in RecordLengths : Room(n)) \/ Drop \/ Stop
  BY <1>2 DEF Room, Drop, Stop, bufferVars
<1>3. CASE (\E min \in Requests : Check(min)) \/ Wake \/ WakeEmpty \/ Commit
  BY <1>3 DEF Check, Wake, WakeEmpty, Commit, Copy, bufferVars
<1>4. CASE UNCHANGED vars
  BY <1>4 DEF vars
<1>. QED BY <1>1, <1>2, <1>3, <1>4 DEF Next, WriterNext, TakerNext

\* SocketReadoutThread never overwrites a word that has not been removed.
THEOREM NothingOverwritten == Spec => NoOverwrite
<1>1. IInv /\ [Next]_vars =>
        [\A j \in Slots : buffer'[j] # buffer[j] => buffer[j] < taken]_vars
  BY OverwriteStep
<1>. QED BY <1>1, Invariance, PTL DEF Spec, NoOverwrite

\* The log never reports more lost words than were lost.
THEOREM NoLossInvented == Spec => []NoPhantomLoss
<1>1. Init => NoPhantomLoss
  BY DEF Init, NoPhantomLoss, NoTaker
<1>2. IInv /\ NoPhantomLoss /\ [Next]_vars => NoPhantomLoss'
  <2>. SUFFICES ASSUME IInv, NoPhantomLoss, [Next]_vars PROVE NoPhantomLoss'
    OBVIOUS
  <2>. USE DEF NoPhantomLoss
  <2>1. /\ lostLongCount \in Nat /\ noticed \in Nat /\ discarded \in Nat
        /\ taker \in [at : {"idle", "sleep", "commit"}, n : Nat, next : Nat, min : Nat]
        /\ writer.n \in Nat
    BY DEF IInv, TypeOK
  <2>2. CASE WriterNext
    BY <2>1, <2>2 DEF WriterNext, Room, Drop, Fill, FailFirst, FailSecond, Stop, historyVars
  <2>3. ASSUME NEW n \in Nat, Copy(n), taker.at # "commit" PROVE NoPhantomLoss'
    BY <2>1, <2>3 DEF Copy
  <2>4. CASE \E min \in Requests : Check(min)
    <3>1. LocalLength \in Nat
      BY LocalLengthRange, BufferAssumption
    <3>. QED BY <2>1, <2>3, <2>4, <3>1 DEF Check, NoTaker, historyVars
  <2>5. CASE Wake
    <3>1. LocalLength \in Nat /\ amountInBuffer \in Nat
      BY LocalLengthRange, BufferAssumption DEF IInv, TypeOK
    <3>. QED BY <2>1, <2>3, <2>5, <3>1 DEF Wake
  <2>6. CASE WakeEmpty \/ Commit
    BY <2>1, <2>6 DEF WakeEmpty, Commit, NoTaker, historyVars
  <2>7. CASE UNCHANGED vars
    BY <2>7 DEF vars
  <2>. QED BY <2>2, <2>4, <2>5, <2>6, <2>7 DEF Next, TakerNext
<1>. QED BY <1>1, <1>2, Invariance, PTL DEF Spec
=============================================================================
