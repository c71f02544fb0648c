----------------------------- MODULE DGF4cEvents -----------------------------
(***************************************************************************)
(* ORDGF4cEventDecoder::SetDataRecord: it walks the events of a buffer,    *)
(* noting where each event and each of its channels begins, while it is    *)
(* inside the number of half-words that the buffer says it has, and then   *)
(* decides whether what it has found is valid.                             *)
(*                                                                         *)
(* The half-words after the buffer's head are the memory, a function; what *)
(* it reads past it is nondeterministic.  The heads are of a smaller size. *)
(***************************************************************************)
EXTENDS Integers, Sequences, FiniteSets, SequencesExt

CONSTANTS
  MaxWords,   \* bound: half-words after the buffer's head
  Values,     \* the values of a half-word
  EventHead,  \* kEventHeadLen; the code has 3
  ChanHead    \* the length of a channel with no waveform; the code has 9, 4 or 2

VARIABLES
  memory,    \* the half-words after the buffer's head, whether the buffer has them or not
  beyond,    \* what is read past them
  nData,     \* GetBufNData(), less the length of the buffer's head
  words,     \* the half-words that the record has after the buffer's head
  mode,      \* the run task: "std" (lengths in the data), "fixed" (C2, C3) or another
  events,    \* fEventPtrs, fChannelPtrs and fChannelNumbers
  fEventVector, \* pairs of an event and the index of one of its channels
  state      \* "walking", "accepted" or "rejected"

vars == <<memory, beyond, nData, words, mode, events, fEventVector, state>>

At(p)   == IF p < MaxWords THEN memory[p] ELSE beyond
Hits(v) == {c \in 0 .. 3 : (v \div 2 ^ c) % 2 = 1}

\* GetChanNData, of a channel that begins at p.
ChanNData(p) == IF mode = "std" THEN At(p) ELSE ChanHead

\* The j-th hit, counted from the lowest bit.
HitNumber(v, j) == CHOOSE c \in Hits(v) : Cardinality({d \in Hits(v) : d <= c}) = j

\* Mutant: the loop's counter, which is one past the channel.
CountedNumbers(v) == [j \in 1 .. Cardinality(Hits(v)) |-> HitNumber(v, j) + 1]

ChannelNumbers(v) == [j \in 1 .. Cardinality(Hits(v)) |-> HitNumber(v, j)]

\* FillChannelPtrs, of the event at p: one channel after the other, to the event's end.
FillChannelPtrs(p) ==
  LET n == Cardinality(Hits(At(p)))
      start[i \in 0 .. n] ==
        IF i = 0 THEN p + EventHead ELSE start[i - 1] + ChanNData(start[i - 1])
  IN  [at |-> p, numbers |-> ChannelNumbers(At(p)), starts |-> [i \in 1 .. n |-> start[i - 1]],
       end |-> start[n]]

PtrIsInDataRecord(p) == p < nData

\* GetDGFEventLen.
EventLen(i) == (IF i < Len(events) THEN events[i + 1].at ELSE nData) - events[i].at

IsValid ==
  /\ mode \in {"std", "fixed"}
  /\ words = nData + (nData % 2)
  /\ \A i \in DOMAIN events : events[i].end - events[i].at = EventLen(i)
-----------------------------------------------------------------------------
Init ==
  /\ memory \in [0 .. MaxWords - 1 -> Values]
  /\ beyond \in Values
  /\ nData \in 0 .. MaxWords
  /\ words \in {nData + (nData % 2), nData + (nData % 2) + 2}
  /\ mode \in {"std", "fixed", "other"}
  /\ events = <<>>
  /\ fEventVector = <<>>
  /\ state = "walking"

Unread == IF events = <<>> THEN 0 ELSE Last(events).end

\* A buffer that is its head alone is taken as it is.
NoEvents ==
  /\ state = "walking"
  /\ nData = 0
  /\ state' = "accepted"
  /\ UNCHANGED <<memory, beyond, nData, words, mode, events, fEventVector>>

\* The first event is read before anything is known of it.
NextEvent ==
  /\ state = "walking"
  /\ nData # 0
  /\ events = <<>> \/ PtrIsInDataRecord(Unread)
  /\ LET e == FillChannelPtrs(Unread)
     IN  /\ events' = Append(events, e)
         /\ fEventVector' = fEventVector \o [j \in 1 .. Len(e.numbers) |-> <<Len(events) + 1, j>>]
  /\ UNCHANGED <<memory, beyond, nData, words, mode, state>>

\* A rejected record leaves its pairs in fEventVector.
EndOfWalk ==
  /\ state = "walking"
  /\ events # <<>> /\ ~PtrIsInDataRecord(Unread)
  /\ IF IsValid THEN state' = "accepted" /\ UNCHANGED events
     ELSE state' = "rejected" /\ events' = <<>>
  /\ UNCHANGED <<memory, beyond, nData, words, mode, fEventVector>>

Next == NoEvents \/ NextEvent \/ EndOfWalk
Spec == Init /\ [][Next]_vars
-----------------------------------------------------------------------------
(***************************************************************************)
(* Properties.                                                             *)
(***************************************************************************)
\* The first half-word after channel j of event e.
ChannelEnd(e, j) == IF j < Len(e.starts) THEN e.starts[j + 1] ELSE e.end

\* In a buffer that SetDataRecord takes, every half-word is in the head of one event or in one of
\* the channels of one event, and nothing that the events have is outside of the buffer.
BufferTiled ==
  state = "accepted" =>
    LET heads    == {<<events[i].at, events[i].at + EventHead>> : i \in DOMAIN events}
        channels == {<<events[x[1]].starts[x[2]], ChannelEnd(events[x[1]], x[2])>> :
                       x \in ToSet(fEventVector)}
        pieces   == heads \cup {c \in channels : c[1] < c[2]}
    IN  /\ \A k \in 0 .. nData - 1 :
             Cardinality({x \in pieces : x[1] <= k /\ k < x[2]}) = 1
        /\ \A x \in pieces : x[2] <= nData

\* The pairs that the writers go through are, for one event of the buffer after the other, the
\* channels that the event's hit pattern names, each once, by its own number, from the lowest on.
EveryHitListed ==
  state = "accepted" =>
    /\ \A k, l \in DOMAIN fEventVector : k < l => fEventVector[k][1] <= fEventVector[l][1]
    /\ \A i \in DOMAIN events :
         LET pairs     == {k \in DOMAIN fEventVector : fEventVector[k][1] = i}
             Number(k) == events[i].numbers[fEventVector[k][2]]
         IN  /\ {Number(k) : k \in pairs} = Hits(At(events[i].at))
             /\ \A k, l \in pairs : k < l => Number(k) < Number(l)

EventsFound == BufferTiled /\ EveryHitListed
=============================================================================
