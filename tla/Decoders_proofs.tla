--------------------------- MODULE Decoders_proofs ---------------------------
(***************************************************************************)
(* Proofs about the decoders that keep a state from one record to the      *)
(* next: the waveforms sent in fragments, the cards of an event, and the   *)
(* events of a buffer.                                                     *)
(***************************************************************************)
EXTENDS Decoders, SequenceTheorems, FiniteSetTheorems, FunctionTheorems, WellFoundedInduction,
        TLAPS

(***************************************************************************)
(* The fragments of long waveforms.  Of a channel that has lost no record, *)
(* what is kept is what was sent so far of the waveform at hand; before    *)
(* its first fragment that is nothing, or the whole waveform before; but   *)
(* of waveforms as long as a head nothing is kept.                         *)
(***************************************************************************)
Word      == Nat \X Nat
Sent(w, n) == [i \in 1 .. n |-> <<w, i>>]
LongTypes ==
  /\ sent \in [Channels -> [waveform : Nat, words : Nat]]
  /\ \A c \in Channels : sent[c].words < TotalOf[c]
  /\ vec \in [Channels -> Seq(Word)] /\ isFullWF \in [Channels -> BOOLEAN]
Long(c) == TotalOf[c] # L!kOrcaHeaderLen
Kept(c) ==
  /\ Long(c) /\ sent[c].words > 0 => ~isFullWF[c] /\ vec[c] = Sent(sent[c].waveform, sent[c].words)
  /\ Long(c) /\ sent[c].words = 0 => IF isFullWF[c] THEN Len(vec[c]) = TotalOf[c] ELSE vec[c] = << >>
LongInv ==
  /\ LongTypes /\ L!FragmentsCollected
  /\ \A c \in Channels \ lost : Kept(c)

\* What a channel sends next are words of its waveform, in their order.
LEMMA NextFragment ==
  ASSUME LongTypes, NEW c \in Channels, NEW n \in L!Fragments(c),
         NEW w, NEW k, sent[c] = [waveform |-> w, words |-> k]
  PROVE  /\ w \in Nat /\ k \in Nat /\ n \in Nat \ {0} /\ TotalOf[c] \in Nat \ {0}
         /\ k < TotalOf[c] /\ k + n <= TotalOf[c]
         /\ L!Fragment(c, n) = [i \in 1 .. n |-> <<w, k + i>>]
         /\ L!AfterFragment(c, n) =
              IF k + n = TotalOf[c] THEN [waveform |-> w + 1, words |-> 0]
              ELSE [waveform |-> w, words |-> k + n]
<1>1. /\ sent[c].waveform = w /\ sent[c].words = k /\ w \in Nat /\ k \in Nat
      /\ TotalOf[c] \in Nat \ {0} /\ MaxFragment \in Nat /\ k < TotalOf[c]
  BY ChannelAssumption DEF LongTypes
<1>2. n \in 1 .. MaxFragment /\ k + n <= TotalOf[c]
  BY <1>1 DEF L!Fragments
<1> QED
  BY <1>1, <1>2 DEF L!Fragment, L!AfterFragment

\* The words sent before and those of the next fragment are what is sent after it.
LEMMA SentGoesOn ==
  ASSUME NEW w \in Nat, NEW k \in Nat, NEW n \in Nat
  PROVE  /\ Sent(w, k) \o [i \in 1 .. n |-> <<w, k + i>>] = Sent(w, k + n)
         /\ Sent(w, k) \in Seq(Word) /\ Len(Sent(w, k)) = k
<1>1. /\ Sent(w, k) \in Seq(Word) /\ Len(Sent(w, k)) = k
      /\ Sent(w, k + n) \in Seq(Word) /\ Len(Sent(w, k + n)) = k + n
  BY DEF Sent, Word
<1>2. DEFINE f == [i \in 1 .. n |-> <<w, k + i>>]
<1>3. f \in Seq(Word) /\ Len(f) = n
  BY DEF Word
<1>4. ASSUME NEW i \in 1 .. k + n PROVE (Sent(w, k) \o f)[i] = Sent(w, k + n)[i]
  <2>1. i <= k \/ i - k \in 1 .. n
    OBVIOUS
  <2> QED
    BY <1>1, <1>3, <2>1 DEF Sent
<1>5. Len(Sent(w, k) \o f) = k + n /\ Sent(w, k) \o f \in Seq(Word)
  <2> HIDE DEF f
  <2>1. /\ Sent(w, k) \o f \in Seq(Word)
        /\ Len(Sent(w, k) \o f) = Len(Sent(w, k)) + Len(f)
    BY <1>1, <1>3, ConcatProperties
  <2> QED
    BY <1>1, <1>3, <2>1
<1> QED
  BY <1>1, <1>4, <1>5, SeqEqual

\* What is sent next keeps its type.
LEMMA SentTypes ==
  ASSUME LongTypes, NEW c \in Channels, NEW n \in L!Fragments(c),
         sent' = [sent EXCEPT ![c] = L!AfterFragment(c, n)]
  PROVE  /\ sent' \in [Channels -> [waveform : Nat, words : Nat]]
         /\ \A d \in Channels : sent'[d].words < TotalOf[d]
<1>w. PICK w, k : sent[c] = [waveform |-> w, words |-> k]
  BY DEF LongTypes
<1>a. PICK a : a = L!AfterFragment(c, n)
  OBVIOUS
<1>1. a \in [waveform : Nat, words : Nat] /\ a.words < TotalOf[c]
  BY <1>w, <1>a, NextFragment
<1>2. sent' = [sent EXCEPT ![c] = a]
  BY <1>a
<1>3. sent' \in [Channels -> [waveform : Nat, words : Nat]]
  BY <1>1, <1>2 DEF LongTypes
<1>4. ASSUME NEW d \in Channels PROVE sent'[d].words < TotalOf[d]
  <2>1. CASE d = c
    BY <1>1, <1>2, <2>1 DEF LongTypes
  <2>2. CASE d # c
    BY <1>2, <2>2 DEF LongTypes
  <2> QED
    BY <2>1, <2>2
<1> QED
  BY <1>3, <1>4

\* The reader loses a record: what its channel has kept says nothing any more.
LEMMA LossStep ==
  ASSUME LongInv, NEW c \in Channels, NEW n \in L!Fragments(c), L!LoseRecord(c, n)
  PROVE  LongInv'
<1>w. PICK w, k : sent[c] = [waveform |-> w, words |-> k]
  BY DEF LongInv, LongTypes
<1>1. /\ UNCHANGED <<vec, isFullWF, fNumberOfEvents, fWaveformDataPtr, fragment>>
      /\ lost' = lost \cup {c}
  BY DEF L!LoseRecord, L!decoderVars
<1>2. /\ sent' = [sent EXCEPT ![c] = L!AfterFragment(c, n)]
      /\ w \in Nat /\ k \in Nat /\ n \in Nat \ {0} /\ TotalOf[c] \in Nat \ {0}
      /\ L!AfterFragment(c, n) =
           IF k + n = TotalOf[c] THEN [waveform |-> w + 1, words |-> 0]
           ELSE [waveform |-> w, words |-> k + n]
      /\ k + n <= TotalOf[c]
  BY <1>w, NextFragment DEF L!LoseRecord, LongInv
<1>3. LongTypes'
  BY <1>1, <1>2, SentTypes DEF LongInv, LongTypes
<1>4. ASSUME NEW d \in Channels, d \notin lost' PROVE Kept(d)' /\ d \notin lost /\ sent'[d] = sent[d]
  BY <1>1, <1>2, <1>4 DEF LongInv, LongTypes, Kept
<1>5. L!WaveformData' = L!WaveformData
  BY <1>1 DEF L!WaveformData
<1>6. L!FragmentsCollected'
  BY <1>1, <1>4, <1>5 DEF LongInv, L!FragmentsCollected, L!WaveformsWhole, L!NoWaveformMissed
<1> QED
  BY <1>3, <1>4, <1>6 DEF LongInv

\* The new record has all the words of a waveform, and is looked at itself.
LEMMA WholeStep ==
  ASSUME LongInv, NEW c \in Channels, NEW n \in L!Fragments(c), NEW piece,
         piece = L!Fragment(c, n), L!SetWhole(c, piece), Long(c), lost' = lost,
         sent' = [sent EXCEPT ![c] = L!AfterFragment(c, n)],
         fragment' = [channel |-> c, words |-> piece]
  PROVE  /\ LongTypes'
         /\ c \notin lost =>
              Kept(c)' /\ fNumberOfEvents' = 1 /\ L!WaveformData' = Sent(piece[Len(piece)][1], TotalOf[c])
<1>w. PICK w, k : sent[c] = [waveform |-> w, words |-> k]
  BY DEF LongInv, LongTypes
<1>1. /\ w \in Nat /\ k \in Nat /\ n \in Nat \ {0} /\ TotalOf[c] \in Nat \ {0}
      /\ k < TotalOf[c] /\ k + n <= TotalOf[c]
      /\ piece = [i \in 1 .. n |-> <<w, k + i>>]
      /\ L!AfterFragment(c, n) =
           IF k + n = TotalOf[c] THEN [waveform |-> w + 1, words |-> 0]
           ELSE [waveform |-> w, words |-> k + n]
  BY <1>w, NextFragment DEF LongInv
<1>2. /\ Len(piece) = n /\ piece[n][1] = w /\ n = TotalOf[c] /\ k = 0
      /\ UNCHANGED <<vec, isFullWF>> /\ fWaveformDataPtr' = "record" /\ fNumberOfEvents' = 1
  BY <1>1 DEF L!SetWhole
<1>3. LongTypes'
  BY <1>2, SentTypes DEF LongInv, LongTypes
<1>4. piece = Sent(w, TotalOf[c])
  BY <1>1, <1>2 DEF Sent
<1>5. L!WaveformData' = piece
  BY <1>2 DEF L!WaveformData
<1>6. sent'[c].words = 0
  BY <1>1, <1>2 DEF LongInv, LongTypes
<1>7. c \notin lost => Kept(c)'
  BY <1>2, <1>6, <1>w DEF LongInv, Kept
<1> QED
  BY <1>2, <1>3, <1>4, <1>5, <1>7

\* The new record has the last words of a waveform, and the vector has all of them.
LEMMA CompleteStep ==
  ASSUME LongInv, NEW c \in Channels, NEW n \in L!Fragments(c), NEW piece,
         piece = L!Fragment(c, n), L!Complete(c, piece), Long(c), lost' = lost,
         sent' = [sent EXCEPT ![c] = L!AfterFragment(c, n)],
         fragment' = [channel |-> c, words |-> piece]
  PROVE  /\ LongTypes'
         /\ c \notin lost =>
              Kept(c)' /\ fNumberOfEvents' = 1 /\ L!WaveformData' = Sent(piece[Len(piece)][1], TotalOf[c])
<1>w. PICK w, k : sent[c] = [waveform |-> w, words |-> k]
  BY DEF LongInv, LongTypes
<1>1. /\ w \in Nat /\ k \in Nat /\ n \in Nat \ {0} /\ TotalOf[c] \in Nat \ {0}
      /\ k < TotalOf[c] /\ k + n <= TotalOf[c]
      /\ piece = [i \in 1 .. n |-> <<w, k + i>>]
      /\ L!AfterFragment(c, n) =
           IF k + n = TotalOf[c] THEN [waveform |-> w + 1, words |-> 0]
           ELSE [waveform |-> w, words |-> k + n]
  BY <1>w, NextFragment DEF LongInv
<1>2. /\ piece \in Seq(Word) /\ Len(piece) = n /\ piece[n][1] = w
  BY <1>1 DEF Word
<1>3. /\ n # TotalOf[c] /\ Len(vec[c]) + n = TotalOf[c]
      /\ vec' = [vec EXCEPT ![c] = vec[c] \o piece] /\ isFullWF' = [isFullWF EXCEPT ![c] = TRUE]
      /\ fWaveformDataPtr' = c /\ fNumberOfEvents' = 1
  BY <1>2 DEF L!Complete
<1>4. vec[c] \in Seq(Word) /\ vec[c] \o piece \in Seq(Word) /\ vec'[c] = vec[c] \o piece /\ isFullWF'[c]
  BY <1>2, <1>3 DEF LongInv, LongTypes
<1>5. LongTypes'
  BY <1>3, <1>4, SentTypes DEF LongInv, LongTypes
<1>6. L!WaveformData' = vec[c] \o piece
  BY <1>3, <1>4, ChannelAssumption DEF L!WaveformData
<1>7. ASSUME c \notin lost PROVE k + n = TotalOf[c] /\ vec[c] = Sent(w, k)
  <2>1. Kept(c) /\ sent[c].words = k /\ sent[c].waveform = w
    BY <1>7, <1>w DEF LongInv
  <2>2. k = 0 => IF isFullWF[c] THEN Len(vec[c]) = TotalOf[c] ELSE vec[c] = << >>
    BY <2>1 DEF Kept
  <2>3. k # 0
    BY <1>1, <1>3, <2>2
  <2>4. vec[c] = Sent(w, k)
    BY <1>1, <2>1, <2>3 DEF Kept
  <2> QED
    BY <1>1, <1>3, <2>4, SentGoesOn
<1>8. ASSUME c \notin lost PROVE Kept(c)' /\ vec[c] \o piece = Sent(w, TotalOf[c])
  <2>0. Sent(w, k) \o [i \in 1 .. n |-> <<w, k + i>>] = Sent(w, k + n)
    BY <1>1, SentGoesOn
  <2>1. vec[c] \o piece = Sent(w, k + n)
    BY <1>1, <1>7, <1>8, <2>0
  <2>2. sent'[c].words = 0
    BY <1>1, <1>7, <1>8 DEF LongInv, LongTypes
  <2>3. Len(vec'[c]) = TotalOf[c]
    BY <1>1, <1>2, <1>3, <1>4
  <2> QED
    BY <1>4, <1>7, <1>8, <2>1, <2>2, <2>3 DEF Kept
<1> QED
  BY <1>2, <1>3, <1>5, <1>6, <1>8

\* The new record has words of a waveform that is not complete, and they are kept.
LEMMA CollectStep ==
  ASSUME LongInv, NEW c \in Channels, NEW n \in L!Fragments(c), NEW piece,
         piece = L!Fragment(c, n), L!Collect(c, piece), Long(c), lost' = lost,
         sent' = [sent EXCEPT ![c] = L!AfterFragment(c, n)]
  PROVE  /\ LongTypes' /\ fNumberOfEvents' = 0
         /\ c \notin lost => Kept(c)' /\ sent'[c].words # 0
<1>w. PICK w, k : sent[c] = [waveform |-> w, words |-> k]
  BY DEF LongInv, LongTypes
<1>1. /\ w \in Nat /\ k \in Nat /\ n \in Nat \ {0} /\ TotalOf[c] \in Nat \ {0}
      /\ k < TotalOf[c] /\ k + n <= TotalOf[c]
      /\ piece = [i \in 1 .. n |-> <<w, k + i>>]
      /\ L!AfterFragment(c, n) =
           IF k + n = TotalOf[c] THEN [waveform |-> w + 1, words |-> 0]
           ELSE [waveform |-> w, words |-> k + n]
  BY <1>w, NextFragment DEF LongInv
<1>2. piece \in Seq(Word) /\ Len(piece) = n
  BY <1>1 DEF Word
<1>b. PICK before : before = L!KeptBefore(c)
  OBVIOUS
<1>3. /\ n # TotalOf[c] /\ Len(vec[c]) + n # TotalOf[c] /\ fNumberOfEvents' = 0
      /\ vec' = [vec EXCEPT ![c] = before \o piece] /\ isFullWF' = [isFullWF EXCEPT ![c] = FALSE]
  BY <1>2, <1>b DEF L!Collect
<1>4. before \in Seq(Word) /\ before \o piece \in Seq(Word)
  BY <1>2, <1>b DEF LongInv, LongTypes, L!KeptBefore
<1>5. LongTypes' /\ vec'[c] = before \o piece /\ ~isFullWF'[c]
  BY <1>3, <1>4, SentTypes DEF LongInv, LongTypes
<1>6. ASSUME c \notin lost PROVE k + n # TotalOf[c] /\ before = Sent(w, k)
  <2>1. Kept(c) /\ sent[c].words = k /\ sent[c].waveform = w
    BY <1>6, <1>w DEF LongInv
  <2>2. CASE k = 0
    <3>1. before = << >>
      BY <1>b, <2>1, <2>2 DEF L!KeptBefore, Kept
    <3>2. Sent(w, 0) = << >>
      BY DEF Sent
    <3> QED
      BY <1>1, <1>3, <2>2, <3>1, <3>2
  <2>3. CASE k # 0
    <3>1. vec[c] = Sent(w, k) /\ ~isFullWF[c]
      BY <1>1, <2>1, <2>3 DEF Kept
    <3>2. before = Sent(w, k) /\ Len(vec[c]) = k
      BY <1>1, <1>b, <3>1, SentGoesOn DEF L!KeptBefore
    <3> QED
      BY <1>3, <3>2
  <2> QED
    BY <2>2, <2>3
<1>7. ASSUME c \notin lost PROVE Kept(c)' /\ sent'[c].words # 0
  <2>0. Sent(w, k) \o [i \in 1 .. n |-> <<w, k + i>>] = Sent(w, k + n)
    BY <1>1, SentGoesOn
  <2>1. before \o piece = Sent(w, k + n)
    BY <1>1, <1>6, <1>7, <2>0
  <2>2. sent'[c].words = k + n /\ sent'[c].waveform = w
    BY <1>1, <1>6, <1>7 DEF LongInv, LongTypes
  <2>3. k + n > 0 /\ k + n # 0
    BY <1>1
  <2> QED
    BY <1>1, <1>5, <2>1, <2>2, <2>3 DEF Kept
<1> QED
  BY <1>3, <1>5, <1>7

\* The decoder gets a record: what it has kept of the other channels stays as it was.
LEMMA RecordStep ==
  ASSUME LongInv, NEW c \in Channels, NEW n \in L!Fragments(c), L!SetDataRecord(c, n)
  PROVE  LongInv'
<1>f. PICK piece : piece = L!Fragment(c, n)
  OBVIOUS
<1>1. /\ lost' = lost /\ sent' = [sent EXCEPT ![c] = L!AfterFragment(c, n)]
      /\ fragment' = [channel |-> c, words |-> piece]
  BY <1>f DEF L!SetDataRecord
<1>2. \/ Long(c) /\ (L!SetWhole(c, piece) \/ L!Complete(c, piece) \/ L!Collect(c, piece))
      \/ ~Long(c) /\ L!LeaveData
  BY <1>f DEF L!SetDataRecord, Long
<1>3. /\ LongTypes'
      /\ c \notin lost => Kept(c)'
      /\ c \notin lost =>
           (fNumberOfEvents' = 1
              /\ (Long(c) => L!WaveformData' = Sent(piece[Len(piece)][1], TotalOf[c])))
             \/ (fNumberOfEvents' = 0 /\ sent'[c].words # 0)
  <2>0. CASE ~Long(c) /\ L!LeaveData
    BY <1>1, <2>0, SentTypes DEF L!LeaveData, LongInv, LongTypes, Kept, Long
  <2>1. CASE L!SetWhole(c, piece) /\ Long(c)
    BY <1>f, <1>1, <2>1, WholeStep
  <2>2. CASE L!Complete(c, piece) /\ Long(c)
    BY <1>f, <1>1, <2>2, CompleteStep
  <2>3. CASE L!Collect(c, piece) /\ Long(c)
    BY <1>f, <1>1, <2>3, CollectStep
  <2> QED
    BY <1>2, <2>0, <2>1, <2>2, <2>3
<1>4. ASSUME NEW d \in Channels \ {c}
      PROVE  sent'[d] = sent[d] /\ vec'[d] = vec[d] /\ isFullWF'[d] = isFullWF[d]
  BY <1>1, <1>2, <1>4 DEF L!SetWhole, L!Complete, L!Collect, L!LeaveData, LongInv, LongTypes
<1>5. ASSUME NEW d \in Channels, d \notin lost' PROVE Kept(d)'
  <2>1. CASE d = c
    BY <1>1, <1>3, <1>5, <2>1 DEF Kept, Long
  <2>2. CASE d # c
    BY <1>1, <1>4, <1>5, <2>2 DEF LongInv, Kept, Long
  <2> QED
    BY <2>1, <2>2
<1>6. L!FragmentsCollected'
  <2>1. fragment'.channel = c /\ fragment'.words = piece
    BY <1>1
  <2> QED
    BY <1>1, <1>3, <2>1 DEF L!FragmentsCollected, L!WaveformsWhole, L!NoWaveformMissed, Sent, Long
<1>7. \A d \in Channels \ lost' : Kept(d)'
  BY <1>5
<1> QED
  BY <1>3, <1>6, <1>7 DEF LongInv

\* Before the first record nothing is kept.
LEMMA LongStarts == L!Init => LongInv
<1> SUFFICES ASSUME L!Init PROVE LongInv
  OBVIOUS
<1>1. LongTypes
  BY ChannelAssumption DEF L!Init, LongTypes
<1>2. L!FragmentsCollected
  BY ChannelAssumption
    DEF L!Init, L!NoRecord, L!FragmentsCollected, L!WaveformsWhole, L!NoWaveformMissed
<1>3. \A c \in Channels : Kept(c)
  BY DEF L!Init, Kept
<1> QED
  BY <1>1, <1>2, <1>3 DEF LongInv

\* A step of another part leaves the waveforms alone.
LongGoes == part = "long" => LongInv

\* The invariant of the waveforms is kept by every step of the decoders.
LEMMA LongHolds == AnySpec => []LongGoes
<1>1. AnyInit => LongGoes
  BY LongStarts DEF AnyInit, LongGoes
<1>2. LongGoes /\ [AnyNext]_partVars => LongGoes'
  <2> SUFFICES ASSUME LongGoes, [AnyNext]_partVars, part' = "long" PROVE LongInv'
    BY DEF LongGoes
  <2>1. CASE part = "long" /\ L!Next
    BY <2>1, LossStep, RecordStep DEF L!Next, LongGoes
  <2>2. CASE UNCHANGED <<part, longVars>>
    <3>1. LongInv /\ UNCHANGED <<sent, vec, isFullWF, fNumberOfEvents, fWaveformDataPtr, fragment, lost>>
      BY <2>2 DEF LongGoes, longVars
    <3>2. LongTypes' /\ L!WaveformData' = L!WaveformData
      BY <3>1 DEF LongInv, LongTypes, L!WaveformData
    <3>3. L!FragmentsCollected'
      BY <3>1, <3>2 DEF LongInv, L!FragmentsCollected, L!WaveformsWhole, L!NoWaveformMissed
    <3>4. \A c \in Channels \ lost' : Kept(c)'
      BY <3>1 DEF LongInv, Kept
    <3> QED
      BY <3>2, <3>3, <3>4 DEF LongInv
  <2> QED
    BY <2>1, <2>2 DEF AnyNext, partVars
<1> QED
  BY <1>1, <1>2, PTL DEF AnySpec

(***************************************************************************)
(* A waveform that arrives in fragments is delivered whole and in order,   *)
(* with its last fragment, on every channel that has lost no record, while *)
(* the fragments of other channels come in between or are lost; but a      *)
(* waveform as long as a head is not.                                      *)
(***************************************************************************)
THEOREM WaveformsCollected == AnySpec => []FragmentsCollected
<1>1. LongGoes => FragmentsCollected
  BY DEF LongGoes, LongInv, FragmentsCollected
<1> QED
  BY <1>1, LongHolds, PTL

(***************************************************************************)
(* The blocks of the CAEN cards.                                           *)
(***************************************************************************)
Data     == [card : 1 .. NCards, event : Nat \ {0}, channel : 0 .. NChannels - 1]
WordType == [card : 1 .. NCards, event : Nat \ {0}, channel : -2 .. NChannels - 1]
RowType  == [event : Nat, cards : Seq(1 .. NCards), vals : Seq(WordType \cup {C!Zero})]
MultiType ==
  [count : Nat, n : Nat, cards : Seq(1 .. NCards), vals : Seq(WordType \cup {C!Zero}),
   rows : Seq(RowType), alarm : BOOLEAN]

\* A record has its block's words in their order, and m of them, the first, are data.
HasData(ws, c, e, m) ==
  /\ ws \in Seq(WordType) /\ m \in 0 .. NChannels /\ m <= Len(ws)
  /\ \A i \in 1 .. m : ws[i] \in Data /\ ws[i].card = c /\ ws[i].event = e
  /\ \A i \in 1 .. Len(ws) : i > m => ~C!IsData(ws[i])

\* A word is data if its channel is one.
LEMMA DataWords == \A v \in WordType : C!IsData(v) <=> v \in Data
BY CardAssumption DEF WordType, Data, C!IsData

\* LoadLocPtrs finds the data of the block, all of them.
LEMMA BlockLoaded ==
  ASSUME model \in {"792", "965"}, NEW c \in 1 .. NCards, NEW e \in Nat \ {0}, NEW b \in Blocks,
         NEW ws, ws = C!Words(c, e, b)
  PROVE  HasData(ws, c, e, C!LoadLocPtrs(ws)) /\ \A i \in 1 .. Len(ws) : ws[i].event = e
<1>1. /\ b \in Seq(-1 .. NChannels - 1) /\ NChannels \in Nat \ {0} /\ Len(b) \in Nat
      /\ \A i \in 1 .. Len(b) : b[i] = -1 => i = Len(b)
      /\ \A i \in 1 .. Len(b) : i > NChannels => b[i] = -1
      /\ \A i \in 1 .. Len(b) : b[i] \in -1 .. NChannels - 1
  BY CardAssumption
<1>f. PICK f : f = [i \in 1 .. Len(b) |-> C!Value(c, e, b[i])]
  OBVIOUS
<1>2. f \in Seq(WordType) /\ Len(f) = Len(b) /\ \A i \in 1 .. Len(b) : f[i] = C!Value(c, e, b[i])
  BY <1>1, <1>f DEF WordType, C!Value
<1>3. PICK z : z = C!EndOfBlock(c, e)
  OBVIOUS
<1>4. z \in Seq(WordType) /\ Len(z) \in 0 .. 1 /\ \A i \in 1 .. Len(z) : z[i] = C!Value(c, e, -2)
  <2>1. C!Value(c, e, -2) \in WordType
    BY CardAssumption DEF WordType, C!Value
  <2>2. z = <<C!Value(c, e, -2)>> \/ z = << >>
    BY <1>3 DEF C!EndOfBlock
  <2>3. CASE z = <<C!Value(c, e, -2)>>
    BY <2>1, <2>3
  <2>4. CASE z = << >>
    BY <2>4
  <2> QED
    BY <2>2, <2>3, <2>4
<1>5. ws = f \o z
  BY <1>f, <1>3 DEF C!Words
<1>6. /\ ws \in Seq(WordType) /\ Len(ws) = Len(b) + Len(z)
      /\ \A i \in 1 .. Len(ws) : ws[i] = IF i <= Len(b) THEN C!Value(c, e, b[i]) ELSE C!Value(c, e, -2)
  <2>1. ws \in Seq(WordType) /\ Len(ws) = Len(b) + Len(z)
    <3>1. f \in Seq(WordType) /\ z \in Seq(WordType) /\ Len(f) = Len(b)
      BY <1>2, <1>4
    <3> QED
      BY <1>5, <3>1, ConcatProperties
  <2>2. ASSUME NEW i \in 1 .. Len(ws), i <= Len(b) PROVE ws[i] = C!Value(c, e, b[i])
    BY <1>1, <1>2, <1>4, <1>5, <2>1, <2>2
  <2>3. ASSUME NEW i \in 1 .. Len(ws), ~(i <= Len(b)) PROVE ws[i] = C!Value(c, e, -2)
    <3>1. i - Len(b) \in 1 .. Len(z) /\ ws[i] = z[i - Len(b)]
      BY <1>1, <1>2, <1>4, <1>5, <2>1, <2>3
    <3> QED
      BY <1>4, <3>1
  <2> QED
    BY <2>1, <2>2, <2>3
<1>n. PICK n : n = IF Len(b) > 0 /\ b[Len(b)] = -1 THEN Len(b) - 1 ELSE Len(b)
  OBVIOUS
<1>7. /\ n \in 0 .. NChannels /\ n <= Len(b) /\ n <= Len(ws)
      /\ \A i \in 1 .. Len(b) : i <= n <=> b[i] # -1
  <2>1. n \in 0 .. Len(b) /\ \A i \in 1 .. Len(b) : i <= n <=> b[i] # -1
    BY <1>1, <1>n
  <2>2. n <= NChannels
    BY <1>1, <2>1
  <2> QED
    BY <1>1, <1>4, <1>6, <2>1, <2>2
<1>8. /\ \A i \in 1 .. n : C!IsData(ws[i])
      /\ \A i \in 1 .. Len(ws) : i > n => ~C!IsData(ws[i])
  <2>1. ASSUME NEW i \in 1 .. n PROVE C!IsData(ws[i])
    <3>1. b[i] \in Nat /\ ws[i].channel = b[i]
      BY <1>1, <1>6, <1>7 DEF C!Value
    <3> QED
      BY <3>1 DEF C!IsData
  <2>2. ASSUME NEW i \in 1 .. Len(ws), i > n PROVE ~C!IsData(ws[i])
    <3>0. Len(ws) \in Nat /\ (i <= Len(b) => i \in 1 .. Len(b))
      BY <1>1, <1>6
    <3>1. ws[i].channel \in {-1, -2}
      <4>1. CASE i <= Len(b)
        <5>1. b[i] = -1 /\ ws[i] = C!Value(c, e, b[i])
          BY <1>6, <1>7, <2>2, <3>0, <4>1
        <5> QED
          BY <5>1 DEF C!Value
      <4>2. CASE ~(i <= Len(b))
        <5>1. ws[i] = C!Value(c, e, -2)
          BY <1>6, <4>2
        <5> QED
          BY <5>1 DEF C!Value
      <4> QED
        BY <4>1, <4>2
    <3> QED
      BY <3>1 DEF C!IsData
  <2> QED
    BY <2>1, <2>2
<1>m. PICK m : m = C!LoadLocPtrs(ws)
  OBVIOUS
<1>9. /\ m \in 0 .. Len(ws) /\ \A i \in 1 .. m : C!IsData(ws[i])
      /\ m = Len(ws) \/ ~C!IsData(ws[m + 1])
  <2>1. /\ n \in 0 .. Len(ws) /\ \A i \in 1 .. n : C!IsData(ws[i])
        /\ n = Len(ws) \/ ~C!IsData(ws[n + 1])
    BY <1>6, <1>7, <1>8
  <2> QED
    BY <1>m, <2>1 DEF C!LoadLocPtrs
<1>10. m = n
  <2>1. ~(m < n)
    BY <1>6, <1>7, <1>8, <1>9
  <2>2. ~(n < m)
    BY <1>6, <1>7, <1>8, <1>9
  <2> QED
    BY <1>7, <1>9, <2>1, <2>2
<1>11. \A i \in 1 .. n : ws[i] \in Data /\ ws[i].card = c /\ ws[i].event = e
  <2> SUFFICES ASSUME NEW i \in 1 .. n PROVE ws[i] \in Data /\ ws[i].card = c /\ ws[i].event = e
    OBVIOUS
  <2>0. i \in 1 .. Len(b) /\ i \in 1 .. Len(ws)
    BY <1>1, <1>6, <1>7
  <2>1. ws[i] = C!Value(c, e, b[i]) /\ b[i] # -1 /\ b[i] \in -1 .. NChannels - 1
    BY <1>1, <1>6, <1>7, <2>0
  <2>2. b[i] \in 0 .. NChannels - 1
    BY <1>1, <2>1
  <2> QED
    BY <2>1, <2>2 DEF C!Value, Data
<1>12. HasData(ws, c, e, n)
  BY <1>6, <1>7, <1>8, <1>11, Zenon DEF HasData
<1>13. \A i \in 1 .. Len(ws) : ws[i].event = e
  BY <1>6 DEF C!Value
<1> QED
  BY <1>10, <1>12, <1>13, <1>m, Zenon

\* The record is at the front of the buffer, whatever was there before.
LEMMA RecordInFront ==
  ASSUME buffer \in Seq(WordType), NEW ws \in Seq(WordType), NEW buf,
         buf = ws \o SubSeq(buffer, Len(ws) + 1, Len(buffer))
  PROVE  /\ buf \in Seq(WordType) /\ Len(ws) <= Len(buf) /\ Len(buffer) <= Len(buf)
         /\ \A i \in 1 .. Len(ws) : buf[i] = ws[i]
<1>t. PICK t : t = SubSeq(buffer, Len(ws) + 1, Len(buffer))
  OBVIOUS
<1>1. t \in Seq(WordType) /\ Len(t) = IF Len(ws) < Len(buffer) THEN Len(buffer) - Len(ws) ELSE 0
  BY <1>t
<1>2. buf = ws \o t
  BY <1>t
<1> QED
  BY <1>1, <1>2
-----------------------------------------------------------------------------
(***************************************************************************)
(* The writer of several cards, as a record: closing an event's row.       *)
(***************************************************************************)
\* The values have a place for each channel of each card, those of the first q cards in use.
Shape(s, q) ==
  /\ q \in 0 .. Len(s.cards) /\ s.n = NChannels * q
  /\ Len(s.vals) = NChannels * Len(s.cards)

\* Closing the row at hand appends it to the tree, and empties the places of its values.
LEMMA Closed ==
  ASSUME NEW s \in MultiType, NEW q, Shape(s, q), NEW e \in Nat, e # s.count, s.n > 0,
         NEW r, r = C!CloseEvent(s, e)
  PROVE  /\ r \in MultiType /\ Shape(r, 0) /\ r.count = s.count /\ r.cards = s.cards
         /\ r.alarm = s.alarm /\ r.n = 0 /\ r.rows = Append(s.rows, C!RowOf(s))
         /\ \A k \in 1 .. Len(r.vals) : r.vals[k] = C!Zero
<1>1. r = [s EXCEPT !.rows = Append(s.rows, C!RowOf(s)), !.n = 0,
                    !.vals = [i \in 1 .. NChannels * Len(s.cards) |-> C!Zero]]
  BY DEF C!CloseEvent, C!Clear, C!Fill, MultiType
<1>2. C!RowOf(s) \in RowType
  BY DEF C!RowOf, RowType, MultiType
<1>3. NChannels * Len(s.cards) \in Nat /\ NChannels * 0 = 0
  BY CardAssumption DEF MultiType
<1>z. PICK z : z = [i \in 1 .. NChannels * Len(s.cards) |-> C!Zero]
  OBVIOUS
<1>4. /\ z \in Seq(WordType \cup {C!Zero}) /\ Len(z) = NChannels * Len(s.cards)
      /\ \A k \in 1 .. Len(z) : z[k] = C!Zero
  BY <1>3, <1>z
<1>5. /\ r.count = s.count /\ r.n = 0 /\ r.cards = s.cards /\ r.alarm = s.alarm
      /\ r.rows = Append(s.rows, C!RowOf(s)) /\ r.vals = z
      /\ r = [count |-> s.count, n |-> 0, cards |-> s.cards, vals |-> z,
              rows |-> Append(s.rows, C!RowOf(s)), alarm |-> s.alarm]
  BY <1>1, <1>z DEF MultiType
<1>6. r \in MultiType
  BY <1>2, <1>4, <1>5 DEF MultiType
<1> QED
  BY <1>3, <1>4, <1>5, <1>6 DEF Shape, MultiType

-----------------------------------------------------------------------------
(***************************************************************************)
(* Numbers, and the largest and the least of a set of them.                *)
(***************************************************************************)
Below == {p \in Nat \X Nat : p[1] < p[2]}

\* Numbers do not decrease for ever.
LEMMA BelowIsWellFounded == IsWellFoundedOn(Below, Nat)
BY NatLessThanWellFounded, Zenon DEF OpToRel, Below

\* A set of numbers has a least one.
LEMMA Least ==
  ASSUME NEW T, T \subseteq Nat, T # {}
  PROVE  \E x \in T : \A y \in T : x <= y
<1>1. \A y, x \in Nat : <<y, x>> \notin Below => x <= y
  BY DEF Below
<1>2. \E x \in T : \A y \in T : ~ (<<y, x>> \in Below)
  BY BelowIsWellFounded, WFMin
<1> QED
  BY <1>1, <1>2

\* A bounded set of numbers has a largest one.
LEMMA Largest ==
  ASSUME NEW n \in Nat, NEW T, T \subseteq 0 .. n, T # {}
  PROVE  \E x \in T : \A y \in T : y <= x
<1>d. PICK U : U = {n - x : x \in T}
  OBVIOUS
<1>1. U \subseteq Nat /\ U # {}
  <2>1. \A x \in T : n - x \in Nat
    OBVIOUS
  <2>2. PICK x \in T : TRUE
    OBVIOUS
  <2>3. n - x \in U
    BY <1>d
  <2> QED
    BY <1>d, <2>1, <2>3
<1>2. PICK u \in U : \A v \in U : u <= v
  BY <1>1, Least
<1>3. PICK x \in T : u = n - x
  BY <1>d, <1>2
<1>4. \A y \in T : n - y \in U /\ y \in 0 .. n
  BY <1>d
<1> QED
  BY <1>2, <1>3, <1>4

\* The blocks of n values one after the other do not overlap.
LEMMA BlocksApart ==
  ASSUME NEW n \in Nat \ {0}, NEW a \in Nat, NEW b \in Nat, a < b
  PROVE  n * a + n <= n * b /\ n * a \in Nat /\ n * b \in Nat /\ n * (a + 1) = n * a + n
<1>1. PICK d \in Nat : b = a + 1 + d
  <2>1. b - a - 1 \in Nat /\ b = a + 1 + (b - a - 1)
    OBVIOUS
  <2> QED
    BY <2>1
<1>2. n * d \in Nat /\ n * a \in Nat /\ n * b \in Nat
  OBVIOUS
<1>3. n * b = n * a + n + n * d
  BY <1>1
<1> QED
  BY <1>2, <1>3

\* The number of blocks in use is what the code divides by their length to find.
LEMMA BlocksCounted ==
  ASSUME NEW n \in Nat \ {0}, NEW q \in Nat
  PROVE  (n * q) \div n = q /\ n * q \in Nat
OBVIOUS
-----------------------------------------------------------------------------
(***************************************************************************)
(* The writer of several cards, as a record: a card's place.               *)
(***************************************************************************)
\* A card has been given a place: t is s with room for it, in the event e.
CardIn(s, t, q, e) ==
  /\ t \in MultiType /\ Shape(t, q) /\ q < Len(t.cards)
  /\ t.count = e /\ t.n = s.n /\ t.rows = s.rows /\ t.alarm = s.alarm
  /\ Len(s.cards) <= Len(t.cards) /\ Len(s.vals) <= Len(t.vals)
  /\ \A i \in 1 .. Len(s.cards) : t.cards[i] = s.cards[i]
  /\ \A k \in 1 .. Len(t.vals) : t.vals[k] = IF k <= Len(s.vals) THEN s.vals[k] ELSE C!Zero

\* A new card gets a place after the others; what the others have stays.
LEMMA CardAdded ==
  ASSUME NEW s \in MultiType, NEW q, Shape(s, q), NEW c \in 1 .. NCards, NEW e \in Nat,
         NEW a, a = C!AddCard([s EXCEPT !.count = e], c)
  PROVE  CardIn(s, a, q, e)
<1>n. NChannels \in Nat \ {0}
  BY CardAssumption
<1>c. PICK cards, vals : cards = s.cards /\ vals = s.vals
  OBVIOUS
<1>l. PICK l : l = Len(cards)
  OBVIOUS
<1>p. PICK p : p = NChannels * l
  OBVIOUS
<1>1. /\ cards \in Seq(1 .. NCards) /\ vals \in Seq(WordType \cup {C!Zero}) /\ l \in Nat
      /\ s.n = NChannels * q /\ q \in 0 .. l /\ Len(vals) = p /\ s.n \in Nat
  BY <1>c, <1>l, <1>p DEF Shape, MultiType
<1>2. s.n \div NChannels = q /\ p \in Nat
  BY <1>n, <1>p, <1>1, BlocksCounted
<1>v. /\ vals \in Seq(WordType \cup {C!Zero}) /\ cards \in Seq(1 .. NCards) /\ l \in Nat /\ p \in Nat
      /\ Len(vals) = p
  BY <1>1, <1>2
<1>t. PICK t : t = [s EXCEPT !.count = e]
  OBVIOUS
<1>3. /\ t \in MultiType /\ t.cards = cards /\ t.vals = vals /\ t.n = s.n /\ t.count = e
      /\ t.rows = s.rows /\ t.alarm = s.alarm
  BY <1>c, <1>t DEF MultiType
<1>z. PICK z : z = [i \in 1 .. NChannels |-> C!Zero]
  OBVIOUS
<1>4. /\ z \in Seq(WordType \cup {C!Zero}) /\ Len(z) = NChannels
      /\ \A k \in 1 .. NChannels : z[k] = C!Zero
  BY <1>n, <1>z
<1>5. a = IF q < l THEN t ELSE [t EXCEPT !.cards = Append(cards, c), !.vals = vals \o z]
  <2>1. a = IF t.n \div NChannels < Len(t.cards) THEN t
            ELSE [t EXCEPT !.cards = Append(t.cards, c), !.vals = t.vals \o z]
    BY <1>t, <1>z DEF C!AddCard
  <2> QED
    BY <1>l, <1>2, <1>3, <2>1
<1>6. CASE q < l
  <2>1. a = t
    BY <1>5, <1>6
  <2>2. Shape(a, q) /\ q < Len(a.cards)
    BY <1>l, <1>p, <1>1, <1>3, <1>6, <2>1 DEF Shape
  <2> QED
    <3>1. Len(s.cards) <= Len(a.cards) /\ Len(s.vals) <= Len(a.vals)
      BY <1>c, <1>l, <1>v, <1>3, <2>1
    <3>2. \A i \in 1 .. Len(s.cards) : a.cards[i] = s.cards[i]
      BY <1>c, <1>3, <2>1
    <3>3. \A k \in 1 .. Len(a.vals) :
              a.vals[k] = IF k <= Len(s.vals) THEN s.vals[k] ELSE C!Zero
      BY <1>c, <1>v, <1>3, <2>1
    <3> QED
      BY <1>3, <2>1, <2>2, <3>1, <3>2, <3>3 DEF CardIn
<1>7. CASE ~(q < l)
  <2>1. /\ a.cards = Append(cards, c) /\ a.vals = vals \o z /\ a.n = s.n /\ a.count = e
        /\ a.rows = s.rows /\ a.alarm = s.alarm
        /\ a = [count |-> e, n |-> s.n, cards |-> Append(cards, c), vals |-> vals \o z,
                rows |-> s.rows, alarm |-> s.alarm]
    BY <1>3, <1>5, <1>7 DEF MultiType
  <2>2. q = l
    BY <1>1, <1>7
  <2>3. /\ Append(cards, c) \in Seq(1 .. NCards) /\ Len(Append(cards, c)) = l + 1
        /\ \A i \in 1 .. l : Append(cards, c)[i] = cards[i]
    BY <1>l, <1>1
  <2>4. /\ vals \o z \in Seq(WordType \cup {C!Zero})
        /\ Len(vals \o z) = p + NChannels
    <3>1. vals \o z \in Seq(WordType \cup {C!Zero})
      BY <1>v, <1>4
    <3>2. Len(vals \o z) = Len(vals) + Len(z)
      BY <1>v, <1>4, ConcatProperties
    <3> QED
      BY <1>v, <1>4, <3>1, <3>2
  <2>5. \A k \in 1 .. Len(vals \o z) :
          (vals \o z)[k] = IF k <= Len(vals) THEN vals[k] ELSE C!Zero
    <3>1. \A k \in 1 .. Len(vals) : (vals \o z)[k] = vals[k]
      BY <1>1, <1>4
    <3>2. ASSUME NEW k \in 1 .. Len(vals \o z), ~(k <= Len(vals)) PROVE (vals \o z)[k] = C!Zero
      <4>1. k - Len(vals) \in 1 .. NChannels
        BY <1>n, <1>1, <1>2, <2>4, <3>2
      <4>2. (vals \o z)[k] = z[k - Len(vals)]
        BY <1>1, <1>4, <3>2
      <4> QED
        BY <1>4, <4>1, <4>2
    <3> QED
      BY <1>1, <1>2, <2>4, <3>1, <3>2
  <2>6. NChannels * (l + 1) = p + NChannels
    BY <1>n, <1>p, <1>1
  <2>7. a \in MultiType
    BY <1>1, <2>1, <2>3, <2>4, <1>3 DEF MultiType
  <2>8. Shape(a, q) /\ q < Len(a.cards) /\ l <= Len(a.cards)
    <3>1. Len(a.cards) = l + 1 /\ Len(a.vals) = NChannels * (l + 1) /\ a.n = NChannels * q
      BY <1>1, <2>1, <2>3, <2>4, <2>6
    <3> QED
      BY <1>1, <2>2, <3>1 DEF Shape
  <2>9. Len(vals) <= Len(a.vals)
    BY <1>n, <1>1, <1>2, <2>1, <2>4
  <2> QED
    BY <1>c, <1>l, <2>1, <2>3, <2>5, <2>7, <2>8, <2>9 DEF CardIn
<1> QED
  BY <1>6, <1>7

\* The place found is the card's own, and none in use.
LEMMA PlaceFound ==
  ASSUME NEW a \in MultiType, NEW q, Shape(a, q), q < Len(a.cards), NEW c,
         NEW slot, slot = C!SlotOf(a, c), slot # 0
  PROVE  slot \in q + 1 .. Len(a.cards) /\ a.cards[slot] = c
<1>1. a.n \div NChannels = q /\ q \in Nat /\ Len(a.cards) \in Nat
  BY CardAssumption, BlocksCounted DEF Shape, MultiType
<1>t. PICK T : T = {i \in q + 1 .. Len(a.cards) : a.cards[i] = c}
  OBVIOUS
<1>2. slot = IF T = {} THEN 0 ELSE CHOOSE i \in T : \A j \in T : i <= j
  <2>1. T = {i \in (a.n \div NChannels) + 1 .. Len(a.cards) : a.cards[i] = c}
    BY <1>1, <1>t
  <2>2. ~((a.n \div NChannels) + 1 > Len(a.cards))
    BY <1>1
  <2> QED
    BY <2>1, <2>2 DEF C!SlotOf
<1>3. T # {} /\ T \subseteq Nat
  BY <1>1, <1>2, <1>t
<1>4. \E i \in T : \A j \in T : i <= j
  BY <1>3, Least
<1>5. slot \in T
  BY <1>2, <1>3, <1>4
<1> QED
  BY <1>5, <1>t

\* The place of a channel is in the block of its card.
LEMMA PlaceInBlock ==
  ASSUME NEW slot \in Nat \ {0}, NEW ch \in 0 .. NChannels - 1
  PROVE  /\ C!Place(slot, ch) \in Nat
         /\ NChannels * (slot - 1) < C!Place(slot, ch) /\ C!Place(slot, ch) <= NChannels * slot
         /\ NChannels * slot \in Nat /\ NChannels * (slot - 1) \in Nat
<1>1. NChannels \in Nat \ {0} /\ slot - 1 \in Nat
  BY CardAssumption
<1>2. /\ NChannels * (slot - 1) \in Nat /\ NChannels * slot \in Nat
      /\ NChannels * (slot - 1) + NChannels <= NChannels * slot
  BY <1>1, BlocksApart
<1>p. PICK p : p = NChannels * (slot - 1)
  OBVIOUS
<1>r. PICK r : r = NChannels * slot
  OBVIOUS
<1>3. C!Place(slot, ch) = p + ch + 1 /\ p \in Nat /\ r \in Nat /\ p + NChannels <= r
  BY <1>2, <1>p, <1>r DEF C!Place
<1>4. p + ch + 1 \in Nat /\ p < p + ch + 1 /\ p + ch + 1 <= r
  BY <1>1, <1>3
<1> QED
  BY <1>2, <1>3, <1>4, <1>p, <1>r

\* The channel that a word gives is one of the card's, if it is not data too.
LEMMA ChannelsOfWords == \A w \in WordType : C!ChannelOf(w) \in 0 .. NChannels - 1
BY CardAssumption DEF WordType, C!ChannelOf

\* The first n words of buf have been stored in the block of slot: r is t with their values.
ValuesIn(t, r, slot, buf, n) ==
  /\ r \in MultiType /\ Shape(r, slot) /\ Len(r.vals) = Len(t.vals)
  /\ r.count = t.count /\ r.cards = t.cards /\ r.rows = t.rows /\ r.alarm = t.alarm
  /\ \A k \in 1 .. Len(r.vals) :
       \/ r.vals[k] = t.vals[k]
       \/ \E i \in 1 .. n : r.vals[k] = buf[i] /\ k = C!Place(slot, C!ChannelOf(buf[i]))
  /\ \A k \in 1 .. Len(r.vals) : k <= t.n \/ k > r.n => r.vals[k] = t.vals[k]
  /\ \A i \in 1 .. n : \E j \in 1 .. n, k \in 1 .. Len(r.vals) :
       /\ r.vals[k] = buf[j] /\ k = C!Place(slot, C!ChannelOf(buf[i]))
       /\ C!Place(slot, C!ChannelOf(buf[j])) = C!Place(slot, C!ChannelOf(buf[i]))

\* The values go to the block of their card, those of the others stay.
LEMMA ValuesStored ==
  ASSUME NEW t \in MultiType, NEW q \in Nat, Shape(t, q), NEW slot \in q + 1 .. Len(t.cards),
         NEW buf \in Seq(WordType), NEW n \in 0 .. Len(buf), NEW r, r = C!Store(t, slot, buf, n)
  PROVE  ValuesIn(t, r, slot, buf, n)
<1>n. NChannels \in Nat \ {0}
  BY CardAssumption
<1>l. PICK l, p, b, z : /\ l = Len(t.cards) /\ p = Len(t.vals)
                        /\ b = NChannels * (slot - 1) /\ z = NChannels * slot
  OBVIOUS
<1>v. PICK vals : vals = t.vals
  OBVIOUS
<1>1. /\ vals \in Seq(WordType \cup {C!Zero}) /\ Len(vals) = p /\ p \in Nat /\ DOMAIN vals = 1 .. p
      /\ l \in Nat /\ q \in 0 .. l /\ slot \in Nat \ {0} /\ slot \in q + 1 .. l
  BY <1>l, <1>v DEF Shape, MultiType
<1>2. b \in Nat /\ z \in Nat /\ t.n <= b /\ t.n \in Nat /\ z <= p /\ b <= z
  <2>1. t.n = NChannels * q /\ p = NChannels * l
    BY <1>l DEF Shape
  <2>2. b \in Nat /\ z \in Nat /\ b <= z
    BY <1>n, <1>l, <1>1, BlocksApart
  <2>3. t.n <= b
    <3>1. q = slot - 1 \/ q < slot - 1
      BY <1>1
    <3>2. q < slot - 1 => NChannels * q + NChannels <= NChannels * (slot - 1) /\ NChannels * q \in Nat
      BY <1>n, <1>1, BlocksApart
    <3> QED
      BY <1>n, <1>l, <2>1, <2>2, <3>1, <3>2
  <2>4. z <= p
    <3>1. slot = l \/ slot < l
      BY <1>1
    <3>2. slot < l => NChannels * slot + NChannels <= NChannels * l /\ NChannels * l \in Nat
      BY <1>n, <1>1, BlocksApart
    <3> QED
      BY <1>n, <1>l, <2>1, <2>2, <3>1, <3>2
  <2> QED
    BY <2>2, <2>3, <2>4 DEF MultiType
<1>f. PICK f : f = [k \in 1 .. p |-> IF C!WordsFor(slot, buf, n, k) = {} THEN vals[k]
                      ELSE buf[CHOOSE i \in C!WordsFor(slot, buf, n, k) :
                                 \A j \in C!WordsFor(slot, buf, n, k) : j <= i]]
  OBVIOUS
<1>3. r = [t EXCEPT !.n = z, !.vals = f]
  BY <1>l, <1>v, <1>1, <1>f DEF C!Store
<1>4. /\ r.n = z /\ r.vals = f /\ r.count = t.count /\ r.cards = t.cards /\ r.rows = t.rows
      /\ r.alarm = t.alarm
      /\ r = [count |-> t.count, n |-> z, cards |-> t.cards, vals |-> f, rows |-> t.rows,
              alarm |-> t.alarm]
  BY <1>3 DEF MultiType
<1>5. \A i \in 1 .. n : /\ buf[i] \in WordType
                        /\ C!Place(slot, C!ChannelOf(buf[i])) \in b + 1 .. z
  <2> SUFFICES ASSUME NEW i \in 1 .. n
               PROVE buf[i] \in WordType /\ C!Place(slot, C!ChannelOf(buf[i])) \in b + 1 .. z
    OBVIOUS
  <2>1. buf[i] \in WordType
    OBVIOUS
  <2>2. C!ChannelOf(buf[i]) \in 0 .. NChannels - 1
    BY <2>1, ChannelsOfWords
  <2>3. PICK x : x = C!Place(slot, C!ChannelOf(buf[i]))
    OBVIOUS
  <2>4. x \in Nat /\ b < x /\ x <= z
    BY <1>l, <1>1, <2>2, <2>3, PlaceInBlock
  <2>5. x \in b + 1 .. z
    BY <1>2, <2>4
  <2> QED
    BY <2>1, <2>3, <2>5
<1>6. ASSUME NEW k \in 1 .. p, C!WordsFor(slot, buf, n, k) # {}
      PROVE  \E i \in 1 .. n : f[k] = buf[i] /\ k = C!Place(slot, C!ChannelOf(buf[i]))
  <2>t. PICK T : T = C!WordsFor(slot, buf, n, k)
    OBVIOUS
  <2>1. T # {} /\ T \subseteq 1 .. n
    BY <1>6, <2>t DEF C!WordsFor
  <2>2. \E i \in T : \A j \in T : j <= i
    <3>1. n \in Nat /\ T \subseteq 0 .. n
      BY <2>1
    <3> QED
      BY <2>1, <3>1, Largest
  <2>3. f[k] = buf[CHOOSE i \in T : \A j \in T : j <= i]
    BY <1>f, <1>6, <2>t
  <2>4. PICK i \in T : f[k] = buf[i]
    BY <2>2, <2>3
  <2> QED
    BY <2>1, <2>4, <2>t DEF C!WordsFor
<1>7. ASSUME NEW k \in 1 .. p, C!WordsFor(slot, buf, n, k) = {} PROVE f[k] = vals[k]
  BY <1>f, <1>7
<1>8. f \in Seq(WordType \cup {C!Zero}) /\ Len(f) = p /\ DOMAIN f = 1 .. p
  <2>1. ASSUME NEW k \in 1 .. p PROVE f[k] \in WordType \cup {C!Zero}
    <3>1. CASE C!WordsFor(slot, buf, n, k) = {}
      BY <1>1, <1>7, <3>1
    <3>2. CASE C!WordsFor(slot, buf, n, k) # {}
      BY <1>5, <1>6, <3>2
    <3> QED
      BY <3>1, <3>2
  <2>2. f \in [1 .. p -> WordType \cup {C!Zero}]
    BY <1>f, <2>1
  <2> QED
    BY <1>1, <2>2
<1>9. r \in MultiType
  BY <1>2, <1>4, <1>8 DEF MultiType
<1>10. Shape(r, slot)
  <2>1. Len(t.vals) = NChannels * Len(t.cards)
    BY DEF Shape
  <2> QED
    BY <1>l, <1>1, <1>4, <1>8, <2>1 DEF Shape
<1>11. ASSUME NEW k \in 1 .. p, k <= t.n \/ k > z PROVE f[k] = vals[k]
  <2>1. C!WordsFor(slot, buf, n, k) = {}
    BY <1>2, <1>5, <1>11 DEF C!WordsFor
  <2> QED
    BY <1>7, <2>1
<1>12. ASSUME NEW i \in 1 .. n
       PROVE  \E j \in 1 .. n, k \in 1 .. p :
                /\ f[k] = buf[j] /\ k = C!Place(slot, C!ChannelOf(buf[i]))
                /\ C!Place(slot, C!ChannelOf(buf[j])) = C!Place(slot, C!ChannelOf(buf[i]))
  <2>k. PICK k : k = C!Place(slot, C!ChannelOf(buf[i]))
    OBVIOUS
  <2>1. k \in 1 .. p
    BY <1>1, <1>2, <1>5, <2>k
  <2>2. i \in C!WordsFor(slot, buf, n, k)
    BY <2>k DEF C!WordsFor
  <2>3. \E j \in 1 .. n : f[k] = buf[j] /\ k = C!Place(slot, C!ChannelOf(buf[j]))
    BY <1>6, <2>1, <2>2
  <2> QED
    BY <2>1, <2>3, <2>k
<1>13. \A k \in 1 .. Len(r.vals) :
         \/ r.vals[k] = t.vals[k]
         \/ \E i \in 1 .. n : r.vals[k] = buf[i] /\ k = C!Place(slot, C!ChannelOf(buf[i]))
  BY <1>4, <1>6, <1>7, <1>8, <1>v
<1>14. \A k \in 1 .. Len(r.vals) : k <= t.n \/ k > r.n => r.vals[k] = t.vals[k]
  BY <1>4, <1>8, <1>11, <1>v
<1> QED
  BY <1>l, <1>4, <1>8, <1>9, <1>10, <1>12, <1>13, <1>14 DEF ValuesIn

-----------------------------------------------------------------------------
(***************************************************************************)
(* A row that holds the values of its event among those of R, and where    *)
(* the next values go.                                                     *)
(***************************************************************************)
IsRow(row, R) ==
  /\ \A k \in DOMAIN row.vals : row.vals[k] # C!Zero =>
       row.vals[k] \in R /\ row.vals[k].event = row.event /\ C!InPlace(row, k)
  /\ \A v \in R : v.event = row.event => \E k \in DOMAIN row.vals : row.vals[k] = v
ZeroBeyond(s) == \A k \in 1 .. Len(s.vals) : k > s.n => s.vals[k] = C!Zero

\* The data of a record, and whether they are the first words of the buffer.
DataOf(ws, m)     == {ws[i] : i \in 1 .. m}
AtFront(buf, ws, m) == m <= Len(buf) /\ \A i \in 1 .. m : buf[i] = ws[i]

\* A channel is at one place of its card's block only.
LEMMA OneChannelAtPlace ==
  ASSUME NEW slot \in Nat \ {0}, NEW a \in 0 .. NChannels - 1, NEW b \in 0 .. NChannels - 1,
         C!Place(slot, a) = C!Place(slot, b)
  PROVE  a = b
<1>1. NChannels * (slot - 1) \in Nat
  BY CardAssumption
<1>p. PICK p : p = NChannels * (slot - 1)
  OBVIOUS
<1>2. p + a + 1 = p + b + 1 /\ p \in Nat
  BY <1>1, <1>p DEF C!Place
<1> QED
  BY <1>2, CardAssumption

\* A card's values are added to the row of their event, at their places.
LEMMA CardFilled ==
  ASSUME NEW s \in MultiType, NEW q, Shape(s, q), ZeroBeyond(s),
         NEW R, R \subseteq Data, NEW e \in Nat \ {0},
         NEW open, open = [event |-> e, cards |-> s.cards, vals |-> s.vals], IsRow(open, R),
         NEW c \in 1 .. NCards, NEW ws, NEW m, HasData(ws, c, e, m),
         NEW buf \in Seq(WordType), AtFront(buf, ws, m),
         NEW t, t = C!AddCard([s EXCEPT !.count = e], c),
         NEW slot, slot = C!SlotOf(t, c), slot # 0,
         NEW r, r = C!Store(t, slot, buf, m)
  PROVE  IsRow(C!RowOf(r), R \cup DataOf(ws, m)) /\ ZeroBeyond(r)
<1>0. e \in Nat
  OBVIOUS
<1>a. CardIn(s, t, q, e)
  BY <1>0, CardAdded
<1>1. /\ t \in MultiType /\ Shape(t, q) /\ q < Len(t.cards) /\ t.count = e /\ t.n = s.n
      /\ Len(s.cards) <= Len(t.cards) /\ Len(s.vals) <= Len(t.vals)
      /\ \A i \in 1 .. Len(s.cards) : t.cards[i] = s.cards[i]
  BY <1>a DEF CardIn
<1>2. slot \in q + 1 .. Len(t.cards) /\ t.cards[slot] = c
  BY <1>1, PlaceFound
<1>3. q \in Nat /\ slot \in Nat \ {0} /\ q < slot /\ m \in 0 .. Len(buf) /\ slot \in 1 .. Len(t.cards)
  <2>1. Len(t.cards) \in Nat /\ q \in 0 .. Len(s.cards) /\ Len(s.cards) \in Nat
    BY <1>1 DEF Shape, MultiType
  <2>2. m \in Nat /\ Len(buf) \in Nat /\ m <= Len(buf)
    BY CardAssumption DEF HasData, AtFront
  <2> QED
    BY <1>2, <2>1, <2>2
<1>b. ValuesIn(t, r, slot, buf, m)
  <2>1. /\ t \in MultiType /\ q \in Nat /\ Shape(t, q) /\ slot \in q + 1 .. Len(t.cards)
        /\ buf \in Seq(WordType) /\ m \in 0 .. Len(buf)
    BY <1>1, <1>2, <1>3
  <2> QED
    BY <2>1, ValuesStored
<1>4. /\ r \in MultiType /\ Shape(r, slot) /\ Len(r.vals) = Len(t.vals)
      /\ r.count = e /\ r.cards = t.cards
  BY <1>1, <1>b DEF ValuesIn
<1>v. PICK vals, tvals, old, cards, before :
        vals = r.vals /\ tvals = t.vals /\ old = s.vals /\ cards = t.cards /\ before = s.cards
  OBVIOUS
<1>p. PICK p, l, x, y : p = Len(vals) /\ l = Len(old) /\ x = Len(cards) /\ y = Len(before)
  OBVIOUS
<1>5. /\ vals \in Seq(WordType \cup {C!Zero}) /\ tvals \in Seq(WordType \cup {C!Zero})
      /\ old \in Seq(WordType \cup {C!Zero})
      /\ cards \in Seq(1 .. NCards) /\ before \in Seq(1 .. NCards)
      /\ Len(tvals) = p /\ l <= p /\ y <= x /\ s.n \in Nat /\ r.n \in Nat
  BY <1>1, <1>4, <1>v, <1>p DEF MultiType
<1>d. /\ p \in Nat /\ l \in Nat /\ x \in Nat /\ y \in Nat
      /\ DOMAIN vals = 1 .. p /\ DOMAIN old = 1 .. l /\ DOMAIN cards = 1 .. x /\ DOMAIN before = 1 .. y
  BY <1>5, <1>p
<1>e. C!RowOf(r) = [event |-> e, cards |-> cards, vals |-> vals]
  BY <1>4, <1>v DEF C!RowOf
<1>s. s.n <= r.n
  <2>1. s.n = NChannels * q /\ r.n = NChannels * slot
    BY <1>4 DEF Shape
  <2>2. NChannels * q + NChannels <= NChannels * slot /\ NChannels \in Nat
    BY <1>3, CardAssumption, BlocksApart
  <2> QED
    BY <1>5, <2>1, <2>2
<1>6. \A i \in 1 .. m : /\ buf[i] = ws[i] /\ ws[i] \in Data /\ ws[i].card = c /\ ws[i].event = e
                        /\ C!ChannelOf(ws[i]) = ws[i].channel /\ ws[i].channel \in 0 .. NChannels - 1
  BY CardAssumption DEF HasData, Data, C!ChannelOf, AtFront
<1>f. open.event = e /\ open.cards = before /\ open.vals = old
  BY <1>v
<1>7. \A k \in 1 .. l : old[k] # C!Zero =>
        /\ old[k] \in R /\ old[k].event = e
        /\ \E i \in 1 .. y : before[i] = old[k].card /\ k = C!Place(i, old[k].channel)
  <2> SUFFICES ASSUME NEW k \in 1 .. l, old[k] # C!Zero
               PROVE  /\ old[k] \in R /\ old[k].event = e
                      /\ \E i \in 1 .. y : before[i] = old[k].card /\ k = C!Place(i, old[k].channel)
    OBVIOUS
  <2>1. k \in DOMAIN open.vals /\ open.vals[k] # C!Zero
    BY <1>d, <1>f
  <2>2. open.vals[k] \in R /\ open.vals[k].event = open.event /\ C!InPlace(open, k)
    BY <2>1 DEF IsRow
  <2> QED
    BY <1>d, <1>f, <2>2 DEF C!InPlace
<1>8. \A v \in R : v.event = e => \E k \in 1 .. l : old[k] = v
  BY <1>d, <1>f DEF IsRow
<1>9. \A k \in 1 .. p : k <= l => tvals[k] = old[k]
  BY <1>a, <1>5, <1>v, <1>p DEF CardIn
<1>10. \A k \in 1 .. p : ~(k <= l) => tvals[k] = C!Zero
  BY <1>a, <1>5, <1>v, <1>p DEF CardIn
<1>c. \A i \in 1 .. y : i \in 1 .. x /\ cards[i] = before[i]
  <2>1. \A i \in 1 .. y : cards[i] = before[i]
    BY <1>1, <1>v, <1>p
  <2> QED
    BY <1>5, <1>d, <2>1
<1>o. \A k \in 1 .. l : k > s.n => old[k] = C!Zero
  BY <1>v, <1>p DEF ZeroBeyond
<1>w. \A k \in 1 .. p :
        \/ vals[k] = tvals[k]
        \/ \E i \in 1 .. m : vals[k] = buf[i] /\ k = C!Place(slot, C!ChannelOf(buf[i]))
  BY <1>b, <1>v, <1>p DEF ValuesIn
<1>x. \A k \in 1 .. p : k <= s.n \/ k > r.n => vals[k] = tvals[k]
  BY <1>1, <1>b, <1>v, <1>p DEF ValuesIn
<1>y. \A i \in 1 .. m : \E j \in 1 .. m, k \in 1 .. p :
        vals[k] = buf[j] /\ C!Place(slot, C!ChannelOf(buf[j])) = C!Place(slot, C!ChannelOf(buf[i]))
  <2> SUFFICES ASSUME NEW i \in 1 .. m
               PROVE  \E j \in 1 .. m, k \in 1 .. p :
                        /\ vals[k] = buf[j]
                        /\ C!Place(slot, C!ChannelOf(buf[j])) = C!Place(slot, C!ChannelOf(buf[i]))
    OBVIOUS
  <2>1. PICK j \in 1 .. m, k \in 1 .. Len(r.vals) :
          /\ r.vals[k] = buf[j] /\ k = C!Place(slot, C!ChannelOf(buf[i]))
          /\ C!Place(slot, C!ChannelOf(buf[j])) = C!Place(slot, C!ChannelOf(buf[i]))
    BY <1>b DEF ValuesIn
  <2>2. k \in 1 .. p /\ vals[k] = buf[j]
    BY <1>v, <1>p, <2>1
  <2> QED
    BY <2>1, <2>2
<1>11. ASSUME NEW k \in 1 .. p, vals[k] # C!Zero
       PROVE  /\ vals[k] \in R \cup {ws[i] : i \in 1 .. m} /\ vals[k].event = e
              /\ \E i \in 1 .. x : cards[i] = vals[k].card /\ k = C!Place(i, vals[k].channel)
  <2>1. CASE vals[k] = tvals[k]
    <3>1. k <= l /\ vals[k] = old[k]
      BY <1>9, <1>10, <1>11, <2>1
    <3>2. /\ old[k] \in R /\ old[k].event = e
          /\ \E i \in 1 .. y : before[i] = old[k].card /\ k = C!Place(i, old[k].channel)
      BY <1>d, <1>7, <1>11, <3>1
    <3> QED
      BY <1>c, <3>1, <3>2
  <2>2. CASE \E i \in 1 .. m : vals[k] = buf[i] /\ k = C!Place(slot, C!ChannelOf(buf[i]))
    <3>1. PICK i \in 1 .. m : vals[k] = buf[i] /\ k = C!Place(slot, C!ChannelOf(buf[i]))
      BY <2>2
    <3>2. vals[k] = ws[i] /\ k = C!Place(slot, vals[k].channel) /\ vals[k].card = c /\ vals[k].event = e
      BY <1>6, <3>1
    <3>3. slot \in 1 .. x /\ cards[slot] = c
      BY <1>2, <1>3, <1>v, <1>p
    <3> QED
      BY <3>2, <3>3
  <2> QED
    BY <1>w, <2>1, <2>2
<1>12. ASSUME NEW v \in R \cup {ws[i] : i \in 1 .. m}, v.event = e
       PROVE  \E k \in 1 .. p : vals[k] = v
  <2>1. CASE v \in R
    <3>1. PICK k \in 1 .. l : old[k] = v
      BY <1>8, <1>12, <2>1
    <3>2. v # C!Zero
      BY <1>12 DEF C!Zero
    <3>3. k <= s.n
      BY <1>5, <1>d, <1>o, <3>1, <3>2
    <3>4. k \in 1 .. p /\ tvals[k] = old[k]
      BY <1>5, <1>d, <1>9, <3>1
    <3>5. vals[k] = tvals[k]
      BY <1>x, <3>3, <3>4
    <3> QED
      BY <3>1, <3>4, <3>5
  <2>2. CASE \E i \in 1 .. m : v = ws[i]
    <3>1. PICK i \in 1 .. m : v = ws[i]
      BY <2>2
    <3>2. PICK j \in 1 .. m, k \in 1 .. p :
            /\ vals[k] = buf[j]
            /\ C!Place(slot, C!ChannelOf(buf[j])) = C!Place(slot, C!ChannelOf(buf[i]))
      BY <1>y
    <3>3. ws[j].channel = ws[i].channel
      BY <1>3, <1>6, <3>2, OneChannelAtPlace
    <3>4. /\ ws[j] = [card |-> c, event |-> e, channel |-> ws[j].channel]
          /\ ws[i] = [card |-> c, event |-> e, channel |-> ws[i].channel]
      BY <1>6 DEF Data
    <3> QED
      BY <1>6, <3>1, <3>2, <3>3, <3>4
  <2> QED
    BY <2>1, <2>2
<1>13. IsRow(C!RowOf(r), R \cup DataOf(ws, m))
  <2>1. PICK row : row = C!RowOf(r)
    OBVIOUS
  <2>2. /\ row.event = e /\ row.vals = vals /\ row.cards = cards
        /\ DOMAIN row.vals = 1 .. p /\ DOMAIN row.cards = 1 .. x
    BY <1>d, <1>e, <2>1
  <2>3. ASSUME NEW k \in DOMAIN row.vals, row.vals[k] # C!Zero
        PROVE  /\ row.vals[k] \in R \cup {ws[i] : i \in 1 .. m} /\ row.vals[k].event = row.event
               /\ C!InPlace(row, k)
    BY <1>11, <2>2, <2>3 DEF C!InPlace
  <2>4. ASSUME NEW v \in R \cup {ws[i] : i \in 1 .. m}, v.event = row.event
        PROVE  \E k \in DOMAIN row.vals : row.vals[k] = v
    BY <1>12, <2>2, <2>4
  <2> QED
    BY <2>1, <2>3, <2>4 DEF IsRow, DataOf
<1>14. ZeroBeyond(r)
  <2>1. ASSUME NEW k \in 1 .. p, k > r.n PROVE vals[k] = C!Zero
    <3>0. k \in Nat /\ s.n \in Nat /\ r.n \in Nat /\ k > r.n
      BY <1>5, <1>d, <2>1
    <3>1. vals[k] = tvals[k] /\ k > s.n
      BY <1>x, <1>s, <3>0
    <3>2. k <= l => old[k] = C!Zero
      BY <1>d, <1>o, <3>1
    <3> QED
      BY <1>9, <1>10, <3>1, <3>2
  <2> QED
    BY <1>v, <1>p, <2>1 DEF ZeroBeyond
<1> QED
  BY <1>13, <1>14

-----------------------------------------------------------------------------
(***************************************************************************)
(* The writer of several cards, as a record: what a card's data do to it.  *)
(***************************************************************************)
\* An event's first record closes the row of the one before, if there is one.
Closes(s, e) == e # s.count /\ s.n > 0
ShapeOf(s)   == \E q \in 0 .. Len(s.cards) : Shape(s, q)

\* A record is skipped, or it alarms, or its values are stored; before, a row may be closed.
Processed(s, c, e, buf, n, r) ==
  LET d == C!CloseEvent(s, e)
      t == C!AddCard([d EXCEPT !.count = e], c)
  IN  /\ d.rows = IF Closes(s, e) THEN Append(s.rows, C!RowOf(s)) ELSE s.rows
      /\ IF C!BadStart(d, e) THEN r = s /\ s.count = 0 /\ e > 1
         ELSE /\ r \in MultiType /\ ShapeOf(r) /\ r.count = e /\ r.rows = d.rows
              /\ s.count = 0 => e = 1
              /\ ~r.alarm => /\ r.n # 0 /\ C!SlotOf(t, c) # 0
                             /\ n <= NChannels => r = C!Store(t, C!SlotOf(t, c), buf, n)

\* The row at hand before the record's values are stored has the right shape.
LEMMA RowClosed ==
  ASSUME NEW s \in MultiType, ShapeOf(s), s.n = 0 <=> s.count = 0, NEW e \in Nat \ {0},
         NEW d, d = C!CloseEvent(s, e)
  PROVE  /\ d \in MultiType /\ ShapeOf(d) /\ d.alarm = s.alarm /\ d.count = s.count
         /\ d.rows = IF Closes(s, e) THEN Append(s.rows, C!RowOf(s)) ELSE s.rows
         /\ ~Closes(s, e) => d = s
         /\ Closes(s, e) => d.n = 0 /\ \A k \in 1 .. Len(d.vals) : d.vals[k] = C!Zero
<1>1. CASE Closes(s, e)
  <2>1. PICK q \in 0 .. Len(s.cards) : Shape(s, q)
    BY DEF ShapeOf
  <2>2. e # s.count /\ s.n > 0 /\ e \in Nat
    BY <1>1 DEF Closes
  <2>3. /\ d \in MultiType /\ Shape(d, 0) /\ d.count = s.count /\ d.cards = s.cards
        /\ d.alarm = s.alarm /\ d.n = 0 /\ d.rows = Append(s.rows, C!RowOf(s))
        /\ \A k \in 1 .. Len(d.vals) : d.vals[k] = C!Zero
    BY <2>1, <2>2, Closed
  <2>4. ShapeOf(d)
    <3>1. 0 \in 0 .. Len(d.cards)
      BY <2>3 DEF MultiType
    <3> QED
      BY <2>3, <3>1 DEF ShapeOf
  <2> QED
    BY <1>1, <2>3, <2>4
<1>2. CASE ~Closes(s, e)
  <2>1. d = s
    BY <1>2 DEF Closes, C!CloseEvent
  <2> QED
    BY <1>2, <2>1
<1> QED
  BY <1>1, <1>2

\* ProcessMyDataRecord, for a record whose words are in the buffer.
LEMMA CardProcessed ==
  ASSUME NEW s \in MultiType, ShapeOf(s), s.n = 0 <=> s.count = 0, ~s.alarm,
         NEW c \in 1 .. NCards, NEW e \in Nat \ {0},
         NEW buf \in Seq(WordType), NEW n \in 0 .. Len(buf),
         NEW r, r = C!Multi(s, c, e, buf, n)
  PROVE  Processed(s, c, e, buf, n, r)
<1>d. PICK d : d = C!CloseEvent(s, e)
  OBVIOUS
<1>t. PICK t : t = C!AddCard([d EXCEPT !.count = e], c)
  OBVIOUS
<1>s. PICK slot : slot = C!SlotOf(t, c)
  OBVIOUS
<1>m. PICK m : m = IF n < NChannels THEN n ELSE NChannels
  OBVIOUS
<1>1. /\ d \in MultiType /\ ShapeOf(d) /\ d.alarm = s.alarm /\ d.count = s.count
      /\ d.rows = IF Closes(s, e) THEN Append(s.rows, C!RowOf(s)) ELSE s.rows
      /\ ~Closes(s, e) => d = s
  BY <1>d, RowClosed
<1>2. r = IF C!BadStart(d, e) THEN d
          ELSE IF slot = 0 THEN [t EXCEPT !.alarm = TRUE] ELSE C!Store(t, slot, buf, m)
  BY <1>d, <1>t, <1>s, <1>m DEF C!Multi
<1>3. CASE C!BadStart(d, e)
  <2>1. s.count = 0 /\ s.n = 0 /\ e > 1
    BY <1>1, <1>3 DEF C!BadStart
  <2>2. d = s
    BY <1>1, <2>1 DEF Closes
  <2> QED
    BY <1>d, <1>1, <1>2, <1>3, <2>1, <2>2 DEF Processed
<1>4. CASE ~C!BadStart(d, e)
  <2>1. s.count = 0 => e = 1
    BY <1>1, <1>4 DEF C!BadStart
  <2>2. PICK q \in 0 .. Len(d.cards) : Shape(d, q)
    BY <1>1 DEF ShapeOf
  <2>3. CardIn(d, t, q, e)
    <3>1. e \in Nat
      OBVIOUS
    <3> QED
      BY <1>1, <1>t, <2>2, <3>1, CardAdded
  <2>4. /\ t \in MultiType /\ Shape(t, q) /\ q < Len(t.cards) /\ t.count = e /\ t.rows = d.rows
        /\ ~t.alarm /\ q \in Nat /\ Len(t.cards) \in Nat
    <3>1. q \in Nat
      BY <1>1, <2>2 DEF MultiType
    <3>2. t \in MultiType /\ Shape(t, q) /\ q < Len(t.cards) /\ t.count = e /\ t.rows = d.rows /\ t.alarm = d.alarm
      BY <2>3 DEF CardIn
    <3>3. Len(t.cards) \in Nat
      BY <3>2 DEF MultiType
    <3> QED
      BY <1>1, <3>1, <3>2, <3>3
  <2>5. CASE slot = 0
    <3>1. r = [t EXCEPT !.alarm = TRUE]
      BY <1>2, <1>4, <2>5
    <3>2. /\ r \in MultiType /\ r.alarm /\ r.count = t.count /\ r.rows = t.rows /\ r.cards = t.cards
          /\ r.n = t.n /\ r.vals = t.vals
      BY <2>4, <3>1 DEF MultiType
    <3>3. ShapeOf(r)
      BY <2>4, <3>2 DEF ShapeOf, Shape
    <3> QED
      BY <1>d, <1>1, <1>4, <2>1, <2>4, <3>2, <3>3 DEF Processed
  <2>6. CASE slot # 0
    <3>1. slot \in q + 1 .. Len(t.cards) /\ slot \in Nat \ {0} /\ slot \in 0 .. Len(t.cards)
      <4>1. slot \in q + 1 .. Len(t.cards)
        BY <1>s, <2>4, <2>6, PlaceFound
      <4> QED
        BY <2>4, <4>1
    <3>2. r = C!Store(t, slot, buf, m) /\ m \in 0 .. Len(buf)
      BY <1>2, <1>4, <1>m, <2>6, CardAssumption
    <3>3. ValuesIn(t, r, slot, buf, m)
      BY <2>4, <3>1, <3>2, ValuesStored
    <3>4. /\ r \in MultiType /\ Shape(r, slot) /\ r.cards = t.cards /\ r.count = e /\ r.rows = d.rows
          /\ ~r.alarm
      BY <2>4, <3>3 DEF ValuesIn
    <3>5. ShapeOf(r)
      BY <3>1, <3>4 DEF ShapeOf
    <3>6. r.n # 0
      <4>1. r.n = NChannels * slot
        BY <3>4 DEF Shape
      <4>2. NChannels * 0 + NChannels <= NChannels * slot /\ NChannels * 0 = 0
        BY <3>1, CardAssumption, BlocksApart
      <4> QED
        BY <4>1, <4>2, CardAssumption
    <3>7. n <= NChannels => m = n
      BY <1>m, CardAssumption
    <3> QED
      BY <1>d, <1>t, <1>s, <1>1, <1>4, <2>1, <2>6, <3>2, <3>4, <3>5, <3>6, <3>7 DEF Processed
  <2> QED
    BY <2>5, <2>6
<1> QED
  BY <1>3, <1>4

\* If the row at hand was of its event, or is closed, then it is of the record's event afterwards.
LEMMA RowGoesOn ==
  ASSUME NEW s \in MultiType, ShapeOf(s), s.n = 0 <=> s.count = 0,
         NEW R, R \subseteq Data, NEW e \in Nat \ {0},
         ~Closes(s, e) => ZeroBeyond(s),
         e = s.count => IsRow(C!RowOf(s), R),
         e # s.count => \A v \in R : v.event # e,
         NEW c \in 1 .. NCards, NEW ws, NEW m, HasData(ws, c, e, m),
         NEW buf \in Seq(WordType), AtFront(buf, ws, m),
         NEW r, Processed(s, c, e, buf, m, r), ~C!BadStart(C!CloseEvent(s, e), e), ~r.alarm
  PROVE  IsRow(C!RowOf(r), R \cup DataOf(ws, m)) /\ ZeroBeyond(r)
<1>d. PICK d : d = C!CloseEvent(s, e)
  OBVIOUS
<1>t. PICK t : t = C!AddCard([d EXCEPT !.count = e], c)
  OBVIOUS
<1>s. PICK slot : slot = C!SlotOf(t, c)
  OBVIOUS
<1>1. /\ d \in MultiType /\ ShapeOf(d) /\ d.count = s.count
      /\ ~Closes(s, e) => d = s
      /\ Closes(s, e) => d.n = 0 /\ \A k \in 1 .. Len(d.vals) : d.vals[k] = C!Zero
  BY <1>d, RowClosed
<1>2. slot # 0 /\ r = C!Store(t, slot, buf, m)
  <2>1. m <= NChannels
    BY CardAssumption DEF HasData
  <2> QED
    BY <1>d, <1>t, <1>s, <2>1 DEF Processed
<1>3. ZeroBeyond(d)
  BY <1>1 DEF ZeroBeyond
<1>o. PICK open : open = [event |-> e, cards |-> d.cards, vals |-> d.vals]
  OBVIOUS
<1>4. IsRow(open, R)
  <2>1. CASE e = s.count
    <3>1. d = s
      BY <1>1, <2>1 DEF Closes
    <3> QED
      BY <1>o, <2>1, <3>1 DEF C!RowOf
  <2>2. CASE e # s.count
    <3>1. \A k \in 1 .. Len(d.vals) : d.vals[k] = C!Zero
      <4>1. CASE Closes(s, e)
        BY <1>1, <4>1
      <4>2. CASE ~Closes(s, e)
        <5>1. d = s /\ s.n = 0
          BY <1>1, <2>2, <4>2 DEF Closes, MultiType
        <5>2. \A k \in 1 .. Len(d.vals) : k > d.n
          BY <5>1
        <5> QED
          BY <1>3, <5>2 DEF ZeroBeyond
      <4> QED
        BY <4>1, <4>2
    <3>2. DOMAIN d.vals = 1 .. Len(d.vals)
      BY <1>1 DEF MultiType
    <3> QED
      BY <1>o, <2>2, <3>1, <3>2 DEF IsRow
  <2> QED
    BY <2>1, <2>2
<1>5. PICK q \in 0 .. Len(d.cards) : Shape(d, q)
  BY <1>1 DEF ShapeOf
<1> QED
  <2>1. d \in MultiType /\ Shape(d, q) /\ ZeroBeyond(d)
    BY <1>1, <1>3, <1>5
  <2>2. IsRow(C!RowOf(r), R \cup DataOf(ws, m)) /\ ZeroBeyond(r)
    BY <1>o, <1>t, <1>s, <1>2, <1>4, <2>1, CardFilled, ZenonT(60)
  <2> QED
    BY <2>2

-----------------------------------------------------------------------------
(***************************************************************************)
(* The invariant of the CAEN cards, their decoders and their writers.      *)
(***************************************************************************)
CaenTypes ==
  /\ model \in {"792", "965"} /\ run \in Nat \ {0} /\ event \in Nat \ {0} /\ card \in 1 .. NCards
  /\ ended \in BOOLEAN /\ buffer \in Seq(WordType)
  /\ cached \in [C!Writers -> Nat] /\ fLocPtrs \in [C!Writers -> Nat]
  /\ \A w \in C!Writers : fLocPtrs[w] <= Len(buffer)
  /\ C!multi \in MultiType
  /\ received \subseteq Data /\ \A v \in received : v.event <= event
  /\ sizes \subseteq (Nat \ {0}) \X Nat /\ \A p \in sizes : p[1] <= event
  /\ carried \in RowType

\* What the decoder of the writer for one card points at is of the event it has cached.
OneCard == (model = "792" => laidOut = cached["single"]) /\ C!RowsOfOneCard

\* The writer has a place for each channel of each card; it has none in use before its first
\* event, and no values, and its decoder knows the event it is at.
MultiShape ==
  /\ ShapeOf(C!multi)
  /\ ~alarmed => (fNValues = 0 <=> fEventCount = 0)
  /\ fEventCount = 0 => fQDCVal = << >>
  /\ cached["multi"] = fEventCount
  /\ model = "965" => fEventCount = 0
  /\ alarmed => ~ended

\* The exceptions of RowsAreEvents, of a set of sizes and a row carried over.
CameIn(S, e)         == \E p \in S : p[1] = e
MixedIn(S, e)        == \E p, q \in S : p[1] = e /\ q[1] = e /\ p[2] # q[2]
CarriedIn(row, S, c) == c.event > 0 /\ (row = c \/ (row.event = c.event /\ CameIn(S, row.event)))

\* The row at hand is not one of the run before.
Clean == tree # << >> \/ carried.event = 0

\* The row at hand is its event's, and the event's records are as long as the decoder believes.
RowIsGood ==
  /\ IsRow(C!RowOf(C!multi), received) /\ ZeroBeyond(C!multi)
  /\ \A p \in sizes : p[1] = fEventCount => p[2] = fLocPtrs["multi"]

\* A place in the tree that is not that of the row carried over.
Own(i) == i # 1 \/ carried.event = 0

\* The row at hand is of the last event that a record came of, the rows before are of the events
\* before; of a run whose first event was lost there is none.
RowAtHand ==
  /\ fEventCount = 0 => tree = << >>
  /\ model = "792" /\ fEventCount = 0 => \A v \in received : v.event > 1
  /\ Clean \/ received # {} => fEventCount <= event
  /\ fEventCount > 0 =>
       \A v \in received :
         /\ v.event <= fEventCount
         /\ v.event = fEventCount \/ \E i \in DOMAIN tree : tree[i].event = v.event
  /\ ~Clean => CarriedIn(C!RowOf(C!multi), sizes, carried)
  /\ Clean => /\ fEventCount > 0 => CameIn(sizes, fEventCount)
              /\ ~MixedIn(sizes, fEventCount) => RowIsGood
              /\ \A i \in DOMAIN tree : Own(i) => tree[i].event < fEventCount

\* The rows of the run's own events are theirs, unless their records differ in length; the first
\* row is that of the run before, if that had one.
TreeIsGood ==
  \A i \in DOMAIN tree :
    IF Own(i) THEN MixedIn(sizes, tree[i].event) \/ IsRow(tree[i], received)
    ELSE CarriedIn(tree[i], sizes, carried)

CaenInv ==
  /\ CaenTypes /\ OneCard /\ MultiShape
  /\ ~ended /\ ~alarmed => RowAtHand
  /\ TreeIsGood /\ C!EveryEventHasRow

\* A row of the tree is an event by the values received.
LEMMA RowOfReceived ==
  ASSUME NEW row
  PROVE  C!RowIsEvent(row) <=> IsRow(row, received)
BY DEF C!RowIsEvent, IsRow, C!ValuesOf

\* So every row of the tree is an event, or one of the exceptions.
LEMMA GoodTree == TreeIsGood => C!RowsAreEvents
<1>1. \A e : MixedIn(sizes, e) <=> C!Mixed(e)
  BY DEF MixedIn, C!Mixed
<1>2. \A r : CarriedIn(r, sizes, carried) <=> C!CarriedOver(r)
  BY DEF CarriedIn, CameIn, C!CarriedOver, C!Came
<1> QED
  BY <1>1, <1>2, RowOfReceived DEF TreeIsGood, Own, C!RowsAreEvents

\* A row of an event stays one when values of other events come.
LEMMA RowStays ==
  ASSUME NEW row, NEW R, NEW S, IsRow(row, R), \A v \in S : v.event # row.event
  PROVE  IsRow(row, R \cup S)
BY DEF IsRow

-----------------------------------------------------------------------------
(***************************************************************************)
(* A record arrives.                                                       *)
(***************************************************************************)
\* It has the words ws, m of them data, and the decoders point at n1 and n2 words.
Arrives(ws, m, n1, n2) ==
  /\ HasData(ws, card, event, m) /\ m \in Nat
  /\ \A i \in 1 .. Len(ws) : ws[i].event = event
  /\ buffer' \in Seq(WordType) /\ Len(buffer) <= Len(buffer')
  /\ AtFront(buffer', ws, m) /\ AtFront(buffer', ws, Len(ws))
  /\ n1 \in 0 .. Len(buffer') /\ n2 \in 0 .. Len(buffer')
  /\ last' = ws /\ received' = received \cup DataOf(ws, m)
  /\ m = C!LoadLocPtrs(ws) /\ sizes' = sizes \cup {<<event, m>>} /\ carried' = carried
  /\ laidOut' = IF model = "965" \/ cached["single"] = event THEN laidOut ELSE event
  /\ model = "792" => /\ n1 = IF cached["single"] = event THEN fLocPtrs["single"] ELSE m
                      /\ n2 = IF cached["multi"] = event THEN fLocPtrs["multi"] ELSE m

Skips == model = "965" \/ C!BadStart(C!CloseEvent(C!multi, event), event)

\* What it does to the state.
Handled(n1, n2) ==
  /\ fLocPtrs' = [w \in C!Writers |-> IF w = "single" THEN n1 ELSE IF Skips THEN fLocPtrs[w] ELSE n2]
  /\ cached' = [w \in C!Writers |-> IF w = "single" \/ ~Skips THEN event ELSE cached[w]]
  /\ single' = IF model = "792" THEN C!Row792(buffer', n1) ELSE C!Row965(buffer', n1, last')
  /\ IF model = "792" THEN C!SetMulti(C!Multi(C!multi, card, event, buffer', n2))
     ELSE UNCHANGED C!multiVars
  /\ C!AfterRecord /\ UNCHANGED <<model, run, ended>>

\* ProcessRecord, with its words and what the decoders point at named.
LEMMA RecordArrives ==
  ASSUME CaenTypes, NEW block \in Blocks, C!ProcessRecord(block)
  PROVE  ~ended /\ ~alarmed /\ \E ws, m, n1, n2 : Arrives(ws, m, n1, n2) /\ Handled(n1, n2)
<1>w. PICK ws : ws = C!Words(card, event, block)
  OBVIOUS
<1>m. PICK m : m = C!LoadLocPtrs(ws)
  OBVIOUS
<1>n. PICK n1, n2 : n1 = C!NValuesOf("single", event, ws) /\ n2 = C!NValuesOf("multi", event, ws)
  OBVIOUS
<1>1. HasData(ws, card, event, m)
  BY <1>w, <1>m, BlockLoaded DEF CaenTypes
<1>e. \A i \in 1 .. Len(ws) : ws[i].event = event
  BY <1>w, BlockLoaded DEF CaenTypes
<1>2. ws \in Seq(WordType) /\ m \in Nat /\ m <= Len(ws) /\ Len(ws) \in Nat /\ buffer \in Seq(WordType)
  BY <1>1, CardAssumption DEF HasData, CaenTypes
<1>b. buffer' = ws \o SubSeq(buffer, Len(ws) + 1, Len(buffer))
  BY <1>w DEF C!ProcessRecord
<1>3. /\ buffer' \in Seq(WordType) /\ Len(ws) <= Len(buffer') /\ Len(buffer) <= Len(buffer')
      /\ \A i \in 1 .. Len(ws) : buffer'[i] = ws[i]
  BY <1>2, <1>b, RecordInFront
<1>4. AtFront(buffer', ws, m) /\ AtFront(buffer', ws, Len(ws))
  BY <1>2, <1>3 DEF AtFront
<1>5. n1 \in 0 .. Len(buffer') /\ n2 \in 0 .. Len(buffer')
  <2>1. \A w \in C!Writers : fLocPtrs[w] \in Nat /\ fLocPtrs[w] <= Len(buffer)
    BY DEF CaenTypes
  <2>2. m <= Len(buffer') /\ Len(buffer') \in Nat /\ Len(buffer) \in Nat
    BY <1>2, <1>3
  <2>3. "single" \in C!Writers /\ "multi" \in C!Writers
    BY DEF C!Writers
  <2> QED
    BY <1>2, <1>3, <1>m, <1>n, <2>1, <2>2, <2>3 DEF C!NValuesOf
<1>6. last' = ws /\ received' = received \cup DataOf(ws, m)
  BY <1>w, <1>m DEF C!ProcessRecord, DataOf
<1>7. /\ sizes' = sizes \cup {<<event, m>>} /\ carried' = carried
      /\ laidOut' = IF model = "965" \/ cached["single"] = event THEN laidOut ELSE event
  BY <1>w, <1>m DEF C!ProcessRecord, C!EventIsCached
<1>8. model = "792" => /\ n1 = IF cached["single"] = event THEN fLocPtrs["single"] ELSE m
                       /\ n2 = IF cached["multi"] = event THEN fLocPtrs["multi"] ELSE m
  BY <1>m, <1>n DEF C!NValuesOf, C!EventIsCached
<1>9. Arrives(ws, m, n1, n2)
  BY <1>e, <1>m, <1>1, <1>2, <1>3, <1>4, <1>5, <1>6, <1>7, <1>8 DEF Arrives
<1>10. Handled(n1, n2)
  <2>1. /\ fLocPtrs' = [w \in C!Writers |-> IF w \in (IF Skips THEN {"single"} ELSE C!Writers)
                                            THEN C!NValuesOf(w, event, ws) ELSE fLocPtrs[w]]
        /\ cached' = [w \in C!Writers |-> IF w \in (IF Skips THEN {"single"} ELSE C!Writers)
                                          THEN event ELSE cached[w]]
    BY <1>w DEF C!ProcessRecord, Skips
  <2>2. /\ single' = IF model = "792" THEN C!Row792(buffer', n1) ELSE C!Row965(buffer', n1, last')
        /\ IF model = "792" THEN C!SetMulti(C!Multi(C!multi, card, event, buffer', n2))
           ELSE UNCHANGED C!multiVars
    <3>1. single' = IF model = "792" THEN C!Row792(buffer', n1) ELSE C!Row965(buffer', n1, last')
      BY <1>w, <1>n, <1>b, <1>6 DEF C!ProcessRecord, C!Writers
    <3>2. model = "792" => C!SetMulti(C!Multi(C!multi, card, event, buffer', n2))
      BY <1>w, <1>n, <1>b DEF C!ProcessRecord, C!Writers
    <3>3. model # "792" => UNCHANGED C!multiVars
      BY DEF C!ProcessRecord
    <3> QED
      BY <3>1, <3>2, <3>3
  <2>3. C!AfterRecord /\ UNCHANGED <<model, run, ended>>
    BY DEF C!ProcessRecord
  <2>4. fLocPtrs' = [w \in C!Writers |-> IF w = "single" THEN n1 ELSE IF Skips THEN fLocPtrs[w] ELSE n2]
    BY <1>n, <2>1 DEF C!Writers
  <2>5. cached' = [w \in C!Writers |-> IF w = "single" \/ ~Skips THEN event ELSE cached[w]]
    BY <2>1 DEF C!Writers
  <2> QED
    BY <2>2, <2>3, <2>4, <2>5 DEF Handled
<1> QED
  BY <1>9, <1>10 DEF C!ProcessRecord

\* What the writer of several cards does with the record.
LEMMA WriterSteps ==
  ASSUME CaenTypes, MultiShape, ~alarmed, NEW ws, NEW m, NEW n1, NEW n2,
         Arrives(ws, m, n1, n2), Handled(n1, n2)
  PROVE  /\ model = "792" => /\ Processed(C!multi, card, event, buffer', n2, C!multi')
                             /\ Skips <=> C!BadStart(C!CloseEvent(C!multi, event), event)
         /\ model = "965" => Skips /\ C!multi' = C!multi
         /\ C!multi \in MultiType /\ ShapeOf(C!multi) /\ (fNValues = 0 <=> fEventCount = 0)
         /\ C!multi' \in MultiType /\ ShapeOf(C!multi')
         /\ C!multi.count = fEventCount /\ C!multi.n = fNValues /\ C!multi.rows = tree
         /\ C!multi'.count = fEventCount' /\ C!multi'.n = fNValues' /\ C!multi'.rows = tree'
         /\ C!multi'.alarm = alarmed' /\ ~C!multi.alarm
<1>s. PICK s : s = C!multi
  OBVIOUS
<1>u. PICK u : u = C!multi'
  OBVIOUS
<1>b. PICK buf : buf = buffer'
  OBVIOUS
<1>1. /\ s \in MultiType /\ ShapeOf(s) /\ (fNValues = 0 <=> fEventCount = 0)
      /\ s.count = fEventCount /\ s.n = fNValues /\ s.rows = tree /\ s.alarm = alarmed
  BY <1>s DEF CaenTypes, MultiShape, C!multi
<1>2. /\ u = [count |-> fEventCount', n |-> fNValues', cards |-> fCard', vals |-> fQDCVal',
              rows |-> tree', alarm |-> alarmed']
      /\ u.count = fEventCount' /\ u.n = fNValues' /\ u.rows = tree' /\ u.alarm = alarmed'
  BY <1>u DEF C!multi
<1>3. /\ buf \in Seq(WordType) /\ n2 \in 0 .. Len(buf) /\ card \in 1 .. NCards /\ event \in Nat \ {0}
      /\ model \in {"792", "965"}
  BY <1>b DEF Arrives, CaenTypes
<1>4. CASE model = "792"
  <2>r. PICK r : r = C!Multi(s, card, event, buf, n2)
    OBVIOUS
  <2>1. Processed(s, card, event, buf, n2, r)
    <3>0. PICK c, e : c = card /\ e = event
      OBVIOUS
    <3>1. c \in 1 .. NCards /\ e \in Nat \ {0} /\ (s.n = 0 <=> s.count = 0) /\ ~s.alarm
      BY <1>1, <1>3, <3>0
    <3>2. Processed(s, c, e, buf, n2, r)
      BY <1>1, <1>3, <2>r, <3>0, <3>1, CardProcessed
    <3> QED
      BY <3>0, <3>2
  <2>2. r \in MultiType /\ ShapeOf(r)
    BY <1>1, <2>1 DEF Processed
  <2>3. C!SetMulti(r)
    BY <1>s, <1>b, <1>4, <2>r DEF Handled
  <2>4. u = r
    <3>1. r = [count |-> r.count, n |-> r.n, cards |-> r.cards, vals |-> r.vals, rows |-> r.rows,
               alarm |-> r.alarm]
      BY <2>2 DEF MultiType
    <3> QED
      BY <1>2, <2>3, <3>1 DEF C!SetMulti
  <2>5. Skips <=> C!BadStart(C!CloseEvent(s, event), event)
    BY <1>s, <1>4 DEF Skips
  <2> QED
    BY <1>s, <1>u, <1>b, <1>1, <1>2, <1>4, <2>1, <2>2, <2>4, <2>5
<1>5. CASE model = "965"
  <2>1. UNCHANGED <<fEventCount, fNValues, fCard, fQDCVal, tree, alarmed>>
    BY <1>5 DEF Handled, C!multiVars
  <2>2. u = s
    BY <1>s, <1>2, <2>1 DEF C!multi
  <2>3. Skips
    BY <1>5 DEF Skips
  <2> QED
    BY <1>s, <1>u, <1>1, <1>2, <1>5, <2>2, <2>3
<1> QED
  BY <1>3, <1>4, <1>5

\* The next record is of the same event, or of the next and of its first card.
LEMMA AfterRecordTypes ==
  ASSUME CaenTypes, C!AfterRecord
  PROVE  /\ event' \in Nat \ {0} /\ card' \in 1 .. NCards /\ event <= event'
         /\ event' = event => card # NCards
         /\ event' = event \/ (card = NCards /\ event' = event + 1)
BY CardAssumption DEF CaenTypes, C!AfterRecord

\* A record keeps the types: what the decoders point at is in the buffer.
LEMMA ArrivalTypes ==
  ASSUME CaenTypes, MultiShape, ~alarmed, NEW ws, NEW m, NEW n1, NEW n2,
         Arrives(ws, m, n1, n2), Handled(n1, n2)
  PROVE  CaenTypes'
<1>1. C!multi' \in MultiType
  BY WriterSteps
<1>2. event' \in Nat \ {0} /\ card' \in 1 .. NCards /\ event <= event' /\ event \in Nat
  BY AfterRecordTypes DEF Handled, CaenTypes
<1>3. /\ model' \in {"792", "965"} /\ run' \in Nat \ {0} /\ ended' \in BOOLEAN
      /\ buffer' \in Seq(WordType) /\ carried' \in RowType
  BY DEF Handled, Arrives, CaenTypes
<1>4. cached' \in [C!Writers -> Nat]
  BY DEF Handled, CaenTypes
<1>5. /\ fLocPtrs' \in [C!Writers -> Nat]
      /\ \A w \in C!Writers : fLocPtrs'[w] <= Len(buffer')
  <2>1. /\ n1 \in 0 .. Len(buffer') /\ n2 \in 0 .. Len(buffer')
        /\ Len(buffer) <= Len(buffer') /\ Len(buffer) \in Nat /\ Len(buffer') \in Nat
    BY DEF Arrives, CaenTypes
  <2>2. \A w \in C!Writers : fLocPtrs[w] \in 0 .. Len(buffer')
    BY <2>1 DEF CaenTypes
  <2>3. \A w \in C!Writers : fLocPtrs'[w] \in 0 .. Len(buffer')
    BY <2>1, <2>2 DEF Handled
  <2>4. fLocPtrs' = [w \in C!Writers |-> fLocPtrs'[w]]
    BY DEF Handled
  <2> QED
    BY <2>1, <2>3, <2>4
<1>6. received' \subseteq Data /\ \A v \in received' : v.event <= event'
  <2>1. \A v \in DataOf(ws, m) : v \in Data /\ v.event = event
    BY DEF Arrives, HasData, DataOf
  <2>2. \A v \in received : v \in Data /\ v.event <= event /\ v.event \in Nat
    BY DEF CaenTypes, Data
  <2>3. \A v \in received' : v \in received \/ v \in DataOf(ws, m)
    BY DEF Arrives
  <2> QED
    BY <1>2, <2>1, <2>2, <2>3
<1>7. sizes' \subseteq (Nat \ {0}) \X Nat /\ \A p \in sizes' : p[1] <= event'
  <2>1. event \in Nat \ {0} /\ m \in Nat /\ sizes' = sizes \cup {<<event, m>>}
    BY DEF Arrives, CaenTypes
  <2>2. \A p \in sizes : p[1] <= event /\ p[1] \in Nat
    BY DEF CaenTypes
  <2>3. \A p \in sizes' : p \in sizes \/ (p = <<event, m>> /\ p[1] = event)
    BY <2>1
  <2> QED
    BY <1>2, <2>1, <2>2, <2>3 DEF CaenTypes
<1> QED
  BY <1>1, <1>2, <1>3, <1>4, <1>5, <1>6, <1>7 DEF CaenTypes

\* The row of the tree for one card is its record's.
LEMMA ArrivalOneCard ==
  ASSUME CaenTypes, OneCard, NEW ws, NEW m, NEW n1, NEW n2,
         Arrives(ws, m, n1, n2), Handled(n1, n2)
  PROVE  OneCard'
<1>1. /\ HasData(ws, card, event, m) /\ m \in Nat /\ m <= Len(ws) /\ Len(ws) \in Nat
      /\ ws \in Seq(WordType) /\ DOMAIN ws = 1 .. Len(ws)
      /\ n1 \in Nat /\ event \in Nat /\ fLocPtrs["single"] \in Nat /\ last' = ws
  BY DEF Arrives, HasData, CaenTypes, C!Writers
<1>2. /\ \A i \in 1 .. m : /\ buffer'[i] = ws[i] /\ ws[i] \in Data /\ C!IsData(ws[i])
                           /\ C!ChannelOf(ws[i]) = ws[i].channel
      /\ \A i \in 1 .. Len(ws) : i > m => ~C!IsData(ws[i])
  BY <1>1 DEF Arrives, AtFront, HasData, Data, C!IsData, C!ChannelOf
<1>3. {w \in C!Range(last') : C!IsData(w)} = DataOf(ws, m)
  <2>1. C!Range(last') = {ws[i] : i \in 1 .. Len(ws)}
    BY <1>1 DEF C!Range
  <2>2. \A i \in 1 .. Len(ws) : C!IsData(ws[i]) => i \in 1 .. m
    BY <1>1, <1>2
  <2>3. \A i \in 1 .. m : i \in 1 .. Len(ws)
    BY <1>1
  <2> QED
    BY <1>2, <2>1, <2>2, <2>3 DEF DataOf
<1>4. model' = model /\ run' = run
  BY DEF Handled
<1>5. ASSUME model = "792"
      PROVE  /\ n1 = m => single'.vals = DataOf(ws, m)
             /\ n1 < m => single'.vals \subseteq DataOf(ws, m)
  <2>1. single'.vals = {[buffer'[i] EXCEPT !.channel = C!ChannelOf(buffer'[i])] : i \in 1 .. n1}
    BY <1>5 DEF Handled, C!Row792
  <2>2. \A i \in 1 .. m : [buffer'[i] EXCEPT !.channel = C!ChannelOf(buffer'[i])] = ws[i]
    BY <1>2 DEF Data
  <2>3. n1 <= m => single'.vals \subseteq DataOf(ws, m)
    <3>1. ASSUME n1 <= m, NEW x \in single'.vals PROVE x \in DataOf(ws, m)
      <4>1. PICK i \in 1 .. n1 : x = [buffer'[i] EXCEPT !.channel = C!ChannelOf(buffer'[i])]
        BY <2>1
      <4>2. i \in 1 .. m
        BY <1>1, <3>1
      <4> QED
        BY <2>2, <4>1, <4>2 DEF DataOf
    <3> QED
      BY <3>1
  <2>4. ASSUME n1 = m, NEW x \in DataOf(ws, m) PROVE x \in single'.vals
    <3>1. PICK i \in 1 .. m : x = ws[i]
      BY DEF DataOf
    <3>2. x = [buffer'[i] EXCEPT !.channel = C!ChannelOf(buffer'[i])]
      BY <2>2, <3>1
    <3> QED
      BY <2>1, <2>4, <3>1, <3>2
  <2>5. n1 = m => DataOf(ws, m) \subseteq single'.vals
    BY <2>4
  <2>6. (n1 = m => n1 <= m) /\ (n1 < m => n1 <= m)
    BY <1>1
  <2> QED
    BY <2>3, <2>5, <2>6
<1>6. ASSUME model # "792", ~single'.questionable
      PROVE  single'.vals = {w \in C!Range(last') : C!IsData(w)}
  <2>1. /\ single'.vals = {buffer'[i] : i \in 1 .. n1} \cap {w \in C!Range(buffer') : C!IsData(w)}
        /\ n1 = Len(ws)
    BY <1>1, <1>6 DEF Handled, C!Row965
  <2>2. \A i \in 1 .. Len(ws) : buffer'[i] = ws[i] /\ i \in DOMAIN buffer'
    BY <1>1 DEF Arrives, AtFront
  <2>3. {buffer'[i] : i \in 1 .. n1} = C!Range(ws)
    BY <1>1, <2>1, <2>2 DEF C!Range
  <2>4. C!Range(ws) \subseteq C!Range(buffer')
    BY <1>1, <2>2 DEF C!Range
  <2> QED
    BY <1>1, <2>1, <2>3, <2>4
<1>7. /\ cached'["single"] = event /\ fLocPtrs'["single"] = n1 /\ C!LoadLocPtrs(last') = m
      /\ model = "792" => laidOut' = event
      /\ last' # << >> => last'[Len(last')].event = event
  <2>1. cached'["single"] = event /\ fLocPtrs'["single"] = n1
    BY DEF Handled, C!Writers
  <2>2. C!LoadLocPtrs(last') = m
    BY <1>1 DEF Arrives
  <2>3. model = "792" => laidOut' = event
    BY DEF Arrives, OneCard
  <2>4. last' # << >> => Len(ws) \in 1 .. Len(ws)
    BY <1>1
  <2> QED
    BY <1>1, <2>1, <2>2, <2>3, <2>4 DEF Arrives
<1>8. C!RowsOfOneCard'
  <2>1. CASE model = "792"
    BY <1>3, <1>4, <1>5, <1>7, <2>1 DEF C!RowsOfOneCard
  <2>2. CASE model # "792"
    BY <1>4, <1>6, <2>2 DEF C!RowsOfOneCard
  <2> QED
    BY <2>1, <2>2
<1> QED
  BY <1>4, <1>7, <1>8 DEF OneCard

\* It keeps the shape of the multi-card writer, and what its decoder knows of the event.
LEMMA ArrivalShape ==
  ASSUME CaenTypes, MultiShape, ~alarmed, ~ended, NEW ws, NEW m, NEW n1, NEW n2,
         Arrives(ws, m, n1, n2), Handled(n1, n2)
  PROVE  MultiShape'
<1>1. /\ model = "792" => /\ Processed(C!multi, card, event, buffer', n2, C!multi')
                          /\ Skips <=> C!BadStart(C!CloseEvent(C!multi, event), event)
      /\ model = "965" => Skips /\ C!multi' = C!multi
      /\ (fNValues = 0 <=> fEventCount = 0) /\ ShapeOf(C!multi')
      /\ C!multi.count = fEventCount /\ C!multi.n = fNValues
      /\ C!multi'.count = fEventCount' /\ C!multi'.n = fNValues' /\ C!multi'.alarm = alarmed'
      /\ C!multi.vals = fQDCVal /\ C!multi'.vals = fQDCVal'
  BY WriterSteps DEF C!multi
<1>2. model \in {"792", "965"} /\ event \in Nat \ {0} /\ model' = model /\ ended' = ended
  BY DEF CaenTypes, Handled
<1>3. cached'["multi"] = IF Skips THEN cached["multi"] ELSE event
  BY DEF Handled, C!Writers
<1>s. PICK s, u, buf : s = C!multi /\ u = C!multi' /\ buf = buffer'
  OBVIOUS
<1>4. CASE Skips
  <2>1. u = s
    <3>1. model = "792" => u = s
      <4>1. model = "792" => Processed(s, card, event, buf, n2, u) /\ C!BadStart(C!CloseEvent(s, event), event)
        BY <1>1, <1>4, <1>s
      <4> QED
        BY <4>1 DEF Processed
    <3> QED
      BY <1>1, <1>2, <1>s, <3>1
  <2>2. fEventCount' = fEventCount /\ fNValues' = fNValues /\ fQDCVal' = fQDCVal
    BY <1>1, <1>s, <2>1
  <2> QED
    BY <1>1, <1>2, <1>3, <1>4, <2>2 DEF MultiShape
<1>5. CASE ~Skips
  <2>1. model = "792"
    BY <1>1, <1>2, <1>5
  <2>2. Processed(s, card, event, buf, n2, u) /\ ~C!BadStart(C!CloseEvent(s, event), event)
    BY <1>1, <1>5, <1>s, <2>1
  <2>3. u.count = event /\ (~u.alarm => u.n # 0)
    BY <2>2 DEF Processed
  <2>4. fEventCount' = event /\ event # 0 /\ (~alarmed' => fNValues' # 0)
    BY <1>1, <1>2, <1>s, <2>3
  <2> QED
    BY <1>1, <1>2, <1>3, <1>5, <2>1, <2>4 DEF MultiShape
<1> QED
  BY <1>4, <1>5

\* What the tree has been so far.
LEMMA TreeTypes ==
  ASSUME CaenTypes
  PROVE  /\ tree \in Seq(RowType) /\ Len(tree) \in Nat /\ DOMAIN tree = 1 .. Len(tree)
         /\ \A i \in DOMAIN tree : tree[i] \in RowType /\ tree[i].event \in Nat
         /\ fEventCount \in Nat /\ fNValues \in Nat /\ event \in Nat \ {0}
         /\ C!RowOf(C!multi).event = fEventCount /\ C!RowOf(C!multi) \in RowType
         /\ \A v \in received : v \in Data /\ v.event \in Nat \ {0} /\ v.event <= event
<1>1. tree \in Seq(RowType) /\ fEventCount \in Nat /\ fNValues \in Nat /\ event \in Nat \ {0}
  BY DEF CaenTypes, MultiType, C!multi
<1>2. Len(tree) \in Nat /\ DOMAIN tree = 1 .. Len(tree) /\ \A i \in DOMAIN tree : tree[i] \in RowType
  BY <1>1
<1>3. \A row \in RowType : row.event \in Nat
  BY DEF RowType
<1>4. C!RowOf(C!multi).event = fEventCount /\ C!RowOf(C!multi) \in RowType
  BY DEF CaenTypes, MultiType, C!multi, C!RowOf, RowType
<1>5. \A v \in received : v \in Data /\ v.event \in Nat \ {0} /\ v.event <= event
  BY DEF CaenTypes, Data
<1> QED
  BY <1>1, <1>2, <1>3, <1>4, <1>5

\* A record of the 965s, or of a run whose first event was lost, leaves the writer as it is.
LEMMA ArrivalSkipped ==
  ASSUME CaenInv, ~ended, ~alarmed, NEW ws, NEW m, NEW n1, NEW n2,
         Arrives(ws, m, n1, n2), Handled(n1, n2), Skips
  PROVE  (RowAtHand /\ TreeIsGood)'
<1>t. CaenTypes /\ MultiShape /\ RowAtHand
  BY DEF CaenInv
<1>1. /\ model = "792" => /\ Processed(C!multi, card, event, buffer', n2, C!multi')
                          /\ C!BadStart(C!CloseEvent(C!multi, event), event)
      /\ model = "965" => C!multi' = C!multi
      /\ C!multi.count = fEventCount /\ C!multi.rows = tree
      /\ C!multi'.count = fEventCount' /\ C!multi'.rows = tree'
  BY <1>t, WriterSteps
<1>2. /\ model \in {"792", "965"} /\ model' = model /\ run' = run
      /\ event' \in Nat \ {0} /\ event <= event' /\ fEventCount \in Nat
      /\ received' = received \cup DataOf(ws, m)
      /\ \A v \in DataOf(ws, m) : v.event = event
  BY <1>t, TreeTypes, AfterRecordTypes DEF CaenTypes, Handled, Arrives, HasData, DataOf
<1>3. C!multi' = C!multi /\ fEventCount = 0 /\ (model = "792" => event > 1)
  <2>1. CASE model = "792"
    <3>s. PICK s, u, buf : s = C!multi /\ u = C!multi' /\ buf = buffer'
      OBVIOUS
    <3>1. Processed(s, card, event, buf, n2, u) /\ C!BadStart(C!CloseEvent(s, event), event)
      BY <1>1, <2>1, <3>s
    <3>2. u = s /\ s.count = 0 /\ event > 1
      BY <3>1 DEF Processed
    <3> QED
      BY <1>1, <3>s, <3>2
  <2>2. CASE model = "965"
    BY <1>t, <1>1, <2>2 DEF MultiShape
  <2> QED
    BY <1>2, <2>1, <2>2
<1>4. tree = << >> /\ tree' = tree /\ fEventCount' = 0
  BY <1>t, <1>1, <1>3 DEF RowAtHand
<1>5. TreeIsGood'
  BY <1>4 DEF TreeIsGood
<1>6. model' = "792" /\ fEventCount' = 0 => \A v \in received' : v.event > 1
  BY <1>t, <1>2, <1>3 DEF RowAtHand
<1>7. Clean /\ Clean' /\ RowIsGood'
  <2>r. PICK row : row = C!RowOf(C!multi)
    OBVIOUS
  <2>1. row.event = 0
    BY <1>t, <1>3, <2>r, TreeTypes
  <2>2. Clean
    <3>1. carried.event \in Nat
      BY <1>t DEF CaenTypes, RowType
    <3>2. CarriedIn(row, sizes, carried) => row.event > 0
      BY <3>1 DEF CarriedIn
    <3> QED
      BY <1>t, <2>1, <2>r, <3>2 DEF RowAtHand
  <2>3. /\ sizes' = sizes \cup {<<event, m>>} /\ \A p \in sizes : p[1] # 0
        /\ carried' = carried /\ event # 0
    BY <1>t DEF CaenTypes, Arrives
  <2>4. IsRow(row, received) /\ ZeroBeyond(C!multi)
    BY <1>t, <1>3, <2>r, <2>2, <2>3 DEF RowAtHand, RowIsGood, MixedIn
  <2>5. \A v \in DataOf(ws, m) : v.event # row.event
    BY <1>2, <2>1, TreeTypes, <1>t
  <2>6. IsRow(row, received \cup DataOf(ws, m))
    BY <2>4, <2>5, RowStays
  <2>7. row = C!RowOf(C!multi')
    BY <1>3, <2>r
  <2>8. \A p \in sizes' : p[1] # 0
    BY <2>3
  <2>9. RowIsGood'
    BY <1>2, <1>3, <1>4, <2>4, <2>6, <2>7, <2>8 DEF RowIsGood
  <2> QED
    BY <1>4, <2>2, <2>3, <2>9 DEF Clean
<1>8. RowAtHand'
  <2>1. fEventCount' = 0 /\ fEventCount' <= event' /\ fEventCount' # event' /\ DOMAIN tree' = {} /\ tree' = << >>
    BY <1>2, <1>4
  <2> QED
    BY <1>6, <1>7, <2>1 DEF RowAtHand
<1> QED
  BY <1>5, <1>8

\* The tree's rows after a record that is not skipped.
LEMMA TreeGoesOn ==
  ASSUME CaenInv, ~ended, ~alarmed, NEW ws, NEW m, NEW n1, NEW n2,
         Arrives(ws, m, n1, n2), Handled(n1, n2), ~Skips,
         NEW row, row = C!RowOf(C!multi), NEW l, l = Len(tree)
  PROVE  /\ Processed(C!multi, card, event, buffer', n2, C!multi')
         /\ ~C!BadStart(C!CloseEvent(C!multi, event), event)
         /\ model = "792" /\ fEventCount' = event /\ (fEventCount = 0 => event = 1)
         /\ row.event = fEventCount /\ l \in Nat /\ DOMAIN tree = 1 .. l
         /\ Closes(C!multi, event) <=> fEventCount # event /\ fEventCount # 0
         /\ Closes(C!multi, event) => /\ DOMAIN tree' = 1 .. l + 1 /\ tree'[l + 1] = row
                                      /\ \A i \in 1 .. l : tree'[i] = tree[i]
         /\ ~Closes(C!multi, event) => tree' = tree
<1>t. CaenTypes /\ MultiShape /\ RowAtHand
  BY DEF CaenInv
<1>s. PICK s, u, buf : s = C!multi /\ u = C!multi' /\ buf = buffer'
  OBVIOUS
<1>1. /\ model = "792" => /\ Processed(s, card, event, buf, n2, u)
                          /\ Skips <=> C!BadStart(C!CloseEvent(s, event), event)
      /\ model = "965" => Skips
      /\ s.count = fEventCount /\ s.n = fNValues /\ s.rows = tree
      /\ u.count = fEventCount' /\ u.rows = tree'
      /\ fNValues = 0 <=> fEventCount = 0
  BY <1>t, <1>s, WriterSteps
<1>2. model = "792" /\ Processed(s, card, event, buf, n2, u) /\ ~C!BadStart(C!CloseEvent(s, event), event)
  BY <1>t, <1>1 DEF CaenTypes
<1>3. /\ u.count = event /\ (s.count = 0 => event = 1)
      /\ u.rows = IF Closes(s, event) THEN Append(s.rows, C!RowOf(s)) ELSE s.rows
  BY <1>2 DEF Processed
<1>4. /\ tree \in Seq(RowType) /\ l \in Nat /\ DOMAIN tree = 1 .. l /\ fEventCount \in Nat /\ fNValues \in Nat
      /\ row.event = fEventCount /\ row \in RowType
  BY <1>t, TreeTypes
<1>5. Closes(s, event) <=> fEventCount # event /\ fEventCount # 0
  BY <1>1, <1>4 DEF Closes
<1>6. Closes(s, event) => /\ DOMAIN tree' = 1 .. l + 1 /\ tree'[l + 1] = row
                          /\ \A i \in 1 .. l : tree'[i] = tree[i]
  <2>1. Closes(s, event) => tree' = Append(tree, row)
    BY <1>s, <1>1, <1>3
  <2> QED
    BY <1>4, <2>1
<1>7. ~Closes(s, event) => tree' = tree
  BY <1>1, <1>3
<1> QED
  BY <1>s, <1>1, <1>2, <1>3, <1>4, <1>5, <1>6, <1>7

\* A record that is not skipped goes to the row of its event, and the rows before stay theirs.
LEMMA ArrivalRow ==
  ASSUME CaenInv, ~ended, ~alarmed, NEW ws, NEW m, NEW n1, NEW n2,
         Arrives(ws, m, n1, n2), Handled(n1, n2), ~Skips
  PROVE  TreeIsGood' /\ (~alarmed' => RowAtHand')
<1>t. CaenTypes /\ MultiShape /\ RowAtHand /\ TreeIsGood
  BY DEF CaenInv
<1>r. PICK row, l : row = C!RowOf(C!multi) /\ l = Len(tree)
  OBVIOUS
<1>s. PICK s, u, buf : s = C!multi /\ u = C!multi' /\ buf = buffer'
  OBVIOUS
<1>c. PICK closes \in BOOLEAN : closes <=> Closes(s, event)
  OBVIOUS
<1>1. /\ Processed(s, card, event, buf, n2, u) /\ ~C!BadStart(C!CloseEvent(s, event), event)
      /\ model = "792" /\ fEventCount' = event /\ (fEventCount = 0 => event = 1)
      /\ row.event = fEventCount /\ l \in Nat /\ DOMAIN tree = 1 .. l
      /\ closes <=> fEventCount # event /\ fEventCount # 0
      /\ closes => /\ DOMAIN tree' = 1 .. l + 1 /\ tree'[l + 1] = row
                   /\ \A i \in 1 .. l : tree'[i] = tree[i]
      /\ ~closes => tree' = tree
  BY <1>r, <1>s, <1>c, TreeGoesOn
<1>2. /\ \A i \in 1 .. l : tree[i].event \in Nat
      /\ fEventCount \in Nat /\ event \in Nat \ {0}
      /\ \A v \in received : v \in Data /\ v.event \in Nat \ {0} /\ v.event <= event
  BY <1>t, <1>1, TreeTypes
<1>3. /\ model' = model /\ run' = run /\ event <= event' /\ (event' = event => card # NCards)
      /\ event' \in Nat /\ received' = received \cup DataOf(ws, m)
      /\ \A v \in DataOf(ws, m) : v.event = event
      /\ sizes' = sizes \cup {<<event, m>>} /\ carried' = carried /\ carried.event \in Nat
      /\ fLocPtrs'["multi"] = n2 /\ m \in Nat
      /\ \A i : Own(i)' = Own(i)
  BY <1>t, AfterRecordTypes DEF Handled, Arrives, HasData, DataOf, CaenTypes, RowType, C!Writers, Own
<1>4. event # fEventCount => \A v \in received : v.event # event
  BY <1>t, <1>1, <1>2 DEF RowAtHand
<1>5. l > 0 => Clean
  BY <1>1 DEF Clean
<1>m. /\ \A e : e # event => (MixedIn(sizes', e) <=> MixedIn(sizes, e))
      /\ \A e : (CameIn(sizes, e) => CameIn(sizes', e)) /\ (MixedIn(sizes, e) => MixedIn(sizes', e))
      /\ CameIn(sizes', event)
  <2>1. \A p : p \in sizes' <=> p \in sizes \/ p = <<event, m>>
    BY <1>3
  <2>2. \A e : e # event => (MixedIn(sizes', e) <=> MixedIn(sizes, e))
    BY <2>1 DEF MixedIn
  <2>3. \A e : (CameIn(sizes, e) => CameIn(sizes', e)) /\ (MixedIn(sizes, e) => MixedIn(sizes', e))
    BY <2>1 DEF MixedIn, CameIn
  <2>4. CameIn(sizes', event)
    <3>1. <<event, m>> \in sizes' /\ <<event, m>>[1] = event
      BY <2>1
    <3> QED
      BY <3>1 DEF CameIn
  <2> QED
    BY <2>2, <2>3, <2>4
<1>o. \A x : CarriedIn(x, sizes, carried) => CarriedIn(x, sizes', carried')
  BY <1>3, <1>m DEF CarriedIn
<1>6. ASSUME NEW i \in 1 .. l, Own(i)
      PROVE  tree[i].event < event /\ (MixedIn(sizes', tree[i].event) \/ IsRow(tree[i], received'))
  <2>1. Clean
    BY <1>1, <1>5, <1>6
  <2>2. tree[i].event < fEventCount /\ fEventCount <= event
    BY <1>t, <1>1, <1>6, <2>1 DEF RowAtHand
  <2>3. MixedIn(sizes, tree[i].event) \/ IsRow(tree[i], received)
    BY <1>t, <1>1, <1>6 DEF TreeIsGood
  <2>4. tree[i].event < event
    BY <1>2, <2>2
  <2>5. \A v \in DataOf(ws, m) : v.event # tree[i].event
    BY <1>2, <1>3, <2>4
  <2>6. IsRow(tree[i], received) => IsRow(tree[i], received')
    BY <1>3, <2>5, RowStays
  <2> QED
    BY <1>m, <2>3, <2>4, <2>6
<1>7. ASSUME Clean, closes
      PROVE  row.event < event /\ (MixedIn(sizes', row.event) \/ IsRow(row, received'))
  <2>1. row.event < event
    BY <1>t, <1>1, <1>2, <1>7 DEF RowAtHand
  <2>2. MixedIn(sizes, row.event) \/ IsRow(row, received)
    BY <1>t, <1>1, <1>r, <1>7 DEF RowAtHand, RowIsGood
  <2>3. \A v \in DataOf(ws, m) : v.event # row.event
    BY <1>1, <1>2, <1>3, <2>1
  <2>4. IsRow(row, received) => IsRow(row, received')
    BY <1>3, <2>3, RowStays
  <2> QED
    BY <1>m, <2>1, <2>2, <2>4
<1>8. ASSUME NEW i \in DOMAIN tree', Own(i)
      PROVE  tree'[i].event < event /\ (MixedIn(sizes', tree'[i].event) \/ IsRow(tree'[i], received'))
  <2>1. CASE i \in 1 .. l
    <3>1. tree'[i] = tree[i]
      BY <1>1, <2>1
    <3> QED
      BY <1>6, <1>8, <2>1, <3>1
  <2>2. CASE i \notin 1 .. l
    <3>1. closes /\ i = l + 1
      BY <1>1, <2>2
    <3>2. Clean
      BY <1>1, <1>5, <1>8, <3>1 DEF Clean, Own
    <3> QED
      BY <1>1, <1>7, <3>1, <3>2
  <2> QED
    BY <2>1, <2>2
<1>9. TreeIsGood'
  <2>1. ASSUME NEW i \in DOMAIN tree', ~Own(i) PROVE CarriedIn(tree'[i], sizes', carried')
    <3>0. i = 1 /\ carried.event # 0
      BY <2>1 DEF Own
    <3>1. CASE i \in 1 .. l
      <4>1. CarriedIn(tree[i], sizes, carried) /\ tree'[i] = tree[i]
        BY <1>t, <1>1, <2>1, <3>1 DEF TreeIsGood
      <4> QED
        BY <1>o, <4>1
    <3>2. CASE i \notin 1 .. l
      <4>1. closes /\ l = 0 /\ tree'[i] = row
        BY <1>1, <3>0, <3>2
      <4>2. ~Clean
        BY <1>1, <3>0, <4>1 DEF Clean
      <4>3. CarriedIn(row, sizes, carried)
        BY <1>t, <1>r, <4>2 DEF RowAtHand
      <4> QED
        BY <1>o, <4>1, <4>3
    <3> QED
      BY <3>1, <3>2
  <2>2. \A i \in DOMAIN tree' : ~Own(i) => CarriedIn(tree'[i], sizes', carried')
    BY <2>1
  <2>3. \A i \in DOMAIN tree' : Own(i) => MixedIn(sizes', tree'[i].event) \/ IsRow(tree'[i], received')
    BY <1>8
  <2> QED
    BY <1>3, <2>2, <2>3 DEF TreeIsGood
<1>10. ASSUME ~alarmed' PROVE RowAtHand'
  <2>1. Clean' => Clean \/ closes
    BY <1>1, <1>3 DEF Clean
  <2>2. ASSUME Clean \/ closes, ~MixedIn(sizes', event)
        PROVE  n2 = m /\ (fEventCount = event => Clean /\ RowIsGood)
    <3>1. n2 = IF cached["multi"] = event THEN fLocPtrs["multi"] ELSE m
      BY <1>1 DEF Arrives
    <3>2. cached["multi"] = fEventCount /\ event > 0
      BY <1>t, <1>2 DEF MultiShape
    <3>3. CASE fEventCount # event
      BY <3>1, <3>2, <3>3
    <3>4. CASE fEventCount = event
      <4>1. Clean /\ CameIn(sizes, event) /\ ~MixedIn(sizes, event)
        BY <1>t, <1>1, <1>m, <2>2, <3>2, <3>4 DEF RowAtHand
      <4>2. RowIsGood
        BY <1>t, <3>4, <4>1 DEF RowAtHand
      <4>3. PICK p \in sizes : p[1] = event
        BY <4>1 DEF CameIn
      <4>4. p[2] = fLocPtrs["multi"]
        BY <3>4, <4>2, <4>3 DEF RowIsGood
      <4>5. p[2] = m
        <5>1. p \in sizes' /\ <<event, m>> \in sizes'
          BY <1>3
        <5> QED
          BY <2>2, <4>3, <5>1 DEF MixedIn
      <4> QED
        BY <3>1, <3>2, <3>4, <4>1, <4>2, <4>4, <4>5
    <3> QED
      BY <3>3, <3>4
  <2>3. ASSUME NEW v \in received'
        PROVE  /\ v.event <= event
               /\ v.event = event \/ \E i \in DOMAIN tree' : tree'[i].event = v.event
    <3>1. CASE v \in DataOf(ws, m)
      BY <1>2, <1>3, <3>1
    <3>2. CASE v \in received /\ v.event # event
      <4>1. fEventCount > 0
        BY <1>t, <1>1, <1>2, <3>2 DEF RowAtHand
      <4>2. v.event = fEventCount \/ \E i \in DOMAIN tree : tree[i].event = v.event
        BY <1>t, <3>2, <4>1 DEF RowAtHand
      <4>3. CASE v.event = fEventCount
        <5>1. closes
          BY <1>1, <1>2, <3>2, <4>1, <4>3
        <5>2. l + 1 \in DOMAIN tree' /\ tree'[l + 1].event = v.event
          BY <1>1, <4>3, <5>1
        <5> QED
          BY <1>2, <3>2, <5>2
      <4>4. CASE \E i \in DOMAIN tree : tree[i].event = v.event
        <5>1. PICK i \in 1 .. l : tree[i].event = v.event
          BY <1>1, <4>4
        <5>2. i \in DOMAIN tree' /\ tree'[i] = tree[i]
          BY <1>1, <5>1
        <5> QED
          BY <1>2, <3>2, <5>1, <5>2
      <4> QED
        BY <4>2, <4>3, <4>4
    <3>3. CASE v \in received /\ v.event = event
      BY <1>2, <3>3
    <3> QED
      BY <1>3, <3>1, <3>2, <3>3
  <2>4. ASSUME Clean', ~MixedIn(sizes', event)
        PROVE  RowIsGood'
    <3>1. n2 = m /\ (closes \/ Clean) /\ (fEventCount = event => Clean /\ RowIsGood)
      BY <2>1, <2>2, <2>4
    <3>e. PICK e, c : e = event /\ c = card
      OBVIOUS
    <3>R. PICK R : R = received
      OBVIOUS
    <3>2. \A p \in sizes' : p[1] = event => p[2] = fLocPtrs'["multi"]
      <4>1. <<event, m>> \in sizes'
        BY <1>3
      <4>2. \A p \in sizes' : p[1] = event => p[2] = m
        BY <2>4, <4>1 DEF MixedIn
      <4> QED
        BY <1>3, <3>1, <4>2
    <3>3. /\ s \in MultiType /\ ShapeOf(s) /\ (s.n = 0 <=> s.count = 0) /\ s.count = fEventCount
          /\ ~u.alarm
      BY <1>s, <1>t, <1>10, WriterSteps
    <3>4. ~Closes(s, e) => ZeroBeyond(s)
      <4>1. CASE fEventCount = event
        BY <1>s, <3>1, <4>1 DEF RowIsGood
      <4>2. CASE fEventCount # event
        <5>1. ASSUME ~closes PROVE ZeroBeyond(s)
          <6>1. fEventCount = 0 /\ Clean
            BY <1>1, <1>2, <3>1, <4>2, <5>1
          <6>2. ~MixedIn(sizes, fEventCount)
            BY <1>t, <6>1 DEF MixedIn, CaenTypes
          <6> QED
            BY <1>t, <1>s, <6>1, <6>2 DEF RowAtHand, RowIsGood
        <5> QED
          BY <1>c, <3>e, <5>1
      <4> QED
        BY <4>1, <4>2
    <3>5. e = s.count => IsRow(C!RowOf(s), R)
      BY <1>s, <3>1, <3>3, <3>e, <3>R DEF RowIsGood
    <3>6. e # s.count => \A v \in R : v.event # e
      BY <1>4, <3>3, <3>e, <3>R
    <3>7. /\ R \subseteq Data /\ e \in Nat \ {0} /\ c \in 1 .. NCards /\ HasData(ws, c, e, m)
          /\ buf \in Seq(WordType) /\ AtFront(buf, ws, m)
      BY <1>t, <1>s, <3>e, <3>R DEF CaenTypes, Arrives
    <3>8. Processed(s, c, e, buf, m, u) /\ ~C!BadStart(C!CloseEvent(s, e), e)
      BY <1>1, <3>1, <3>e
    <3>9. IsRow(C!RowOf(u), R \cup DataOf(ws, m)) /\ ZeroBeyond(u)
      BY <3>3, <3>4, <3>5, <3>6, <3>7, <3>8, RowGoesOn
    <3> QED
      BY <1>1, <1>3, <1>s, <3>2, <3>9, <3>R DEF RowIsGood
  <2>5. fEventCount' # 0 /\ fEventCount' > 0 /\ fEventCount' <= event'
    BY <1>1, <1>2, <1>3
  <2>6. \A i \in DOMAIN tree' : Own(i) => tree'[i].event < fEventCount'
    BY <1>1, <1>3, <1>8
  <2>7. \A v \in received' :
          /\ v.event <= fEventCount'
          /\ v.event = fEventCount' \/ \E i \in DOMAIN tree' : tree'[i].event = v.event
    BY <1>1, <2>3
  <2>8. ~Clean' => CarriedIn(C!RowOf(C!multi'), sizes', carried')
    <3>1. ASSUME ~Clean' PROVE ~Clean /\ fEventCount = event
      <4>1. ~closes /\ tree = << >> /\ carried.event # 0
        BY <1>1, <1>3, <3>1 DEF Clean
      <4>2. ~Clean
        BY <4>1 DEF Clean
      <4>3. CarriedIn(row, sizes, carried)
        BY <1>t, <1>r, <4>2 DEF RowAtHand
      <4>4. row.event = carried.event
        BY <4>3 DEF CarriedIn
      <4> QED
        BY <1>1, <4>1, <4>2, <4>4
    <3>2. ASSUME ~Clean' PROVE CarriedIn(C!RowOf(C!multi'), sizes', carried')
      <4>1. ~Clean /\ fEventCount = event /\ CarriedIn(row, sizes, carried)
        BY <1>t, <1>r, <3>1, <3>2 DEF RowAtHand
      <4>2. row.event = carried.event /\ carried.event > 0
        BY <4>1 DEF CarriedIn
      <4>3. C!RowOf(C!multi').event = event
        BY <1>1, <1>s DEF Processed, C!RowOf
      <4> QED
        BY <1>1, <1>3, <1>m, <4>1, <4>2, <4>3 DEF CarriedIn
    <3> QED
      BY <3>2
  <2>9. /\ CameIn(sizes', fEventCount')
        /\ Clean' /\ ~MixedIn(sizes', fEventCount') => RowIsGood'
    BY <1>1, <1>m, <2>4
  <2> QED
    BY <1>3, <2>5, <2>6, <2>7, <2>8, <2>9 DEF RowAtHand
<1> QED
  BY <1>9, <1>10

-----------------------------------------------------------------------------
\* A record that arrives keeps the invariant.
LEMMA CaenRecord ==
  ASSUME CaenInv, NEW block \in Blocks, C!ProcessRecord(block)
  PROVE  CaenInv'
<1>1. CaenTypes /\ OneCard /\ MultiShape
  BY DEF CaenInv
<1>2. ~ended /\ ~alarmed /\ \E ws, m, n1, n2 : Arrives(ws, m, n1, n2) /\ Handled(n1, n2)
  BY <1>1, RecordArrives
<1>3. PICK ws, m, n1, n2 : Arrives(ws, m, n1, n2) /\ Handled(n1, n2)
  BY <1>2
<1>4. CaenTypes' /\ OneCard' /\ MultiShape'
  BY <1>1, <1>2, <1>3, ArrivalTypes, ArrivalOneCard, ArrivalShape
<1>5. TreeIsGood' /\ (~alarmed' => RowAtHand')
  <2>1. CASE Skips
    BY <1>2, <1>3, <2>1, ArrivalSkipped
  <2>2. CASE ~Skips
    BY <1>2, <1>3, <2>2, ArrivalRow
  <2> QED
    BY <2>1, <2>2
<1>6. C!EveryEventHasRow'
  BY <1>2, <1>3 DEF Handled, C!EveryEventHasRow
<1> QED
  BY <1>4, <1>5, <1>6 DEF CaenInv

\* So does one that is lost.
LEMMA CaenLoss == ASSUME CaenInv, C!LoseRecord PROVE CaenInv'
<1>1. CaenTypes /\ OneCard /\ MultiShape /\ RowAtHand /\ TreeIsGood /\ ~ended /\ ~alarmed
  BY DEF CaenInv, C!LoseRecord
<1>2. /\ model' = model /\ run' = run /\ buffer' = buffer /\ cached' = cached /\ fLocPtrs' = fLocPtrs
      /\ fEventCount' = fEventCount /\ fNValues' = fNValues /\ fCard' = fCard /\ fQDCVal' = fQDCVal
      /\ tree' = tree /\ alarmed' = alarmed /\ ended' = ended /\ last' = last /\ single' = single
      /\ received' = received /\ sizes' = sizes /\ carried' = carried /\ laidOut' = laidOut
  BY DEF C!LoseRecord, C!cacheVars, C!multiVars, C!historyVars
<1>3. C!multi' = C!multi
  BY <1>2 DEF C!multi
<1>4. /\ event' \in Nat \ {0} /\ card' \in 1 .. NCards /\ event <= event' /\ event \in Nat
      /\ event' = event => card # NCards
      /\ event' = event \/ event' = event + 1
  BY <1>1, AfterRecordTypes DEF C!LoseRecord, CaenTypes
<1>5. CaenTypes'
  <2>1. \A v \in received' : v.event <= event'
    BY <1>1, <1>2, <1>4, TreeTypes
  <2>2. \A p \in sizes : p[1] <= event'
    BY <1>1, <1>4 DEF CaenTypes
  <2> QED
    BY <1>1, <1>2, <1>3, <1>4, <2>1, <2>2 DEF CaenTypes
<1>6. OneCard'
  BY <1>1, <1>2 DEF OneCard, C!RowsOfOneCard
<1>7. MultiShape'
  BY <1>1, <1>2, <1>3 DEF MultiShape
<1>8. RowAtHand'
  <2>1. fEventCount \in Nat
    BY <1>1, TreeTypes
  <2>2. C!RowOf(C!multi)' = C!RowOf(C!multi)
    BY <1>3
  <2>3. Clean' = Clean
    BY <1>2 DEF Clean
  <2>4. Clean \/ received # {} => fEventCount <= event'
    BY <1>1, <1>4, <2>1 DEF RowAtHand
 <2>5. /\ RowIsGood' = RowIsGood /\ \A i : Own(i)' = Own(i)
        /\ \A x : CarriedIn(x, sizes', carried') = CarriedIn(x, sizes, carried)
        /\ \A e : CameIn(sizes', e) = CameIn(sizes, e) /\ MixedIn(sizes', e) = MixedIn(sizes, e)
    BY <1>2, <1>3, <2>2 DEF RowIsGood, Own, CarriedIn, CameIn, MixedIn
  <2> QED
    BY <1>1, <1>2, <2>2, <2>3, <2>4, <2>5 DEF RowAtHand
<1>9. TreeIsGood'
  BY <1>1, <1>2 DEF TreeIsGood, Own, MixedIn, CarriedIn, CameIn
<1>10. C!EveryEventHasRow'
  BY <1>1, <1>2 DEF C!EveryEventHasRow
<1> QED
  BY <1>5, <1>6, <1>7, <1>8, <1>9, <1>10 DEF CaenInv

\* The end of a run closes the row at hand.
LEMMA CaenEnds == ASSUME CaenInv, C!EndRun PROVE CaenInv'
<1>1. CaenTypes /\ OneCard /\ MultiShape /\ RowAtHand /\ TreeIsGood /\ ~ended /\ ~alarmed
  BY DEF CaenInv, C!EndRun
<1>r. PICK row, l, s : row = C!RowOf(C!multi) /\ l = Len(tree) /\ s = C!multi
  OBVIOUS
<1>2. /\ model' = model /\ run' = run /\ buffer' = buffer /\ cached' = cached /\ fLocPtrs' = fLocPtrs
      /\ event' = event /\ card' = card /\ sizes' = sizes /\ carried' = carried /\ laidOut' = laidOut
      /\ ended' /\ ended' \in BOOLEAN /\ last' = last /\ single' = single /\ received' = received
  BY DEF C!EndRun, C!cacheVars, C!historyVars
<1>3. /\ s \in MultiType /\ s.rows = tree /\ s.alarm = alarmed /\ s.count = fEventCount /\ s.n = fNValues
      /\ s.cards = fCard /\ s.vals = fQDCVal
  BY <1>1, <1>r DEF CaenTypes, C!multi
<1>4. /\ tree' = Append(tree, row)
      /\ fEventCount' = fEventCount /\ fNValues' = fNValues /\ fCard' = fCard /\ fQDCVal' = fQDCVal
      /\ alarmed' = alarmed
  <2>1. C!SetMulti(C!Fill(s))
    BY <1>r DEF C!EndRun
  <2>2. C!Fill(s) = [s EXCEPT !.rows = Append(tree, row)]
    BY <1>r, <1>3 DEF C!Fill
  <2> QED
    BY <1>3, <2>1, <2>2 DEF C!SetMulti, MultiType
<1>5. /\ tree \in Seq(RowType) /\ l \in Nat /\ DOMAIN tree = 1 .. l /\ row \in RowType
      /\ row.event = fEventCount /\ fEventCount \in Nat
  BY <1>1, <1>r, TreeTypes
<1>6. /\ tree' \in Seq(RowType) /\ DOMAIN tree' = 1 .. l + 1 /\ tree'[l + 1] = row
      /\ \A i \in 1 .. l : tree'[i] = tree[i]
  BY <1>4, <1>5, <1>r
<1>7. C!multi' = [count |-> fEventCount, n |-> fNValues, cards |-> fCard, vals |-> fQDCVal,
                  rows |-> tree', alarm |-> alarmed]
  BY <1>4 DEF C!multi
<1>8. C!multi' \in MultiType /\ ShapeOf(C!multi')
  <2>1. C!multi' \in MultiType
    BY <1>3, <1>6, <1>7 DEF MultiType
  <2>2. ShapeOf(s)
    BY <1>1, <1>r DEF MultiShape
  <2> QED
    BY <1>3, <1>7, <2>1, <2>2 DEF ShapeOf, Shape
<1>9. CaenTypes'
  BY <1>1, <1>2, <1>8 DEF CaenTypes
<1>10. OneCard'
  BY <1>1, <1>2 DEF OneCard, C!RowsOfOneCard
<1>11. MultiShape'
  BY <1>1, <1>2, <1>4, <1>8 DEF MultiShape
<1>12. \A i \in DOMAIN tree' :
         IF Own(i) THEN MixedIn(sizes, tree'[i].event) \/ IsRow(tree'[i], received)
         ELSE CarriedIn(tree'[i], sizes, carried)
  <2> SUFFICES ASSUME NEW i \in DOMAIN tree'
               PROVE  IF Own(i) THEN MixedIn(sizes, tree'[i].event) \/ IsRow(tree'[i], received)
                      ELSE CarriedIn(tree'[i], sizes, carried)
    OBVIOUS
  <2>1. CASE i \in 1 .. l
    BY <1>1, <1>5, <1>6, <2>1 DEF TreeIsGood
  <2>2. CASE i \notin 1 .. l
    <3>1. i = l + 1 /\ tree'[i] = row
      BY <1>5, <1>6, <2>2
    <3>2. CASE Clean
      <4>1. MixedIn(sizes, row.event) \/ IsRow(row, received)
        BY <1>1, <1>r, <1>5, <3>2 DEF RowAtHand, RowIsGood
      <4>2. ~Own(i) => i # 1
        BY <1>5, <3>1, <3>2 DEF Clean, Own
      <4> QED
        BY <3>1, <4>1, <4>2 DEF Own
    <3>3. CASE ~Clean
      <4>1. CarriedIn(row, sizes, carried) /\ l = 0 /\ carried.event # 0
        BY <1>1, <1>r, <3>3 DEF RowAtHand, Clean
      <4>2. ~Own(i)
        BY <3>1, <4>1 DEF Own
      <4> QED
        BY <3>1, <4>1, <4>2
    <3> QED
      BY <3>2, <3>3
  <2> QED
    BY <2>1, <2>2
<1>13. TreeIsGood'
  BY <1>2, <1>12 DEF TreeIsGood, Own, MixedIn, CarriedIn, CameIn
<1>14. C!EveryEventHasRow'
  <2> SUFFICES ASSUME fEventCount > 0, NEW v \in received
               PROVE  \E i \in DOMAIN tree' : tree'[i].event = v.event
    BY <1>2, <1>4 DEF C!EveryEventHasRow
  <2>1. CASE v.event = fEventCount
    <3>1. l + 1 \in DOMAIN tree' /\ tree'[l + 1].event = v.event
      BY <1>5, <1>6, <2>1
    <3> QED
      BY <3>1
  <2>2. CASE \E i \in DOMAIN tree : tree[i].event = v.event
    <3>1. PICK i \in 1 .. l : tree[i].event = v.event
      BY <1>5, <2>2
    <3>2. i \in DOMAIN tree' /\ tree'[i] = tree[i]
      BY <1>5, <1>6, <3>1
    <3> QED
      BY <3>1, <3>2
  <2> QED
    BY <1>1, <2>1, <2>2 DEF RowAtHand
<1> QED
  BY <1>2, <1>9, <1>10, <1>11, <1>13, <1>14 DEF CaenInv

\* The next run has an empty tree; what the writer kept of the run before is not of it.
LEMMA CaenStarts == ASSUME CaenInv, C!StartRun PROVE CaenInv'
<1>1. CaenTypes /\ OneCard /\ MultiShape /\ ended /\ ~alarmed
  BY DEF CaenInv, C!StartRun, MultiShape
<1>2. /\ model' = model /\ run' = run + 1 /\ event' = 1 /\ card' = 1 /\ ended' = FALSE
      /\ tree' = << >> /\ received' = {} /\ last' = << >> /\ sizes' = {}
      /\ carried' = C!RowOf(C!multi) /\ laidOut' = laidOut
      /\ buffer' = buffer /\ cached' = cached /\ fLocPtrs' = fLocPtrs
      /\ fEventCount' = fEventCount /\ fNValues' = fNValues /\ fCard' = fCard /\ fQDCVal' = fQDCVal
      /\ alarmed' = alarmed /\ single' = single
  BY DEF C!StartRun, C!cacheVars
<1>3. run \in Nat \ {0} /\ run' \in Nat \ {0} /\ run' # 1
  BY <1>1, <1>2 DEF CaenTypes
<1>4. C!multi' = [C!multi EXCEPT !.rows = << >>]
  BY <1>2 DEF C!multi
<1>5. C!multi' \in MultiType /\ ShapeOf(C!multi')
  <2>s. PICK s : s = C!multi
    OBVIOUS
  <2>1. s \in MultiType /\ ShapeOf(s)
    BY <1>1, <2>s DEF CaenTypes, MultiShape
  <2>2. C!multi' = [s EXCEPT !.rows = << >>]
    BY <1>4, <2>s
  <2>3. [s EXCEPT !.rows = << >>] \in MultiType
    <3>1. << >> \in Seq(RowType)
      OBVIOUS
    <3> QED
      BY <2>1, <3>1 DEF MultiType
  <2>4. /\ [s EXCEPT !.rows = << >>].cards = s.cards /\ [s EXCEPT !.rows = << >>].n = s.n
        /\ [s EXCEPT !.rows = << >>].vals = s.vals
    BY <2>1 DEF MultiType
  <2> QED
    BY <2>1, <2>2, <2>3, <2>4 DEF ShapeOf, Shape
<1>6. CaenTypes'
  <2>1. 1 \in 1 .. NCards /\ 1 \in Nat \ {0}
    BY CardAssumption
  <2>2. event' \in Nat \ {0} /\ card' \in 1 .. NCards /\ carried' \in RowType
    BY <1>1, <1>2, <2>1, TreeTypes
  <2> QED
    BY <1>1, <1>2, <1>3, <1>5, <2>2 DEF CaenTypes
<1>7. OneCard'
  BY <1>1, <1>2 DEF OneCard, C!RowsOfOneCard
<1>8. MultiShape'
  BY <1>1, <1>2, <1>5 DEF MultiShape
<1>9. RowAtHand'
  <2>r. PICK row : row = C!RowOf(C!multi)
    OBVIOUS
  <2>1. /\ row.event = fEventCount /\ fEventCount \in Nat /\ row \in RowType
        /\ C!RowOf(C!multi') = row /\ carried' = row
    BY <1>1, <1>2, <1>4, <2>r, TreeTypes DEF C!RowOf, CaenTypes, MultiType
  <2>2. Clean' <=> fEventCount = 0
    BY <1>2, <2>1 DEF Clean
  <2>3. ~Clean' => CarriedIn(C!RowOf(C!multi'), sizes', carried')
    BY <2>1, <2>2 DEF CarriedIn
  <2>4. Clean' => RowIsGood'
    <3>1. ASSUME fEventCount = 0 PROVE RowIsGood'
      <4>1. C!multi'.vals = << >>
        BY <1>1, <1>2, <3>1 DEF MultiShape, C!multi
      <4>2. C!RowOf(C!multi').vals = << >>
        BY <4>1 DEF C!RowOf
      <4>3. DOMAIN (C!RowOf(C!multi').vals) = {} /\ 1 .. Len(C!multi'.vals) = {}
        BY <4>1, <4>2
      <4> QED
        BY <1>2, <4>3 DEF RowIsGood, IsRow, ZeroBeyond
    <3> QED
      BY <2>2, <3>1
  <2> QED
    BY <1>2, <2>1, <2>2, <2>3, <2>4 DEF RowAtHand
<1>10. TreeIsGood' /\ C!EveryEventHasRow'
  BY <1>2 DEF TreeIsGood, C!EveryEventHasRow
<1> QED
  BY <1>6, <1>7, <1>8, <1>9, <1>10 DEF CaenInv

\* In the beginning nothing has been decoded or written.
LEMMA CaenInit == ASSUME C!Init PROVE CaenInv
<1>1. C!multi = [count |-> 0, n |-> 0, cards |-> << >>, vals |-> << >>, rows |-> << >>, alarm |-> FALSE]
  BY DEF C!Init, C!multi
<1>2. C!multi \in MultiType
  <2>1. << >> \in Seq(1 .. NCards) /\ << >> \in Seq(WordType \cup {C!Zero}) /\ << >> \in Seq(RowType)
    OBVIOUS
  <2> QED
    BY <1>1, <2>1 DEF MultiType
<1>3. ShapeOf(C!multi)
  <2>1. Shape(C!multi, 0)
    BY <1>1, CardAssumption DEF Shape
  <2> QED
    BY <1>1, <2>1 DEF ShapeOf
<1>4. CaenTypes
  <2>1. 1 \in 1 .. NCards /\ 1 \in Nat \ {0}
    BY CardAssumption
  <2>2. event \in Nat \ {0} /\ card \in 1 .. NCards /\ run \in Nat \ {0}
    BY <2>1 DEF C!Init
  <2>3. /\ cached \in [C!Writers -> Nat] /\ fLocPtrs \in [C!Writers -> Nat]
        /\ \A w \in C!Writers : fLocPtrs[w] <= Len(buffer)
    BY DEF C!Init
  <2>4. /\ buffer = << >> /\ received = {} /\ ended = FALSE /\ model \in {"792", "965"}
        /\ << >> \in Seq(WordType)
    BY DEF C!Init
  <2>5. sizes = {} /\ carried \in RowType
    BY <1>2 DEF C!Init, C!RowOf, RowType, MultiType
  <2> QED
    BY <1>2, <2>2, <2>3, <2>4, <2>5 DEF CaenTypes
<1>5. OneCard /\ MultiShape
  BY <1>3 DEF C!Init, OneCard, MultiShape, C!RowsOfOneCard, C!Writers
<1>6. RowAtHand
  <2>1. IsRow(C!RowOf(C!multi), received) /\ ZeroBeyond(C!multi)
    BY <1>1 DEF C!Init, IsRow, ZeroBeyond, C!RowOf
  <2>2. Clean /\ RowIsGood
    BY <1>1, <2>1 DEF C!Init, Clean, RowIsGood, C!RowOf
  <2> QED
    BY <2>2 DEF C!Init, RowAtHand
<1>7. TreeIsGood /\ C!EveryEventHasRow
  BY DEF C!Init, TreeIsGood, C!EveryEventHasRow
<1> QED
  BY <1>4, <1>5, <1>6, <1>7 DEF CaenInv

\* A step of another part leaves the cards alone.
CaenGoes == part = "caen" => CaenInv

\* The invariant of the cards is kept by every step of the decoders.
LEMMA CaenHolds == AnySpec => []CaenGoes
<1>1. AnyInit => CaenGoes
  BY CaenInit DEF AnyInit, CaenGoes
<1>2. CaenGoes /\ [AnyNext]_partVars => CaenGoes'
  <2> SUFFICES ASSUME CaenGoes, [AnyNext]_partVars, part' = "caen" PROVE CaenInv'
    BY DEF CaenGoes
  <2>1. CASE part = "caen" /\ C!Next
    <3>1. CaenInv
      BY <2>1 DEF CaenGoes
    <3> QED
      BY <2>1, <3>1, CaenRecord, CaenLoss, CaenEnds, CaenStarts DEF C!Next
  <2>2. CASE UNCHANGED <<part, caenVars>>
    <3>1. CaenInv
      BY <2>2 DEF CaenGoes
    <3>2. /\ UNCHANGED <<model, run, event, card, buffer, cached, fLocPtrs>>
          /\ UNCHANGED <<fEventCount, fNValues, fCard, fQDCVal, alarmed, ended, tree>>
          /\ UNCHANGED <<last, single, received, sizes, carried, laidOut>>
      BY <2>2 DEF caenVars
    <3>3. C!multi' = C!multi
      BY <3>2 DEF C!multi
    <3>4. CaenTypes'
      BY <3>1, <3>2, <3>3 DEF CaenInv, CaenTypes
    <3>5. OneCard'
      BY <3>1, <3>2 DEF CaenInv, OneCard, C!RowsOfOneCard
    <3>6. MultiShape'
      BY <3>1, <3>2, <3>3 DEF CaenInv, MultiShape
    <3>7. ~ended' /\ ~alarmed' => RowAtHand'
      BY <3>1, <3>2, <3>3 DEF CaenInv, RowAtHand, Clean, RowIsGood, Own, CarriedIn, CameIn,
                              MixedIn
    <3>8. TreeIsGood' /\ C!EveryEventHasRow'
      BY <3>1, <3>2 DEF CaenInv, TreeIsGood, Own, C!EveryEventHasRow, CarriedIn, CameIn,
                        MixedIn
    <3> QED
      BY <3>4, <3>5, <3>6, <3>7, <3>8 DEF CaenInv
  <2> QED
    BY <2>1, <2>2 DEF AnyNext, partVars
<1> QED
  BY <1>1, <1>2, PTL DEF AnySpec

(***************************************************************************)
(* A row of the multi-card tree has the values of its event, all of them   *)
(* and no others, each at the place of its card and channel, whichever     *)
(* records were lost and however long they are, unless two records of the  *)
(* event differ in their number of values, or the row is carried over from *)
(* the run before; and each event that a record came of has its row.       *)
(***************************************************************************)
THEOREM CardsMeetInTheirRow == AnySpec => []MultiCardTree
<1>1. CaenGoes => MultiCardTree
  BY GoodTree DEF CaenGoes, CaenInv, MultiCardTree, C!MultiCardTree
<1> QED
  BY <1>1, CaenHolds, PTL

(***************************************************************************)
(* A 792's record is read by the layout of one with its event count: its   *)
(* row is its values if it has as many as that one, some of them if it has *)
(* more.  A 965's row that is not marked as questionable is its record's.  *)
(***************************************************************************)
THEOREM CardHasItsRow == AnySpec => []RowsOfOneCard
<1>1. CaenGoes => RowsOfOneCard
  BY DEF CaenGoes, CaenInv, OneCard, RowsOfOneCard
<1> QED
  BY <1>1, CaenHolds, PTL

(***************************************************************************)
(* The events of a DGF4c buffer.                                           *)
(***************************************************************************)
\* The modules count alike.
LEMMA SameCount == \A S : G!Cardinality(S) = Cardinality(S)
BY DEF G!Cardinality, Cardinality

HalfWords ==
  /\ memory \in [0 .. MaxWords - 1 -> Values] /\ beyond \in Values /\ bufNData \in Nat

\* How many of the hits h are no higher than c.
Rank(h, c) == Cardinality({d \in h : d <= c})

\* The hits of an event are ranked 1, 2 and so on, without a gap.
LEMMA HitsRanked ==
  ASSUME NEW v, NEW h, h = G!Hits(v), NEW n, n = Cardinality(h)
  PROVE  /\ n \in Nat /\ h \subseteq 0 .. 3 /\ \A c \in h : Rank(h, c) \in 1 .. n
         /\ \A c, d \in h : c < d => Rank(h, c) < Rank(h, d)
         /\ \A j \in 1 .. n : \E c \in h : Rank(h, c) = j
<1>1. h \subseteq 0 .. 3 /\ IsFiniteSet(h) /\ n \in Nat
  <2>1. h \subseteq 0 .. 3
    BY DEF G!Hits
  <2>3. IsFiniteSet(h)
    <3>1. h \in SUBSET Nat /\ \A c \in h : c <= 3
      BY <2>1
    <3> QED
      BY <3>1, FS_BoundedSetOfNaturals
  <2> QED
    BY <2>1, <2>3, FS_CardinalityType
<1>2. ASSUME NEW c \in h
      PROVE  IsFiniteSet({d \in h : d <= c}) /\ Rank(h, c) \in 1 .. n
  <2>1. PICK u : u = {d \in h : d <= c}
    OBVIOUS
  <2>2. IsFiniteSet(u) /\ Cardinality(u) <= n
    BY <1>1, <2>1, FS_Subset
  <2>3. Cardinality(u) \in Nat /\ Cardinality(u) # 0
    <3>1. c \in u
      BY <1>1, <2>1
    <3> QED
      BY <2>2, <3>1, FS_CardinalityType, FS_EmptySet
  <2> QED
    BY <1>1, <2>1, <2>2, <2>3 DEF Rank
<1>3. ASSUME NEW c \in h, NEW d \in h, c < d PROVE Rank(h, c) < Rank(h, d)
  <2>1. PICK u, w : u = {e \in h : e <= c} /\ w = {e \in h : e <= d}
    OBVIOUS
  <2>2. u \in SUBSET w /\ u # w
    <3>1. d \in w /\ d \notin u
      BY <1>1, <1>3, <2>1
    <3>2. \A e \in h : e <= c => e <= d
      BY <1>1, <1>3
    <3> QED
      BY <2>1, <3>1, <3>2
  <2>3. Cardinality(u) <= Cardinality(w) /\ Cardinality(u) # Cardinality(w)
    BY <1>2, <2>1, <2>2, FS_Subset
  <2> QED
    BY <1>2, <2>1, <2>3 DEF Rank
<1>4. ASSUME NEW j \in 1 .. n PROVE \E c \in h : Rank(h, c) = j
  <2>1. PICK f : f = [c \in h |-> Rank(h, c)]
    OBVIOUS
  <2>2. f \in [h -> 1 .. n]
    BY <1>2, <2>1
  <2>3. ASSUME NEW c \in h, NEW d \in h, f[c] = f[d] PROVE c = d
    <3>1. Rank(h, c) = Rank(h, d) /\ Rank(h, c) \in 1 .. n /\ Rank(h, d) \in 1 .. n
      BY <1>2, <2>1, <2>3
    <3>2. ~ (c < d) /\ ~ (d < c)
      BY <1>1, <1>3, <3>1
    <3> QED
      BY <1>1, <3>2
  <2>4. f \in Injection(h, 1 .. n)
    BY <2>2, <2>3, Fun_IsInj
  <2>5. IsFiniteSet(1 .. n) /\ Cardinality(1 .. n) = n
    BY <1>1, FS_Interval
  <2>6. f \in Surjection(h, 1 .. n)
    BY <2>4, <2>5, FS_Injection
  <2>7. \E c \in h : f[c] = j
    BY <2>6 DEF Surjection
  <2> QED
    BY <2>1, <2>7
<1> QED
  BY <1>1, <1>2, <1>3, <1>4

\* The numbers of an event's channels are its hits, from the lowest on.
LEMMA HitNumbers ==
  ASSUME NEW v, NEW h, h = G!Hits(v), NEW n, n = Cardinality(h)
  PROVE  /\ n \in Nat
         /\ \A j \in 1 .. n : G!HitNumber(v, j) \in h /\ h \subseteq 0 .. 3
         /\ \A j, l \in 1 .. n : j < l => G!HitNumber(v, j) < G!HitNumber(v, l)
         /\ \A c \in h : \E j \in 1 .. n : G!HitNumber(v, j) = c
<1>1. /\ n \in Nat /\ h \subseteq 0 .. 3 /\ \A c \in h : Rank(h, c) \in 1 .. n
      /\ \A c, d \in h : c < d => Rank(h, c) < Rank(h, d)
      /\ \A j \in 1 .. n : \E c \in h : Rank(h, c) = j
  BY HitsRanked
<1>2. ASSUME NEW j \in 1 .. n
      PROVE  G!HitNumber(v, j) \in h /\ Rank(h, G!HitNumber(v, j)) = j
  <2>1. PICK c \in h : Rank(h, c) = j
    BY <1>1
  <2>2. G!Cardinality({d \in G!Hits(v) : d <= c}) = j
    BY <2>1, SameCount DEF Rank
  <2>3. /\ G!HitNumber(v, j) \in G!Hits(v)
        /\ G!Cardinality({d \in G!Hits(v) : d <= G!HitNumber(v, j)}) = j
    BY <2>2, Zenon DEF G!HitNumber
  <2> QED
    BY <2>3, SameCount DEF Rank
<1>3. ASSUME NEW c \in h, NEW d \in h, Rank(h, c) = Rank(h, d) PROVE c = d
  <2>1. ~ (c < d) /\ ~ (d < c)
    BY <1>1, <1>3
  <2> QED
    BY <1>1, <2>1
<1>4. ASSUME NEW j \in 1 .. n, NEW l \in 1 .. n, j < l
      PROVE  G!HitNumber(v, j) < G!HitNumber(v, l)
  <2>1. PICK c, d \in h : c = G!HitNumber(v, j) /\ d = G!HitNumber(v, l)
    BY <1>2
  <2>2. Rank(h, c) = j /\ Rank(h, d) = l
    BY <1>2, <2>1
  <2>3. ~ (d < c) /\ c # d
    <3>1. ~ (l < j) /\ j # l
      BY <1>4
    <3> QED
      BY <1>1, <2>2, <3>1
  <2> QED
    BY <1>1, <2>1, <2>3
<1>5. ASSUME NEW c \in h PROVE \E j \in 1 .. n : G!HitNumber(v, j) = c
  <2>1. PICK j \in 1 .. n : j = Rank(h, c)
    BY <1>1
  <2>2. G!HitNumber(v, j) = c
    BY <1>2, <1>3, <2>1
  <2> QED
    BY <2>2
<1> QED
  BY <1>1, <1>2, <1>4, <1>5

\* What rises from one place to the next, rises.
LEMMA Rises ==
  ASSUME NEW n \in Nat, NEW s, \A i \in 0 .. n : s[i] \in Nat, \A i \in 1 .. n : s[i - 1] <= s[i]
  PROVE  \A i, j \in 0 .. n : i <= j => s[i] <= s[j]
<1> SUFFICES ASSUME NEW i \in 0 .. n, NEW k \in 0 .. n, i <= k, ~ (s[i] <= s[k]) PROVE FALSE
  OBVIOUS
<1>1. PICK T : T = {j \in 0 .. n : i <= j /\ ~ (s[i] <= s[j])}
  OBVIOUS
<1>2. T \subseteq Nat /\ k \in T
  BY <1>1
<1>3. PICK j \in T : \A l \in T : j <= l
  BY <1>2, Least
<1>4. j \in 0 .. n /\ i <= j /\ ~ (s[i] <= s[j])
  BY <1>1
<1>5. j # i
  BY <1>4
<1>6. j - 1 \in 0 .. n /\ i <= j - 1 /\ j \in 1 .. n
  BY <1>4, <1>5
<1>7. s[i] <= s[j - 1]
  <2>1. j - 1 \notin T
    BY <1>3, <1>4
  <2> QED
    BY <1>1, <1>6, <2>1
<1>8. s[j - 1] <= s[j] /\ s[i] \in Nat /\ s[j] \in Nat /\ s[j - 1] \in Nat
  BY <1>4, <1>6
<1> QED
  BY <1>4, <1>7, <1>8

\* A value between the first and the last of what rises is between one place and the next.
LEMMA Between ==
  ASSUME NEW n \in Nat, NEW s, \A i \in 0 .. n : s[i] \in Nat, \A i \in 1 .. n : s[i - 1] <= s[i],
         NEW k \in Nat, s[0] <= k, k < s[n]
  PROVE  /\ \E j \in 1 .. n : s[j - 1] <= k /\ k < s[j]
         /\ \A i, j \in 1 .. n : s[i - 1] <= k /\ k < s[i] /\ s[j - 1] <= k /\ k < s[j] => i = j
<1>1. \A i, j \in 0 .. n : i <= j => s[i] <= s[j]
  BY Rises
<1>2. \E j \in 1 .. n : s[j - 1] <= k /\ k < s[j]
  <2>1. PICK T : T = {i \in 0 .. n : s[i] <= k}
    OBVIOUS
  <2>2. T \subseteq 0 .. n /\ 0 \in T
    BY <2>1
  <2>3. PICK i \in T : \A j \in T : j <= i
    BY <2>2, Largest
  <2>4. i \in 0 .. n /\ s[i] <= k /\ i # n
    BY <2>1
  <2>5. i + 1 \in 1 .. n /\ i + 1 \in 0 .. n /\ (i + 1) - 1 = i /\ i + 1 \notin T
    BY <2>3, <2>4
  <2>6. k < s[i + 1]
    BY <2>1, <2>5
  <2> QED
    BY <2>4, <2>5, <2>6
<1>3. ASSUME NEW i \in 1 .. n, NEW j \in 1 .. n, s[i - 1] <= k, k < s[j] PROVE ~ (j < i)
  <2> SUFFICES ASSUME j < i PROVE FALSE
    OBVIOUS
  <2>1. j \in 0 .. n /\ i - 1 \in 0 .. n /\ j <= i - 1
    OBVIOUS
  <2>2. s[j] <= s[i - 1] /\ s[j] \in Nat /\ s[i - 1] \in Nat
    BY <1>1, <2>1
  <2> QED
    BY <1>3, <2>2
<1>4. ASSUME NEW i \in 1 .. n, NEW j \in 1 .. n,
             s[i - 1] <= k, k < s[i], s[j - 1] <= k, k < s[j]
      PROVE  i = j
  BY <1>3, <1>4
<1> QED
  BY <1>2, <1>4

\* Where the n channels of the event at p begin, and where the last ends.
Steps(p, n, s) ==
  s = [i \in 0 .. n |-> IF i = 0 THEN p + EventHead ELSE s[i - 1] + G!ChanNData(s[i - 1])]

\* A length that is read is a number.
LEMMA LengthsRead ==
  ASSUME HalfWords, NEW p \in Nat
  PROVE  G!At(p) \in Nat /\ G!ChanNData(p) \in Nat
<1>1. G!At(p) \in Nat
  <2>1. p < MaxWords => p \in 0 .. MaxWords - 1
    BY HalfWordAssumption
  <2> QED
    BY <2>1, HalfWordAssumption DEF HalfWords, G!At
<1> QED
  BY <1>1, HalfWordAssumption DEF G!ChanNData

\* For every number of channels there are such places, since each is found from the one before.
LEMMA StepsExist ==
  ASSUME HalfWords, NEW p \in Nat
  PROVE  \A n \in Nat : \E s : Steps(p, n, s)
<1> SUFFICES ASSUME NEW n \in Nat, ~ \E s : Steps(p, n, s) PROVE FALSE
  OBVIOUS
<1>1. PICK T : T = {m \in Nat : ~ \E s : Steps(p, m, s)}
  OBVIOUS
<1>2. PICK m \in T : \A l \in T : m <= l
  <2>1. T \subseteq Nat /\ n \in T
    BY <1>1
  <2> QED
    BY <2>1, Least
<1>3. m \in Nat /\ ~ \E s : Steps(p, m, s)
  BY <1>1
<1>4. CASE m = 0
  <2>1. PICK s : s = [i \in 0 .. 0 |-> p + EventHead]
    OBVIOUS
  <2>2. s = [i \in 0 .. 0 |-> IF i = 0 THEN p + EventHead ELSE s[i - 1] + G!ChanNData(s[i - 1])]
    BY <2>1
  <2> QED
    BY <1>3, <1>4, <2>2 DEF Steps
<1>5. CASE m # 0
  <2>1. PICK l \in Nat : m = l + 1
    BY <1>3, <1>5
  <2>2. l \notin T
    BY <1>2, <2>1
  <2>3. PICK s : Steps(p, l, s)
    BY <1>1, <2>2
  <2>4. s = [i \in 0 .. l |-> IF i = 0 THEN p + EventHead ELSE s[i - 1] + G!ChanNData(s[i - 1])]
    BY <2>3 DEF Steps
  <2>5. PICK t : t = [i \in 0 .. l + 1 |-> IF i <= l THEN s[i] ELSE s[l] + G!ChanNData(s[l])]
    OBVIOUS
  <2>6. ASSUME NEW i \in 0 .. l + 1
        PROVE  t[i] = IF i = 0 THEN p + EventHead ELSE t[i - 1] + G!ChanNData(t[i - 1])
    <3>1. CASE i = 0
      <4>1. 0 \in 0 .. l /\ 0 \in 0 .. l + 1
        OBVIOUS
      <4>2. t[0] = s[0] /\ s[0] = p + EventHead
        BY <2>4, <2>5, <4>1
      <4> QED
        BY <3>1, <4>2
    <3>2. CASE i \in 1 .. l
      <4>1. i \in 0 .. l /\ i - 1 \in 0 .. l /\ i - 1 \in 0 .. l + 1 /\ i # 0 /\ i <= l /\ i - 1 <= l
        BY <3>2
      <4>2. t[i] = s[i] /\ t[i - 1] = s[i - 1]
        BY <2>5, <4>1
      <4>3. s[i] = s[i - 1] + G!ChanNData(s[i - 1])
        BY <2>4, <4>1
      <4> QED
        BY <4>1, <4>2, <4>3
    <3>3. CASE i = l + 1
      <4>1. i - 1 = l /\ l \in 0 .. l + 1 /\ i # 0 /\ ~ (i <= l) /\ l <= l
        BY <3>3
      <4>2. t[i] = s[l] + G!ChanNData(s[l]) /\ t[l] = s[l]
        BY <2>5, <4>1
      <4> QED
        BY <4>1, <4>2
    <3> QED
      BY <3>1, <3>2, <3>3
  <2>7. t = [i \in 0 .. m |-> IF i = 0 THEN p + EventHead ELSE t[i - 1] + G!ChanNData(t[i - 1])]
    BY <2>1, <2>5, <2>6
  <2> QED
    BY <1>3, <2>7 DEF Steps
<1> QED
  BY <1>4, <1>5

\* They are numbers, and none is before the one before it.
LEMMA StepsRise ==
  ASSUME HalfWords, NEW p \in Nat, NEW n \in Nat, NEW s, Steps(p, n, s)
  PROVE  /\ s[0] = p + EventHead /\ \A i \in 0 .. n : s[i] \in Nat
         /\ \A i \in 1 .. n : s[i - 1] <= s[i]
<1>1. s = [i \in 0 .. n |-> IF i = 0 THEN p + EventHead ELSE s[i - 1] + G!ChanNData(s[i - 1])]
  BY DEF Steps
<1>2. s[0] = p + EventHead /\ s[0] \in Nat
  <2>1. 0 \in 0 .. n
    OBVIOUS
  <2>2. s[0] = p + EventHead
    BY <1>1, <2>1
  <2> QED
    BY <2>2, HalfWordAssumption
<1>3. ASSUME NEW i \in 1 .. n PROVE s[i] = s[i - 1] + G!ChanNData(s[i - 1])
  <2>1. i \in 0 .. n /\ i # 0
    OBVIOUS
  <2> QED
    BY <1>1, <2>1
<1>4. \A i \in 0 .. n : s[i] \in Nat
  <2> SUFFICES ASSUME NEW k \in 0 .. n, s[k] \notin Nat PROVE FALSE
    OBVIOUS
  <2>1. PICK T : T = {i \in 0 .. n : s[i] \notin Nat}
    OBVIOUS
  <2>2. PICK i \in T : \A j \in T : i <= j
    <3>1. T \subseteq Nat /\ k \in T
      BY <2>1
    <3> QED
      BY <3>1, Least
  <2>3. i \in 0 .. n /\ s[i] \notin Nat /\ i # 0
    BY <1>2, <2>1
  <2>4. i \in 1 .. n /\ i - 1 \in 0 .. n /\ i - 1 \notin T
    BY <2>2, <2>3
  <2>5. s[i - 1] \in Nat
    BY <2>1, <2>4
  <2>6. G!ChanNData(s[i - 1]) \in Nat
    BY <2>5, LengthsRead
  <2> QED
    BY <1>3, <2>3, <2>4, <2>5, <2>6
<1>5. ASSUME NEW i \in 1 .. n PROVE s[i - 1] <= s[i]
  <2>1. i - 1 \in 0 .. n
    OBVIOUS
  <2>2. s[i - 1] \in Nat /\ G!ChanNData(s[i - 1]) \in Nat
    BY <1>4, <2>1, LengthsRead
  <2> QED
    BY <1>3, <2>2
<1> QED
  BY <1>2, <1>4, <1>5

\* An event that was read: its channels, each by its number, one behind the other.
EventRead(e) ==
  \E n \in Nat : \E s :
    /\ n = Cardinality(G!Hits(G!At(e.at))) /\ e.at \in Nat
    /\ s[0] = e.at + EventHead /\ \A i \in 0 .. n : s[i] \in Nat
    /\ \A i \in 1 .. n : s[i - 1] <= s[i]
    /\ e.starts = [i \in 1 .. n |-> s[i - 1]] /\ e.end = s[n]
    /\ e.numbers = [j \in 1 .. n |-> G!HitNumber(G!At(e.at), j)]

LEMMA EventFilled ==
  ASSUME HalfWords, NEW p \in Nat
  PROVE  G!FillChannelPtrs(p).at = p /\ EventRead(G!FillChannelPtrs(p))
<1>. DEFINE n == G!Cardinality(G!Hits(G!At(p)))
            s == CHOOSE start : start = [i \in 0 .. n |-> IF i = 0 THEN p + EventHead
                                                        ELSE start[i - 1] + G!ChanNData(start[i - 1])]
<1>1. G!FillChannelPtrs(p) =
        [at |-> p, numbers |-> G!ChannelNumbers(G!At(p)), starts |-> [i \in 1 .. n |-> s[i - 1]],
         end |-> s[n]]
  BY Zenon DEF G!FillChannelPtrs
<1>2. G!ChannelNumbers(G!At(p)) = [j \in 1 .. n |-> G!HitNumber(G!At(p), j)]
  BY DEF G!ChannelNumbers
<1>3. n \in Nat /\ n = Cardinality(G!Hits(G!At(p)))
  BY HitsRanked, SameCount
<1>. HIDE DEF n
<1>4. Steps(p, n, s)
  <2>1. \E start : start = [i \in 0 .. n |-> IF i = 0 THEN p + EventHead
                                            ELSE start[i - 1] + G!ChanNData(start[i - 1])]
    BY <1>3, StepsExist DEF Steps
  <2> QED
    BY <2>1, Zenon DEF Steps
<1>. HIDE DEF s
<1>5. PICK m \in Nat : \E t : m = n /\ t = s
  BY <1>3
<1>6. PICK t : m = n /\ t = s
  BY <1>5
<1>7. /\ t[0] = p + EventHead /\ \A i \in 0 .. m : t[i] \in Nat
      /\ \A i \in 1 .. m : t[i - 1] <= t[i]
  BY <1>4, <1>6, StepsRise
<1>8. PICK e : e = G!FillChannelPtrs(p)
  OBVIOUS
<1>9. /\ e.at = p /\ e.starts = [i \in 1 .. m |-> t[i - 1]] /\ e.end = t[m]
      /\ e.numbers = [j \in 1 .. m |-> G!HitNumber(G!At(p), j)]
  BY <1>1, <1>2, <1>6, <1>8
<1>10. EventRead(e)
  BY <1>3, <1>6, <1>7, <1>9 DEF EventRead
<1> QED
  BY <1>8, <1>9, <1>10

\* The events follow each other, the first at the buffer's head.
Chained ==
  /\ \A i \in 1 .. Len(events) : EventRead(events[i])
  /\ events # << >> => events[1].at = 0
  /\ \A i \in 2 .. Len(events) : events[i].at = events[i - 1].end

\* The pairs are the channels of the events, in the order of both.
PairsListed ==
  /\ \A k \in 1 .. Len(fEventVector) :
       /\ fEventVector[k][1] \in 1 .. Len(events)
       /\ fEventVector[k][2] \in 1 .. Len(events[fEventVector[k][1]].numbers)
  /\ \A i \in 1 .. Len(events) : \A j \in 1 .. Len(events[i].numbers) :
       \E k \in 1 .. Len(fEventVector) : fEventVector[k] = <<i, j>>
  /\ \A k, l \in 1 .. Len(fEventVector) : k < l =>
       \/ fEventVector[k][1] < fEventVector[l][1]
       \/ fEventVector[k][1] = fEventVector[l][1] /\ fEventVector[k][2] < fEventVector[l][2]

EventType == [at : Nat, numbers : Seq(0 .. 3), starts : Seq(Nat), end : Nat]

DGF4cInv ==
  /\ HalfWords /\ events \in Seq(EventType) /\ fEventVector \in Seq(Nat \X Nat)
  /\ state # "rejected" => Chained /\ PairsListed
  /\ bufNData = 0 => events = << >>
  /\ state = "accepted" =>
       IF events = << >> THEN bufNData = 0 ELSE events[Len(events)].end = bufNData

LEMMA EventTyped ==
  ASSUME NEW e, EventRead(e), NEW p, e.at = p, NEW ns, NEW ss, NEW z,
         e = [at |-> p, numbers |-> ns, starts |-> ss, end |-> z]
  PROVE  e \in EventType
<1>1. PICK n \in Nat : \E s :
        /\ n = Cardinality(G!Hits(G!At(e.at))) /\ e.at \in Nat
        /\ \A i \in 0 .. n : s[i] \in Nat
        /\ e.starts = [i \in 1 .. n |-> s[i - 1]] /\ e.end = s[n]
        /\ e.numbers = [j \in 1 .. n |-> G!HitNumber(G!At(e.at), j)]
  BY DEF EventRead
<1>2. PICK s : /\ \A i \in 0 .. n : s[i] \in Nat
               /\ e.starts = [i \in 1 .. n |-> s[i - 1]] /\ e.end = s[n]
  BY <1>1
<1>3. e.starts \in Seq(Nat)
  <2>1. \A i \in 1 .. n : s[i - 1] \in Nat
    BY <1>2
  <2> QED
    BY <1>2, <2>1
<1>4. e.numbers \in Seq(0 .. 3)
  <2>1. \A j \in 1 .. n : G!HitNumber(G!At(e.at), j) \in 0 .. 3
    BY <1>1, HitNumbers
  <2> QED
    BY <1>1, <2>1
<1>5. e.end \in Nat
  BY <1>2
<1> QED
  BY <1>1, <1>3, <1>4, <1>5 DEF EventType

LEMMA DGF4cInit == ASSUME G!Init PROVE DGF4cInv
<1>1. events = << >> /\ fEventVector = << >> /\ state = "walking"
  BY DEF G!Init
<1>2. HalfWords
  BY HalfWordAssumption DEF G!Init, HalfWords
<1> QED
  BY <1>1, <1>2 DEF DGF4cInv, Chained, PairsListed

\* The next event is read where the last one ends.
LEMMA NextEventRead == ASSUME DGF4cInv, G!NextEvent PROVE DGF4cInv'
<1>1. /\ UNCHANGED <<memory, beyond, bufNData, mode, state>> /\ state = "walking"
      /\ HalfWords /\ events \in Seq(EventType) /\ fEventVector \in Seq(Nat \X Nat)
      /\ Chained /\ PairsListed
  BY DEF DGF4cInv, G!NextEvent
<1>2. PICK N \in Nat, V \in Nat : N = Len(events) /\ V = Len(fEventVector)
  BY <1>1
<1>3. PICK p : p = G!Unread
  OBVIOUS
<1>4. p \in Nat /\ p = IF N = 0 THEN 0 ELSE events[N].end
  <2>1. CASE N = 0
    <3>1. events \in Seq(EventType) /\ Len(events) = 0
      BY <1>1, <1>2, <2>1
    <3>2. events = << >>
      BY <3>1, EmptySeq
    <3> QED
      BY <1>3, <2>1, <3>2 DEF G!Unread
  <2>2. CASE N # 0
    <3>1. events # << >> /\ N \in 1 .. Len(events)
      BY <1>1, <1>2, <2>2
    <3>2. p = events[N].end
      BY <1>2, <1>3, <3>1 DEF G!Unread, G!Last
    <3>3. events[N] \in EventType
      BY <1>1, <3>1
    <3> QED
      BY <2>2, <3>2, <3>3 DEF EventType
  <2> QED
    BY <2>1, <2>2
<1>5. PICK e : e = G!FillChannelPtrs(p)
  OBVIOUS
<1>6. e.at = p /\ EventRead(e) /\ e \in EventType
  <2>1. e.at = p /\ EventRead(e)
    BY <1>1, <1>4, <1>5, EventFilled
  <2>2. \E ns, ss, z : e = [at |-> p, numbers |-> ns, starts |-> ss, end |-> z]
    BY <1>5 DEF G!FillChannelPtrs
  <2> QED
    BY <2>1, <2>2, EventTyped
<1>7. PICK M \in Nat : M = Len(e.numbers)
  BY <1>6 DEF EventType
<1>8. PICK more : more = [j \in 1 .. M |-> <<N + 1, j>>]
  OBVIOUS
<1>9. events' = Append(events, e) /\ fEventVector' = fEventVector \o more
  BY <1>2, <1>3, <1>5, <1>7, <1>8 DEF G!NextEvent
<1>10. /\ events' \in Seq(EventType) /\ Len(events') = N + 1 /\ events'[N + 1] = e
       /\ \A i \in 1 .. N : events'[i] = events[i]
  BY <1>1, <1>2, <1>6, <1>9
<1>11. more \in Seq(Nat \X Nat) /\ Len(more) = M /\ \A j \in 1 .. M : more[j] = <<N + 1, j>>
  BY <1>2, <1>7, <1>8
<1>12. /\ fEventVector' \in Seq(Nat \X Nat) /\ Len(fEventVector') = V + M
       /\ \A k \in 1 .. V + M : fEventVector'[k] = IF k <= V THEN fEventVector[k] ELSE more[k - V]
  BY <1>1, <1>2, <1>9, <1>11, ConcatProperties
<1>13. /\ \A k \in 1 .. V : fEventVector'[k] = fEventVector[k]
       /\ \A j \in 1 .. M : V + j \in 1 .. V + M /\ fEventVector'[V + j] = <<N + 1, j>>
       /\ \A k \in 1 .. V + M : k \in 1 .. V \/ \E j \in 1 .. M : k = V + j
  <2>1. \A k \in 1 .. V : k \in 1 .. V + M /\ k <= V
    BY <1>2, <1>7
  <2>2. \A j \in 1 .. M : V + j \in 1 .. V + M /\ ~ (V + j <= V) /\ (V + j) - V = j
    BY <1>2, <1>7
  <2>3. \A k \in 1 .. V + M : k \in 1 .. V \/ (k - V \in 1 .. M /\ k = V + (k - V))
    BY <1>2, <1>7
  <2>4. \A j \in 1 .. M : fEventVector'[V + j] = more[(V + j) - V]
    BY <1>12, <2>2
  <2> QED
    BY <1>11, <1>12, <2>1, <2>2, <2>3, <2>4
<1>14. Chained'
  <2>1. \A f : EventRead(f)' <=> EventRead(f)
    BY <1>1 DEF EventRead, G!At
  <2>2. ASSUME NEW i \in 1 .. N + 1 PROVE EventRead(events'[i])
    <3>1. CASE i \in 1 .. N
      BY <1>1, <1>2, <1>10, <3>1 DEF Chained
    <3>2. CASE i = N + 1
      BY <1>6, <1>10, <3>2
    <3> QED
      BY <3>1, <3>2
  <2>3. events'[1].at = 0
    <3>1. CASE N = 0
      BY <1>4, <1>6, <1>10, <3>1
    <3>2. CASE N # 0
      <4>1. 1 \in 1 .. N /\ events # << >>
        BY <1>1, <1>2, <3>2
      <4> QED
        BY <1>1, <1>10, <4>1 DEF Chained
    <3> QED
      BY <3>1, <3>2
  <2>4. ASSUME NEW i \in 2 .. N + 1 PROVE events'[i].at = events'[i - 1].end
    <3>1. CASE i \in 2 .. N
      <4>1. i \in 1 .. N /\ i - 1 \in 1 .. N
        BY <3>1
      <4> QED
        BY <1>1, <1>2, <1>10, <3>1, <4>1 DEF Chained
    <3>2. CASE i = N + 1
      <4>1. i - 1 = N /\ N \in 1 .. N /\ N # 0
        BY <3>2
      <4> QED
        BY <1>4, <1>6, <1>10, <3>2, <4>1
    <3> QED
      BY <3>1, <3>2
  <2> QED
    BY <1>10, <2>1, <2>2, <2>3, <2>4 DEF Chained
<1>15. PairsListed'
  <2>1. ASSUME NEW k \in 1 .. V + M
        PROVE  /\ fEventVector'[k][1] \in 1 .. N + 1
               /\ fEventVector'[k][2] \in 1 .. Len(events'[fEventVector'[k][1]].numbers)
               /\ k <= V => fEventVector'[k][1] <= N
    <3>1. CASE k \in 1 .. V
      <4>1. fEventVector'[k] = fEventVector[k] /\ fEventVector[k][1] \in 1 .. N
        BY <1>1, <1>2, <1>13, <3>1 DEF PairsListed
      <4>2. events'[fEventVector[k][1]] = events[fEventVector[k][1]]
        BY <1>10, <4>1
      <4>3. fEventVector[k][2] \in 1 .. Len(events[fEventVector[k][1]].numbers)
        BY <1>1, <1>2, <3>1 DEF PairsListed
      <4> QED
        BY <4>1, <4>2, <4>3
    <3>2. ASSUME NEW j \in 1 .. M, k = V + j
          PROVE  /\ fEventVector'[k][1] = N + 1 /\ fEventVector'[k][2] = j /\ ~ (k <= V)
                 /\ Len(events'[N + 1].numbers) = M
      BY <1>7, <1>10, <1>13, <3>2
    <3>3. k \in 1 .. V => k <= V
      BY <1>2
    <3>4. CASE k \notin 1 .. V
      <4>1. PICK j \in 1 .. M : k = V + j
        BY <1>13, <3>4
      <4>2. /\ fEventVector'[k][1] = N + 1 /\ fEventVector'[k][2] = j /\ ~ (k <= V)
            /\ Len(events'[N + 1].numbers) = M
        BY <3>2, <4>1
      <4>3. N + 1 \in 1 .. N + 1
        BY <1>2
      <4> QED
        BY <4>1, <4>2, <4>3
    <3> QED
      BY <3>1, <3>4
  <2>2. ASSUME NEW i \in 1 .. N + 1, NEW j \in 1 .. Len(events'[i].numbers)
        PROVE  \E k \in 1 .. V + M : fEventVector'[k] = <<i, j>>
    <3>1. CASE i \in 1 .. N
      <4>1. j \in 1 .. Len(events[i].numbers)
        BY <1>10, <3>1
      <4>2. PICK k \in 1 .. V : fEventVector[k] = <<i, j>>
        BY <1>1, <1>2, <3>1, <4>1 DEF PairsListed
      <4>3. k \in 1 .. V + M /\ fEventVector'[k] = <<i, j>>
        BY <1>13, <4>2
      <4> QED
        BY <4>3
    <3>2. CASE i = N + 1
      <4>1. j \in 1 .. M
        BY <1>7, <1>10, <3>2
      <4> QED
        BY <1>13, <3>2, <4>1
    <3> QED
      BY <3>1, <3>2
  <2>3. ASSUME NEW k \in 1 .. V + M, NEW l \in 1 .. V + M, k < l
        PROVE  \/ fEventVector'[k][1] < fEventVector'[l][1]
               \/ fEventVector'[k][1] = fEventVector'[l][1] /\ fEventVector'[k][2] < fEventVector'[l][2]
    <3>1. CASE l \in 1 .. V
      <4>1. k \in 1 .. V
        BY <2>3, <3>1
      <4>2. \/ fEventVector[k][1] < fEventVector[l][1]
            \/ fEventVector[k][1] = fEventVector[l][1] /\ fEventVector[k][2] < fEventVector[l][2]
        BY <1>1, <1>2, <2>3, <3>1, <4>1 DEF PairsListed
      <4>3. fEventVector'[k] = fEventVector[k] /\ fEventVector'[l] = fEventVector[l]
        BY <1>13, <3>1, <4>1
      <4> QED
        BY <4>2, <4>3
    <3>2. ASSUME NEW j \in 1 .. M, l = V + j
          PROVE  \/ fEventVector'[k][1] < fEventVector'[l][1]
                 \/ fEventVector'[k][1] = fEventVector'[l][1] /\ fEventVector'[k][2] < fEventVector'[l][2]
      <4>1. fEventVector'[l][1] = N + 1 /\ fEventVector'[l][2] = j
        BY <1>13, <3>2
      <4>2. CASE k \in 1 .. V
        BY <2>1, <4>1, <4>2
      <4>3. ASSUME NEW m \in 1 .. M, k = V + m
            PROVE  fEventVector'[k][1] = N + 1 /\ fEventVector'[k][2] < fEventVector'[l][2]
        <5>1. m < j
          BY <2>3, <3>2, <4>3
        <5> QED
          BY <1>13, <4>1, <4>3, <5>1
      <4> QED
        BY <1>13, <4>1, <4>2, <4>3
    <3> QED
      BY <1>13, <3>1, <3>2
  <2> QED
    BY <1>10, <1>12, <2>1, <2>2, <2>3 DEF PairsListed
<1>16. HalfWords' /\ state' = "walking"
  BY <1>1 DEF HalfWords
<1>17. bufNData' # 0
  BY DEF G!NextEvent
<1> QED
  BY <1>10, <1>12, <1>14, <1>15, <1>16, <1>17 DEF DGF4cInv

\* A buffer is taken if its last event ends where it ends.
LEMMA WalkEnded == ASSUME DGF4cInv, G!EndOfWalk PROVE DGF4cInv'
<1>1. /\ UNCHANGED <<memory, beyond, bufNData, mode, fEventVector>> /\ state = "walking"
      /\ HalfWords /\ events \in Seq(EventType) /\ fEventVector \in Seq(Nat \X Nat)
      /\ Chained /\ PairsListed /\ events # << >>
  BY DEF DGF4cInv, G!EndOfWalk
<1>2. bufNData' # 0
  BY DEF DGF4cInv, G!EndOfWalk
<1>3. HalfWords'
  BY <1>1 DEF HalfWords
<1>4. CASE ~ G!IsValid
  <2>1. state' = "rejected" /\ events' = << >>
    BY <1>4 DEF G!EndOfWalk
  <2> QED
    BY <1>1, <1>2, <1>3, <2>1 DEF DGF4cInv
<1>5. CASE G!IsValid
  <2>1. state' = "accepted" /\ UNCHANGED events
    BY <1>5 DEF G!EndOfWalk
  <2>2. PICK N \in Nat : N = Len(events) /\ N \in 1 .. Len(events) /\ N \in DOMAIN events
    BY <1>1
  <2>3. events[N].end - events[N].at = bufNData - events[N].at
    <3>1. ~ (N < Len(events))
      BY <2>2
    <3> QED
      BY <1>5, <2>2, <3>1 DEF G!IsValid, G!EventLen
  <2>4. events[N].end = bufNData
    <3>1. events[N] \in EventType
      BY <1>1, <2>2
    <3>2. events[N].end \in Nat /\ events[N].at \in Nat /\ bufNData \in Nat
      BY <1>1, <3>1 DEF EventType, HalfWords
    <3> QED
      BY <2>3, <3>2
  <2>5. Chained' /\ PairsListed'
    <3>1. \A f : EventRead(f)' <=> EventRead(f)
      BY <1>1 DEF EventRead, G!At
    <3>2. Chained'
      BY <1>1, <2>1, <3>1 DEF Chained
    <3>3. PairsListed'
      BY <1>1, <2>1 DEF PairsListed
    <3> QED
      BY <3>2, <3>3
  <2> QED
    BY <1>1, <1>2, <1>3, <2>1, <2>2, <2>4, <2>5 DEF DGF4cInv
<1> QED
  BY <1>4, <1>5

\* A buffer that has no events has no half-words.
LEMMA NothingRead == ASSUME DGF4cInv, G!NoEvents PROVE DGF4cInv'
<1>1. /\ UNCHANGED <<memory, beyond, bufNData, mode, events, fEventVector>> /\ events = << >>
      /\ HalfWords /\ events \in Seq(EventType) /\ fEventVector \in Seq(Nat \X Nat)
      /\ Chained /\ PairsListed /\ bufNData = 0
  BY DEF DGF4cInv, G!NoEvents
<1>2. HalfWords' /\ (\A f : EventRead(f)' <=> EventRead(f))
  BY <1>1 DEF HalfWords, EventRead, G!At
<1>3. Chained'
  BY <1>1, <1>2 DEF Chained
<1>4. PairsListed'
  BY <1>1 DEF PairsListed
<1> QED
  BY <1>1, <1>2, <1>3, <1>4 DEF DGF4cInv

LEMMA DGF4cStays == ASSUME DGF4cInv, UNCHANGED dgf4cVars PROVE DGF4cInv'
<1>1. UNCHANGED <<memory, beyond, bufNData, mode, events, fEventVector, state>>
  BY DEF dgf4cVars
<1>2. (HalfWords' <=> HalfWords) /\ (\A f : EventRead(f)' <=> EventRead(f))
  BY <1>1 DEF HalfWords, EventRead, G!At
<1>3. (Chained' <=> Chained) /\ (PairsListed' <=> PairsListed)
  BY <1>1, <1>2 DEF Chained, PairsListed
<1> QED
  BY <1>1, <1>2, <1>3 DEF DGF4cInv

\* The pieces of an event: its head, and its channels.
EventPieces(e) ==
  {<<e.at, e.at + EventHead>>}
    \cup {<<e.starts[j], G!ChannelEnd(e, j)>> : j \in 1 .. Len(e.numbers)}

\* An event is its pieces, which have no half-word twice.
LEMMA EventTiled ==
  ASSUME NEW e \in EventType, EventRead(e)
  PROVE  /\ e.at <= e.end
         /\ \A x \in EventPieces(e) : x[1] \in Nat /\ x[2] \in Nat /\ e.at <= x[1] /\ x[2] <= e.end
         /\ \A k \in Nat : e.at <= k /\ k < e.end => \E x \in EventPieces(e) : x[1] <= k /\ k < x[2]
         /\ \A k \in Nat : \A x, y \in EventPieces(e) :
              x[1] <= k /\ k < x[2] /\ y[1] <= k /\ k < y[2] => x = y
<1>1. PICK n \in Nat : \E s :
        /\ e.at \in Nat /\ s[0] = e.at + EventHead /\ \A i \in 0 .. n : s[i] \in Nat
        /\ \A i \in 1 .. n : s[i - 1] <= s[i]
        /\ e.starts = [i \in 1 .. n |-> s[i - 1]] /\ e.end = s[n]
        /\ e.numbers = [j \in 1 .. n |-> G!HitNumber(G!At(e.at), j)]
  BY DEF EventRead
<1>2. PICK s :
        /\ e.at \in Nat /\ s[0] = e.at + EventHead /\ \A i \in 0 .. n : s[i] \in Nat
        /\ \A i \in 1 .. n : s[i - 1] <= s[i]
        /\ e.starts = [i \in 1 .. n |-> s[i - 1]] /\ e.end = s[n]
        /\ Len(e.numbers) = n
  BY <1>1
<1>3. \A i, j \in 0 .. n : i <= j => s[i] <= s[j]
  BY <1>2, Rises
<1>4. ASSUME NEW j \in 1 .. n PROVE e.starts[j] = s[j - 1] /\ G!ChannelEnd(e, j) = s[j]
  <2>1. e.starts[j] = s[j - 1] /\ Len(e.starts) = n
    BY <1>2
  <2>2. CASE j < n
    <3>1. j + 1 \in 1 .. n /\ (j + 1) - 1 = j
      BY <2>2
    <3>2. e.starts[j + 1] = s[j]
      BY <1>2, <3>1
    <3> QED
      BY <2>1, <2>2, <3>2 DEF G!ChannelEnd
  <2>3. CASE ~ (j < n)
    <3>1. j = n
      BY <2>3
    <3> QED
      BY <1>2, <2>1, <2>3, <3>1 DEF G!ChannelEnd
  <2> QED
    BY <2>1, <2>2, <2>3
<1>5. \A x : x \in EventPieces(e) <=> x = <<e.at, s[0]>> \/ \E j \in 1 .. n : x = <<s[j - 1], s[j]>>
  BY <1>2, <1>4 DEF EventPieces
<1>6. s[0] \in Nat /\ s[n] \in Nat /\ e.at <= s[0] /\ s[0] <= s[n] /\ e.end = s[n]
  <2>1. 0 \in 0 .. n /\ n \in 0 .. n
    OBVIOUS
  <2> QED
    BY <1>2, <1>3, <2>1, HalfWordAssumption
<1>7. \A j \in 1 .. n :
        /\ s[j - 1] \in Nat /\ s[j] \in Nat /\ s[0] <= s[j - 1] /\ s[j] <= s[n]
  <2>1. \A j \in 1 .. n : j \in 0 .. n /\ j - 1 \in 0 .. n /\ 0 \in 0 .. n /\ n \in 0 .. n
    OBVIOUS
  <2>2. \A j \in 1 .. n : 0 <= j - 1 /\ j <= n
    OBVIOUS
  <2> QED
    BY <1>2, <1>3, <2>1, <2>2
<1>8. ASSUME NEW x \in EventPieces(e)
      PROVE  x[1] \in Nat /\ x[2] \in Nat /\ e.at <= x[1] /\ x[2] <= e.end
  <2>1. CASE x = <<e.at, s[0]>>
    BY <1>2, <1>6, <2>1
  <2>2. ASSUME NEW j \in 1 .. n, x = <<s[j - 1], s[j]>>
        PROVE  x[1] \in Nat /\ x[2] \in Nat /\ e.at <= x[1] /\ x[2] <= e.end
    BY <1>2, <1>6, <1>7, <2>2
  <2> QED
    BY <1>5, <2>1, <2>2
<1>9. ASSUME NEW k \in Nat, e.at <= k, k < e.end
      PROVE  \E x \in EventPieces(e) : x[1] <= k /\ k < x[2]
  <2>1. CASE k < s[0]
    <3>1. PICK x : x = <<e.at, s[0]>>
      OBVIOUS
    <3> QED
      BY <1>5, <1>9, <2>1, <3>1
  <2>2. CASE ~ (k < s[0])
    <3>1. s[0] <= k /\ k < s[n]
      BY <1>6, <1>9, <2>2
    <3>2. PICK j \in 1 .. n : s[j - 1] <= k /\ k < s[j]
      BY <1>2, <3>1, Between
    <3>3. PICK x : x = <<s[j - 1], s[j]>>
      OBVIOUS
    <3> QED
      BY <1>5, <3>2, <3>3
  <2> QED
    BY <2>1, <2>2
<1>10. ASSUME NEW k \in Nat, NEW x \in EventPieces(e), NEW y \in EventPieces(e),
              x[1] <= k, k < x[2], y[1] <= k, k < y[2]
       PROVE  x = y
  <2>1. \A z \in EventPieces(e) : z[1] <= k /\ k < z[2] =>
          \/ k < s[0] /\ z = <<e.at, s[0]>>
          \/ ~ (k < s[0]) /\ k < s[n] /\ \E j \in 1 .. n : z = <<s[j - 1], s[j]>> /\ s[j - 1] <= k /\ k < s[j]
    <3> SUFFICES ASSUME NEW z \in EventPieces(e), z[1] <= k, k < z[2]
                 PROVE  \/ k < s[0] /\ z = <<e.at, s[0]>>
                        \/ /\ ~ (k < s[0]) /\ k < s[n]
                           /\ \E j \in 1 .. n : z = <<s[j - 1], s[j]>> /\ s[j - 1] <= k /\ k < s[j]
      OBVIOUS
    <3>1. CASE z = <<e.at, s[0]>>
      BY <3>1
    <3>2. ASSUME NEW j \in 1 .. n, z = <<s[j - 1], s[j]>>
          PROVE  s[j - 1] <= k /\ k < s[j] /\ ~ (k < s[0]) /\ k < s[n]
      BY <1>6, <1>7, <3>2
    <3> QED
      BY <1>5, <3>1, <3>2
  <2>2. CASE k < s[0]
    BY <1>10, <2>1, <2>2
  <2>3. CASE ~ (k < s[0])
    <3>1. PICK i \in 1 .. n : x = <<s[i - 1], s[i]>> /\ s[i - 1] <= k /\ k < s[i]
      BY <1>10, <2>1, <2>3
    <3>2. PICK j \in 1 .. n : y = <<s[j - 1], s[j]>> /\ s[j - 1] <= k /\ k < s[j]
      BY <1>10, <2>1, <2>3
    <3>3. s[0] <= k /\ k < s[n]
      <4>1. k < s[n]
        BY <1>10, <2>1, <2>3
      <4> QED
        BY <1>6, <2>3, <4>1
    <3>4. i = j
      BY <1>2, <3>1, <3>2, <3>3, Between
    <3> QED
      BY <3>1, <3>2, <3>4
  <2> QED
    BY <2>2, <2>3
<1>11. e.at <= e.end
  BY <1>2, <1>6
<1>12. \A k \in Nat : \A x, y \in EventPieces(e) :
         x[1] <= k /\ k < x[2] /\ y[1] <= k /\ k < y[2] => x = y
  BY <1>10
<1> QED
  BY <1>8, <1>9, <1>11, <1>12

\* The events of a buffer that is taken tile it.
LEMMA EventsTile ==
  ASSUME DGF4cInv, state = "accepted", NEW N \in Nat, N = Len(events)
  PROVE  /\ \A i \in 1 .. N : /\ events[i] \in EventType /\ EventRead(events[i])
                              /\ events[i].end <= bufNData
         /\ \A k \in 0 .. bufNData - 1 :
              /\ \E i \in 1 .. N : events[i].at <= k /\ k < events[i].end
              /\ \A i, j \in 1 .. N :
                    events[i].at <= k /\ k < events[i].end /\ events[j].at <= k /\ k < events[j].end
                    => i = j
<1>1. /\ HalfWords /\ events \in Seq(EventType) /\ Chained /\ bufNData \in Nat
      /\ IF events = << >> THEN bufNData = 0 ELSE events[Len(events)].end = bufNData
  BY DEF DGF4cInv, HalfWords
<1>2. ASSUME NEW i \in 1 .. N
      PROVE  /\ events[i] \in EventType /\ EventRead(events[i]) /\ events[i].at <= events[i].end
             /\ events[i].at \in Nat /\ events[i].end \in Nat
  <2>1. events[i] \in EventType /\ EventRead(events[i])
    BY <1>1 DEF Chained
  <2> QED
    BY <2>1, EventTiled DEF EventType
<1>3. PICK b : b = [i \in 0 .. N |-> IF i = 0 THEN 0 ELSE events[i].end]
  OBVIOUS
<1>4. ASSUME NEW i \in 1 .. N PROVE b[i] = events[i].end /\ b[i - 1] = events[i].at
  <2>1. i \in 0 .. N /\ i - 1 \in 0 .. N /\ i # 0
    OBVIOUS
  <2>2. b[i] = events[i].end
    BY <1>3, <2>1
  <2>3. CASE i = 1
    <3>1. events # << >>
      BY <2>3
    <3> QED
      BY <1>1, <1>3, <2>1, <2>2, <2>3, <3>1 DEF Chained
  <2>4. CASE i # 1
    <3>1. i \in 2 .. N /\ i - 1 # 0
      BY <2>4
    <3> QED
      BY <1>1, <1>3, <2>1, <2>2, <3>1 DEF Chained
  <2> QED
    BY <2>3, <2>4
<1>5. b[0] = 0 /\ b[N] = bufNData
  <2>1. 0 \in 0 .. N /\ N \in 0 .. N
    OBVIOUS
  <2>2. CASE N = 0
    <3>1. events = << >>
      BY <1>1, <2>2, EmptySeq
    <3> QED
      BY <1>1, <1>3, <2>1, <2>2, <3>1
  <2>3. CASE N # 0
    <3>1. events # << >>
      BY <2>3
    <3> QED
      BY <1>1, <1>3, <2>1, <2>3, <3>1
  <2> QED
    BY <2>2, <2>3
<1>6. (\A i \in 0 .. N : b[i] \in Nat) /\ (\A i \in 1 .. N : b[i - 1] <= b[i])
  <2>1. ASSUME NEW i \in 0 .. N PROVE b[i] \in Nat
    <3>1. i = 0 \/ i \in 1 .. N
      OBVIOUS
    <3> QED
      BY <1>2, <1>4, <1>5, <3>1
  <2> QED
    BY <1>2, <1>4, <2>1
<1>7. ASSUME NEW i \in 1 .. N PROVE events[i].end <= bufNData
  <2>1. i \in 0 .. N /\ N \in 0 .. N /\ i <= N
    OBVIOUS
  <2>2. b[i] <= b[N]
    BY <1>6, <2>1, Rises
  <2> QED
    BY <1>4, <1>5, <2>2
<1>8. ASSUME NEW k \in 0 .. bufNData - 1
      PROVE  /\ \E i \in 1 .. N : events[i].at <= k /\ k < events[i].end
             /\ \A i, j \in 1 .. N :
                   events[i].at <= k /\ k < events[i].end /\ events[j].at <= k /\ k < events[j].end
                   => i = j
  <2>1. k \in Nat /\ b[0] <= k /\ k < b[N]
    BY <1>1, <1>5
  <2>2. /\ \E i \in 1 .. N : b[i - 1] <= k /\ k < b[i]
        /\ \A i, j \in 1 .. N : b[i - 1] <= k /\ k < b[i] /\ b[j - 1] <= k /\ k < b[j] => i = j
    BY <1>6, <2>1, Between
  <2>3. PICK i \in 1 .. N : b[i - 1] <= k /\ k < b[i]
    BY <2>2
  <2>4. events[i].at <= k /\ k < events[i].end
    BY <1>4, <2>3
  <2>5. ASSUME NEW j \in 1 .. N, NEW l \in 1 .. N, events[j].at <= k, k < events[j].end,
               events[l].at <= k, k < events[l].end
        PROVE  j = l
    <3>1. b[j - 1] <= k /\ k < b[j] /\ b[l - 1] <= k /\ k < b[l]
      BY <1>4, <2>5
    <3> QED
      BY <2>2, <3>1
  <2>6. \A j, l \in 1 .. N :
          events[j].at <= k /\ k < events[j].end /\ events[l].at <= k /\ k < events[l].end
          => j = l
    BY <2>5
  <2>7. \E j \in 1 .. N : events[j].at <= k /\ k < events[j].end
    BY <2>4
  <2> QED
    BY <2>6, <2>7
<1> QED
  BY <1>2, <1>7, <1>8

LEMMA Tiled == ASSUME DGF4cInv PROVE G!BufferTiled
<1> SUFFICES ASSUME state = "accepted" PROVE G!BufferTiled
  BY DEF G!BufferTiled
<1>. DEFINE heads    == {<<events[i].at, events[i].at + EventHead>> : i \in DOMAIN events}
            channels == {<<events[x[1]].starts[x[2]], G!ChannelEnd(events[x[1]], x[2])>> :
                           x \in G!ToSet(fEventVector)}
            pieces   == heads \cup {c \in channels : c[1] < c[2]}
<1>1. /\ events \in Seq(EventType) /\ fEventVector \in Seq(Nat \X Nat)
      /\ PairsListed /\ bufNData \in Nat
  BY DEF DGF4cInv, HalfWords
<1>2. PICK N \in Nat, V \in Nat :
        N = Len(events) /\ V = Len(fEventVector) /\ DOMAIN events = 1 .. N /\ DOMAIN fEventVector = 1 .. V
  BY <1>1
<1>3. \A x : x \in G!ToSet(fEventVector) <=>
        \E i \in 1 .. N : \E j \in 1 .. Len(events[i].numbers) : x = <<i, j>>
  <2>1. \A x : x \in G!ToSet(fEventVector) <=> \E k \in 1 .. V : x = fEventVector[k]
    BY <1>2 DEF G!ToSet
  <2>2. ASSUME NEW k \in 1 .. V
        PROVE  \E i \in 1 .. N : \E j \in 1 .. Len(events[i].numbers) : fEventVector[k] = <<i, j>>
    <3>1. PICK i, j : i = fEventVector[k][1] /\ j = fEventVector[k][2]
      OBVIOUS
    <3>2. fEventVector[k] = <<i, j>>
      BY <1>1, <1>2, <3>1
    <3>3. i \in 1 .. N /\ j \in 1 .. Len(events[i].numbers)
      BY <1>1, <1>2, <3>1 DEF PairsListed
    <3> QED
      BY <3>2, <3>3
  <2>3. \A i \in 1 .. N : \A j \in 1 .. Len(events[i].numbers) :
          \E k \in 1 .. V : fEventVector[k] = <<i, j>>
    BY <1>1, <1>2 DEF PairsListed
  <2>4. ASSUME NEW x, x \in G!ToSet(fEventVector)
        PROVE  \E i \in 1 .. N : \E j \in 1 .. Len(events[i].numbers) : x = <<i, j>>
    <3>1. PICK k \in 1 .. V : x = fEventVector[k]
      BY <2>1, <2>4
    <3> QED
      BY <2>2, <3>1
  <2>5. ASSUME NEW i \in 1 .. N, NEW j \in 1 .. Len(events[i].numbers)
        PROVE  <<i, j>> \in G!ToSet(fEventVector)
    <3>1. PICK k \in 1 .. V : fEventVector[k] = <<i, j>>
      BY <2>3
    <3> QED
      BY <2>1, <3>1
  <2> QED
    BY <2>4, <2>5
<1>4. ASSUME NEW x
      PROVE  x \in pieces <=> \E i \in 1 .. N : /\ x \in EventPieces(events[i])
                                                /\ \/ x = <<events[i].at, events[i].at + EventHead>>
                                                   \/ x[1] < x[2]
  <2>1. x \in heads <=> \E i \in 1 .. N : x = <<events[i].at, events[i].at + EventHead>>
    BY <1>2
  <2>2. x \in channels <=> \E i \in 1 .. N : \E j \in 1 .. Len(events[i].numbers) :
                             x = <<events[i].starts[j], G!ChannelEnd(events[i], j)>>
    <3>1. x \in channels <=> \E y \in G!ToSet(fEventVector) :
            x = <<events[y[1]].starts[y[2]], G!ChannelEnd(events[y[1]], y[2])>>
      OBVIOUS
    <3>2. ASSUME NEW y \in G!ToSet(fEventVector),
                 x = <<events[y[1]].starts[y[2]], G!ChannelEnd(events[y[1]], y[2])>>
          PROVE  \E i \in 1 .. N : \E j \in 1 .. Len(events[i].numbers) :
                   x = <<events[i].starts[j], G!ChannelEnd(events[i], j)>>
      <4>1. PICK i \in 1 .. N : \E j \in 1 .. Len(events[i].numbers) : y = <<i, j>>
        BY <1>3
      <4>2. PICK j \in 1 .. Len(events[i].numbers) : y = <<i, j>>
        BY <4>1
      <4>3. y[1] = i /\ y[2] = j
        BY <4>2
      <4> QED
        BY <3>2, <4>3
    <3>3. ASSUME NEW i \in 1 .. N, NEW j \in 1 .. Len(events[i].numbers),
                 x = <<events[i].starts[j], G!ChannelEnd(events[i], j)>>
          PROVE  \E y \in G!ToSet(fEventVector) :
                   x = <<events[y[1]].starts[y[2]], G!ChannelEnd(events[y[1]], y[2])>>
      <4>1. PICK y : y = <<i, j>>
        OBVIOUS
      <4>2. y \in G!ToSet(fEventVector) /\ y[1] = i /\ y[2] = j
        BY <1>3, <4>1
      <4> QED
        BY <3>3, <4>2
    <3>. HIDE DEF channels
    <3> QED
      BY <3>1, <3>2, <3>3
  <2>3. x \in pieces <=> x \in heads \/ (x \in channels /\ x[1] < x[2])
    OBVIOUS
  <2>. HIDE DEF pieces, heads, channels
  <2>4. \A i \in 1 .. N : x \in EventPieces(events[i]) <=>
          \/ x = <<events[i].at, events[i].at + EventHead>>
          \/ \E j \in 1 .. Len(events[i].numbers) :
               x = <<events[i].starts[j], G!ChannelEnd(events[i], j)>>
    BY DEF EventPieces
  <2> QED
    BY <2>1, <2>2, <2>3, <2>4
<1>5. G!BufferTiled <=>
        /\ \A k \in 0 .. bufNData - 1 : G!Cardinality({x \in pieces : x[1] <= k /\ k < x[2]}) = 1
        /\ \A x \in pieces : x[2] <= bufNData
  BY DEF G!BufferTiled
<1>. HIDE DEF pieces
<1>6. /\ \A i \in 1 .. N : /\ events[i] \in EventType /\ EventRead(events[i])
                           /\ events[i].end <= bufNData
      /\ \A k \in 0 .. bufNData - 1 :
           /\ \E i \in 1 .. N : events[i].at <= k /\ k < events[i].end
           /\ \A i, j \in 1 .. N :
                 events[i].at <= k /\ k < events[i].end /\ events[j].at <= k /\ k < events[j].end
                 => i = j
  BY <1>2, EventsTile
<1>7. ASSUME NEW i \in 1 .. N, NEW x \in EventPieces(events[i])
      PROVE  /\ x[1] \in Nat /\ x[2] \in Nat /\ events[i].at \in Nat /\ events[i].end \in Nat
             /\ events[i].at <= x[1] /\ x[2] <= events[i].end
  BY <1>6, EventTiled DEF EventType
<1>8. ASSUME NEW x \in pieces PROVE x[2] <= bufNData
  <2>1. PICK i \in 1 .. N : x \in EventPieces(events[i])
    BY <1>4
  <2>2. x[2] \in Nat /\ events[i].end \in Nat /\ x[2] <= events[i].end
    BY <1>7, <2>1
  <2>3. events[i].end <= bufNData
    BY <1>6
  <2> QED
    BY <1>1, <2>2, <2>3
<1>9. ASSUME NEW k \in 0 .. bufNData - 1
      PROVE  G!Cardinality({x \in pieces : x[1] <= k /\ k < x[2]}) = 1
  <2>1. PICK i \in 1 .. N : events[i].at <= k /\ k < events[i].end
    BY <1>6
  <2>2. k \in Nat
    OBVIOUS
  <2>3. PICK x \in EventPieces(events[i]) : x[1] <= k /\ k < x[2]
    BY <1>6, <2>1, <2>2, EventTiled
  <2>4. x \in pieces
    <3>1. x[1] < x[2]
      BY <1>7, <2>2, <2>3
    <3> QED
      BY <1>4, <2>3, <3>1
  <2>5. ASSUME NEW y \in pieces, y[1] <= k, k < y[2] PROVE y = x
    <3>1. PICK j \in 1 .. N : y \in EventPieces(events[j])
      BY <1>4
    <3>2. events[j].at <= k /\ k < events[j].end
      BY <1>7, <2>2, <2>5, <3>1
    <3>3. i = j
      BY <1>6, <2>1, <3>2
    <3> QED
      BY <1>6, <2>2, <2>3, <2>5, <3>1, <3>3, EventTiled
  <2>6. {y \in pieces : y[1] <= k /\ k < y[2]} = {x}
    BY <2>3, <2>4, <2>5
  <2> QED
    BY <2>6, FS_Singleton, SameCount
<1> QED
  BY <1>5, <1>8, <1>9

LEMMA Listed == ASSUME DGF4cInv PROVE G!EveryHitListed
<1> SUFFICES ASSUME state = "accepted" PROVE G!EveryHitListed
  BY DEF G!EveryHitListed
<1>1. /\ events \in Seq(EventType) /\ fEventVector \in Seq(Nat \X Nat)
      /\ PairsListed /\ Chained
  BY DEF DGF4cInv
<1>2. PICK N \in Nat, V \in Nat :
        N = Len(events) /\ V = Len(fEventVector) /\ DOMAIN events = 1 .. N /\ DOMAIN fEventVector = 1 .. V
  BY <1>1
<1>3. \A k \in 1 .. V : fEventVector[k][1] \in Nat /\ fEventVector[k][2] \in Nat
  BY <1>1, <1>2
<1>4. ASSUME NEW k \in 1 .. V, NEW l \in 1 .. V, k < l
      PROVE  \/ fEventVector[k][1] < fEventVector[l][1]
             \/ fEventVector[k][1] = fEventVector[l][1] /\ fEventVector[k][2] < fEventVector[l][2]
  BY <1>1, <1>2, <1>4 DEF PairsListed
<1>5. ASSUME NEW i \in 1 .. N
      PROVE  LET pairs     == {k \in DOMAIN fEventVector : fEventVector[k][1] = i}
                 Number(k) == events[i].numbers[fEventVector[k][2]]
             IN  /\ {Number(k) : k \in pairs} = G!Hits(G!At(events[i].at))
                 /\ \A k, l \in pairs : k < l => Number(k) < Number(l)
  <2>. DEFINE pairs     == {k \in DOMAIN fEventVector : fEventVector[k][1] = i}
              Number(k) == events[i].numbers[fEventVector[k][2]]
  <2>1. PICK v, h : v = G!At(events[i].at) /\ h = G!Hits(v)
    OBVIOUS
  <2>2. PICK n \in Nat : n = Cardinality(h) /\ events[i].numbers = [j \in 1 .. n |-> G!HitNumber(v, j)]
    <3>1. EventRead(events[i])
      BY <1>1, <1>2 DEF Chained
    <3> QED
      BY <2>1, <3>1 DEF EventRead
  <2>3. /\ \A j \in 1 .. n : G!HitNumber(v, j) \in h
        /\ \A j, l \in 1 .. n : j < l => G!HitNumber(v, j) < G!HitNumber(v, l)
        /\ \A c \in h : \E j \in 1 .. n : G!HitNumber(v, j) = c
    BY <2>1, <2>2, HitNumbers
  <2>4. \A k : k \in pairs <=> k \in 1 .. V /\ fEventVector[k][1] = i
    BY <1>2
  <2>5. ASSUME NEW k \in pairs
        PROVE  fEventVector[k][2] \in 1 .. n /\ Number(k) = G!HitNumber(v, fEventVector[k][2])
    <3>1. fEventVector[k][2] \in 1 .. Len(events[i].numbers)
      BY <1>1, <1>2, <2>4 DEF PairsListed
    <3> QED
      BY <2>2, <3>1
  <2>6. ASSUME NEW c \in h PROVE \E k \in pairs : Number(k) = c
    <3>1. PICK j \in 1 .. n : G!HitNumber(v, j) = c
      BY <2>3
    <3>2. j \in 1 .. Len(events[i].numbers)
      BY <2>2
    <3>3. PICK k \in 1 .. V : fEventVector[k] = <<i, j>>
      BY <1>1, <1>2, <3>2 DEF PairsListed
    <3>4. k \in pairs /\ fEventVector[k][2] = j
      BY <2>4, <3>3
    <3> QED
      BY <2>5, <3>1, <3>4
  <2>7. ASSUME NEW k \in pairs, NEW l \in pairs, k < l PROVE Number(k) < Number(l)
    <3>1. k \in 1 .. V /\ l \in 1 .. V /\ fEventVector[k][1] = fEventVector[l][1]
      BY <2>4
    <3>2. fEventVector[k][2] < fEventVector[l][2]
      BY <1>3, <1>4, <2>7, <3>1
    <3> QED
      BY <2>3, <2>5, <3>2
  <2>. HIDE DEF pairs, Number
  <2>8. {Number(k) : k \in pairs} = h
    BY <2>3, <2>5, <2>6
  <2> QED
    BY <2>1, <2>7, <2>8 DEF pairs, Number
<1>6. \A k, l \in DOMAIN fEventVector : k < l => fEventVector[k][1] <= fEventVector[l][1]
  <2> SUFFICES ASSUME NEW k \in 1 .. V, NEW l \in 1 .. V, k < l
               PROVE  fEventVector[k][1] <= fEventVector[l][1]
    BY <1>2
  <2>1. /\ fEventVector[k][1] \in Nat /\ fEventVector[l][1] \in Nat
        /\ fEventVector[k][1] < fEventVector[l][1] \/ fEventVector[k][1] = fEventVector[l][1]
    BY <1>3, <1>4
  <2> QED
    BY <2>1
<1> QED
  BY <1>2, <1>5, <1>6 DEF G!EveryHitListed

\* A step of another part leaves the buffer alone.
DGF4cGoes == part = "dgf4c" => DGF4cInv

\* The invariant of the buffer is kept by every step of the decoders.
LEMMA DGF4cHolds == AnySpec => []DGF4cGoes
<1>1. AnyInit => DGF4cGoes
  BY DGF4cInit DEF AnyInit, DGF4cGoes
<1>2. DGF4cGoes /\ [AnyNext]_partVars => DGF4cGoes'
  <2> SUFFICES ASSUME DGF4cGoes, [AnyNext]_partVars, part' = "dgf4c" PROVE DGF4cInv'
    BY DEF DGF4cGoes
  <2>1. CASE part = "dgf4c" /\ G!Next
    <3>1. DGF4cInv
      BY <2>1 DEF DGF4cGoes
    <3> QED
      BY <2>1, <3>1, NothingRead, NextEventRead, WalkEnded DEF G!Next
  <2>2. CASE UNCHANGED <<part, dgf4cVars>>
    <3>1. DGF4cInv /\ UNCHANGED dgf4cVars
      BY <2>2 DEF DGF4cGoes
    <3> QED
      BY <3>1, DGF4cStays
  <2> QED
    BY <2>1, <2>2 DEF AnyNext, partVars
<1> QED
  BY <1>1, <1>2, PTL DEF AnySpec

(***************************************************************************)
(* Of a buffer that is taken, each half-word is in one head or channel of  *)
(* one event, whatever the half-words are, and the pairs that the writers  *)
(* go through are the hits of its events, in order and each once.          *)
(***************************************************************************)
THEOREM BufferDividedUp == AnySpec => []EventsFound
<1>1. DGF4cGoes => EventsFound
  BY Tiled, Listed DEF DGF4cGoes, EventsFound, G!EventsFound
<1> QED
  BY <1>1, DGF4cHolds, PTL
===============================================================================
