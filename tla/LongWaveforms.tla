---------------------------- MODULE LongWaveforms ----------------------------
(***************************************************************************)
(* ORSIS3302GenericDecoder: waveforms too long for one record arrive in    *)
(* fragments, which SetDataRecord collects per channel in fWFCache.  The   *)
(* records of several channels are interleaved, and some may be lost.  A   *)
(* word of a waveform is known by its waveform and its place in it.        *)
(***************************************************************************)
EXTENDS Integers, Sequences

CONSTANTS
  Channels,      (* of all crates and cards: WFKey tells them apart         *)
  TotalOf,       (* GetTotalWaveformLength() of each channel's waveforms    *)
  Waveforms,     (* bound: the waveforms of a channel are 1 .. Waveforms    *)
  MaxFragment,   (* the most words of a waveform in one record             *)
  Lossy          (* the channels of which records may be lost              *)

VARIABLES
  sent,             (* by channel: the waveform being sent, and its words sent *)
  vec, isFullWF,    (* fWFCache, by channel                                 *)
  fNumberOfEvents,
  fWaveformDataPtr, (* into the "record", a channel's vector or a record "before", or "null" *)
  record,           (* the record it was set to: channel and words          *)
  lost              (* history: the channels that have lost a record        *)

decoderVars == <<vec, isFullWF, fNumberOfEvents, fWaveformDataPtr, record>>
vars == <<sent, decoderVars, lost>>

kOrcaHeaderLen == 4
NoRecord == [channel |-> "none", words |-> << >>]

\* The words of the next n of channel c's waveform, and what the channel sends after them.
Fragment(c, n) == [i \in 1 .. n |-> <<sent[c].waveform, sent[c].words + i>>]
AfterFragment(c, n) ==
  IF sent[c].words + n = TotalOf[c] THEN [waveform |-> sent[c].waveform + 1, words |-> 0]
  ELSE [sent[c] EXCEPT !.words = @ + n]
Fragments(c) == {n \in 1 .. MaxFragment : sent[c].words + n <= TotalOf[c]}
-----------------------------------------------------------------------------

\* The words kept of channel c when a fragment comes that completes nothing.
KeptBefore(c) == IF isFullWF[c] THEN << >> ELSE vec[c]

\* The whole waveform is in the record.
SetWhole(c, words) ==
  /\ Len(words) = TotalOf[c]
  /\ fWaveformDataPtr' = "record" /\ fNumberOfEvents' = 1
  /\ UNCHANGED <<vec, isFullWF>>

\* Mutant: the last fragment goes to the place of the first.
CompleteFirst(c, words) ==
  /\ Len(words) # TotalOf[c] /\ Len(vec[c]) + Len(words) = TotalOf[c]
  /\ vec' = [vec EXCEPT ![c] = words \o @] /\ isFullWF' = [isFullWF EXCEPT ![c] = TRUE]
  /\ fWaveformDataPtr' = c /\ fNumberOfEvents' = 1

\* The fragment completes the waveform kept.
Complete(c, words) ==
  /\ Len(words) # TotalOf[c] /\ Len(vec[c]) + Len(words) = TotalOf[c]
  /\ vec' = [vec EXCEPT ![c] = @ \o words] /\ isFullWF' = [isFullWF EXCEPT ![c] = TRUE]
  /\ fWaveformDataPtr' = c /\ fNumberOfEvents' = 1

\* The fragment is kept; there is no event yet.
Collect(c, words) ==
  /\ Len(words) # TotalOf[c] /\ Len(vec[c]) + Len(words) # TotalOf[c]
  /\ vec' = [vec EXCEPT ![c] = KeptBefore(c) \o words] /\ isFullWF' = [isFullWF EXCEPT ![c] = FALSE]
  /\ fWaveformDataPtr' = "null" /\ fNumberOfEvents' = 0

\* A waveform as long as the head of a record is taken for none: the event has the data of
\* whatever came before.
LeaveData ==
  /\ fWaveformDataPtr' = IF fWaveformDataPtr = "record" THEN "before" ELSE fWaveformDataPtr
  /\ fNumberOfEvents' = 1
  /\ UNCHANGED <<vec, isFullWF>>

\* SetDataRecord with the next record of channel c.
SetDataRecord(c, n) ==
  /\ sent[c].waveform <= Waveforms
  /\ sent' = [sent EXCEPT ![c] = AfterFragment(c, n)]
  /\ record' = [channel |-> c, words |-> Fragment(c, n)]
  /\ IF TotalOf[c] = kOrcaHeaderLen THEN LeaveData
     ELSE SetWhole(c, Fragment(c, n)) \/ Complete(c, Fragment(c, n)) \/ Collect(c, Fragment(c, n))
  /\ UNCHANGED lost

LoseRecord(c, n) ==
  /\ c \in Lossy /\ sent[c].waveform <= Waveforms
  /\ sent' = [sent EXCEPT ![c] = AfterFragment(c, n)]
  /\ lost' = lost \cup {c}
  /\ UNCHANGED decoderVars

\* The words that GetEventWaveformPoint and CopyWaveformData read.
WaveformData ==
  IF fWaveformDataPtr = "record" THEN record.words
  ELSE IF fWaveformDataPtr \in Channels THEN vec[fWaveformDataPtr] ELSE << >>
-----------------------------------------------------------------------------
Init ==
  /\ sent = [c \in Channels |-> [waveform |-> 1, words |-> 0]]
  /\ vec = [c \in Channels |-> << >>] /\ isFullWF = [c \in Channels |-> FALSE]
  /\ fNumberOfEvents = 0 /\ fWaveformDataPtr = "null" /\ record = NoRecord
  /\ lost = {}

Next == \E c \in Channels : \E n \in Fragments(c) : SetDataRecord(c, n) \/ LoseRecord(c, n)

Spec == Init /\ [][Next]_vars
-----------------------------------------------------------------------------
\* When the decoder says that a record of channel c has an event, its data are the words of one
\* waveform of c in their order, the one whose last word the record brought; on every
\* channel that has lost no record, whatever the others have lost, unless its waveforms are
\* as long as a head.
WaveformsWhole ==
  \A c \in Channels \ lost :
    fNumberOfEvents = 1 /\ record.channel = c /\ TotalOf[c] # kOrcaHeaderLen =>
    WaveformData = [i \in 1 .. TotalOf[c] |-> <<record.words[Len(record.words)][1], i>>]

\* On such a channel the record that brings the last word of a waveform always has an event.
NoWaveformMissed ==
  \A c \in Channels \ lost :
    (record.channel = c /\ sent[c].words = 0) => fNumberOfEvents = 1

FragmentsCollected == WaveformsWhole /\ NoWaveformMissed
=============================================================================
