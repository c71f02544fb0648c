------------------------------- MODULE Decoders -------------------------------
(***************************************************************************)
(* The decoders that keep a state from one record to the next, with their  *)
(* writers, one of them at a time: part says which, and the variables of   *)
(* the others are empty.  They share no state: what reaches one is any     *)
(* sequence of the records that its cards may send.                        *)
(***************************************************************************)
EXTENDS Integers, Sequences, FiniteSets

CONSTANTS
  NCards, NChannels,    (* CaenEvents: the cards of a read-out, and the channels of a card *)
  Blocks,               (* CaenEvents: what a card may send              *)
  LastEvent, Runs,      (* CaenEvents, bounds: events of a run, and runs *)
  Channels, TotalOf,    (* LongWaveforms: channels, and the words of their waveforms *)
  Waveforms,            (* LongWaveforms, bound: waveforms of a channel  *)
  MaxFragment,          (* LongWaveforms, bound: words of one record     *)
  Lossy,                (* LongWaveforms: channels whose records may be lost *)
  MaxWords,             (* DGF4cEvents, bound: half-words of a buffer    *)
  Values,               (* DGF4cEvents: the values of a half-word        *)
  EventHead, ChanHead   (* DGF4cEvents: the lengths of heads             *)

\* A block has a word for each channel of its card at most; a word that is not data may end it.
ASSUME CardAssumption ==
  /\ NCards \in Nat \ {0} /\ NChannels \in Nat \ {0} /\ LastEvent \in Nat
  /\ \A b \in Blocks : /\ b \in Seq(-1 .. NChannels - 1)
                       /\ \A i \in 1 .. Len(b) : b[i] = -1 => i = Len(b)
                       /\ \A i \in 1 .. Len(b) : i > NChannels => b[i] = -1

\* A channel is told from the other values of a pointer, and its waveforms have words.
ASSUME ChannelAssumption ==
  /\ Channels \cap {"record", "before", "null", "none"} = {}
  /\ TotalOf \in [Channels -> Nat \ {0}] /\ MaxFragment \in Nat

\* The values of half-words, and lengths in half-words, are numbers.
ASSUME HalfWordAssumption ==
  /\ MaxWords \in Nat /\ Values \subseteq Nat /\ EventHead \in Nat /\ ChanHead \in Nat

VARIABLES
  part,       \* what is looked at
  model, run, event, card, buffer, cached, fLocPtrs, fEventCount, fNValues, fCard, fQDCVal,
  alarmed, ended, tree, carried, last, single, laidOut, received, sizes,
  sent, vec, isFullWF, fNumberOfEvents, fWaveformDataPtr, fragment, lost,
  memory, beyond, bufNData, words, mode, events, fEventVector, state

caenVars  == <<model, run, event, card, buffer, cached, fLocPtrs, fEventCount, fNValues, fCard,
               fQDCVal, alarmed, ended, tree, carried, last, single, laidOut, received, sizes>>
longVars  == <<sent, vec, isFullWF, fNumberOfEvents, fWaveformDataPtr, fragment, lost>>
dgf4cVars == <<memory, beyond, bufNData, words, mode, events, fEventVector, state>>
partVars  == <<part, caenVars, longVars, dgf4cVars>>

C == INSTANCE CaenEvents

L == INSTANCE LongWaveforms WITH record <- fragment

G == INSTANCE DGF4cEvents WITH nData <- bufNData
-----------------------------------------------------------------------------
NoCaen ==
  /\ model = <<>> /\ run = <<>> /\ event = <<>> /\ card = <<>> /\ buffer = <<>>
  /\ cached = <<>> /\ fLocPtrs = <<>> /\ fEventCount = <<>> /\ fNValues = <<>> /\ fCard = <<>>
  /\ fQDCVal = <<>> /\ alarmed = <<>> /\ ended = <<>> /\ tree = <<>> /\ carried = <<>>
  /\ last = <<>> /\ single = <<>> /\ laidOut = <<>> /\ received = <<>> /\ sizes = <<>>
NoLong ==
  /\ sent = <<>> /\ vec = <<>> /\ isFullWF = <<>> /\ fNumberOfEvents = <<>>
  /\ fWaveformDataPtr = <<>> /\ fragment = <<>> /\ lost = <<>>
NoDGF4c ==
  /\ memory = <<>> /\ beyond = <<>> /\ bufNData = <<>> /\ words = <<>> /\ mode = <<>>
  /\ events = <<>> /\ fEventVector = <<>> /\ state = <<>>

AnyInit ==
  \/ part = "caen"  /\ C!Init /\ NoLong /\ NoDGF4c
  \/ part = "long"  /\ L!Init /\ NoCaen /\ NoDGF4c
  \/ part = "dgf4c" /\ G!Init /\ NoCaen /\ NoLong

AnyNext ==
  \/ part = "caen"  /\ C!Next /\ UNCHANGED <<part, longVars, dgf4cVars>>
  \/ part = "long"  /\ L!Next /\ UNCHANGED <<part, caenVars, dgf4cVars>>
  \/ part = "dgf4c" /\ G!Next /\ UNCHANGED <<part, caenVars, longVars>>

AnySpec == AnyInit /\ [][AnyNext]_partVars
-----------------------------------------------------------------------------
\* A row of the multi-card tree is one event, and every event has its row.
MultiCardTree == part = "caen" => C!MultiCardTree

\* A row of the tree for one card has the values of its own record.
RowsOfOneCard == part = "caen" => C!RowsOfOneCard

\* A waveform sent in fragments is delivered whole, and with its last fragment, unless it is as
\* long as a head.
FragmentsCollected == part = "long" => L!FragmentsCollected

\* An accepted buffer is divided up into its events' channels, each hit listed once.
EventsFound == part = "dgf4c" => G!EventsFound
=============================================================================
