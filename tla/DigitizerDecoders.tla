-------------------------- MODULE DigitizerDecoders --------------------------
(***************************************************************************)
(* ORVDigitizerDecoder's subclasses, whose records carry waveforms, and    *)
(* the other decoders of the same crates.  Those that look at a record     *)
(* before they read it (SetDataRecord) have their condition, Accepts,      *)
(* here; the columns are those of the card's tree writer, arrays left out. *)
(***************************************************************************)
EXTENDS RecordWords

CONSTANTS
  Page,      \* the words of a page of a crate's waveform; the code has 512 or 1024
  Samples,   \* the words of an Edelweiss waveform of the older format; the code has 1024
  Longest    \* the words of its longest waveform; the code has 5000

ASSUME DigitizersAssumption == Page \in Nat \ 0 .. 15 /\ Samples \in Nat /\ Longest \in Nat

FromWord(r, first) == WordsOf(first, LengthOf(r) - 1)

(***************************************************************************)
(* Waveforms of the first- and second-level triggers of the Ipe crates:    *)
(* nine words of head, then whole pages.                                   *)
(***************************************************************************)
FLTHead == 9
PagesAfterHead(r) == ~IsShort(r) /\ LengthOf(r) = FLTHead + Page * (LengthOf(r) \div Page)

\* The channel is read from the word of length and data id.
IpeV4FLTWaveform(r) ==
  <<CrateCard(r) @@ [channel |-> Bits(0, 8, 15), sec |-> Word(2), subsec |-> Word(3),
      channelMap |-> Word(4), eventID |-> Word(5), energy |-> Word(6), flags |-> Word(7),
      info |-> Word(8), waveform |-> FromWord(r, FLTHead)]>>
IpeV4FLTWaveformAccepts(r) == PagesAfterHead(r)
IpeV4FLTWaveformLeaves ==
  Leaf(16, {"crate", "card", "channel"})
  @@ Ints({"sec", "subsec", "channelMap", "eventID", "energy", "flags", "info"})

KatrinV4FLTWaveform(r) ==
  <<CrateCard(r) @@ [channel |-> Bits(1, 8, 15), sec |-> Word(2), subsec |-> Word(3),
      channelMap |-> Word(4), info |-> Word(5), energy |-> Bits(6, 0, 19),
      eventID |-> Bits(6, 20, 31), flags |-> Word(7), waveform |-> FromWord(r, FLTHead)]>>
KatrinV4FLTWaveformAccepts(r) == PagesAfterHead(r)
KatrinV4FLTWaveformLeaves ==
  Leaf(16, {"crate", "card", "channel"})
  @@ Ints({"sec", "subsec", "channelMap", "eventID", "energy", "flags", "info"})

KatrinFLTWaveform(r) ==
  <<CrateCard(r) @@ [channel |-> Bits(4, 24, 31), sec |-> Word(2), subsec |-> Word(3),
      channelMap |-> Bits(4, 0, 21), eventID |-> Bits(5, 0, 9), page |-> Bits(5, 16, 24),
      energy |-> Word(6), resetSec |-> Word(7), resetSubSec |-> Word(8),
      waveform |-> FromWord(r, FLTHead)]>>
KatrinFLTWaveformAccepts(r) == PagesAfterHead(r)
\* The map has 22 bits and its branch 16.
KatrinFLTWaveformLeaves ==
  Leaf(16, {"crate", "card", "channel", "channelMap", "eventID", "page"})
  @@ Ints({"sec", "subsec", "energy", "resetSec", "resetSubSec"})

\* A waveform that says that it is flexible has any length; another has its fixed one.
EdelweissSLTFLTEvent(r) ==
  <<CrateCard(r) @@ [channel |-> Bits(1, 8, 15), fiber |-> Bits(1, 12, 15), subsec |-> Word(2),
      sec |-> Word(3), channelMap |-> Word(4), energy |-> Bits(5, 0, 23),
      eventInfo |-> Word(6), eventID |-> Bits(6, 12, 15), flags |-> Word(7),
      waveform |-> FromWord(r, FLTHead)]>>
EdelweissSLTFLTEventAccepts(r) ==
  /\ ~IsShort(r)
  /\ IF Has(r, "flexible") THEN LengthOf(r) \in FLTHead .. FLTHead + Longest
     ELSE LengthOf(r) = FLTHead + Samples
EdelweissSLTFLTEventLeaves ==
  Leaf(16, {"crate", "card", "channel", "fiber"})
  @@ Ints({"subsec", "sec", "channelMap", "energy", "eventInfo", "eventID", "flags"})

EdelweissSLTWaveform(r) ==
  <<CrateCard(r) @@ [channel |-> Bits(1, 8, 11), fiber |-> Bits(1, 12, 15), sec |-> Word(2),
      subsec |-> Word(3), channelMap |-> Word(4), eventInfo |-> Word(5),
      energy |-> Bits(6, 0, 19), eventID |-> Bits(6, 20, 31), flags |-> Word(7),
      waveform |-> FromWord(r, FLTHead)]>>
EdelweissSLTWaveformAccepts(r) ==
  ~IsShort(r) /\ LengthOf(r) = FLTHead + IF Has(r, "flexible") THEN Samples ELSE Longest
EdelweissSLTWaveformLeaves ==
  Leaf(16, {"crate", "card", "channel", "fiber"})
  @@ Ints({"sec", "subsec", "channelMap", "energy", "eventInfo", "eventID", "flags"})

(***************************************************************************)
(* Energies, histograms, hit rates and counters of the same crates.        *)
(***************************************************************************)
FLTEnergy(r, channel) ==
  CrateCard(r) @@ [channel |-> channel, sec |-> Word(2), subsec |-> Word(3)]

IpeV4FLTEnergy(r) ==
  <<FLTEnergy(r, Bits(1, 8, 15)) @@
      [channelMap |-> Bits(4, 0, 21), eventID |-> Bits(5, 0, 9), page |-> Bits(5, 16, 24),
       energy |-> Word(6), resetSec |-> Word(7), resetSubSec |-> Word(8)]>>
IpeV4FLTEnergyPars == Ints({"crate", "card", "sec", "subsec", "channelMap", "energy"})
IpeV4FLTEnergyLeaves ==
  Leaf(16, {"crate", "card", "channel", "channelMap", "eventID", "page"})
  @@ Ints({"sec", "subsec", "energy", "resetSec", "resetSubSec"})

KatrinFLTEnergy(r) ==
  <<FLTEnergy(r, Bits(4, 24, 31)) @@
      [channelMap |-> Bits(4, 0, 21), eventID |-> Bits(5, 0, 9), page |-> Bits(5, 16, 24),
       energy |-> Word(6), resetSec |-> Word(7), resetSubSec |-> Word(8)]>>
KatrinFLTEnergyPars   == Ints({"crate", "card", "sec", "subsec", "channelMap", "energy"})
KatrinFLTEnergyLeaves ==
  Leaf(16, {"crate", "card", "channel", "channelMap", "eventID", "page"})
  @@ Ints({"sec", "subsec", "energy", "resetSec", "resetSubSec"})

KatrinV4FLTEnergy(r) ==
  <<FLTEnergy(r, Bits(1, 8, 15)) @@
      [channelMap |-> Bits(4, 0, 21), info |-> Word(5), page |-> Bits(5, 10, 15),
       precision |-> Bits(5, 16, 17), fifo |-> Bits(5, 20, 23), mode |-> Bits(5, 24, 27),
       energy |-> Bits(6, 0, 19), eventID |-> Bits(6, 20, 31)]>>
KatrinV4FLTEnergyPars   == Ints({"crate", "card", "sec", "subsec", "channelMap", "energy"})
KatrinV4FLTEnergyLeaves ==
  Leaf(16, {"crate", "card", "channel", "channelMap", "eventID", "page"})
  @@ Ints({"sec", "subsec", "energy", "info"})

FLTHistogram(r, channel) ==
  CrateCard(r) @@ [channel |-> channel, sec |-> Word(2), refresh |-> Word(3),
                   firstBin |-> Word(4), lastBin |-> Word(5), histLength |-> Word(6),
                   max |-> Word(7), binSize |-> Word(8), offset |-> Word(9)]
FLTHistogramNames ==
  {"crate", "card", "channel", "sec", "refresh", "firstBin", "lastBin", "histLength", "max",
   "binSize", "offset"}
FLTHistogramLeaves ==
  Leaf(16, {"crate", "card", "channel"})
  @@ Ints(FLTHistogramNames \ {"crate", "card", "channel"})

IpeV4FLTEnergyHistogram(r) ==
  <<FLTHistogram(r, Bits(1, 8, 11)) @@ [id |-> Word(10), info |-> Word(11),
                                        histogram |-> FromWord(r, 12)]>>
IpeV4FLTEnergyHistogramAccepts(r) == LengthOf(r) = 12 + r.n.bins
IpeV4FLTEnergyHistogramPars       == Ints(FLTHistogramNames)
IpeV4FLTEnergyHistogramLeaves     == FLTHistogramLeaves @@ Ints({"id", "info"})

KatrinFLTEnergyHistogram(r) == <<FLTHistogram(r, Bits(1, 8, 11)) @@ [histogram |-> FromWord(r, 10)]>>
KatrinFLTEnergyHistogramAccepts(r) == LengthOf(r) = 10 + r.n.bins
KatrinFLTEnergyHistogramPars       == Ints(FLTHistogramNames)
KatrinFLTEnergyHistogramLeaves     == FLTHistogramLeaves

KatrinV4FLTEnergyHistogram(r) ==
  <<FLTHistogram(r, Bits(1, 8, 15)) @@ [id |-> Word(10), info |-> Word(11),
                                        histogram |-> FromWord(r, 12)]>>
KatrinV4FLTEnergyHistogramAccepts(r) == LengthOf(r) = 12 + r.n.bins
KatrinV4FLTEnergyHistogramPars       == Ints(FLTHistogramNames)
KatrinV4FLTEnergyHistogramLeaves     == FLTHistogramLeaves @@ Ints({"id", "info"})

\* One word a channel, or, in the newer records, two.
KatrinV4FLTHitRate(r) ==
  LET n == IF Has(r, "new") THEN r.n.channels ELSE LengthOf(r) - 5
      last == 4 + IF Has(r, "new") THEN 2 * n ELSE n
  IN  <<CrateCard(r) @@ [version |-> Bits(1, 0, 0), sec |-> Word(2), hitRateLength |-> Word(3),
                         total |-> Word(4), rates |-> WordsOf(5, last)]>>
KatrinV4FLTHitRateLeaves ==
  Leaf(16, {"crate", "card", "version"}) @@ Ints({"sec", "hitRateLength", "total"})

IpeV4SLTEvent(r) ==
  <<CrateCard(r) @@ [counterType |-> Bits(1, 4, 7), subType |-> Bits(1, 0, 3),
                     counter |-> Word(2), tsHigh |-> Word(3), tsLow |-> Word(4)]>>
IpeV4SLTEventPars ==
  Ints({"crate", "card", "counterType", "subType", "counter", "tsHigh", "tsLow"})
IpeV4SLTEventLeaves ==
  Leaf(16, {"crate", "card", "counterType", "subType"}) @@ Ints({"counter", "tsHigh", "tsLow"})

(***************************************************************************)
(* ORSIS3302Decoder: a head, the raw waveform, the energy waveform (each   *)
(* as long as the head says) and four words of trailer.                    *)
(***************************************************************************)
SIS3302Buffer(r)  == 4 + IF Has(r, "wrap") THEN 4 ELSE 2
SIS3302Trailer(r) == SIS3302Buffer(r) + r.n.raw + r.n.energy
SIS3302(r) ==
  LET buffer == SIS3302Buffer(r)
      end    == SIS3302Trailer(r)
  IN  <<CrateCard(r) @@
         [isWrapped |-> Bits(1, 0, 0), boardId |-> Bits(4, 2, 15), channel |-> Bits(4, 0, 2),
          timeStamp |-> Bits(4, 16, 31) \cup Word(5), wfLength |-> Word(2),
          energyWFLength |-> Word(3), wrap |-> IF Has(r, "wrap") THEN WordsOf(6, 7) ELSE Derived,
          waveform |-> WordsOf(buffer, buffer + r.n.raw - 1),
          energyWaveform |-> WordsOf(buffer + r.n.raw, end - 1),
          energyMax |-> Word(end), energyInitial |-> Word(end + 1), flags |-> Word(end + 2),
          trailer |-> Word(end + 3)]>>
\* Mutant: the trailer is not asked to be at the record's end.
SIS3302AcceptsAnyLength(r) == ~IsShort(r) /\ ~Has(r, "corrupt")

SIS3302Accepts(r) ==
  ~IsShort(r) /\ SIS3302Trailer(r) + 4 = LengthOf(r) /\ ~Has(r, "corrupt")

(***************************************************************************)
(* ORGretaDecoder and its Mark IV, at an offset from the record's start.   *)
(* The waveform's length is the packet's, which is compared with the       *)
(* record's only to find the Mark IV's offset.                             *)
(***************************************************************************)
GretaAt(r, o, head, channelHi, energyHi) ==
  CrateCard(r) @@
    [boardId |-> Bits(o, 3, 15), channel |-> Bits(o, 0, channelHi), packet |-> Bits(o, 16, 26),
     timeStamp |-> Word(o + 1) \cup Bits(o + 2, 0, 15),
     energy |-> Bits(o + 2, 16, 31) \cup Bits(o + 3, 0, energyHi),
     flags |-> Bits(o + 3, 12, 15), cfdTimeStamp |-> Bits(o + 3, 16, 31) \cup Word(o + 4),
     cfdPoints |-> WordsOf(o + 5, o + head - 1),
     waveform |-> WordsOf(o + head, o + r.n.packet - 1)]

Greta(r)        == <<GretaAt(r, 2, 6, 2, 6)>>
GretaAccepts(r) == r.n.packet = 6 \/ ~IsShort(r)
\* Mutant: the energy's branch has its low word's type.
GretaLowLeaves  == Leaf(16, {"crate", "card", "channel", "boardId", "energy"})
                   @@ Leaf(64, {"timeStamp", "cfdTimeStamp"})
GretaLeaves     == Leaf(16, {"crate", "card", "channel", "boardId"})
                   @@ Leaf(64, {"timeStamp", "cfdTimeStamp"}) @@ Ints({"energy"})

\* A record of four words more has a slave's head, one of eight a master's as well.
MarkIVOffset(r) ==
  IF Has(r, "master") THEN 8 ELSE IF r.n.packet = LengthOf(r) - 2 THEN 0 ELSE 4
\* A slave's head is read from behind a master's place, where the event is if there is no master.
SlaveHead  == [slaveBoardId |-> Bits(6, 0, 15), slaveFB_LED |-> Word(7) \cup Bits(8, 0, 15),
               slaveHMNum |-> Bits(8, 16, 31)]
MasterHead == [masterBoardId |-> Bits(2, 0, 15), masterTrigger_TS |-> Word(3) \cup Bits(4, 0, 15),
               masterHMNum |-> Bits(4, 16, 31), masterLowResEnergy |-> Bits(5, 0, 15)]
MarkIV(r) ==
  <<GretaAt(r, 2 + MarkIVOffset(r), 7, 3, 8)
      @@ (IF MarkIVOffset(r) > 0 THEN SlaveHead ELSE <<>>)
      @@ (IF Has(r, "master") THEN MasterHead ELSE <<>>)>>

\* Buffers of 1024 words, each an event.  One more or fewer words are ignored.
Gretina4M(r) ==
  Rows((LengthOf(r) - 2) \div Page,
       LAMBDA i : LET e == 2 + i * Page
                  IN  CrateCard(r) @@
                        [boardId |-> Bits(e + 1, 4, 15), channel |-> Bits(e + 1, 0, 3),
                         time |-> Word(e + 2) \cup Bits(e + 3, 0, 15),
                         energy |-> Bits(e + 3, 16, 31) \cup Bits(e + 4, 0, 8),
                         waveform |-> WordsOf(e + 15, e + Page - 1)])
Gretina4MAccepts(r) == ~IsShort(r)

(***************************************************************************)
(* ORAcqirisDC440Decoder: half-words from an offset on.  Swap goes through *)
(* twice the words of the whole record, less two, from the seventh on.     *)
(***************************************************************************)
AcqirisDC440(r) ==
  <<CrateCard(r) @@ [channel |-> Bits(1, 8, 15), timeStamp |-> Word(2) \cup Word(3),
      offset |-> Word(4), wfLength |-> Word(5),
      waveform |-> UNION {HalfBits(12 + h, 0, 15) :
                            h \in r.n.offset .. r.n.offset + r.n.points - 1}]>>
AcqirisDC440Leaves ==
  Leaf(16, {"crate", "card", "channel"}) @@ Ints({"wfLength"}) @@ Leaf(64, {"timeStamp"})
AcqirisDC440Swap(r) == Swapped(1 .. 5, 4) \cup Swapped(6 .. LengthOf(r) + 4, 2)

(***************************************************************************)
(* ORCaen5720Decoder: one block of samples for each channel of the mask,   *)
(* in their order.  CopyTraces writes the buffers of those channels and    *)
(* leaves the others as they are.                                          *)
(***************************************************************************)
Caen5720TraceWords(r) == (LengthOf(r) - 6) \div r.n.channels
Caen5720(r) ==
  LET blocks == Rows(r.n.channels,
                     LAMBDA c : LET b == 6 + c * Caen5720TraceWords(r)
                                IN  UNION {Bits(w, 0, 11) \cup Bits(w, 16, 27) :
                                             w \in b .. b + Caen5720TraceWords(r) - 1})
  IN  <<[unit |-> Bits(1, 16, 19), packed |-> Bits(1, 0, 0), eventSize |-> Bits(2, 0, 27),
         channelmask |-> Bits(3, 0, 7), pattern |-> Bits(3, 8, 23),
         eventcount |-> Bits(4, 0, 23), clock |-> Word(5),
         waveforms |-> UNION {blocks[c] : c \in 1 .. r.n.channels}]>>
Caen5720Leaves == Ints({"eventSize", "channelmask", "eventcount", "clock"})

(***************************************************************************)
(* The DGF4c: a buffer of half-words, from the third word on, of a head of *)
(* six, then events of a head of three and the channels that the event's   *)
(* hit pattern names (how they are found is module DGF4cEvents).  What a   *)
(* channel's head has depends on the compression; this is an event's.      *)
(***************************************************************************)
ChanHeadLen(r) == IF Has(r, "C2") THEN 4 ELSE IF Has(r, "C3") THEN 2 ELSE 9
DGF4cSwap(r) == Swapped({1}, 4) \cup Swapped(2 .. LengthOf(r) - 1, 2)

DGF4cEvent(r) ==
  LET std    == r.flags \cap {"C2", "C3"} = {}
      first  == IF std THEN 1 ELSE 0                    \* past the channel's length
      h(k)   == HalfBits(4 + k, 0, 15)                  \* half-words of the buffer
      len    == ChanHeadLen(r) + r.n.points
      at(c, k) == h(9 + c * len + k)
  IN  Rows(r.n.channels,
           LAMBDA c : CrateCard(r) @@
             [bufNData |-> h(0), modNum |-> h(1), runTask |-> h(2), bufTime |-> h(3) \cup h(4) \cup h(5),
              hitPattern |-> h(6), eventTime |-> h(7) \cup h(8), channel |-> Derived,
              nData |-> IF std THEN at(c, 0) ELSE Derived,
              trigTime |-> at(c, first), energy |-> at(c, first + 1),
              xiaPsa  |-> IF Has(r, "C3") THEN Derived ELSE at(c, first + 2),
              userPsa |-> IF Has(r, "C3") THEN Derived ELSE at(c, first + 3),
              gslt    |-> IF std THEN at(c, 5) \cup at(c, 6) \cup at(c, 7) ELSE Derived,
              realTime |-> IF std THEN at(c, 8) ELSE Derived,
              waveform |-> UNION {at(c, k) : k \in ChanHeadLen(r) .. len - 1}])
DGF4cEnergyLeaves ==
  Leaf(64, {"eventTime"}) @@ Leaf(16, {"crate", "card", "channel", "energy"})

\* Times of two words, or, where the stream's header gives the older length, the upper half of a
\* double.  SetDataRecord only warns of a length that is not the header's.
DGF4cLiveTime(r) ==
  LET old == Has(r, "old")
  IN  Rows(4, LAMBDA c : CrateCard(r) @@
         [realTime  |-> IF old THEN Word(3) ELSE WordsOf(3, 4),
          runTime   |-> IF old THEN Word(4) ELSE WordsOf(5, 6), channel |-> Derived,
          liveTime  |-> IF old THEN Word(5 + 2 * c) ELSE WordsOf(7 + 3 * c, 8 + 3 * c),
          numEvents |-> IF old THEN Word(6 + 2 * c) ELSE Word(9 + 3 * c)])
\* The number of events has 32 bits and its branch 16.
DGF4cLiveTimeLeaves ==
  Leaf(16, {"crate", "card", "channel", "numEvents"}) @@ Leaf(64, {"realTime", "runTime", "liveTime"})

\* A histogram of a fixed number of bins, whatever the record's length.
DGF4cMCA(r) == <<[bins |-> WordsOf(2, r.n.bins + 1)]>>
=============================================================================
