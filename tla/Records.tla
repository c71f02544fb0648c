------------------------------ MODULE Records ------------------------------
(***************************************************************************)
(* A record on its way through the processors: the manager clears the      *)
(* record's flags, every processor in turn swaps it, with the swap of its  *)
(* own decoder, if the stream has the other byte order and no processor    *)
(* before it has done so, and a tree writer's decoder then gives the rows. *)
(* The hex dumper's decoder is ORVDataDecoder, whatever the record is.     *)
(***************************************************************************)
EXTENDS CardDecoders, MonitorDecoders, DigitizerDecoders, FiniteSetsExt

CONSTANTS
  Arriving,      \* the records of the stream
  Chains,        \* the processors in order: "writer" or "hexdump"
  KnownMisread,  \* pairs of card and accessor known to be read from another word
  KnownNarrow,   \* those whose branch is known to be too narrow
  KnownUnswapped \* those known to be read as they were not swapped

BasicADCs == {"BasicADC", "AD413", "AD811", "ADC2249", "ShaperShaper", "CaenV265"}

\* The rows of the decoder of the record's card.
Layout(r) ==
  CASE r.card = "BasicADC" -> BasicADC(r)
    [] r.card = "AD413" -> AD413(r)
    [] r.card = "AD811" -> AD811(r)
    [] r.card = "ADC2249" -> ADC2249(r)
    [] r.card = "ShaperShaper" -> ShaperShaper(r)
    [] r.card = "CaenV265" -> CaenV265(r)
    [] r.card = "XYCom564" -> XYCom564(r)
    [] r.card = "AD3511" -> AD3511(r)
    [] r.card = "JAMFADC" -> JAMFADC(r)
    [] r.card = "Caen1785" -> Caen1785(r)
    [] r.card = "TDC3377tdc" -> TDC3377tdc(r)
    [] r.card = "CaenV260" -> CaenV260(r)
    [] r.card = "CaenV830" -> CaenV830(r)
    [] r.card = "L2551Scalers" -> L2551Scalers(r)
    [] r.card = "SIS3820" -> SIS3820(r)
    [] r.card = "Trig4Chan" -> Trig4Chan(r)
    [] r.card = "Trigger32Clock" -> Trigger32Clock(r)
    [] r.card = "Trigger32GTID" -> Trigger32GTID(r)
    [] r.card = "Trigger32LiveTime" -> Trigger32LiveTime(r)
    [] r.card = "L4532mainTrigger" -> L4532mainTrigger(r)
    [] r.card = "L4532channelTrigger" -> L4532channelTrigger(r)
    [] r.card = "Ami286" -> Ami286(r)
    [] r.card = "BocTIC3" -> BocTIC3(r)
    [] r.card = "MksPdr2000" -> MksPdr2000(r)
    [] r.card = "Lakeshore210" -> Lakeshore210(r)
    [] r.card = "CTITemp" -> CTITemp(r)
    [] r.card = "IP320ADC" -> IP320ADC(r)
    [] r.card = "IP408DigitalIO" -> IP408DigitalIO(r)
    [] r.card = "NPLpCMeter" -> NPLpCMeter(r)
    [] r.card = "VXM" -> VXM(r)
    [] r.card = "Run" -> Run(r)
    [] r.card = "Header" -> Header(r)
    [] r.card = "Script" -> Script(r)
    [] r.card = "DataGenTestData1D" -> DataGenTestData1D(r)
    [] r.card = "DataGenBurst" -> DataGenBurst(r)
    [] r.card = "Histograms1D" -> Histograms1D(r)
    [] r.card = "Tek754D" -> Tek754D(r)
    [] r.card = "Tek220" -> Tek220(r)
    [] r.card = "LC950" -> LC950(r)
    [] r.card = "MCA927" -> MCA927(r)
    [] r.card = "MotionNode" -> MotionNode(r)
    [] r.card = "IpeV4FLTWaveform" -> IpeV4FLTWaveform(r)
    [] r.card = "KatrinV4FLTWaveform" -> KatrinV4FLTWaveform(r)
    [] r.card = "KatrinFLTWaveform" -> KatrinFLTWaveform(r)
    [] r.card = "EdelweissSLTFLTEvent" -> EdelweissSLTFLTEvent(r)
    [] r.card = "EdelweissSLTWaveform" -> EdelweissSLTWaveform(r)
    [] r.card = "IpeV4FLTEnergy" -> IpeV4FLTEnergy(r)
    [] r.card = "KatrinFLTEnergy" -> KatrinFLTEnergy(r)
    [] r.card = "KatrinV4FLTEnergy" -> KatrinV4FLTEnergy(r)
    [] r.card = "IpeV4FLTEnergyHistogram" -> IpeV4FLTEnergyHistogram(r)
    [] r.card = "KatrinFLTEnergyHistogram" -> KatrinFLTEnergyHistogram(r)
    [] r.card = "KatrinV4FLTEnergyHistogram" -> KatrinV4FLTEnergyHistogram(r)
    [] r.card = "KatrinV4FLTHitRate" -> KatrinV4FLTHitRate(r)
    [] r.card = "IpeV4SLTEvent" -> IpeV4SLTEvent(r)
    [] r.card = "SIS3302" -> SIS3302(r)
    [] r.card = "Greta" -> Greta(r)
    [] r.card = "MarkIV" -> MarkIV(r)
    [] r.card = "Gretina4M" -> Gretina4M(r)
    [] r.card = "AcqirisDC440" -> AcqirisDC440(r)
    [] r.card = "Caen5720" -> Caen5720(r)
    [] r.card = "DGF4cEvent" -> DGF4cEvent(r)
    [] r.card = "DGF4cLiveTime" -> DGF4cLiveTime(r)
    [] r.card = "DGF4cMCA" -> DGF4cMCA(r)

\* SetDataRecord, for the decoders that have one and whose writers ask for its result.
Accepted(r) ==
  CASE r.card = "IpeV4FLTWaveform" -> IpeV4FLTWaveformAccepts(r)
    [] r.card = "KatrinV4FLTWaveform" -> KatrinV4FLTWaveformAccepts(r)
    [] r.card = "KatrinFLTWaveform" -> KatrinFLTWaveformAccepts(r)
    [] r.card = "EdelweissSLTFLTEvent" -> EdelweissSLTFLTEventAccepts(r)
    [] r.card = "EdelweissSLTWaveform" -> EdelweissSLTWaveformAccepts(r)
    [] r.card = "IpeV4FLTEnergyHistogram" -> IpeV4FLTEnergyHistogramAccepts(r)
    [] r.card = "KatrinFLTEnergyHistogram" -> KatrinFLTEnergyHistogramAccepts(r)
    [] r.card = "KatrinV4FLTEnergyHistogram" -> KatrinV4FLTEnergyHistogramAccepts(r)
    [] r.card = "SIS3302" -> SIS3302Accepts(r)
    [] r.card = "Greta" -> GretaAccepts(r)
    [] r.card = "Gretina4M" -> Gretina4MAccepts(r)
    [] OTHER -> TRUE

\* The decoder's Swap.
SwapOf(r) ==
  CASE r.card \in BasicADCs -> BasicADCSwap(r)
    [] r.card = "AD3511" -> AD3511Swap(r)
    [] r.card = "TDC3377tdc" -> TDC3377tdcSwap(r)
    [] r.card = "L4532mainTrigger" -> L4532mainTriggerSwap(r)
    [] r.card = "Header" -> HeaderSwap(r)
    [] r.card = "Script" -> ScriptSwap(r)
    [] r.card = "Histograms1D" -> Histograms1DSwap(r)
    [] r.card = "AcqirisDC440" -> AcqirisDC440Swap(r)
    [] r.card = "DGF4cEvent" -> DGF4cSwap(r)
    [] OTHER -> SwapAll(r)

\* What fills branches: the basic tree writer's by GetPar, and those of the card's own writer.
Columns(c) ==
  CASE c \in BasicADCs \cup {"XYCom564", "JAMFADC"} -> {BasicADCPars}
    [] c = "ShaperShaper" -> {BasicADCPars, ShaperShaperLeaves}
    [] c = "AD3511" -> {AD3511Pars}
    [] c = "Caen1785" -> {Caen1785Pars}
    [] c = "TDC3377tdc" -> {TDC3377tdcPars}
    [] c = "CaenV260" -> {CaenV260Pars}
    [] c = "CaenV830" -> {CaenV830Pars}
    [] c = "L2551Scalers" -> {L2551ScalersPars, L2551ScalersLeaves}
    [] c = "SIS3820" -> {SIS3820Pars, SIS3820Leaves}
    [] c = "Trig4Chan" -> {Trig4ChanPars, Trig4ChanLeaves}
    [] c = "Trigger32Clock" -> {Trigger32ClockPars, Trigger32ClockLeaves}
    [] c = "Trigger32GTID" -> {Trigger32GTIDPars, Trigger32GTIDLeaves}
    [] c = "Trigger32LiveTime" -> {Trigger32LiveTimePars}
    [] c = "L4532mainTrigger" -> {L4532mainTriggerPars}
    [] c = "L4532channelTrigger" -> {L4532channelTriggerPars}
    [] c = "Ami286" -> {Ami286Leaves}
    [] c = "BocTIC3" -> {BocTIC3Pars, BocTIC3Leaves}
    [] c = "MksPdr2000" -> {MksPdr2000Pars}
    [] c = "Lakeshore210" -> {Lakeshore210Pars, Lakeshore210Leaves}
    [] c = "CTITemp" -> {CTITempPars}
    [] c = "IP320ADC" -> {IP320ADCPars}
    [] c = "IP408DigitalIO" -> {IP408DigitalIOPars}
    [] c = "NPLpCMeter" -> {NPLpCMeterPars}
    [] c = "VXM" -> {VXMLeaves}
    [] c = "Run" -> {RunPars}
    [] c = "DataGenBurst" -> {DataGenBurstLeaves}
    [] c \in {"Tek754D", "Tek220", "LC950"} -> {Tek754DLeaves}
    [] c = "MCA927" -> {MCA927Leaves}
    [] c = "MotionNode" -> {MotionNodeLeaves}
    [] c = "IpeV4FLTWaveform" -> {IpeV4FLTWaveformLeaves}
    [] c = "KatrinV4FLTWaveform" -> {KatrinV4FLTWaveformLeaves}
    [] c = "KatrinFLTWaveform" -> {KatrinFLTWaveformLeaves}
    [] c = "EdelweissSLTFLTEvent" -> {EdelweissSLTFLTEventLeaves}
    [] c = "EdelweissSLTWaveform" -> {EdelweissSLTWaveformLeaves}
    [] c = "IpeV4FLTEnergy" -> {IpeV4FLTEnergyPars, IpeV4FLTEnergyLeaves}
    [] c = "KatrinFLTEnergy" -> {KatrinFLTEnergyPars, KatrinFLTEnergyLeaves}
    [] c = "KatrinV4FLTEnergy" -> {KatrinV4FLTEnergyPars, KatrinV4FLTEnergyLeaves}
    [] c = "IpeV4FLTEnergyHistogram" -> {IpeV4FLTEnergyHistogramPars, IpeV4FLTEnergyHistogramLeaves}
    [] c = "KatrinFLTEnergyHistogram" ->
         {KatrinFLTEnergyHistogramPars, KatrinFLTEnergyHistogramLeaves}
    [] c = "KatrinV4FLTEnergyHistogram" ->
         {KatrinV4FLTEnergyHistogramPars, KatrinV4FLTEnergyHistogramLeaves}
    [] c = "KatrinV4FLTHitRate" -> {KatrinV4FLTHitRateLeaves}
    [] c = "IpeV4SLTEvent" -> {IpeV4SLTEventPars, IpeV4SLTEventLeaves}
    [] c = "Greta" -> {GretaLeaves}
    [] c = "AcqirisDC440" -> {AcqirisDC440Leaves}
    [] c = "Caen5720" -> {Caen5720Leaves}
    [] c = "DGF4cEvent" -> {DGF4cEnergyLeaves}
    [] c = "DGF4cLiveTime" -> {DGF4cLiveTimeLeaves}
    [] OTHER -> {}
-----------------------------------------------------------------------------
VARIABLES
  chain,     \* the processors of this program
  record,    \* the record
  mustSwap,  \* ORRunContext's fMustSwap: the stream has the other byte order
  swapped,   \* its fIsRecordSwapped
  swaps,     \* the calls of Swap on the record, as sets of words and units
  next,      \* the position in the chain of the next processor
  rows       \* what the last processor read of the record

vars == <<chain, record, mustSwap, swapped, swaps, next, rows>>

Init ==
  /\ chain \in Chains
  /\ record \in Arriving
  /\ mustSwap \in BOOLEAN
  /\ swapped = FALSE
  /\ swaps = <<>>
  /\ next = 1
  /\ rows = <<>>

\* The next record; ResetRecordFlags forgets that the one before was swapped.
ReadRecord ==
  /\ next > Len(chain)
  /\ record' \in Arriving
  /\ swapped' = FALSE
  /\ swaps' = <<>>
  /\ next' = 1
  /\ rows' = <<>>
  /\ UNCHANGED <<chain, mustSwap>>

\* Mutant: the record's flag is not asked.
SwapAlways(swap) ==
  IF mustSwap THEN swaps' = Append(swaps, swap) /\ swapped' = TRUE ELSE UNCHANGED <<swaps, swapped>>

SwapOnce(swap) ==
  IF mustSwap /\ ~swapped THEN swaps' = Append(swaps, swap) /\ swapped' = TRUE
  ELSE UNCHANGED <<swaps, swapped>>

\* A writer swaps and fills its rows, unless the decoder does not take the record.
WriteTree ==
  /\ next <= Len(chain)
  /\ chain[next] = "writer"
  /\ SwapOnce(SwapOf(record))
  /\ rows' = IF Accepted(record) THEN Layout(record) ELSE <<>>
  /\ next' = next + 1
  /\ UNCHANGED <<chain, record, mustSwap>>

\* The dumper prints the words of the record.
HexDump ==
  /\ next <= Len(chain)
  /\ chain[next] = "hexdump"
  /\ SwapOnce(SwapAll(record))
  /\ rows' = <<>>
  /\ next' = next + 1
  /\ UNCHANGED <<chain, record, mustSwap>>

Next == ReadRecord \/ WriteTree \/ HexDump
Spec == Init /\ [][Next]_vars
-----------------------------------------------------------------------------
(***************************************************************************)
(* Properties.                                                             *)
(***************************************************************************)
BitsRead == UNION {UNION {rows[i][a] : a \in DOMAIN rows[i]} : i \in DOMAIN rows}

\* A decoder reads the words of its record and no others, and word 0, which has the length and
\* the data id, only where the record is short and has nothing else.
ReadsItsData ==
  \A i \in DOMAIN rows : \A a \in DOMAIN rows[i] : <<record.card, a>> \notin KnownMisread =>
    \A b \in rows[i][a] : b.word \in (IF IsShort(record) THEN {0} ELSE 1 .. LengthOf(record) - 1)

\* A record that gives rows is read to its end: no decoder stops before the last word.
NothingLeftOut ==
  rows # <<>> /\ ~IsShort(record) => \E b \in BitsRead : b.word = LengthOf(record) - 1

ReadsItsRecord == ReadsItsData /\ NothingLeftOut

\* When a writer reads a value, every word of it has been swapped exactly once, in the unit in
\* which it is read, if the stream has the other byte order, and has not been touched if it has
\* this one.  Text is never swapped.  Behind a hex dumper this is so only of what is read in whole
\* words: the dumper has swapped the record as if it were nothing else.
DumperAhead == \E i \in 1 .. next - 2 : chain[i] = "hexdump"
SwappedAsRead ==
  \A i \in DOMAIN rows : \A a \in DOMAIN rows[i] : <<record.card, a>> \notin KnownUnswapped =>
    \A b \in rows[i][a] : b.word # 0 /\ (DumperAhead => b.unit = 4) =>
      LET here == {k \in DOMAIN swaps : \E x \in swaps[k] : x.word = b.word}
      IN  IF mustSwap /\ b.unit > 1
            THEN /\ Cardinality(here) = 1
                 /\ \A k \in here : [word |-> b.word, unit |-> b.unit] \in swaps[k]
            ELSE here = {}

Width(bits) == MapThenSumSet(LAMBDA b : b.hi - b.lo + 1, bits)

\* Every branch of a card's trees is filled, and is wide enough for the value it is filled with.
ColumnsHoldValues ==
  \A i \in DOMAIN rows : \A columns \in Columns(record.card) : \A a \in DOMAIN columns :
    /\ a \in DOMAIN rows[i]
    /\ <<record.card, a>> \notin KnownNarrow => Width(rows[i][a]) <= columns[a]
=============================================================================
