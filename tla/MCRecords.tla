------------------------------ MODULE MCRecords ------------------------------
(***************************************************************************)
(* Records for TLC: for every card, the shortest records it sends and one  *)
(* or two longer ones, in each of its formats, and records that are not    *)
(* what their decoder takes.                                               *)
(***************************************************************************)
EXTENDS Records

Sent(cards, lengths, formats) ==
  {[card |-> c, length |-> l, flags |-> f, n |-> <<>>] :
     c \in cards, l \in lengths, f \in formats}
Counted(c, length, formats, n) == {[card |-> c, length |-> length, flags |-> f, n |-> n] : f \in formats}
Short(cards) == Sent(cards, {1}, {{"short"}})

Dated == {"BasicADC", "AD811"}

MCArriving ==
  \* converters, scalers and triggers
  Short(BasicADCs \cup {"Trigger32GTID"})
  \cup Sent(BasicADCs \cup {"Trigger32GTID", "DataGenTestData1D"}, {2}, {{}})
  \cup Sent(Dated, {4}, {{"date"}})
  \cup Sent({"XYCom564"}, {3, 5, 6}, {{}})
  \cup Sent({"AD3511"}, {3, 4}, {{}}) \cup Sent({"AD3511"}, {5, 6}, {{"date"}})
  \cup Sent({"JAMFADC"}, {4, 5}, {{}})
  \cup Sent({"Caen1785"}, {3, 4}, {{}})
  \cup Sent({"TDC3377tdc"}, {5, 6}, {{}, {"odd"}, {"edges"}, {"double", "odd"}})
  \cup Sent({"TDC3377tdc"}, {6, 7}, {{"date"}, {"date", "odd"}, {"date", "double", "odd"}})
  \cup Sent({"CaenV260"}, {19}, {{}}) \cup Sent({"CaenV830"}, {6, 7}, {{}})
  \cup Sent({"L2551Scalers"}, {14}, {{}}) \cup Sent({"SIS3820"}, {39}, {{}})
  \cup Sent({"Trig4Chan", "Trigger32Clock", "L4532channelTrigger", "DataGenBurst"}, {3}, {{}})
  \cup Sent({"Trigger32LiveTime"}, {8}, {{}})
  \cup Sent({"L4532mainTrigger"}, {4}, {{}}) \cup Sent({"L4532mainTrigger"}, {5}, {{"date"}})
  \* slow control, ORCA's own, scopes and analyzers
  \cup Sent({"Ami286"}, {10}, {{}}) \cup Sent({"BocTIC3", "MksPdr2000"}, {8}, {{}})
  \cup Sent({"Lakeshore210"}, {18}, {{}}) \cup Sent({"CTITemp", "Run"}, {4}, {{}})
  \cup Sent({"IP320ADC", "NPLpCMeter"}, {4, 5}, {{}}) \cup Sent({"IP408DigitalIO"}, {7}, {{}})
  \cup Sent({"VXM"}, {5}, {{}}) \cup Sent({"Header"}, {3, 4}, {{}}) \cup Sent({"Script"}, {6, 7}, {{}})
  \cup UNION {Counted("Histograms1D", 3 + k + b, {{}}, [keys |-> k, bins |-> b]) : k, b \in 1 .. 2}
  \cup Sent({"Tek754D", "Tek220", "LC950", "MotionNode"}, {4, 5}, {{}})
  \cup Sent({"MCA927"}, {11, 12}, {{}})
  \* digitizers: whole waveforms, and records with a word too many or too few
  \cup Sent({"IpeV4FLTWaveform", "KatrinV4FLTWaveform", "KatrinFLTWaveform"},
            {FLTHead + Page - 1, FLTHead + Page, FLTHead + 2 * Page}, {{}})
  \cup Sent({"EdelweissSLTFLTEvent", "EdelweissSLTWaveform"},
            {FLTHead + Samples - 1, FLTHead + Samples, FLTHead + Longest, FLTHead + Longest + 1},
            {{}, {"flexible"}})
  \cup Sent({"IpeV4FLTEnergy", "KatrinFLTEnergy"}, {9}, {{}})
  \cup Sent({"KatrinV4FLTEnergy"}, {7}, {{}}) \cup Sent({"IpeV4SLTEvent"}, {5}, {{}})
  \cup UNION {Counted("KatrinFLTEnergyHistogram", 10 + b, {{}}, [bins |-> 2])
              \cup Counted("IpeV4FLTEnergyHistogram", 12 + b, {{}}, [bins |-> 2])
              \cup Counted("KatrinV4FLTEnergyHistogram", 12 + b, {{}}, [bins |-> 2]) : b \in 1 .. 2}
  \cup Sent({"KatrinV4FLTHitRate"}, {6, 7}, {{}})
  \cup UNION {Counted("KatrinV4FLTHitRate", 5 + 2 * c, {{"new"}}, [channels |-> c]) : c \in 1 .. 2}
  \cup UNION {Counted("SIS3302", 4 + h + raw + energy + 4,
                      {IF h = 4 THEN {"wrap"} ELSE {}, IF h = 4 THEN {"wrap", "corrupt"} ELSE {"corrupt"}},
                      [raw |-> raw, energy |-> energy]) : h \in {2, 4}, raw \in 0 .. 2, energy \in 0 .. 1}
  \cup Counted("SIS3302", 12, {{}}, [raw |-> 2, energy |-> 1])
  \cup UNION {Counted("Greta", 2 + p, {{}}, [packet |-> p]) : p \in 6 .. 8}
  \cup UNION {Counted("MarkIV", 2 + p, {{}}, [packet |-> p])
              \cup Counted("MarkIV", 6 + p, {{}}, [packet |-> p])
              \cup Counted("MarkIV", 10 + p, {{"master"}}, [packet |-> p]) : p \in 7 .. 9}
  \cup Sent({"Gretina4M"}, {2 + Page, 2 + 2 * Page}, {{}})
  \cup UNION {Counted("AcqirisDC440", 6 + (o + p) \div 2, {{}}, [offset |-> o, points |-> p]) :
                o \in {0, 2}, p \in {2, 4}}
  \cup UNION {Counted("Caen5720", 6 + 2 * c, {{}}, [channels |-> c]) : c \in 1 .. 4}
  \cup UNION {Counted("DGF4cEvent", 2 + (10 + c * 9) \div 2, {{}}, [channels |-> c, points |-> 0])
              \cup Counted("DGF4cEvent", 2 + (10 + c * 11) \div 2, {{}}, [channels |-> c, points |-> 2])
              \cup Counted("DGF4cEvent", 2 + (10 + c * 4) \div 2, {{"C2"}}, [channels |-> c, points |-> 0])
              \cup Counted("DGF4cEvent", 2 + (10 + c * 2) \div 2, {{"C3"}}, [channels |-> c, points |-> 0]) : c \in 1 .. 4}
  \cup Sent({"DGF4cLiveTime"}, {13}, {{"old"}}) \cup Sent({"DGF4cLiveTime"}, {19}, {{}})
  \cup Counted("DGF4cMCA", 4, {{}}, [bins |-> 2])

MCChains == {<<"writer", "writer", "hexdump">>, <<"hexdump", "writer">>}

\* A channel read from the word of length and data id.
MCKnownMisread == {<<"IpeV4FLTWaveform", "channel">>}
\* Maps of 22 channels and counts of 32 bits in branches of 16.
MCKnownNarrow ==
  {"IpeV4FLTEnergy", "KatrinFLTEnergy", "KatrinV4FLTEnergy", "KatrinFLTWaveform"} \X {"channelMap"}
  \cup {<<"DGF4cLiveTime", "numEvents">>}
\* A double whose two words are swapped and not exchanged, and bytes swapped as words.
MCKnownUnswapped == (Dated \X {"date"}) \cup ({"Tek754D", "Tek220", "LC950"} \X {"data"})
=============================================================================
