-------------------------- MODULE MonitorDecoders --------------------------
(***************************************************************************)
(* The decoders of slow control (gauges, thermometers, motors, digital     *)
(* inputs and outputs), of ORCA's own records (runs, headers, scripts,     *)
(* test data), and of scopes, histograms and multi-channel analyzers: rows *)
(* and columns as in module CardDecoders.                                  *)
(***************************************************************************)
EXTENDS RecordWords

(***************************************************************************)
(* Gauges: a float and a time for each channel, from word 2 on.            *)
(***************************************************************************)
Device(r) == Bits(1, 0, 11)
Level(c)  == Word(2 * c + 2)
Time(c)   == Word(2 * c + 3)

\* Row c is channel c, whose status has four bits of word 1.
Ami286(r) ==
  Rows(4, LAMBDA c : [deviceID |-> Device(r), channel |-> Derived, level |-> Level(c),
                      time |-> Time(c), status |-> Bits(1, 16 + 4 * c, 19 + 4 * c)])
Ami286Leaves == Leaf(32, {"level", "time"}) @@ Leaf(16, {"channel", "deviceID", "status"})

BocTIC3(r) ==
  Rows(3, LAMBDA c : [deviceID |-> Device(r), channel |-> Derived, pressure |-> Level(c),
                      time |-> Time(c)])
BocTIC3Pars   == Ints({"deviceID", "channel", "pressure", "time"})
BocTIC3Leaves == Leaf(32, {"pressure", "time"}) @@ Leaf(16, {"channel", "deviceID"})

MksPdr2000(r) ==
  Rows(3, LAMBDA c : [deviceID |-> Device(r), units |-> Bits(1, 16, 19), channel |-> Derived,
                      pressure |-> Level(c), time |-> Time(c)])
MksPdr2000Pars == Ints({"deviceID", "units", "channel", "pressure", "time"})

Lakeshore210(r) ==
  Rows(8, LAMBDA c : [units |-> Bits(1, 16, 16), channel |-> Derived, temperature |-> Level(c),
                      time |-> Time(c)])
Lakeshore210Pars   == Ints({"units", "channel", "temperature", "time"})
Lakeshore210Leaves ==
  Leaf(8, {"units"}) @@ Leaf(32, {"temperature", "time"}) @@ Leaf(16, {"channel"})

CTITemp(r)  == <<[deviceID |-> Bits(1, 0, 15), temperature |-> Word(2), time |-> Word(3)]>>
CTITempPars == Ints({"deviceID", "temperature", "time"})

(***************************************************************************)
(* Industry packs, the neutral particle counter and the motor controller.  *)
(***************************************************************************)
Pak(r) == CrateCard(r) @@ [slot |-> Bits(1, 0, 3), time |-> Word(2)]

IP320ADC(r) ==
  Rows(LengthOf(r) - 3,
       LAMBDA i : Pak(r) @@ [channel |-> Bits(3 + i, 16, 23), adc |-> Bits(3 + i, 0, 11)])
IP320ADCPars == Ints({"crate", "card", "slot", "time", "channel", "adc"})

IP408DigitalIO(r) ==
  <<Pak(r) @@ [writeMask |-> Word(3), readMask |-> Word(4), writeValue |-> Word(5),
               readValue |-> Word(6)]>>
IP408DigitalIOPars ==
  Ints({"crate", "card", "slot", "time", "writeMask", "readMask", "writeValue", "readValue"})

NPLpCMeter(r) ==
  Rows(LengthOf(r) - 3,
       LAMBDA i : CrateCard(r) @@
         [device |-> Bits(1, 0, 3), unixTime |-> Word(2), id |-> Bits(3 + i, 24, 31),
          isSignal |-> Bits(3 + i, 23, 23), channel |-> Bits(3 + i, 21, 22),
          aOrB |-> Bits(3 + i, 20, 20), data |-> Bits(3 + i, 0, 19)])
NPLpCMeterPars ==
  Ints({"crate", "card", "device", "unixTime", "id", "isSignal", "channel", "aOrB", "data"})

VXM(r) ==
  <<[time |-> Word(1), motorID |-> Bits(2, 16, 31), rawPosition |-> Word(3),
     conversion |-> Word(4)]>>
VXMLeaves ==
  Leaf(64, {"time"}) @@ Leaf(16, {"motorID"}) @@ Leaf(32, {"rawPosition", "conversion"})

(***************************************************************************)
(* ORCA's own records.  The bits of a run record besides the heartbeat's   *)
(* are of no use in a heartbeat, whose last word is the time to the next.  *)
(***************************************************************************)
Run(r) ==
  LET start == Bits(1, 0, 0) \cup Bits(1, 3, 3)
  IN  <<[isRemoteControlRun |-> start, isQuickStartRun |-> start, runStart |-> start,
         runStop |-> start, heartBeat |-> Bits(1, 3, 3),
         prepareForSubRun |-> Bits(1, 3, 4), subRunStart |-> Bits(1, 3, 3) \cup Bits(1, 5, 5),
         runNumber |-> Word(2), subRunNumber |-> Bits(1, 16, 31),
         utime |-> Word(3), timeToNextHeartBeat |-> Word(3)]>>
RunPars ==
  Ints({"isRemoteControlRun", "isQuickStartRun", "runStart", "heartBeat", "runStop", "utime",
        "timeToNextHeartBeat", "prepareForSubRun", "subRunNumber"})

\* The header's text follows its length in bytes; Swap leaves it alone.
Header(r)     == <<[text |-> UNION {Chars(w) : w \in 2 .. LengthOf(r) - 1}]>>
HeaderSwap(r) == {}

Script(r) ==
  <<[scriptType |-> Bits(1, 28, 31), objectID |-> Bits(1, 0, 3), unixTime |-> Word(2),
     dataTag |-> Word(3), xmlLength |-> Word(4),
     xml |-> UNION {Chars(w) : w \in 5 .. LengthOf(r) - 1}]>>
ScriptSwap(r) == Swapped(1 .. 4, 4)

DataGenTestData1D(r) ==
  <<[card |-> Bits(1, 16, 19), channel |-> Bits(1, 12, 15), value |-> Bits(1, 0, 11)]>>

\* CrateOf is ORVDataDecoder's, CardOf is not.
DataGenBurst(r) ==
  <<[crate |-> CrateOf(r), card |-> Bits(1, 16, 19), channel |-> Bits(1, 12, 15),
     value |-> Bits(1, 0, 11), time |-> Word(2)]>>
DataGenBurstLeaves == Leaf(32, {"crate", "card", "channel", "value", "time"})

(***************************************************************************)
(* Histograms by their keys (n.keys words of text), scopes, and analyzers. *)
(***************************************************************************)
Histograms1D(r) ==
  LET bins == 3 + r.n.keys
  IN  <<[keyWords |-> Word(1), keys |-> UNION {Chars(w) : w \in 2 .. 1 + r.n.keys},
         nBins |-> Word(2 + r.n.keys), data |-> WordsOf(bins, bins + r.n.bins - 1)]>>
Histograms1DSwap(r) == Swapped({1} \cup 2 + r.n.keys .. LengthOf(r) - 1, 4)

\* The samples are bytes, and Swap is ORVDataDecoder's.
Tek754D(r) ==
  <<[gpibAddress |-> Bits(1, 23, 26), channel |-> Bits(1, 19, 22),
     data |-> UNION {Chars(w) : w \in 2 .. LengthOf(r) - 1}]>>
Tek754DLeaves == Leaf(32, {"gpibAddress", "channel"})
Tek220(r) == Tek754D(r)
LC950(r)  == Tek754D(r)

MCA927(r) ==
  <<[type |-> Bits(1, 13, 13), channel |-> Bits(1, 12, 12), device |-> Bits(1, 0, 11),
     liveTime |-> Word(2), realTime |-> Word(3), zdtMode |-> Word(4),
     spectrum |-> WordsOf(10, LengthOf(r) - 1)]>>
MCA927Leaves ==
  Leaf(16, {"device", "type", "channel"}) @@ Leaf(64, {"liveTime", "realTime", "zdtMode"})

MotionNode(r) ==
  <<[device |-> Bits(1, 0, 15), channel |-> Bits(1, 16, 17), timeStamp |-> Word(2),
     waveform |-> WordsOf(3, LengthOf(r) - 1)]>>
MotionNodeLeaves == Leaf(16, {"device", "channel"}) @@ Leaf(32, {"timeStamp"})
=============================================================================
