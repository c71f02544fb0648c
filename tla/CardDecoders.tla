---------------------------- MODULE CardDecoders ----------------------------
(***************************************************************************)
(* The decoders of ADC, TDC, scaler, trigger and slow-control cards.  Each *)
(* has its rows (what the accessors of its class read), and Pars, the      *)
(* columns that GetPar gives for 0 .. GetNPars() - 1, or Leaves, those of  *)
(* the card's own tree writer.  A decoder with a Swap of its own has it    *)
(* here.                                                                   *)
(***************************************************************************)
EXTENDS RecordWords

(***************************************************************************)
(* ORVBasicADCDecoder, a word of channel and value, and its subclasses.    *)
(* The 4-word form carries a date.                                         *)
(***************************************************************************)
Date(r) == IF Has(r, "date") THEN Double(2) ELSE Derived

ADCRow(r, channel, adc) == <<CrateCard(r) @@ [channel |-> channel, adc |-> adc, date |-> Date(r)]>>
ADCWord(r)              == IF IsShort(r) THEN 0 ELSE 1

BasicADC(r)  == ADCRow(r, Bits(ADCWord(r), 12, 15), Bits(ADCWord(r), 0, 11))
AD413(r)     == ADCRow(r, Bits(ADCWord(r), 13, 14), Bits(ADCWord(r), 0, 12))
AD811(r)         == BasicADC(r)
ADC2249(r)       == BasicADC(r)
ShaperShaper(r)  == BasicADC(r)
CaenV265(r)  == ADCRow(r, Bits(ADCWord(r), 13, 15), Bits(ADCWord(r), 0, 11))
BasicADCPars == Ints({"crate", "card", "channel", "adc"})

ShaperShaperLeaves == Leaf(32, {"crate", "card", "channel", "adc"})

\* The words of a date are swapped like all others, and not exchanged.
BasicADCSwap(r) == IF IsShort(r) THEN {} ELSE SwapAll(r)

\* Its values follow four words of header; with fewer words it has no row.
XYCom564(r) ==
  Rows(IF LengthOf(r) < 4 THEN 0 ELSE LengthOf(r) - 4,
       LAMBDA i : CrateCard(r) @@ [channel |-> Bits(4 + i, 16, 23), adc |-> Bits(4 + i, 0, 15),
                                   date |-> Word(2) \cup Word(3)])

\* Values after a date or right after the header.
AD3511(r) ==
  LET first == IF Has(r, "date") THEN 4 ELSE 2
  IN  Rows(LengthOf(r) - first,
           LAMBDA i : CrateCard(r) @@ [hasReferenceDate |-> Bits(1, 25, 25), date |-> Date(r),
                                       adc |-> Word(first + i)])
AD3511Pars == Ints({"crate", "card", "adc"})
AD3511Swap(r) ==
  Swapped({1}, 4) \cup (IF Has(r, "date") THEN SwapDouble(2) \cup Swapped(4 .. LengthOf(r) - 1, 4)
                        ELSE Swapped(2 .. LengthOf(r) - 1, 4))

JAMFADC(r) ==
  Rows(LengthOf(r) - 3,
       LAMBDA i : CrateCard(r) @@ [channel |-> Bits(3 + i, 16, 19), adc |-> Bits(3 + i, 0, 15),
                                   date |-> Word(2)])

(***************************************************************************)
(* CAEN converters: one word a value.  (The 792 and the 965, which keep    *)
(* pointers to these words, are in module CaenEvents.)                     *)
(***************************************************************************)
Caen1785(r) ==
  Rows(LengthOf(r) - 2,
       LAMBDA i : CrateCard(r) @@
         [channel |-> Bits(2 + i, 18, 20), value |-> Bits(2 + i, 0, 11),
          underThreshold |-> Bits(2 + i, 13, 13), overflow |-> Bits(2 + i, 12, 12),
          valid |-> Bits(2 + i, 24, 26), lowRange |-> Bits(2 + i, 17, 17)])
Caen1785Pars ==
  Ints({"crate", "card", "channel", "value", "underThreshold", "overflow", "valid", "lowRange"})

(***************************************************************************)
(* ORTDC3377tdcDecoder: half-words after the timestamp, the first of them  *)
(* a header; a value has one of them, or two in the double-word format.    *)
(***************************************************************************)
TDC3377tdc(r) ==
  LET head   == IF Has(r, "date") THEN 8 ELSE 6
      double == Has(r, "double")
      at(i)  == head + (IF double THEN 2 * i + 1 ELSE i + 1)
      nWords == 2 * LengthOf(r) - head - 1 - (IF Has(r, "odd") THEN 1 ELSE 0)
  IN  Rows(IF double THEN nWords \div 2 ELSE nWords,
           LAMBDA i : CrateCard(r) @@
             [nDataWords |-> Bits(1, 0, 15), doubleTimestamp |-> Bits(1, 25, 25),
              date |-> IF Has(r, "date") THEN Double(2) ELSE Word(2),
              doubleFormat |-> HalfBits(head, 14, 14), bothEdges |-> HalfBits(head, 10, 10),
              channel |-> HalfBits(at(i), 10, 14),
              tdc |-> IF double THEN HalfBits(at(i), 0, 7) \cup HalfBits(at(i) + 1, 0, 7)
                      ELSE HalfBits(at(i), 0, IF Has(r, "edges") THEN 8 ELSE 9),
              leadingEdge |-> IF Has(r, "edges") THEN HalfBits(at(i), 9, 9) ELSE Derived])
TDC3377tdcPars == Ints({"crate", "card", "channel", "tdc", "leadingEdge"})
TDC3377tdcSwap(r) ==
  Swapped({1}, 4) \cup (IF Has(r, "date") THEN SwapDouble(2) \cup Swapped(4 .. LengthOf(r) - 1, 2)
                        ELSE Swapped({2}, 4) \cup Swapped(3 .. LengthOf(r) - 1, 2))

(***************************************************************************)
(* Scalers.                                                                *)
(***************************************************************************)
CaenV260(r) ==
  Rows(16, LAMBDA i : CrateCard(r) @@ [uTime |-> Word(2), channel |-> Derived,
                                       scaler |-> Bits(3 + i, 0, 23)])
CaenV260Pars == Ints({"crate", "card", "uTime", "channel", "scaler"})

CaenV830(r) ==
  Rows(LengthOf(r) - 5,
       LAMBDA i : CrateCard(r) @@ [chan0RollOver |-> Word(2), enabledMask |-> Word(3),
                                   header |-> Word(4), channel |-> Derived,
                                   counter |-> Word(5 + i)])
CaenV830Pars ==
  Ints({"crate", "card", "chan0RollOver", "enabledMask", "header", "channel", "counter"})

L2551Scalers(r) ==
  Rows(12, LAMBDA i : [crate |-> Bits(1, 16, 19), card |-> Bits(1, 0, 4),
                       channel |-> Bits(2 + i, 28, 31), scaler |-> Bits(2 + i, 0, 23)])
L2551ScalersPars == Ints({"crate", "card", "channel", "scaler"})

SIS3820(r) ==
  Rows(32, LAMBDA i : CrateCard(r) @@
         [timeRead |-> Word(2), lastTimeRead |-> Word(3), countEnabledMask |-> Word(4),
          overflowMask |-> Word(5), options |-> Word(6), channel |-> Derived,
          scaler |-> Word(7 + i)])
SIS3820Pars == Ints({"crate", "card", "channel", "scaler"})
L2551ScalersLeaves == Leaf(32, {"crate", "card", "channel", "scaler"})
SIS3820Leaves      == Leaf(32, {"crate", "card", "channel", "scaler"})

(***************************************************************************)
(* Trigger cards.                                                          *)
(***************************************************************************)
Trig4Chan(r) ==
  <<[trigger |-> Bits(1, 24, 26), UpClock |-> Bits(1, 0, 23), LowClock |-> Word(2),
     Clock |-> Bits(1, 0, 23) \cup Word(2)]>>
Trig4ChanPars   == Ints({"trigger", "UpClock", "LowClock"})
Trig4ChanLeaves == Leaf(32, {"trigger", "UpClock", "LowClock"}) @@ Leaf(64, {"Clock"})

\* The two halves of the time; the writer's double is made of both.
Trigger32Clock(r) ==
  <<[trigBits |-> Bits(1, 24, 25), macTop |-> Bits(1, 0, 23), macBottom |-> Word(2),
     t |-> Bits(1, 0, 23) \cup Word(2)]>>
Trigger32ClockPars   == Ints({"trigBits", "macTop", "macBottom"})
Trigger32ClockLeaves == Leaf(32, {"trigBits"}) @@ Leaf(64, {"t"})

Trigger32GTID(r) ==
  LET w == IF IsShort(r) THEN 0 ELSE 1
  IN  <<[trigBits |-> Bits(w, 24, 25), GTID |-> Bits(w, 0, 19)]>>
Trigger32GTIDPars   == Ints({"trigBits", "GTID"})
Trigger32GTIDLeaves == Leaf(32, {"trigBits", "GTID"})

Trigger32LiveTime(r) ==
  <<[trigBits |-> Bits(1, 26, 27), GTID |-> Bits(1, 0, 23), runState |-> Bits(2, 16, 17),
     crate |-> Bits(2, 8, 11), slot |-> Bits(2, 0, 4),
     totalTop    |-> Bits(3, 0, 7),   totalBottom    |-> Word(4),
     trigger1Top |-> Bits(3, 8, 15),  trigger1Bottom |-> Word(5),
     trigger2Top |-> Bits(3, 16, 23), trigger2Bottom |-> Word(6),
     scopeTop    |-> Bits(3, 24, 31), scopeBottom    |-> Word(7)]>>
Trigger32LiveTimePars ==
  Ints({"trigBits", "GTID", "runState", "crate", "slot", "totalTop", "totalBottom",
        "trigger1Top", "trigger1Bottom", "trigger2Top", "trigger2Bottom",
        "scopeTop", "scopeBottom"})

\* A date in the words before the last, or the last alone.
L4532mainTrigger(r) ==
  <<[eventCount |-> Word(1), crate |-> Bits(2, 21, 24), card |-> Bits(2, 16, 20),
     doubleTimestamp |-> Bits(2, 25, 25),
     date |-> IF Has(r, "date") THEN Double(3) ELSE Word(3)]>>
L4532mainTriggerPars    == Ints({"eventCount", "crate", "card"})
L4532mainTriggerSwap(r) ==
  Swapped({1, 2}, 4) \cup (IF Has(r, "date") THEN SwapDouble(3) ELSE Swapped({3}, 4))

L4532channelTrigger(r)   == <<CrateCard(r) @@ [triggerMask |-> Word(2)]>>
L4532channelTriggerPars == Ints({"crate", "card", "triggerMask"})
=============================================================================
