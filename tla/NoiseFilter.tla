------------------------------ MODULE NoiseFilter ------------------------------
(***************************************************************************)
(* ORTrig4ChanShaperFilter, behind the compound processor that an          *)
(* application must put before it, with its OR64PDHistDrawer: a shaper     *)
(* record that follows one of its channel within the time cut is noise,    *)
(* and only the others are written and shown.                              *)
(*                                                                         *)
(* A trigger record is its clock, in steps of the cut's unit; a shaper     *)
(* record is the channel (card and channel) it came from, and whether its  *)
(* calibrated energy is in the range that is shown.                        *)
(***************************************************************************)
EXTENDS Integers, Sequences, FiniteSets

CONSTANTS
  Channels,    (* channels of the shaper cards                            *)
  DeadChannels,(* those the drawer leaves out                             *)
  Cut,         (* fTimeCutLength                                          *)
  Period,      (* maxT: the length of the rate histogram                  *)
  MaxTime,     (* bound: clock values                                     *)
  MaxRuns,     (* bound: runs                                             *)
  MaxShapers   (* bound: shaper records of a run                          *)

VARIABLES
  running,         (* between StartRun and EndRun                         *)
  lastTrigger,     (* *fLastTriggerRecordPtr                              *)
  fBothRecords,    (* the multimap: time, channel and place in the run    *)
  trees,           (* the rows of shaperFilterTree, and of triggerFilterTree *)
  fRateHist,       (* the times in the rate histogram, with their place   *)
  resets,          (* the drawer's reset                                  *)
  crashed,         (* the program has read through fLastTriggerRecordPtr, NULL *)
  hits,            (* history: the shaper records of the run              *)
  runs             (* bound: runs so far                                  *)
drawerVars == <<fRateHist, resets>>
vars == <<running, lastTrigger, fBothRecords, trees, drawerVars, crashed, hits, runs>>

NoTrigger == [time |-> 0, sent |-> FALSE]

Init ==
  /\ running = FALSE
  /\ lastTrigger = NoTrigger
  /\ fBothRecords = {}
  /\ trees = <<>> /\ fRateHist = {} /\ resets = 1
  /\ hits = <<>> /\ runs = 0 /\ crashed = FALSE

StartRun ==
  /\ ~running /\ runs < MaxRuns
  /\ running' = TRUE /\ runs' = runs + 1
  /\ trees' = <<>> /\ hits' = <<>>
  /\ fRateHist' = {} /\ resets' = 1
  /\ UNCHANGED <<lastTrigger, fBothRecords>>

\* The clock may be set back.
Trigger(t) ==
  /\ running
  /\ lastTrigger' = [time |-> t, sent |-> TRUE]
  /\ UNCHANGED <<running, fBothRecords, trees, drawerVars, hits, runs>>

(***************************************************************************)
(* The cut.  What is older than the cut is erased; the rest is compared,   *)
(* what the map has for later times (a clock set back) with it.            *)
(***************************************************************************)
Expired(t)  == {b \in fBothRecords : t - b.time > Cut}
Noise(t, c) == \E b \in fBothRecords \ Expired(t) :
                 b.channel = c /\ (t >= b.time \/ b.time - t > Cut)

\* The drawer folds the time into the period, and empties the rate histogram
\* when a period has passed.
NextReset(t)  == IF t > Period /\ resets * Period < t THEN resets + 1 ELSE resets
\* Mutant: one period too many is taken off.
FoldedTwice(t) == IF t > Period THEN t - NextReset(t) * Period ELSE t
Folded(t)     == IF t > Period THEN t - (NextReset(t) - 1) * Period ELSE t
Draw(t, c, energy, n) ==
  IF c \in DeadChannels \/ energy = "outside" THEN UNCHANGED drawerVars
  ELSE /\ resets' = NextReset(t)
       /\ fRateHist' = (IF NextReset(t) = resets THEN fRateHist ELSE {})
                         \cup {[n |-> n, bin |-> Folded(t)]}

\* The drawer and the two tree writers, called one after the other.
Write(t, c, energy, n) ==
  /\ Draw(t, c, energy, n)
  /\ trees' = Append(trees, n)

\* Without a calibration every energy is shown.
Shaper(c, energy) ==
  LET t == lastTrigger.time
      n == Len(hits) + 1
  IN  /\ running /\ lastTrigger.sent /\ n <= MaxShapers
      /\ hits' = Append(hits, [time |-> t, channel |-> c, energy |-> energy])
      /\ IF Noise(t, c) THEN UNCHANGED <<trees, drawerVars>> ELSE Write(t, c, energy, n)
      /\ fBothRecords' = (fBothRecords \ Expired(t)) \cup {[time |-> t, channel |-> c, n |-> n]}
      /\ UNCHANGED <<running, lastTrigger, runs>>

\* With no trigger before it in its run the clock is read from a record at NULL.
LoneShaper ==
  /\ running /\ ~lastTrigger.sent /\ Len(hits) < MaxShapers
  /\ crashed' = TRUE
  /\ UNCHANGED <<running, lastTrigger, fBothRecords, trees, drawerVars, hits, runs>>

\* Mutant: the map outlives its run.
ForgetNothing == UNCHANGED fBothRecords
\* Forget is EndRun's clearing of the map.
Forget == fBothRecords' = {}
EndRun ==
  /\ running
  /\ running' = FALSE
  /\ Forget
  /\ lastTrigger' = NoTrigger
  /\ UNCHANGED <<trees, drawerVars, hits, runs>>

Steps ==
  \/ StartRun \/ EndRun
  \/ \E t \in 0 .. MaxTime : Trigger(t)
  \/ \E c \in Channels, energy \in {"shown", "outside"} : Shaper(c, energy)

Next == ~crashed /\ ((Steps /\ UNCHANGED crashed) \/ LoneShaper)

Spec == Init /\ [][Next]_vars
-----------------------------------------------------------------------------
Forward(n)  == \A i, j \in 1 .. n : i <= j => hits[i].time <= hits[j].time
Written     == {trees[i] : i \in DOMAIN trees}
Repeats(n)  == \E i \in 1 .. n - 1 : /\ hits[i].channel = hits[n].channel
                                     /\ hits[n].time - hits[i].time <= Cut

(***************************************************************************)
(* While the clock runs forward, a hit is kept if and only if no hit of    *)
(* its channel, kept or not, came within the cut before it in this run;    *)
(* the trees have the kept ones in order.                                  *)
(***************************************************************************)
NoiseIsCut ==
  /\ \A n \in DOMAIN hits : Forward(n) => (n \in Written <=> ~Repeats(n))
  /\ \A i \in 1 .. Len(trees) - 1 : trees[i] < trees[i + 1]

(***************************************************************************)
(* The rate histogram shows hits of one period, each at its place in it,   *)
(* if the clock runs forward and every period so far had a hit to show.    *)
(***************************************************************************)
PeriodOf(t)  == IF t = 0 THEN 0 ELSE (t - 1) \div Period
Shown        == {n \in Written : hits[n].channel \notin DeadChannels /\ hits[n].energy = "shown"}
NoGap        == \A n \in Shown : \A p \in 0 .. PeriodOf(hits[n].time) :
                  \E m \in Shown : PeriodOf(hits[m].time) = p
RateOfOnePeriod ==
  Forward(Len(hits)) /\ NoGap =>
    /\ \A x, y \in fRateHist : PeriodOf(hits[x.n].time) = PeriodOf(hits[y.n].time)
    /\ \A x \in fRateHist : x.bin = hits[x.n].time - Period * PeriodOf(hits[x.n].time)
=============================================================================
