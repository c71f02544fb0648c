--------------------------- MODULE Processing_proofs ---------------------------
(***************************************************************************)
(* Proofs about the processors at the end of the chain and the readers of  *)
(* files at its start.  These share no state, so that each has an          *)
(* invariant of its own, and a step of another part leaves it alone.       *)
(***************************************************************************)
EXTENDS Processing, SequenceTheorems, FiniteSetTheorems, WellFoundedInduction, TLAPS

allVars == <<part, foreignVars, fileVars, runVars, noiseVars, reqVars>>
-----------------------------------------------------------------------------
(***************************************************************************)
(* The noise filter.                                                       *)
(***************************************************************************)
HitType == [time : Nat, channel : Channels, energy : {"shown", "outside"}]
NoiseTypes ==
  /\ running \in BOOLEAN
  /\ triggerBefore.time \in Nat
  /\ hits \in Seq(HitType)
  /\ filterTrees \in Seq(Nat)
  /\ \A b \in fBothRecords : b.time \in Nat
  /\ resets \in Nat \ {0}

\* The hit of the n-th shaper record, as the map has it, and those that are
\* within the cut of the last.
Hit(n) == [time |-> hits[n].time, channel |-> hits[n].channel, n |-> n]
Recent == {n \in DOMAIN hits : hits[Len(hits)].time - hits[n].time <= Cut}

(***************************************************************************)
(* While the clock runs forward, the map has what came within the cut      *)
(* before the last record of this run, written or not.                     *)
(***************************************************************************)
MapIsRecent ==
  running /\ N!Forward(Len(hits)) => fBothRecords = {Hit(n) : n \in Recent}
TreesInOrder ==
  /\ \A i \in DOMAIN filterTrees : filterTrees[i] \in DOMAIN hits
  /\ \A i \in 1 .. Len(filterTrees) - 1 : filterTrees[i] < filterTrees[i + 1]
KeptAreFirst ==
  \A n \in DOMAIN hits : N!Forward(n) => (n \in N!Written <=> ~N!Repeats(n))

NoiseInv ==
  /\ NoiseTypes
  /\ ~running => fBothRecords = {}
  /\ MapIsRecent /\ TreesInOrder /\ KeptAreFirst

\* The filter starts with an empty map and no rows.
LEMMA NoiseStarts == N!Init => NoiseInv
<1> SUFFICES ASSUME N!Init PROVE NoiseInv
  OBVIOUS
<1>1. hits = <<>> /\ filterTrees = <<>> /\ Len(hits) = 0 /\ Len(filterTrees) = 0
      /\ DOMAIN hits = {} /\ DOMAIN filterTrees = {}
  BY DEF N!Init
<1>2. NoiseTypes
  <2>1. triggerBefore.time \in Nat /\ resets \in Nat \ {0} /\ fBothRecords = {}
    BY DEF N!Init, N!NoTrigger
  <2>2. running \in BOOLEAN
    BY DEF N!Init
  <2> QED
    BY <1>1, <2>1, <2>2 DEF NoiseTypes
<1>3. MapIsRecent /\ TreesInOrder /\ KeptAreFirst
  BY <1>1 DEF N!Init, MapIsRecent, TreesInOrder, KeptAreFirst
<1> QED
  BY <1>1, <1>2, <1>3 DEF N!Init, N!NoTrigger, NoiseInv

(***************************************************************************)
(* What a new hit does not change: which of the others repeat one before,  *)
(* and whether the clock ran forward up to them.                           *)
(***************************************************************************)
LEMMA EarlierHits ==
  ASSUME NEW t \in Nat, NEW c \in Channels, NEW e \in {"shown", "outside"}, NEW k, k = Len(hits) + 1,
         hits \in Seq(HitType),
         hits' = Append(hits, [time |-> t, channel |-> c, energy |-> e])
  PROVE  /\ hits' \in Seq(HitType)
         /\ Len(hits) \in Nat /\ Len(hits') = k
         /\ DOMAIN hits = 1 .. Len(hits) /\ DOMAIN hits' = 1 .. k
         /\ hits'[k] = [time |-> t, channel |-> c, energy |-> e]
         /\ \A m \in DOMAIN hits : hits'[m] = hits[m] /\ hits[m].time \in Nat
         /\ \A m \in DOMAIN hits : N!Forward(m)' <=> N!Forward(m)
         /\ \A m \in DOMAIN hits : N!Repeats(m)' <=> N!Repeats(m)
         /\ N!Forward(k)' <=> N!Forward(Len(hits)) /\ \A m \in DOMAIN hits : hits[m].time <= t
<1>1. /\ hits' \in Seq(HitType)
      /\ Len(hits') = k
      /\ DOMAIN hits = 1 .. Len(hits)
      /\ DOMAIN hits' = 1 .. k
      /\ hits'[k] = [time |-> t, channel |-> c, energy |-> e]
      /\ \A m \in 1 .. Len(hits) : hits'[m] = hits[m]
  <2> DEFINE new == [time |-> t, channel |-> c, energy |-> e]
  <2>1. new \in HitType
    BY DEF HitType
  <2> HIDE DEF new
  <2> QED
    BY <2>1 DEF new
<1>2. Len(hits) \in Nat /\ \A m \in DOMAIN hits : hits[m].time \in Nat
  <2>1. \A m \in DOMAIN hits : hits[m] \in HitType
    BY <1>1, ElementOfSeq
  <2> QED
    BY <2>1 DEF HitType
<1>3. \A m \in DOMAIN hits : N!Forward(m)' <=> N!Forward(m)
  <2>1. \A m \in DOMAIN hits : \A i \in 1 .. m : hits'[i].time = hits[i].time
    BY <1>1, <1>2
  <2> QED
    BY <2>1 DEF N!Forward
<1>4. \A m \in DOMAIN hits : N!Repeats(m)' <=> N!Repeats(m)
  <2>1. \A m \in 1 .. Len(hits) : \A i \in 1 .. m - 1 : i \in 1 .. Len(hits)
    BY <1>2
  <2> QED
    BY <1>1, <2>1 DEF N!Repeats
<1>5. N!Forward(k)' <=> N!Forward(Len(hits)) /\ \A m \in DOMAIN hits : hits[m].time <= t
  <2>1. hits'[k].time = t /\ \A m \in 1 .. Len(hits) : hits'[m].time = hits[m].time
    BY <1>1
  <2>2. N!Forward(k)' <=> \A i, j \in 1 .. k : i <= j => hits'[i].time <= hits'[j].time
    BY DEF N!Forward
  <2>3. 1 .. k = 1 .. Len(hits) \cup {k} /\ \A m \in 1 .. Len(hits) : m < k
    BY <1>2
  <2>4. ASSUME N!Forward(k)' PROVE N!Forward(Len(hits)) /\ \A m \in DOMAIN hits : hits[m].time <= t
    <3>1. \A i, j \in 1 .. Len(hits) : i <= j => hits[i].time <= hits[j].time
      BY <2>1, <2>2, <2>3, <2>4
    <3>2. \A m \in 1 .. Len(hits) : m \in 1 .. k /\ k \in 1 .. k /\ m <= k
      BY <1>2
    <3>3. \A m \in 1 .. Len(hits) : hits'[m].time <= hits'[k].time
      BY <3>2, <2>2, <2>4
    <3> QED
      BY <3>1, <3>3, <2>1, <1>1 DEF N!Forward
  <2>5. ASSUME N!Forward(Len(hits)), \A m \in DOMAIN hits : hits[m].time <= t
        PROVE  N!Forward(k)'
    <3> SUFFICES ASSUME NEW i \in 1 .. k, NEW j \in 1 .. k, i <= j
                 PROVE  hits'[i].time <= hits'[j].time
      BY <2>2
    <3>1. CASE j = k /\ i = k
      BY <3>1, <2>1
    <3>2. CASE j = k /\ i \in 1 .. Len(hits)
      BY <3>2, <2>1, <2>5, <1>1
    <3>3. CASE i \in 1 .. Len(hits) /\ j \in 1 .. Len(hits)
      BY <3>3, <2>1, <2>5 DEF N!Forward
    <3> QED
      BY <3>1, <3>2, <3>3, <2>3, <1>2
  <2> QED
    BY <2>4, <2>5
<1> QED
  BY <1>1, <1>2, <1>3, <1>4, <1>5

\* The map of a new hit: what it has and is not yet too old, and the hit.
LEMMA MapKeepsRecent ==
  ASSUME NoiseInv, NEW t \in Nat, NEW c \in Channels, NEW e \in {"shown", "outside"},
         NEW k, k = Len(hits) + 1, running,
         hits' = Append(hits, [time |-> t, channel |-> c, energy |-> e]),
         fBothRecords' = (fBothRecords \ N!Expired(t)) \cup
                           {[time |-> t, channel |-> c, n |-> k]},
         running' = running
  PROVE  /\ MapIsRecent'
         /\ N!Forward(k)' => (N!Noise(t, c) <=> N!Repeats(k)')
<1>0. hits \in Seq(HitType)
  BY DEF NoiseInv, NoiseTypes
<1>00. N!Forward(Len(hits))' => N!Forward(k)'
  BY <1>0, EarlierHits
<1> SUFFICES ASSUME N!Forward(k)'
             PROVE  /\ fBothRecords' = {Hit(n) : n \in Recent}'
                    /\ N!Noise(t, c) <=> N!Repeats(k)'
  BY <1>00 DEF MapIsRecent
<1>1. /\ Len(hits) \in Nat /\ DOMAIN hits = 1 .. Len(hits)
      /\ DOMAIN hits' = 1 .. k /\ Len(hits') = k
      /\ hits'[k] = [time |-> t, channel |-> c, energy |-> e]
      /\ \A m \in 1 .. Len(hits) : hits'[m] = hits[m] /\ hits[m].time \in Nat /\ hits[m].time <= t
      /\ N!Forward(Len(hits))
  <2>1. \A m \in 1 .. Len(hits) : hits'[m] = hits[m] /\ hits[m].time \in Nat
    BY <1>0, EarlierHits
  <2>2. N!Forward(Len(hits)) /\ \A m \in 1 .. Len(hits) : hits[m].time <= t
    BY <1>0, EarlierHits
  <2> QED
    BY <2>1, <2>2, <1>0, EarlierHits
<1>2. fBothRecords = {Hit(n) : n \in Recent}
  BY <1>1 DEF NoiseInv, MapIsRecent
<1>3. Cut \in Nat
  BY FilterAssumption
<1>4. \A m \in 1 .. Len(hits) : t - hits[m].time <= Cut => m \in Recent
  <2> SUFFICES ASSUME NEW m \in 1 .. Len(hits), t - hits[m].time <= Cut PROVE m \in Recent
    OBVIOUS
  <2>1. hits[Len(hits)].time \in Nat /\ hits[Len(hits)].time <= t
    BY <1>1
  <2> QED
    BY <2>1, <1>1, <1>3 DEF Recent
<1>5. fBothRecords \ N!Expired(t) = {Hit(m) : m \in {m \in 1 .. Len(hits) : t - hits[m].time <= Cut}}
  <2>1. \A m \in Recent : m \in 1 .. Len(hits) /\ Hit(m).time = hits[m].time
    BY <1>1 DEF Recent, Hit
  <2> QED
    BY <2>1, <1>1, <1>2, <1>3, <1>4 DEF N!Expired
<1>6. Recent' = {m \in 1 .. Len(hits) : t - hits[m].time <= Cut} \cup {k}
  BY <1>1, <1>3 DEF Recent
<1>7. \A m \in 1 .. Len(hits) : Hit(m)' = Hit(m)
  BY <1>1 DEF Hit
<1>8. Hit(k)' = [time |-> t, channel |-> c, n |-> k]
  BY <1>1 DEF Hit
<1>9. fBothRecords' = {Hit(n) : n \in Recent}'
  BY <1>5, <1>6, <1>7, <1>8
<1>10. N!Noise(t, c) <=> \E m \in 1 .. Len(hits) : hits[m].channel = c /\ t - hits[m].time <= Cut
  <2>1. \A m \in 1 .. Len(hits) : /\ Hit(m).channel = hits[m].channel
                                  /\ Hit(m).time = hits[m].time /\ t >= hits[m].time
    BY <1>1 DEF Hit
  <2> QED
    BY <2>1, <1>5 DEF N!Noise
<1>11. N!Repeats(k)' <=> \E m \in 1 .. Len(hits) : hits[m].channel = c /\ t - hits[m].time <= Cut
  <2>1. k - 1 = Len(hits) /\ hits'[k].time = t /\ hits'[k].channel = c
    BY <1>1
  <2>2. \A m \in 1 .. Len(hits) : hits'[m].time = hits[m].time /\ hits'[m].channel = hits[m].channel
    BY <1>1
  <2> QED
    BY <2>1, <2>2 DEF N!Repeats
<1> QED
  BY <1>9, <1>10, <1>11

\* A hit keeps the invariant, written or not.
LEMMA ShaperKeeps == ASSUME NoiseInv, NEW c \in Channels, NEW e \in {"shown", "outside"}, N!Shaper(c, e) PROVE NoiseInv'
<1>t. PICK t : t = triggerBefore.time
  OBVIOUS
<1>k. PICK k : k = Len(hits) + 1
  OBVIOUS
<1>0. hits \in Seq(HitType) /\ t \in Nat
  BY <1>t DEF NoiseInv, NoiseTypes
<1>1. /\ hits' = Append(hits, [time |-> t, channel |-> c, energy |-> e])
      /\ fBothRecords' = (fBothRecords \ N!Expired(t)) \cup {[time |-> t, channel |-> c, n |-> k]}
      /\ running /\ running' = running /\ triggerBefore.sent
      /\ triggerBefore' = triggerBefore
      /\ IF N!Noise(t, c) THEN UNCHANGED <<filterTrees, N!drawerVars>> ELSE N!Write(t, c, e, k)
  BY <1>t, <1>k DEF N!Shaper
<1>2. /\ hits' \in Seq(HitType)
      /\ Len(hits) \in Nat /\ DOMAIN hits = 1 .. Len(hits) /\ DOMAIN hits' = 1 .. k
  BY <1>0, <1>1, <1>k, EarlierHits
<1>2a. \A m \in DOMAIN hits : N!Forward(m)' <=> N!Forward(m)
  BY <1>0, <1>1, <1>k, EarlierHits
<1>2b. \A m \in DOMAIN hits : N!Repeats(m)' <=> N!Repeats(m)
  BY <1>0, <1>1, <1>k, EarlierHits
<1>3. MapIsRecent' /\ (N!Forward(k)' => (N!Noise(t, c) <=> N!Repeats(k)'))
  BY <1>0, <1>1, <1>k, MapKeepsRecent
<1>4. /\ filterTrees \in Seq(Nat)
      /\ \A i \in DOMAIN filterTrees : filterTrees[i] \in 1 .. Len(hits)
  BY <1>1, <1>2 DEF NoiseInv, NoiseTypes, TreesInOrder
<1>4a. \A b \in fBothRecords' : b.time \in Nat
  BY <1>0, <1>1 DEF NoiseInv, NoiseTypes
<1>5. CASE N!Noise(t, c)
  <2>1. filterTrees' = filterTrees /\ resets' = resets
    BY <1>5, <1>1 DEF N!drawerVars
  <2>2. N!Written' = N!Written
    BY <2>1 DEF N!Written
  <2>3. TreesInOrder'
    <3>1. \A n \in DOMAIN hits : n \in DOMAIN hits'
      BY <1>2, <1>k
    <3> QED
      BY <2>1, <3>1 DEF TreesInOrder, NoiseInv
  <2>4. k \notin N!Written
    BY <1>4, <1>k, <1>2 DEF N!Written
  <2>5. KeptAreFirst'
    BY <2>2, <2>4, <1>2, <1>2a, <1>2b, <1>3, <1>5, <1>k DEF KeptAreFirst, NoiseInv
  <2>6. NoiseTypes'
    BY <1>1, <1>2, <1>4a, <2>1 DEF NoiseInv, NoiseTypes
  <2> QED
    BY <1>1, <1>3, <2>3, <2>5, <2>6 DEF NoiseInv
<1>6. CASE ~N!Noise(t, c)
  <2>1. filterTrees' = Append(filterTrees, k)
    BY <1>6, <1>1 DEF N!Write
  <2>2. resets' \in Nat \ {0}
    BY <1>6, <1>1 DEF N!Write, N!Draw, N!drawerVars, N!NextReset, NoiseInv, NoiseTypes
  <2>4. /\ Len(filterTrees) \in Nat /\ DOMAIN filterTrees = 1 .. Len(filterTrees)
        /\ Len(filterTrees') = Len(filterTrees) + 1
        /\ DOMAIN filterTrees' = 1 .. Len(filterTrees) + 1
        /\ filterTrees'[Len(filterTrees) + 1] = k
        /\ \A i \in 1 .. Len(filterTrees) : filterTrees'[i] = filterTrees[i]
    BY <1>4, <2>1
  <2>5. N!Written' = N!Written \cup {k}
    BY <2>4 DEF N!Written
  <2>6. TreesInOrder'
    <3>1. \A i \in DOMAIN filterTrees' : filterTrees'[i] \in DOMAIN hits'
      <4>1. 1 .. Len(filterTrees) + 1 = 1 .. Len(filterTrees) \cup {Len(filterTrees) + 1}
        BY <2>4
      <4>2. k \in DOMAIN hits' /\ \A n \in 1 .. Len(hits) : n \in DOMAIN hits'
        BY <1>2, <1>k
      <4> QED
        BY <4>1, <4>2, <2>4, <1>4
    <3>2. ASSUME NEW i \in 1 .. Len(filterTrees) PROVE filterTrees'[i] < filterTrees'[i + 1]
      <4>1. CASE i = Len(filterTrees)
        BY SMTT(30), <4>1, <3>2, <2>4, <1>2, <1>4, <1>k
      <4>2. CASE i \in 1 .. Len(filterTrees) - 1
        <5>1. i + 1 \in 1 .. Len(filterTrees)
          BY <4>2, <2>4
        <5> QED
          BY <4>2, <5>1, <2>4 DEF NoiseInv, TreesInOrder
      <4>3. i = Len(filterTrees) \/ i \in 1 .. Len(filterTrees) - 1
        <5>1. Len(filterTrees) \in Nat /\ i \in 1 .. Len(filterTrees)
          BY <3>2, <2>4
        <5> QED
          BY <5>1
      <4> QED
        BY <4>1, <4>2, <4>3
    <3> QED
      BY <3>1, <3>2, <2>4 DEF TreesInOrder
  <2>7. KeptAreFirst'
    BY <2>5, <1>2, <1>2a, <1>2b, <1>3, <1>6, <1>k DEF KeptAreFirst, NoiseInv
  <2>8. NoiseTypes'
    <3>1. k \in Nat
      BY <1>k, <1>2
    <3>2. filterTrees' \in Seq(Nat)
      BY <3>1, <2>1, <1>4, AppendProperties
    <3> QED
      BY <3>2, <1>1, <1>2, <1>4a, <2>2 DEF NoiseInv, NoiseTypes
  <2> QED
    BY <1>1, <1>3, <2>6, <2>7, <2>8 DEF NoiseInv
<1> QED
  BY <1>5, <1>6

\* Every step of the filter keeps what the map, the trees and the hits have to do with each other.
LEMMA NoiseStep == ASSUME NoiseInv, N!Steps PROVE NoiseInv'
<1>1. CASE N!StartRun
  <2>1. hits' = <<>> /\ filterTrees' = <<>> /\ Len(hits') = 0 /\ Len(filterTrees') = 0
        /\ DOMAIN hits' = {} /\ DOMAIN filterTrees' = {}
    BY <1>1 DEF N!StartRun
  <2>2. fBothRecords' = {} /\ triggerBefore' = triggerBefore
    BY <1>1 DEF N!StartRun, NoiseInv
  <2>3. NoiseTypes'
    <3>1. running' \in BOOLEAN
      BY <1>1 DEF N!StartRun
    <3>2. resets' \in Nat \ {0}
      BY <1>1 DEF N!StartRun
    <3> QED
      BY <2>1, <2>2, <3>1, <3>2 DEF NoiseInv, NoiseTypes
  <2>4. (MapIsRecent /\ TreesInOrder /\ KeptAreFirst)'
    BY <2>1, <2>2 DEF MapIsRecent, Recent, TreesInOrder, KeptAreFirst
  <2> QED
    BY <2>2, <2>3, <2>4 DEF NoiseInv
<1>2. CASE N!EndRun
  <2>1. /\ fBothRecords' = {} /\ hits' = hits /\ filterTrees' = filterTrees /\ resets' = resets
        /\ triggerBefore' = N!NoTrigger /\ ~running'
    BY <1>2 DEF N!EndRun, N!Forget, N!drawerVars
  <2>2. triggerBefore'.time \in Nat /\ ~triggerBefore'.sent
    BY <2>1 DEF N!NoTrigger
  <2>3. running' \in BOOLEAN
    BY <1>2 DEF N!EndRun
  <2>4. NoiseTypes'
    BY <2>1, <2>2, <2>3 DEF NoiseInv, NoiseTypes
  <2>5. (MapIsRecent /\ TreesInOrder /\ KeptAreFirst)'
    <3>1. MapIsRecent'
      BY <2>1 DEF MapIsRecent
    <3>2. TreesInOrder'
      BY <2>1 DEF NoiseInv, TreesInOrder
    <3>3. KeptAreFirst'
      BY <2>1 DEF NoiseInv, KeptAreFirst, N!Forward, N!Written, N!Repeats
    <3> QED
      BY <3>1, <3>2, <3>3
  <2> QED
    BY <2>1, <2>2, <2>4, <2>5 DEF NoiseInv
<1>3. ASSUME NEW t \in 0 .. MaxTime, N!Trigger(t) PROVE NoiseInv'
  <2>1. triggerBefore' = [time |-> t, sent |-> TRUE]
    BY <1>3 DEF N!Trigger
  <2>2. UNCHANGED <<running, fBothRecords, filterTrees, resets, hits>>
    BY <1>3 DEF N!Trigger, N!drawerVars
  <2>3. triggerBefore'.time \in Nat
    BY <2>1
  <2>5. NoiseTypes'
    BY <2>2, <2>3 DEF NoiseInv, NoiseTypes
  <2>6. (MapIsRecent /\ TreesInOrder /\ KeptAreFirst)'
    <3>1. MapIsRecent'
      <4>1. Recent' = Recent
        BY <2>2 DEF Recent
      <4>2. \A n \in Recent : Hit(n)' = Hit(n)
        BY <2>2 DEF Hit
      <4>3. N!Forward(Len(hits))' = N!Forward(Len(hits))
        BY <2>2 DEF N!Forward
      <4> QED
        BY <2>2, <4>1, <4>2, <4>3 DEF NoiseInv, MapIsRecent
    <3>2. TreesInOrder'
      BY <2>2 DEF NoiseInv, TreesInOrder
    <3>3. KeptAreFirst'
      BY <2>2 DEF NoiseInv, KeptAreFirst, N!Forward, N!Written, N!Repeats
    <3> QED
      BY <3>1, <3>2, <3>3
  <2> QED
    BY <2>2, <2>5, <2>6 DEF NoiseInv
<1>4. ASSUME NEW c \in Channels, NEW e \in {"shown", "outside"}, N!Shaper(c, e) PROVE NoiseInv'
  BY <1>4, ShaperKeeps
<1> QED
  BY <1>1, <1>2, <1>3, <1>4 DEF N!Steps

(***************************************************************************)
(* The rate histogram.  Periods are counted from 0 and have their last     *)
(* moment, not their first, in them.                                       *)
(***************************************************************************)
LEMMA PeriodBounds ==
  ASSUME NEW t \in Nat
  PROVE  /\ N!PeriodOf(t) \in Nat
         /\ t = 0 => N!PeriodOf(t) = 0
         /\ t # 0 => /\ N!PeriodOf(t) * Period <= t - 1
                     /\ t - 1 < (N!PeriodOf(t) + 1) * Period
<1>1. \A s \in Nat : /\ s \div Period \in Nat
                     /\ (s \div Period) * Period <= s
                     /\ s < (s \div Period + 1) * Period
  BY FilterAssumption
<1> QED
  BY <1>1 DEF N!PeriodOf

\* Of two periods the later one ends no earlier.
LEMMA TimesPeriod ==
  ASSUME NEW a \in Nat, NEW b \in Nat, a <= b
  PROVE  a * Period \in Nat /\ b * Period \in Nat /\ a * Period <= b * Period
BY FilterAssumption

\* A later hit is in the same period or in a later one.
LEMMA PeriodGrows ==
  ASSUME NEW s \in Nat, NEW t \in Nat, s <= t
  PROVE  N!PeriodOf(s) <= N!PeriodOf(t)
<1> DEFINE p == N!PeriodOf(s)
           q == N!PeriodOf(t)
<1>1. p \in Nat /\ q \in Nat
  BY PeriodBounds
<1>2. CASE s = 0
  BY <1>1, <1>2, PeriodBounds
<1>3. CASE s # 0
  <2>1. p * Period <= s - 1 /\ t - 1 < (q + 1) * Period
    BY <1>3, PeriodBounds
  <2> HIDE DEF p, q
  <2>2. SUFFICES ASSUME q + 1 <= p PROVE FALSE
    BY <1>1 DEF p, q
  <2>3. (q + 1) * Period <= p * Period /\ (q + 1) * Period \in Nat /\ p * Period \in Nat
    BY <1>1, <2>2, TimesPeriod
  <2> QED
    BY <2>1, <2>3
<1> QED
  BY <1>2, <1>3

\* The reset of the drawer follows the clock, from one period to the next.
LEMMA ResetFollows ==
  ASSUME NEW t \in Nat, resets \in Nat \ {0}, N!PeriodOf(t) \in {resets - 1, resets}
  PROVE  /\ N!NextReset(t) = N!PeriodOf(t) + 1
         /\ N!Folded(t) = t - Period * N!PeriodOf(t)
<1> DEFINE q == N!PeriodOf(t)
<1>1. q \in Nat /\ Period \in Nat \ {0}
  BY PeriodBounds, FilterAssumption
<1>2. CASE t = 0
  BY <1>1, <1>2, PeriodBounds DEF N!NextReset, N!Folded
<1>3. CASE t # 0
  <2>1. q * Period <= t - 1 /\ t - 1 < (q + 1) * Period
    BY <1>3, PeriodBounds
  <2>2. q \in {resets - 1, resets}
    OBVIOUS
  <2> HIDE DEF q
  <2>3. /\ q * Period \in Nat /\ (q + 1) * Period \in Nat /\ 1 * Period = Period
        /\ 1 <= q => 1 * Period <= q * Period
        /\ q = 0 => q * Period = 0
    BY <1>1, TimesPeriod
  <2>4. CASE q = resets
    <3>1. t > Period /\ resets * Period < t
      BY <2>1, <2>3, <2>4, <1>1
    <3> QED
      BY <3>1, <2>4, <1>1 DEF N!NextReset, N!Folded, q
  <2>5. CASE q = resets - 1
    <3>1. ~(resets * Period < t)
      <4>1. resets = q + 1
        BY <2>5, <1>1
      <4> QED
        BY <4>1, <2>1, <2>3, <1>1
    <3>2. N!NextReset(t) = resets
      BY <3>1 DEF N!NextReset
    <3>3. t <= Period => q = 0
      BY <2>1, <2>3, <1>1
    <3>4. N!Folded(t) = t - Period * q
      <4>1. CASE t > Period
        BY <4>1, <3>2, <2>5, <1>1 DEF N!Folded
      <4>2. CASE t <= Period
        BY <4>2, <3>3, <1>1 DEF N!Folded
      <4> QED
        BY <4>1, <4>2, <1>1
    <3> QED
      BY <3>2, <3>4, <2>5, <1>1 DEF q
  <2> QED
    BY <2>2, <2>4, <2>5
<1> QED
  BY <1>2, <1>3

(***************************************************************************)
(* The reset is that of the last period with a hit to show, and what the   *)
(* histogram shows is of that period.                                      *)
(***************************************************************************)
ShownPeriod(n) == N!PeriodOf(hits[n].time)
LastPeriodShown ==
  /\ \A x \in fRateHist : /\ x.n \in N!Shown /\ ShownPeriod(x.n) = resets - 1
                          /\ x.bin = hits[x.n].time - Period * ShownPeriod(x.n)
  /\ \A n \in N!Shown : ShownPeriod(n) <= resets - 1
  /\ IF N!Shown = {} THEN resets = 1 ELSE \E n \in N!Shown : ShownPeriod(n) = resets - 1
RateInv == N!Forward(Len(hits)) /\ N!NoGap => LastPeriodShown

\* The rows after a hit, and what it does to the drawer.
LEMMA ShaperRows ==
  ASSUME NoiseInv, NEW c \in Channels, NEW e \in {"shown", "outside"}, N!Shaper(c, e),
         NEW t, t = triggerBefore.time, NEW k, k = Len(hits) + 1
  PROVE  /\ t \in Nat /\ k \in Nat /\ hits \in Seq(HitType)
         /\ hits' = Append(hits, [time |-> t, channel |-> c, energy |-> e])
         /\ \A n \in N!Written : n \in DOMAIN hits
         /\ \/ UNCHANGED <<fRateHist, resets>> /\ N!Written' = N!Written
            \/ N!Draw(t, c, e, k) /\ N!Written' = N!Written \cup {k}
<1>1. /\ t \in Nat /\ hits \in Seq(HitType)
      /\ filterTrees \in Seq(Nat)
      /\ \A n \in N!Written : n \in DOMAIN hits
  BY DEF NoiseInv, NoiseTypes, TreesInOrder, N!Written
<1>2. /\ hits' = Append(hits, [time |-> t, channel |-> c, energy |-> e])
      /\ IF N!Noise(t, c) THEN UNCHANGED <<filterTrees, N!drawerVars>> ELSE N!Write(t, c, e, k)
  BY DEF N!Shaper
<1>3. CASE UNCHANGED <<filterTrees, N!drawerVars>>
  BY <1>1, <1>2, <1>3 DEF N!Written, N!drawerVars
<1>4. CASE N!Write(t, c, e, k)
  <2>1. filterTrees' = Append(filterTrees, k) /\ N!Draw(t, c, e, k)
    BY <1>4 DEF N!Write
  <2>3. /\ DOMAIN filterTrees' = DOMAIN filterTrees \cup {Len(filterTrees) + 1}
        /\ filterTrees'[Len(filterTrees) + 1] = k
        /\ \A i \in DOMAIN filterTrees : filterTrees'[i] = filterTrees[i]
    BY <1>1, <2>1
  <2>4. N!Written' = N!Written \cup {k}
    BY <2>3 DEF N!Written
  <2> QED
    BY <1>1, <1>2, <2>1, <2>4
<1> QED
  BY <1>2, <1>3, <1>4

\* A drawn hit is either in the period shown, or it starts the histogram anew.
LEMMA ShaperShows == ASSUME NoiseInv, RateInv, NEW c \in Channels, NEW e \in {"shown", "outside"}, N!Shaper(c, e) PROVE RateInv'
<1>t. PICK t : t = triggerBefore.time
  OBVIOUS
<1>k. PICK k : k = Len(hits) + 1
  OBVIOUS
<1>1. /\ t \in Nat /\ k \in Nat /\ hits \in Seq(HitType)
      /\ hits' = Append(hits, [time |-> t, channel |-> c, energy |-> e])
      /\ \A n \in N!Written : n \in DOMAIN hits
      /\ \/ UNCHANGED <<fRateHist, resets>> /\ N!Written' = N!Written
         \/ N!Draw(t, c, e, k) /\ N!Written' = N!Written \cup {k}
  BY <1>t, <1>k, ShaperRows
<1>2. SUFFICES ASSUME N!Forward(Len(hits))', N!NoGap' PROVE LastPeriodShown'
  BY DEF RateInv
<1>3. Len(hits') = k /\ (N!Forward(k)' => N!Forward(Len(hits)) /\ \A m \in DOMAIN hits : hits[m].time <= t)
  <2>1. /\ t \in Nat /\ hits \in Seq(HitType)
        /\ hits' = Append(hits, [time |-> t, channel |-> c, energy |-> e])
    BY <1>1
  <2>2. Len(hits') = k
    BY <1>k, <2>1
  <2>3. N!Forward(k)' <=> N!Forward(Len(hits)) /\ \A m \in DOMAIN hits : hits[m].time <= t
    BY <1>k, <2>1, EarlierHits
  <2> QED
    BY <2>2, <2>3
<1>4. N!Forward(Len(hits)) /\ \A m \in DOMAIN hits : hits[m].time <= t
  BY <1>2, <1>3 DEF N!Forward
<1>5. /\ hits'[k].time = t /\ hits'[k].channel = c /\ hits'[k].energy = e
      /\ \A m \in DOMAIN hits : /\ hits'[m].time = hits[m].time /\ hits'[m].channel = hits[m].channel
                               /\ hits'[m].energy = hits[m].energy
                               /\ hits[m].time \in Nat
      /\ k \notin DOMAIN hits
  <2>1. \A m \in DOMAIN hits : hits'[m] = hits[m] /\ hits[m].time \in Nat
    BY <1>1, <1>k, EarlierHits
  <2>2. hits'[k] = [time |-> t, channel |-> c, energy |-> e] /\ DOMAIN hits = 1 .. Len(hits) /\ Len(hits) \in Nat
    BY <1>1, <1>k, EarlierHits
  <2>3. k \notin DOMAIN hits
    BY <2>2, <1>k
  <2> QED
    BY <2>1, <2>2, <2>3
<1>6. /\ \A m \in N!Shown : m \in DOMAIN hits
      /\ \A m \in DOMAIN hits : ShownPeriod(m)' = ShownPeriod(m) /\ ShownPeriod(m) \in Nat
      /\ ShownPeriod(k)' = N!PeriodOf(t) /\ N!PeriodOf(t) \in Nat
      /\ \A m \in DOMAIN hits : ShownPeriod(m) <= N!PeriodOf(t)
  <2>1. \A m \in N!Shown : m \in DOMAIN hits
    BY <1>1 DEF N!Shown
  <2>2. \A m \in DOMAIN hits : ShownPeriod(m)' = ShownPeriod(m) /\ ShownPeriod(m) \in Nat
    BY <1>5, PeriodBounds DEF ShownPeriod
  <2>3. ShownPeriod(k)' = N!PeriodOf(t) /\ N!PeriodOf(t) \in Nat
    BY <1>1, <1>5, PeriodBounds DEF ShownPeriod
  <2>4. \A m \in DOMAIN hits : ShownPeriod(m) <= N!PeriodOf(t)
    BY <1>1, <1>4, <1>5, PeriodGrows DEF ShownPeriod
  <2> QED
    BY <2>1, <2>2, <2>3, <2>4
<1>7. resets \in Nat \ {0}
  BY DEF NoiseInv, NoiseTypes
<1>7a. \A n \in N!Shown' : \A p \in 0 .. ShownPeriod(n)' : \E m \in N!Shown' : ShownPeriod(m)' = p
  BY <1>2 DEF N!NoGap, ShownPeriod
<1>7b. N!NoGap <=> \A n \in N!Shown : \A p \in 0 .. ShownPeriod(n) : \E m \in N!Shown : ShownPeriod(m) = p
  BY DEF N!NoGap, ShownPeriod
<1>8. CASE N!Shown' = N!Shown /\ UNCHANGED <<fRateHist, resets>>
  <2>1. N!NoGap
    BY <1>6, <1>7a, <1>7b, <1>8
  <2> QED
    BY <2>1, <1>4, <1>5, <1>6, <1>8 DEF RateInv, LastPeriodShown
<1>9. CASE N!Shown' = N!Shown \cup {k} /\ N!Draw(t, c, e, k) /\ c \notin DeadChannels /\ e = "shown"
  <2>1. N!NoGap
    <3> SUFFICES ASSUME NEW n \in N!Shown, NEW p \in 0 .. ShownPeriod(n)
                 PROVE  \E m \in N!Shown : ShownPeriod(m) = p
      BY <1>7b
    <3>1. PICK m \in N!Shown \cup {k} : ShownPeriod(m)' = p
      BY <1>6, <1>7a, <1>9
    <3>2. CASE m \in N!Shown
      BY <3>1, <3>2, <1>6
    <3>3. CASE m = k
      <4>1. p = N!PeriodOf(t) /\ ShownPeriod(n) <= N!PeriodOf(t) /\ ShownPeriod(n) \in Nat
        BY <3>1, <3>3, <1>6
      <4>2. p = ShownPeriod(n)
        BY <4>1
      <4> QED
        BY <4>2
    <3> QED
      BY <3>2, <3>3
  <2>2. LastPeriodShown
    BY <2>1, <1>4 DEF RateInv
  <2>3. N!PeriodOf(t) \in {resets - 1, resets}
    <3>1. resets - 1 <= N!PeriodOf(t)
      <4>1. CASE N!Shown = {}
        BY <4>1, <2>2, <1>6 DEF LastPeriodShown
      <4>2. CASE N!Shown # {}
        BY <4>2, <2>2, <1>6, <1>7 DEF LastPeriodShown
      <4> QED
        BY <4>1, <4>2
    <3>2. N!PeriodOf(t) <= resets
      <4> SUFFICES ASSUME resets < N!PeriodOf(t) PROVE FALSE
        BY <1>6, <1>7
      <4>1. resets \in 0 .. ShownPeriod(k)' /\ resets # ShownPeriod(k)'
        BY <1>6, <1>7
      <4>2. PICK m \in N!Shown : ShownPeriod(m)' = resets
        BY <4>1, <1>7a, <1>9
      <4>3. ShownPeriod(m) <= resets - 1 /\ ShownPeriod(m) = resets
        BY <4>2, <2>2, <1>6 DEF LastPeriodShown
      <4> QED
        BY <4>3, <1>7
    <3> QED
      BY <3>1, <3>2, <1>6, <1>7
  <2>4. N!NextReset(t) = N!PeriodOf(t) + 1 /\ N!Folded(t) = t - Period * N!PeriodOf(t)
    BY <2>3, <1>1, <1>7, ResetFollows
  <2>5. /\ resets' = N!PeriodOf(t) + 1
        /\ fRateHist' = (IF resets' = resets THEN fRateHist ELSE {})
                          \cup {[n |-> k, bin |-> t - Period * N!PeriodOf(t)]}
    BY <2>4, <1>9 DEF N!Draw
  <2>6. ASSUME NEW x \in fRateHist'
        PROVE  /\ x.n \in N!Shown' /\ ShownPeriod(x.n)' = resets' - 1
               /\ x.bin = hits'[x.n].time - Period * ShownPeriod(x.n)'
    <3>1. CASE x = [n |-> k, bin |-> t - Period * N!PeriodOf(t)]
      BY <3>1, <2>5, <1>5, <1>6, <1>9
    <3>2. CASE x \in fRateHist /\ resets' = resets
      BY <3>2, <2>2, <1>5, <1>6, <1>9 DEF LastPeriodShown
    <3> QED
      BY <3>1, <3>2, <2>5
  <2>7. \A n \in N!Shown' : ShownPeriod(n)' <= resets' - 1
    BY <2>5, <1>6, <1>9
  <2>8. k \in N!Shown' /\ ShownPeriod(k)' = resets' - 1
    BY <2>5, <1>6, <1>9
  <2> QED
    BY <2>6, <2>7, <2>8 DEF LastPeriodShown
<1>10. \/ N!Shown' = N!Shown /\ UNCHANGED <<fRateHist, resets>>
       \/ N!Shown' = N!Shown \cup {k} /\ N!Draw(t, c, e, k) /\ c \notin DeadChannels /\ e = "shown"
  <2>1. \A n \in N!Written : n # k /\ hits'[n].channel = hits[n].channel /\ hits'[n].energy = hits[n].energy
    BY <1>1, <1>5
  <2>2. CASE UNCHANGED <<fRateHist, resets>> /\ N!Written' = N!Written
    BY <2>1, <2>2 DEF N!Shown
  <2>3. CASE N!Draw(t, c, e, k) /\ N!Written' = N!Written \cup {k}
    <3>1. CASE c \in DeadChannels \/ e = "outside"
      <4>1. UNCHANGED <<fRateHist, resets>>
        BY <2>3, <3>1 DEF N!Draw, N!drawerVars
      <4> QED
        BY <4>1, <2>1, <2>3, <3>1, <1>5 DEF N!Shown
    <3>2. CASE c \notin DeadChannels /\ e = "shown"
      BY <2>1, <2>3, <3>2, <1>5 DEF N!Shown
    <3> QED
      BY <3>1, <3>2
  <2> QED
    BY <1>1, <2>2, <2>3
<1> QED
  BY <1>8, <1>9, <1>10

\* The histogram starts empty.
LEMMA RateStarts == N!Init => RateInv
<1> SUFFICES ASSUME N!Init PROVE LastPeriodShown
  BY DEF RateInv
<1>1. DOMAIN filterTrees = {} /\ fRateHist = {} /\ resets = 1
  BY DEF N!Init
<1> QED
  BY <1>1 DEF LastPeriodShown, N!Shown, N!Written

\* Only a shaper record and StartRun change the histogram.
LEMMA RateStep == ASSUME NoiseInv, RateInv, N!Steps PROVE RateInv'
<1>1. CASE N!StartRun
  <2>1. DOMAIN filterTrees' = {} /\ fRateHist' = {} /\ resets' = 1
    BY <1>1 DEF N!StartRun
  <2>2. N!Shown' = {}
    BY <2>1 DEF N!Shown, N!Written
  <2> QED
    BY <2>1, <2>2 DEF RateInv, LastPeriodShown
<1>2. ASSUME UNCHANGED <<filterTrees, fRateHist, resets, hits>> PROVE RateInv'
  BY <1>2 DEF RateInv, LastPeriodShown, ShownPeriod, N!Shown, N!Written, N!Forward, N!NoGap
<1>3. CASE N!EndRun
  BY <1>2, <1>3 DEF N!EndRun, N!drawerVars
<1>4. ASSUME NEW t \in 0 .. MaxTime, N!Trigger(t) PROVE RateInv'
  BY <1>2, <1>4 DEF N!Trigger, N!drawerVars
<1>5. ASSUME NEW c \in Channels, NEW e \in {"shown", "outside"}, N!Shaper(c, e) PROVE RateInv'
  BY <1>5, ShaperShows
<1> QED
  BY <1>1, <1>3, <1>4, <1>5 DEF N!Steps

(***************************************************************************)
(* A step of another part leaves the filter alone.                         *)
(***************************************************************************)
NoiseGoesOn == part = "noise" => NoiseInv /\ RateInv

\* Hence the invariants of the filter hold always.
LEMMA NoiseHolds == AnySpec => []NoiseGoesOn
<1>1. AnyInit => NoiseGoesOn
  BY NoiseStarts, RateStarts DEF AnyInit, NoiseGoesOn
<1>2. NoiseGoesOn /\ [AnyNext]_allVars => NoiseGoesOn'
  <2> SUFFICES ASSUME NoiseGoesOn, [AnyNext]_allVars, part' = "noise" PROVE NoiseInv' /\ RateInv'
    BY DEF NoiseGoesOn
  <2>1. CASE N!Steps /\ part = "noise"
    BY <2>1, NoiseStep, RateStep DEF NoiseGoesOn
  <2> DEFINE filterVars == <<running, triggerBefore, fBothRecords, filterTrees, fRateHist, resets, hits>>
  <2>2. CASE UNCHANGED filterVars /\ part = "noise"
    <3>1. NoiseInv'
      <4>1. NoiseTypes'
        BY <2>2 DEF NoiseGoesOn, NoiseInv, NoiseTypes
      <4>2. MapIsRecent'
        BY <2>2 DEF NoiseGoesOn, NoiseInv, MapIsRecent, Recent, Hit, N!Forward
      <4>3. TreesInOrder' /\ KeptAreFirst'
        BY <2>2 DEF NoiseGoesOn, NoiseInv, TreesInOrder, KeptAreFirst, N!Forward, N!Written, N!Repeats
      <4> QED
        BY <2>2, <4>1, <4>2, <4>3 DEF NoiseGoesOn, NoiseInv
    <3>2. RateInv'
      BY <2>2 DEF NoiseGoesOn, RateInv, LastPeriodShown, ShownPeriod, N!Shown, N!Written,
                  N!Forward, N!NoGap
    <3> QED
      BY <3>1, <3>2
  <2>3. N!Next => N!Steps \/ UNCHANGED filterVars
    BY DEF N!Next, N!LoneShaper, N!drawerVars
  <2>4. UNCHANGED noiseVars => UNCHANGED filterVars
    BY DEF noiseVars
  <2> HIDE DEF filterVars
  <2> QED
    BY <2>1, <2>2, <2>3, <2>4 DEF AnyNext, allVars
<1> QED
  BY <1>1, <1>2, PTL DEF AnySpec, allVars

(***************************************************************************)
(* A hit is written if and only if none of its channel came within the cut *)
(* before it, written or not.                                              *)
(***************************************************************************)
THEOREM NoiseCut == AnySpec => []NoiseIsCut
<1>1. NoiseGoesOn => NoiseIsCut
  BY DEF NoiseGoesOn, NoiseInv, KeptAreFirst, TreesInOrder, NoiseIsCut, N!NoiseIsCut
<1> QED
  BY <1>1, NoiseHolds, PTL

(***************************************************************************)
(* The rate histogram shows the hits of one period, each at its place.     *)
(***************************************************************************)
THEOREM RateShowsOnePeriod == AnySpec => []RateOfOnePeriod
<1>1. NoiseGoesOn => RateOfOnePeriod
  BY DEF NoiseGoesOn, RateInv, LastPeriodShown, ShownPeriod, RateOfOnePeriod, N!RateOfOnePeriod
<1> QED
  BY <1>1, NoiseHolds, PTL

-----------------------------------------------------------------------------
(***************************************************************************)
(* The run processors.                                                     *)
(***************************************************************************)
Subs          == SubRuns \cup {0}
Kinds         == {"subRun", "gtid", "clock", "otherClock", "trigger", "shaper"}
RunRecordType == [kind : Kinds, n : Nat, sub : Subs]
EventRow      == [gtid : Nat, clock : Nat, run : Nat, sub : Subs]
PartRow       == [n : Nat, run : Nat, sub : Subs]
TreeType      == [gtid : Seq(EventRow), trigger : Seq(PartRow), shaper : Seq(PartRow)]
RunFileType   == [headers : Seq(Subs), histogram : Int, count : Int,
                  gtid : Seq(EventRow), trigger : Seq(PartRow), shaper : Seq(PartRow)]
RunTypes ==
  /\ phase \in {"idle", "running", "done"}
  /\ context \in [run : Nat, sub : Subs] /\ file = context.run
  /\ phase = "running" => context.run # 0
  /\ lastSub \in Subs /\ histogram \in Nat /\ count \in Nat
  /\ trees \in TreeType /\ fields \in [gtid : Nat, clock : Nat]
  /\ fillCount \in Nat /\ lastTrigger \in Nat
  /\ files \in Seq(RunFileType) /\ Len(files) = context.run
  /\ sent \in Seq(Seq(RunRecordType)) /\ Len(sent) = context.run
  /\ IsFiniteSet(R!Places)

\* A row of a tree has its variables and the run context.
LEMMA EventRowType ==
  ASSUME fields \in [gtid : Nat, clock : Nat], context \in [run : Nat, sub : Subs]
  PROVE  /\ R!Row(fields) \in EventRow
         /\ R!Row(fields).gtid = fields.gtid /\ R!Row(fields).clock = fields.clock
         /\ R!Row(fields).run = context.run /\ R!Row(fields).sub = context.sub
<1>1. DOMAIN fields = {"gtid", "clock"} /\ DOMAIN context = {"run", "sub"}
  OBVIOUS
<1>2. R!Row(fields) = [x \in {"gtid", "clock", "run", "sub"} |->
                         IF x \in {"gtid", "clock"} THEN fields[x] ELSE context[x]]
  BY <1>1 DEF R!Row
<1> QED
  BY <1>2 DEF EventRow

\* So has a row of the trigger or the shaper tree.
LEMMA PartRowType ==
  ASSUME NEW n \in Nat, context \in [run : Nat, sub : Subs]
  PROVE  R!Row([n |-> n]) \in PartRow /\ R!Row([n |-> n]).n = n
<1>1. DOMAIN [n |-> n] = {"n"} /\ DOMAIN context = {"run", "sub"}
  OBVIOUS
<1>2. R!Row([n |-> n]) = [x \in {"n", "run", "sub"} |-> IF x \in {"n"} THEN n ELSE context[x]]
  BY <1>1 DEF R!Row
<1> QED
  BY <1>2 DEF PartRow

\* The cardinality of an instance is the library's.
LEMMA RunCardinality == \A S : R!Cardinality(S) = Cardinality(S)
BY DEF R!Cardinality, Cardinality, R!IsFiniteSet, IsFiniteSet

\* A record has a number.
LEMMA NumberType == RunTypes => R!Number \in Nat \ {0}
<1> SUFFICES ASSUME RunTypes PROVE R!Number \in Nat \ {0}
  OBVIOUS
<1>1. Cardinality(R!Places) \in Nat
  BY FS_CardinalityType DEF RunTypes
<1> QED
  BY <1>1, RunCardinality DEF R!Number

(***************************************************************************)
(* What a record adds to the run it belongs to.                            *)
(***************************************************************************)
NewRecord(kind, c, r, k) ==
  /\ sent' \in Seq(Seq(RunRecordType)) /\ Len(sent') = Len(sent)
  /\ r \in 1 .. Len(sent) /\ k \in Nat \ {0}
  /\ DOMAIN sent[r] = 1 .. k - 1 /\ DOMAIN sent'[r] = 1 .. k
  /\ \A q \in 1 .. Len(sent) : q # r => sent'[q] = sent[q]
  /\ \A p \in 1 .. k - 1 : sent'[r][p] = sent[r][p]
  /\ sent'[r][k] = [kind |-> kind, n |-> R!Number, sub |-> c.sub]
  /\ IsFiniteSet(R!Places')

\* A record is added to the run it belongs to, at the end.
LEMMA Received ==
  ASSUME RunTypes, NEW kind \in Kinds, NEW c \in [run : Nat, sub : Subs], c.run = context.run,
         R!Receive(kind, c), NEW r, r = context.run, NEW k, k = Len(sent[r]) + 1
  PROVE  NewRecord(kind, c, r, k)
<1> DEFINE new == [kind |-> kind, n |-> R!Number, sub |-> c.sub]
<1>1. /\ sent \in Seq(Seq(RunRecordType)) /\ r \in 1 .. Len(sent)
      /\ sent[r] \in Seq(RunRecordType)
      /\ sent' = [sent EXCEPT ![r] = Append(@, new)]
  <2>1. /\ sent \in Seq(Seq(RunRecordType)) /\ r \in 1 .. Len(sent)
        /\ sent' = [sent EXCEPT ![r] = Append(@, new)]
    BY DEF RunTypes, R!Receive
  <2> QED
    BY <2>1, ElementOfSeq
<1>2. new \in RunRecordType
  BY NumberType DEF RunRecordType
<1> HIDE DEF new
<1>3. /\ Append(sent[r], new) \in Seq(RunRecordType)
      /\ DOMAIN sent[r] = 1 .. k - 1 /\ k \in Nat \ {0}
      /\ DOMAIN Append(sent[r], new) = 1 .. k
      /\ \A p \in 1 .. k - 1 : Append(sent[r], new)[p] = sent[r][p]
      /\ Append(sent[r], new)[k] = new
  BY <1>1, <1>2
<1>4. sent' \in Seq(Seq(RunRecordType)) /\ Len(sent') = Len(sent)
  BY <1>1, <1>3, ExceptSeq
<1>5. sent'[r] = Append(sent[r], new) /\ \A q \in 1 .. Len(sent) : q # r => sent'[q] = sent[q]
  BY <1>1
<1>6. R!Places' = R!Places \cup {<<r, k>>}
  <2>1. DOMAIN sent = 1 .. Len(sent) /\ DOMAIN sent' = 1 .. Len(sent)
    BY <1>1, <1>4
  <2>2. DOMAIN sent'[r] = DOMAIN sent[r] \cup {k} /\ \A q \in DOMAIN sent : q # r => DOMAIN sent'[q] = DOMAIN sent[q]
    BY <2>1, <1>3, <1>5
  <2>3. R!Places = UNION {{<<q, p>> : p \in DOMAIN sent[q]} : q \in DOMAIN sent}
    BY DEF R!Places
  <2>4. R!Places' = UNION {{<<q, p>> : p \in DOMAIN sent'[q]} : q \in DOMAIN sent}
    BY <2>1 DEF R!Places
  <2>5. r \in DOMAIN sent
    BY <2>1, <1>1
  <2> QED
    BY <2>2, <2>3, <2>4, <2>5
<1>7. IsFiniteSet(R!Places')
  BY <1>6, FS_AddElement DEF RunTypes
<1> QED
  BY <1>1, <1>3, <1>4, <1>5, <1>7 DEF new, NewRecord

\* What the new record is of its kind, and what it leaves.
NewKind(kind, r, k) ==
  /\ \A ks : R!OfKind(r, ks)' = R!OfKind(r, ks) \cup (IF kind \in ks THEN {k} ELSE {})
  /\ \A ks : \A p \in R!OfKind(r, ks) : p \in 1 .. k - 1
  /\ \A ks : IsFiniteSet(R!OfKind(r, ks)) /\ Cardinality(R!OfKind(r, ks)) \in Nat
  /\ \A ks : Cardinality(R!OfKind(r, ks)') =
               Cardinality(R!OfKind(r, ks)) + (IF kind \in ks THEN 1 ELSE 0)

\* It is one more of its own kind.
LEMMA ReceivedKinds ==
  ASSUME RunTypes, NEW kind \in Kinds, NEW c \in [run : Nat, sub : Subs], c.run = context.run,
         R!Receive(kind, c), NEW r, r = context.run, NEW k, k = Len(sent[r]) + 1
  PROVE  NewKind(kind, r, k)
<1>1. /\ k \in Nat /\ r \in 1 .. Len(sent)
      /\ DOMAIN sent[r] = 1 .. k - 1 /\ DOMAIN sent'[r] = 1 .. k
      /\ \A p \in 1 .. k - 1 : sent'[r][p] = sent[r][p]
      /\ sent'[r][k] = [kind |-> kind, n |-> R!Number, sub |-> c.sub]
  <2>1. NewRecord(kind, c, r, k)
    BY Received
  <2> QED
    BY <2>1 DEF NewRecord
<1>2. sent'[r][k].kind = kind /\ 1 .. k = 1 .. k - 1 \cup {k} /\ k \notin 1 .. k - 1
  BY <1>1
<1>3. ASSUME NEW ks
      PROVE  /\ R!OfKind(r, ks)' = R!OfKind(r, ks) \cup (IF kind \in ks THEN {k} ELSE {})
             /\ R!OfKind(r, ks) \subseteq 1 .. k - 1
  BY <1>1, <1>2 DEF R!OfKind
<1>4. ASSUME NEW ks
      PROVE  IsFiniteSet(R!OfKind(r, ks)) /\ Cardinality(R!OfKind(r, ks)) \in Nat
  <2>1. IsFiniteSet(1 .. k - 1)
    <3>1. 1 \in Int /\ k - 1 \in Int
      BY <1>1
    <3> QED
      BY <3>1, FS_Interval
  <2>2. IsFiniteSet(R!OfKind(r, ks))
    BY <2>1, <1>3, FS_Subset
  <2> QED
    BY <2>2, FS_CardinalityType
<1>5. ASSUME NEW ks
      PROVE  Cardinality(R!OfKind(r, ks)') = Cardinality(R!OfKind(r, ks)) + (IF kind \in ks THEN 1 ELSE 0)
  <2>1. CASE kind \in ks
    <3>1. R!OfKind(r, ks)' = R!OfKind(r, ks) \cup {k} /\ k \notin R!OfKind(r, ks)
      BY <2>1, <1>2, <1>3
    <3> QED
      BY <3>1, <2>1, <1>4, FS_AddElement
  <2>2. CASE kind \notin ks
    <3>1. R!OfKind(r, ks)' = R!OfKind(r, ks)
      BY <2>2, <1>1, <1>2 DEF R!OfKind
    <3> QED
      BY <3>1, <2>2, <1>4
  <2> QED
    BY <2>1, <2>2
<1> QED
  BY <1>3, <1>4, <1>5 DEF NewKind

\* A new record leaves the runs before alone, and its own file but for the headers.
NewHeader(c, r) ==
  /\ files' \in Seq(RunFileType) /\ Len(files') = Len(files) /\ r \in 1 .. Len(files)
  /\ \A q \in 1 .. Len(files) : q # r => files'[q] = files[q]
  /\ files[r].headers \in Seq(Subs)
  /\ files'[r].headers = IF c.sub = lastSub THEN files[r].headers ELSE Append(files[r].headers, c.sub)
  /\ files'[r].histogram = files[r].histogram

\* It leaves the files as they are, but for one more header in a new sub-run.
LEMMA ReceivedFiles ==
  ASSUME RunTypes, NEW kind \in Kinds, NEW c \in [run : Nat, sub : Subs], c.run = context.run,
         R!Receive(kind, c), NEW r, r = context.run
  PROVE  NewHeader(c, r)
<1>1. /\ files \in Seq(RunFileType) /\ r \in 1 .. Len(files) /\ file = r
      /\ files' = IF c.sub = lastSub THEN files ELSE [files EXCEPT ![r].headers = Append(@, c.sub)]
  BY DEF RunTypes, R!Receive, R!WriteHeader
<1>2. files[r] \in RunFileType
  BY <1>1, ElementOfSeq
<1>3. CASE c.sub = lastSub
  BY <1>1, <1>2, <1>3 DEF RunFileType, NewHeader
<1>4. CASE c.sub # lastSub
  <2> DEFINE f == [files[r] EXCEPT !.headers = Append(@, c.sub)]
  <2>0. files[r].headers \in Seq(Subs) /\ Append(files[r].headers, c.sub) \in Seq(Subs)
    <3>1. files[r].headers \in Seq(Subs) /\ c.sub \in Subs
      BY <1>2 DEF RunFileType
    <3> QED
      BY <3>1, AppendProperties
  <2>1. files' = [files EXCEPT ![r] = f]
    BY <1>1, <1>4
  <2>2. /\ f \in RunFileType /\ f.headers = Append(files[r].headers, c.sub)
        /\ f.histogram = files[r].histogram /\ files[r].headers \in Seq(Subs)
    BY <1>2, <2>0 DEF RunFileType
  <2> HIDE DEF f
  <2> QED
    BY <2>1, <2>2, <1>1, <1>4, ExceptSeq DEF NewHeader
<1> QED
  BY <1>3, <1>4

\* What EndRun writes to the file that is open.
Objects(r) ==
  /\ trees' \in TreeType
  /\ trees'.gtid = Append(trees.gtid, R!Row(fields))
  /\ trees'.trigger = trees.trigger /\ trees'.shaper = trees.shaper
  /\ files' \in Seq(RunFileType) /\ Len(files') = Len(files) /\ r \in 1 .. Len(files)
  /\ \A q \in 1 .. Len(files) : q # r => files'[q] = files[q]
  /\ files'[r].headers = files[r].headers /\ files'[r].count = count
  /\ files'[r].histogram = IF histogram > 0 THEN histogram ELSE files[r].histogram
  /\ files'[r].gtid = trees'.gtid
  /\ files'[r].trigger = trees'.trigger /\ files'[r].shaper = trees'.shaper

\* Every EndRun writes the objects to the file that is open.
LEMMA ObjectsWritten ==
  ASSUME RunTypes, R!EndTrees, R!EndCounters, R!WriteObjects, NEW r, r = context.run, r # 0
  PROVE  Objects(r)
<1>1. Append(trees.gtid, R!Row(fields)) \in Seq(EventRow)
  <2>1. trees.gtid \in Seq(EventRow) /\ R!Row(fields) \in EventRow
    BY EventRowType DEF RunTypes, TreeType
  <2> QED
    BY <2>1, AppendProperties
<1>2. /\ trees' \in TreeType
      /\ trees'.gtid = Append(trees.gtid, R!Row(fields))
      /\ trees'.trigger = trees.trigger /\ trees'.shaper = trees.shaper
  BY <1>1 DEF R!EndTrees, RunTypes, TreeType
<1> DEFINE f == [headers   |-> files[r].headers,
                 histogram |-> IF histogram > 0 THEN histogram ELSE files[r].histogram,
                 count     |-> count,
                 gtid      |-> trees'.gtid, trigger |-> trees'.trigger, shaper |-> trees'.shaper]
<1>3. /\ files \in Seq(RunFileType) /\ r \in 1 .. Len(files)
      /\ files' = [files EXCEPT ![r] = f]
  BY DEF RunTypes, R!WriteObjects
<1>4. files[r] \in RunFileType
  BY <1>3, ElementOfSeq
<1>5. f \in RunFileType
  <2>1. files[r].headers \in Seq(Subs) /\ files[r].histogram \in Int
    BY <1>4 DEF RunFileType
  <2>2. trees'.gtid \in Seq(EventRow) /\ trees'.trigger \in Seq(PartRow) /\ trees'.shaper \in Seq(PartRow)
    BY <1>2 DEF TreeType
  <2>3. histogram \in Int /\ count \in Int
    BY DEF RunTypes
  <2> QED
    BY <2>1, <2>2, <2>3 DEF RunFileType
<1>6. /\ f.headers = files[r].headers /\ f.count = count
      /\ f.histogram = IF histogram > 0 THEN histogram ELSE files[r].histogram
      /\ f.gtid = trees'.gtid /\ f.trigger = trees'.trigger /\ f.shaper = trees'.shaper
  OBVIOUS
<1> HIDE DEF f
<1> QED
  BY <1>2, <1>3, <1>5, <1>6, ExceptSeq DEF Objects

\* StartRun opens a file and a run with no records.
NewRun(r) ==
  /\ r \in Nat \ {0} /\ context' = [run |-> r, sub |-> 0] /\ file' = r /\ lastSub' = 0
  /\ phase' = "running"
  /\ files' \in Seq(RunFileType) /\ Len(files') = r /\ Len(files) = r - 1 /\ Len(sent) = r - 1
  /\ \A q \in 1 .. r - 1 : files'[q] = files[q] /\ sent'[q] = sent[q]
  /\ files'[r].headers = <<0>> /\ files'[r].histogram = -1
  /\ sent' \in Seq(Seq(RunRecordType)) /\ Len(sent') = r /\ sent'[r] = <<>>
  /\ IsFiniteSet(R!Places')

\* StartRun opens the file of the next run.
LEMMA Started ==
  ASSUME RunTypes, R!StartRun, NEW r, r = context.run + 1
  PROVE  NewRun(r)
<1> DEFINE f == [R!Empty EXCEPT !.headers = <<0>>]
<1>1. /\ r \in Nat \ {0} /\ context' = [run |-> r, sub |-> 0] /\ file' = r /\ lastSub' = 0
      /\ phase' = "running"
      /\ files \in Seq(RunFileType) /\ Len(files) = r - 1
      /\ sent \in Seq(Seq(RunRecordType)) /\ Len(sent) = r - 1
      /\ files' = Append(files, f) /\ sent' = Append(sent, <<>>)
  BY DEF RunTypes, R!StartRun, R!StartFile
<1>2. f \in RunFileType /\ f.headers = <<0>> /\ f.histogram = -1
  <2>1. <<0>> \in Seq(Subs)
    BY DEF Subs
  <2>2. f = [headers |-> <<0>>, histogram |-> -1, count |-> -1,
             gtid |-> <<>>, trigger |-> <<>>, shaper |-> <<>>]
    BY DEF R!Empty
  <2>3. <<>> \in Seq(EventRow) /\ <<>> \in Seq(PartRow) /\ -1 \in Int
    OBVIOUS
  <2> HIDE DEF f
  <2>4. f \in RunFileType
    BY <2>1, <2>2, <2>3 DEF RunFileType
  <2> QED
    BY <2>2, <2>4
<1> HIDE DEF f
<1>3. /\ files' \in Seq(RunFileType) /\ Len(files') = r
      /\ files'[r] = f /\ \A q \in 1 .. r - 1 : files'[q] = files[q]
  BY <1>1, <1>2, AppendProperties
<1>4. /\ sent' \in Seq(Seq(RunRecordType)) /\ Len(sent') = r
      /\ sent'[r] = <<>> /\ \A q \in 1 .. r - 1 : sent'[q] = sent[q]
  <2>1. <<>> \in Seq(RunRecordType)
    OBVIOUS
  <2> QED
    BY <1>1, <2>1, AppendProperties
<1>5. R!Places' = R!Places
  <2>1. DOMAIN sent' = DOMAIN sent \cup {r} /\ DOMAIN sent'[r] = {}
    BY <1>1, <1>4
  <2>2. \A q \in DOMAIN sent : sent'[q] = sent[q]
    BY SMTT(30), <1>1, <1>4
  <2> QED
    BY <2>1, <2>2 DEF R!Places
<1> QED
  BY <1>1, <1>2, <1>3, <1>4, <1>5 DEF RunTypes, NewRun

(***************************************************************************)
(* The types.  What a record does to the file and to the run is the same   *)
(* whatever its kind.                                                      *)
(***************************************************************************)
RunFrame ==
  /\ phase' \in {"idle", "running", "done"}
  /\ context' \in [run : Nat, sub : Subs] /\ file' = context'.run
  /\ phase' = "running" => context'.run # 0
  /\ lastSub' \in Subs
  /\ files' \in Seq(RunFileType) /\ Len(files') = context'.run
  /\ sent' \in Seq(Seq(RunRecordType)) /\ Len(sent') = context'.run
  /\ IsFiniteSet(R!Places')
Contents ==
  /\ histogram' \in Nat /\ count' \in Nat
  /\ trees' \in TreeType /\ fields' \in [gtid : Nat, clock : Nat]
  /\ fillCount' \in Nat /\ lastTrigger' \in Nat

\* A record without a new run context comes in the one there is.
LEMMA ReceivesNow ==
  ASSUME NEW kind, R!Receive(kind, context), NEW c, c = context
  PROVE  R!Receive(kind, c)
BY DEF R!Receive, R!WriteHeader

\* A record keeps the types of the run and of the files.
LEMMA ReceivedFrame ==
  ASSUME RunTypes, NEW kind \in Kinds, NEW c \in [run : Nat, sub : Subs], c.run = context.run,
         R!Receive(kind, c)
  PROVE  RunFrame
<1>1. PICK r : r = context.run
  OBVIOUS
<1>2. sent' \in Seq(Seq(RunRecordType)) /\ Len(sent') = Len(sent) /\ IsFiniteSet(R!Places')
  <2>1. PICK k : k = Len(sent[r]) + 1
    OBVIOUS
  <2>2. NewRecord(kind, c, r, k)
    BY <1>1, <2>1, Received
  <2> QED
    BY <2>2 DEF NewRecord
<1>3. files' \in Seq(RunFileType) /\ Len(files') = Len(files)
  BY <1>1, ReceivedFiles DEF NewHeader
<1>4. /\ phase' = phase /\ context' = c /\ file' = file /\ lastSub' = c.sub
  BY DEF R!Receive, R!WriteHeader
<1> QED
  BY <1>2, <1>3, <1>4 DEF RunTypes, RunFrame

\* Every step keeps the types.
LEMMA RunTypesStep == ASSUME RunTypes, R!Steps PROVE RunTypes'
<1> SUFFICES RunFrame /\ Contents
  BY DEF RunTypes, RunFrame, Contents
<1>0. context \in [run : Nat, sub : Subs] /\ trees \in TreeType /\ fields \in [gtid : Nat, clock : Nat]
  BY DEF RunTypes
<1>n. R!Number \in Nat /\ fillCount \in Nat /\ count \in Nat
  BY NumberType DEF RunTypes
<1>r. ASSUME NEW kind \in Kinds, R!Receive(kind, context) PROVE RunFrame
  <2>1. PICK c : c = context
    OBVIOUS
  <2>2. R!Receive(kind, c) /\ c \in [run : Nat, sub : Subs] /\ c.run = context.run
    BY <1>0, <1>r, <2>1, ReceivesNow
  <2> QED
    BY <2>2, ReceivedFrame
<1>1. CASE R!StartRun
  <2>1. RunFrame
    <3>1. PICK r : r = context.run + 1
      OBVIOUS
    <3>2. /\ r \in Nat \ {0} /\ context' = [run |-> r, sub |-> 0] /\ file' = r /\ lastSub' = 0
          /\ phase' = "running"
          /\ files' \in Seq(RunFileType) /\ Len(files') = r
          /\ sent' \in Seq(Seq(RunRecordType)) /\ Len(sent') = r
      BY <1>1, <3>1, Started DEF NewRun
    <3>3. IsFiniteSet(R!Places')
      BY <1>1, <3>1, Started DEF NewRun
    <3> QED
      BY <3>2, <3>3 DEF RunFrame, Subs
  <2>2. R!NoTrees \in TreeType
    BY DEF R!NoTrees, TreeType
  <2> QED
    BY <1>1, <2>1, <2>2 DEF R!StartRun, R!StartCounters, R!StartTrees, RunTypes, Contents
<1>2. ASSUME NEW s \in SubRuns, R!SubRunStart(s) PROVE RunFrame /\ Contents
  <2>c. PICK c : c = [context EXCEPT !.sub = s]
    OBVIOUS
  <2>1. c \in [run : Nat, sub : Subs] /\ c.run = context.run
    BY <1>0, <2>c DEF Subs
  <2>2. R!Receive("subRun", c) /\ UNCHANGED <<histogram, count, trees, fields, fillCount, lastTrigger>>
    BY <1>2, <2>c DEF R!SubRunStart, R!Receive, R!WriteHeader, R!counterVars, R!treeVars
  <2>3. RunFrame
    BY <2>1, <2>2, ReceivedFrame DEF Kinds, R!Receive, R!WriteHeader
  <2> QED
    BY <2>2, <2>3 DEF Contents, RunTypes
<1>3. CASE R!GTID
  <2>1. RunFrame
    BY <1>r, <1>3 DEF R!GTID, Kinds, R!Receive, R!WriteHeader
  <2>2. fields' \in [gtid : Nat, clock : Nat] /\ fillCount' \in Nat
    BY <1>0, <1>3, <1>n DEF R!GTID
  <2>3. trees' \in TreeType
    <3>1. Append(trees.gtid, R!Row(fields)) \in Seq(EventRow)
      BY <1>0, EventRowType, AppendProperties DEF TreeType
    <3> QED
      BY <1>0, <1>3, <3>1 DEF R!GTID, TreeType
  <2> QED
    BY <1>3, <2>1, <2>2, <2>3 DEF R!GTID, R!counterVars, Contents, RunTypes
<1>4. ASSUME NEW kind \in {"clock", "otherClock"}, R!Clock(kind) PROVE RunFrame /\ Contents
  <2>1. RunFrame
    BY <1>r, <1>4 DEF R!Clock, Kinds, R!Receive, R!WriteHeader
  <2>2. fields' \in [gtid : Nat, clock : Nat] /\ count' \in Nat
    BY <1>0, <1>4, <1>n DEF R!Clock
  <2> QED
    BY <1>4, <2>1, <2>2 DEF R!Clock, Contents, RunTypes
<1>5. CASE R!Trigger
  <2>1. RunFrame
    BY <1>r, <1>5 DEF R!Trigger, Kinds, R!Receive, R!WriteHeader
  <2>2. trees' \in TreeType /\ lastTrigger' \in Nat
    <3>1. Append(trees.trigger, R!Row([n |-> R!Number])) \in Seq(PartRow)
      BY <1>0, NumberType, PartRowType, AppendProperties DEF TreeType
    <3> QED
      BY <1>0, <1>5, <3>1, NumberType DEF R!Trigger, R!TriggerRow, TreeType
  <2> QED
    BY <1>5, <2>1, <2>2 DEF R!Trigger, R!counterVars, Contents, RunTypes
<1>6. CASE R!Shaper
  <2>1. RunFrame
    BY <1>r, <1>6 DEF R!Shaper, Kinds, R!Receive, R!WriteHeader
  <2>2. trees' \in TreeType
    <3>1. /\ Append(trees.shaper, R!Row([n |-> R!Number])) \in Seq(PartRow)
          /\ Append(trees.trigger, R!Row([n |-> lastTrigger])) \in Seq(PartRow)
      <4>1. lastTrigger \in Nat
        BY DEF RunTypes
      <4> QED
        BY <1>0, <4>1, NumberType, PartRowType, AppendProperties DEF TreeType
    <3> QED
      BY <1>0, <1>6, <3>1 DEF R!Shaper, R!TriggerRow, TreeType
  <2> QED
    BY <1>6, <2>1, <2>2 DEF R!Shaper, Contents, RunTypes
<1>7. ASSUME R!EndTrees, R!EndCounters, R!WriteObjects, context.run # 0, phase' \in {"idle", "running", "done"},
             UNCHANGED <<context, file, lastSub, sent>>, phase' # "running"
      PROVE  RunFrame /\ Contents
  <2>1. PICK r : r = context.run
    OBVIOUS
  <2>2. files' \in Seq(RunFileType) /\ Len(files') = Len(files) /\ trees' \in TreeType
    BY <1>7, <2>1, ObjectsWritten DEF Objects
  <2>3. IsFiniteSet(R!Places')
    BY <1>7 DEF R!Places, RunTypes
  <2>4. RunFrame
    BY <1>7, <2>2, <2>3 DEF RunTypes, RunFrame
  <2> QED
    BY <1>7, <2>2, <2>4 DEF RunTypes, Contents, R!EndTrees, R!EndCounters
<1>8. CASE R!EndRun
  BY <1>7, <1>8 DEF R!EndRun, R!writerVars, RunTypes
<1>9. CASE R!EndRunNotStarted
  BY <1>7, <1>9 DEF R!EndRunNotStarted, R!writerVars, R!NoFile, RunTypes
<1>10. CASE R!EndProcessing
  BY <1>10 DEF R!EndProcessing, R!writerVars, R!counterVars, R!treeVars, RunTypes, RunFrame, Contents, R!Places
<1> QED
  BY <1>1, <1>2, <1>3, <1>4, <1>5, <1>6, <1>8, <1>9, <1>10 DEF R!Steps

(***************************************************************************)
(* The headers.  The last header of the file is that of the last sub-run   *)
(* the file writer has seen.                                               *)
(***************************************************************************)
HeadersInv ==
  /\ \A r \in 1 .. Len(files) : R!OwnHeaders(r)
  /\ phase = "running" =>
       LET headers == files[context.run].headers
       IN  headers # <<>> /\ lastSub = headers[Len(headers)]

\* What leaves the records and the headers of a run alone leaves them its own.
LEMMA HeadersStable ==
  ASSUME NEW r, sent'[r] = sent[r], files'[r].headers = files[r].headers, R!OwnHeaders(r)
  PROVE  R!OwnHeaders(r)'
BY DEF R!OwnHeaders, R!Range

(***************************************************************************)
(* What a record does, by its kind, and the steps there are: one starts a  *)
(* run, brings a record to the one that is on, or ends one.                *)
(***************************************************************************)
Counted(kind) ==
  /\ count' = count + (IF kind \in {"clock", "otherClock"} THEN 1 ELSE 0)
  /\ histogram' = histogram + (IF kind \in {"shaper"} THEN 1 ELSE 0)
EventFilled(kind) ==
  /\ fields'.gtid = IF kind = "gtid" THEN R!Number ELSE fields.gtid
  /\ fields'.clock = IF kind = "clock" THEN R!Number ELSE fields.clock
  /\ fillCount' = fillCount + (IF kind \in {"gtid"} THEN 1 ELSE 0)
  /\ trees'.gtid = IF kind = "gtid" /\ fillCount > 0 THEN Append(trees.gtid, R!Row(fields)) ELSE trees.gtid
PartsFilled(kind) ==
  /\ trees'.trigger = IF kind = "trigger" THEN Append(trees.trigger, R!Row([n |-> R!Number]))
                      ELSE IF kind = "shaper" /\ lastKind = "shaper"
                           THEN Append(trees.trigger, R!Row([n |-> lastTrigger]))
                           ELSE trees.trigger
  /\ trees'.shaper = IF kind = "shaper" THEN Append(trees.shaper, R!Row([n |-> R!Number])) ELSE trees.shaper
  /\ lastKind' = IF kind \in {"trigger", "shaper"} THEN kind ELSE lastKind
  /\ lastTrigger' = IF kind = "trigger" THEN R!Number ELSE lastTrigger
  /\ kind = "shaper" /\ lastKind = "shaper" => lastTrigger # 0
Effects(kind) == Counted(kind) /\ EventFilled(kind) /\ PartsFilled(kind)

\* There are no other steps, and a record does no more than the effects say.
LEMMA RunSteps ==
  ASSUME RunTypes, R!Steps
  PROVE  \/ R!StartRun
         \/ \E kind \in Kinds : \E c \in [run : Nat, sub : Subs] :
              /\ c.run = context.run /\ (kind # "subRun" => c.sub = context.sub)
              /\ R!Receive(kind, c) /\ Effects(kind)
         \/ R!EndRun \/ R!EndRunNotStarted \/ R!EndProcessing
<1>0. /\ context \in [run : Nat, sub : Subs] /\ count \in Nat /\ histogram \in Nat /\ fillCount \in Nat
      /\ fields \in [gtid : Nat, clock : Nat] /\ trees \in TreeType
  BY DEF RunTypes
<1>1. ASSUME NEW kind \in Kinds, R!Receive(kind, context), Effects(kind)
      PROVE  \E k \in Kinds : \E c \in [run : Nat, sub : Subs] :
               /\ c.run = context.run /\ (k # "subRun" => c.sub = context.sub)
               /\ R!Receive(k, c) /\ Effects(k)
  BY <1>0, <1>1
<1>2. ASSUME NEW s \in SubRuns, R!SubRunStart(s)
      PROVE  \E kind \in Kinds : \E c \in [run : Nat, sub : Subs] :
               /\ c.run = context.run /\ (kind # "subRun" => c.sub = context.sub)
               /\ R!Receive(kind, c) /\ Effects(kind)
  <2>1. PICK c : c = [context EXCEPT !.sub = s]
    OBVIOUS
  <2>2. c \in [run : Nat, sub : Subs] /\ c.run = context.run
    BY <1>0, <2>1 DEF Subs
  <2>3. R!Receive("subRun", c)
    BY <1>2, <2>1 DEF R!SubRunStart, R!Receive, R!WriteHeader
  <2>4. Effects("subRun")
    BY <1>0, <1>2 DEF R!SubRunStart, R!counterVars, R!treeVars, Effects, Counted, EventFilled, PartsFilled
  <2> QED
    BY <2>2, <2>3, <2>4 DEF Kinds
<1>3. CASE R!GTID
  <2>1. Counted("gtid")
    BY <1>0, <1>3 DEF R!GTID, R!counterVars, Counted
  <2>2. EventFilled("gtid")
    BY <1>0, <1>3 DEF R!GTID, R!FillBefore, EventFilled, TreeType
  <2>3. PartsFilled("gtid")
    BY <1>0, <1>3 DEF R!GTID, PartsFilled, TreeType
  <2> QED
    BY <1>1, <1>3, <2>1, <2>2, <2>3 DEF R!GTID, Effects, Kinds
<1>4. ASSUME NEW kind \in {"clock", "otherClock"}, R!Clock(kind)
      PROVE  R!Receive(kind, context) /\ Effects(kind)
  <2>1. Counted(kind)
    BY <1>0, <1>4 DEF R!Clock, Counted
  <2>2. EventFilled(kind)
    BY <1>0, <1>4 DEF R!Clock, EventFilled
  <2>3. PartsFilled(kind)
    BY <1>0, <1>4 DEF R!Clock, PartsFilled
  <2> QED
    BY <1>4, <2>1, <2>2, <2>3 DEF R!Clock, Effects
<1>5. CASE R!Trigger
  <2>1. Counted("trigger") /\ EventFilled("trigger")
    BY <1>0, <1>5 DEF R!Trigger, R!counterVars, Counted, EventFilled, TreeType
  <2>2. PartsFilled("trigger")
    BY <1>0, <1>5 DEF R!Trigger, R!TriggerRow, PartsFilled, TreeType
  <2> QED
    BY <1>1, <1>5, <2>1, <2>2 DEF R!Trigger, Effects, Kinds
<1>6. CASE R!Shaper
  <2>1. Counted("shaper") /\ EventFilled("shaper")
    BY <1>0, <1>6 DEF R!Shaper, Counted, EventFilled, TreeType
  <2>2. PartsFilled("shaper")
    BY <1>0, <1>6 DEF R!Shaper, R!TriggerAgain, R!TriggerRow, PartsFilled, TreeType
  <2> QED
    BY <1>1, <1>6, <2>1, <2>2 DEF R!Shaper, Effects, Kinds
<1> QED
  BY <1>1, <1>2, <1>3, <1>4, <1>5, <1>6 DEF R!Steps, Kinds

\* A record of a new sub-run adds a header, and its number was not the last.
LEMMA HeadersReceived ==
  ASSUME RunTypes, HeadersInv, NEW kind \in Kinds, NEW c \in [run : Nat, sub : Subs],
         c.run = context.run, R!Receive(kind, c)
  PROVE  HeadersInv'
<1>r. PICK r : r = context.run
  OBVIOUS
<1>k. PICK k : k = Len(sent[r]) + 1
  OBVIOUS
<1>1. /\ DOMAIN sent[r] = 1 .. k - 1 /\ DOMAIN sent'[r] = 1 .. k /\ k \in Nat \ {0}
      /\ \A q \in 1 .. Len(sent) : q # r => sent'[q] = sent[q]
      /\ \A p \in 1 .. k - 1 : sent'[r][p] = sent[r][p]
      /\ sent'[r][k] = [kind |-> kind, n |-> R!Number, sub |-> c.sub]
  <2>1. NewRecord(kind, c, r, k)
    BY <1>r, <1>k, Received
  <2> QED
    BY <2>1 DEF NewRecord
<1>2. /\ Len(files') = Len(files) /\ r \in 1 .. Len(files)
      /\ \A q \in 1 .. Len(files) : q # r => files'[q] = files[q]
      /\ files[r].headers \in Seq(Subs)
      /\ files'[r].headers = IF c.sub = lastSub THEN files[r].headers ELSE Append(files[r].headers, c.sub)
  BY <1>r, ReceivedFiles DEF NewHeader
<1>3. /\ phase = "running" /\ context'.run = r /\ lastSub' = c.sub /\ Len(sent) = Len(files)
  BY <1>r DEF R!Receive, R!WriteHeader, RunTypes
<1>4. \A q \in 1 .. Len(files) : q # r => R!OwnHeaders(q)'
  BY <1>1, <1>2, <1>3, HeadersStable DEF HeadersInv
<1>5. {sent'[r][p].sub : p \in DOMAIN sent'[r]} = {sent[r][p].sub : p \in DOMAIN sent[r]} \cup {c.sub}
  <2>1. 1 .. k = 1 .. k - 1 \cup {k}
    BY <1>1
  <2>2. sent'[r][k].sub = c.sub /\ \A p \in 1 .. k - 1 : sent'[r][p].sub = sent[r][p].sub
    BY <1>1
  <2>3. DOMAIN sent[r] = 1 .. k - 1 /\ DOMAIN sent'[r] = 1 .. k
    BY <1>1
  <2> QED
    BY <2>1, <2>2, <2>3
<1>6. /\ {files[r].headers[i] : i \in DOMAIN files[r].headers} = {0} \cup {sent[r][p].sub : p \in DOMAIN sent[r]}
      /\ \A i \in 1 .. Len(files[r].headers) - 1 : files[r].headers[i] # files[r].headers[i + 1]
      /\ files[r].headers # <<>> /\ lastSub = files[r].headers[Len(files[r].headers)]
  BY <1>r, <1>2, <1>3 DEF HeadersInv, R!OwnHeaders, R!Range
<1> DEFINE old == files[r].headers
           new == files'[r].headers
<1>7. /\ {new[i] : i \in DOMAIN new} = {old[i] : i \in DOMAIN old} \cup {c.sub}
      /\ \A i \in 1 .. Len(new) - 1 : new[i] # new[i + 1]
      /\ new # <<>> /\ c.sub = new[Len(new)]
  <2>0. old \in Seq(Subs) /\ Len(old) \in Nat \ {0} /\ DOMAIN old = 1 .. Len(old)
    BY <1>2, <1>6, EmptySeq
  <2>1. CASE c.sub = lastSub
    <3>1. new = old
      BY <2>1, <1>2
    <3>2. c.sub \in {old[i] : i \in DOMAIN old}
      BY <2>0, <2>1, <1>6
    <3> QED
      BY <3>1, <3>2, <2>1, <1>6
  <2>2. CASE c.sub # lastSub
    <3>1. new = Append(old, c.sub)
      BY <2>2, <1>2
    <3>2. /\ DOMAIN new = DOMAIN old \cup {Len(old) + 1} /\ Len(new) = Len(old) + 1
          /\ new[Len(old) + 1] = c.sub
          /\ \A i \in 1 .. Len(old) : new[i] = old[i]
      BY <3>1, <2>0
    <3> HIDE DEF old, new
    <3>3. ASSUME NEW i \in 1 .. Len(old) PROVE new[i] # new[i + 1]
      <4>1. CASE i = Len(old)
        BY <4>1, <3>2, <2>0, <2>2, <1>6 DEF old
      <4>2. CASE i \in 1 .. Len(old) - 1
        <5>1. i + 1 \in 1 .. Len(old)
          BY <4>2, <2>0
        <5> QED
          BY <4>2, <5>1, <3>2, <1>6 DEF old
      <4>3. i = Len(old) \/ i \in 1 .. Len(old) - 1
        <5>1. Len(old) \in Nat /\ i \in 1 .. Len(old)
          BY <2>0, <3>3
        <5> QED
          BY <5>1
      <4> QED
        BY <4>1, <4>2, <4>3
    <3> QED
      BY <3>2, <3>3, <2>0
  <2> QED
    BY <2>1, <2>2
<1> HIDE DEF new, old
<1>8. R!OwnHeaders(r)'
  BY <1>5, <1>6, <1>7 DEF R!OwnHeaders, R!Range, new, old
<1> QED
  BY <1>2, <1>3, <1>4, <1>7, <1>8 DEF HeadersInv, new

\* Both EndRuns write to the file of the last run.
LEMMA EndSteps ==
  ASSUME RunTypes, R!EndRun \/ R!EndRunNotStarted
  PROVE  /\ UNCHANGED <<context, file, lastSub, sent>> /\ phase' = "idle"
         /\ \A r : r = context.run => r # 0 /\ Objects(r)
<1>1. /\ R!EndTrees /\ R!EndCounters /\ R!WriteObjects /\ context.run # 0
      /\ UNCHANGED <<context, file, lastSub, sent>> /\ phase' = "idle"
  BY DEF R!EndRun, R!EndRunNotStarted, R!writerVars, R!NoFile, RunTypes
<1> QED
  BY <1>1, ObjectsWritten

\* Every step keeps the headers of each file those of its own run.
LEMMA HeadersStep == ASSUME RunTypes, HeadersInv, R!Steps PROVE HeadersInv'
<1>1. CASE R!StartRun
  <2>r. PICK r : r = context.run + 1
    OBVIOUS
  <2>1. NewRun(r)
    BY <1>1, <2>r, Started
  <2>2. \A q \in 1 .. r - 1 : R!OwnHeaders(q)'
    BY <2>1, HeadersStable DEF NewRun, HeadersInv
  <2>3. /\ files'[r].headers = <<0>> /\ DOMAIN sent'[r] = {}
        /\ r \in Nat \ {0} /\ Len(files') = r /\ context'.run = r /\ lastSub' = 0
    BY <2>1 DEF NewRun
  <2>4. R!OwnHeaders(r)'
    BY <2>3 DEF R!OwnHeaders, R!Range
  <2>5. \A q \in 1 .. r : q = r \/ q \in 1 .. r - 1
    BY <2>3
  <2>6. files'[r].headers # <<>> /\ 0 = files'[r].headers[Len(files'[r].headers)]
    BY <2>3
  <2>7. \A q \in 1 .. r : R!OwnHeaders(q)'
    BY <2>2, <2>4, <2>5
  <2> QED
    BY SMTT(30), <2>3, <2>6, <2>7 DEF HeadersInv
<1>2. ASSUME NEW kind \in Kinds, NEW c \in [run : Nat, sub : Subs], c.run = context.run, R!Receive(kind, c)
      PROVE  HeadersInv'
  BY <1>2, HeadersReceived
<1>3. CASE R!EndRun \/ R!EndRunNotStarted
  <2>r. PICK r : r = context.run
    OBVIOUS
  <2>1. Objects(r) /\ sent' = sent /\ phase' = "idle"
    BY <1>3, <2>r, EndSteps
  <2>2. \A q \in 1 .. Len(files) : files'[q].headers = files[q].headers
    BY <2>1 DEF Objects
  <2> QED
    BY <2>1, <2>2, HeadersStable DEF HeadersInv, Objects
<1>4. CASE R!EndProcessing
  BY <1>4, HeadersStable DEF R!EndProcessing, HeadersInv
<1> QED
  BY <1>1, <1>2, <1>3, <1>4, RunSteps DEF Effects

(***************************************************************************)
(* The counts.  What counts has no more than the records of this run; what *)
(* EndRun wrote is still there when an EndRun without a run writes again.  *)
(***************************************************************************)
CountsInv ==
  /\ \A r \in R!Closed : R!OwnCounts(r)
  /\ phase = "running" =>
       /\ count = Cardinality(R!OfKind(context.run, {"clock", "otherClock"}))
       /\ histogram = Cardinality(R!OfKind(context.run, {"shaper"}))
       /\ files[context.run].histogram = -1
  /\ phase # "running" /\ context.run # 0 => histogram = 0 /\ count = files[context.run].count

\* What leaves the records, the count and the histogram of a run alone leaves them its own.
LEMMA CountsStable ==
  ASSUME NEW r, sent'[r] = sent[r], files'[r].count = files[r].count,
         files'[r].histogram = files[r].histogram, R!OwnCounts(r)
  PROVE  R!OwnCounts(r)'
BY DEF R!OwnCounts, R!OfKind

\* Every step keeps the counts of each closed file those of its own run.
LEMMA CountsStep == ASSUME RunTypes, CountsInv, R!Steps PROVE CountsInv'
<1>t. /\ context.run \in Nat /\ Len(files) = context.run /\ Len(sent) = context.run
      /\ count \in Nat /\ histogram \in Nat
  BY DEF RunTypes
<1>1. CASE R!StartRun
  <2>r. PICK r : r = context.run + 1
    OBVIOUS
  <2>1. NewRun(r) /\ histogram' = 0 /\ count' = 0 /\ phase = "idle"
    BY <1>1, <2>r, Started DEF R!StartRun, R!StartCounters
  <2>2. \A q \in 1 .. r - 1 : R!OwnCounts(q)'
    BY <2>1, CountsStable DEF NewRun, CountsInv, R!Closed
  <2>3. /\ DOMAIN sent'[r] = {} /\ files'[r].histogram = -1 /\ context'.run = r
        /\ r \in Nat \ {0} /\ Len(files') = r /\ phase' = "running"
    BY <2>1 DEF NewRun
  <2>4. \A ks : Cardinality(R!OfKind(r, ks)') = 0
    BY <2>3, FS_EmptySet DEF R!OfKind
  <2> QED
    BY <2>1, <2>2, <2>3, <2>4 DEF CountsInv, R!Closed, R!OfKind
<1>2. ASSUME NEW kind \in Kinds, NEW c \in [run : Nat, sub : Subs], c.run = context.run,
             R!Receive(kind, c), Counted(kind)
      PROVE  CountsInv'
  <2>r. PICK r : r = context.run
    OBVIOUS
  <2>k. PICK k : k = Len(sent[r]) + 1
    OBVIOUS
  <2>1. NewRecord(kind, c, r, k) /\ NewKind(kind, r, k) /\ NewHeader(c, r)
    BY <1>2, <2>r, <2>k, Received, ReceivedKinds, ReceivedFiles
  <2>2. phase = "running" /\ phase' = "running" /\ context'.run = r
    BY <1>2, <2>r DEF R!Receive
  <2>3. \A q \in 1 .. Len(files) - 1 : R!OwnCounts(q)'
    <3>1. \A q \in 1 .. Len(files) - 1 : sent'[q] = sent[q] /\ files'[q] = files[q]
      <4>1. \A q \in 1 .. Len(files) - 1 : q # r /\ q \in 1 .. Len(files) /\ q \in 1 .. Len(sent)
        BY <1>t, <2>r
      <4> QED
        BY <4>1, <2>1 DEF NewRecord, NewHeader
    <3> QED
      BY <3>1, <2>2, CountsStable DEF CountsInv, R!Closed
  <2>4. /\ count' = Cardinality(R!OfKind(r, {"clock", "otherClock"})')
        /\ histogram' = Cardinality(R!OfKind(r, {"shaper"})')
    BY <1>2, <2>1, <2>2, <2>r DEF NewKind, Counted, CountsInv
  <2>5. files'[r].histogram = -1 /\ Len(files') = Len(files)
    BY <2>1, <2>2, <2>r DEF NewHeader, CountsInv
  <2> QED
    BY <2>2, <2>3, <2>4, <2>5 DEF CountsInv, R!Closed, R!OfKind
<1>3. CASE R!EndRun \/ R!EndRunNotStarted
  <2>r. PICK r : r = context.run
    OBVIOUS
  <2>1. Objects(r) /\ UNCHANGED <<sent, context>> /\ phase' = "idle" /\ r # 0
    BY <1>3, <2>r, EndSteps
  <2>2. histogram' = 0 /\ count' = count
    BY <1>3 DEF R!EndRun, R!EndRunNotStarted, R!EndCounters
  <2>3. R!OwnCounts(r)'
    <3>1. CASE phase = "running"
      <4>1. /\ files'[r].count = Cardinality(R!OfKind(r, {"clock", "otherClock"}))
            /\ files'[r].histogram = IF Cardinality(R!OfKind(r, {"shaper"})) > 0
                                     THEN Cardinality(R!OfKind(r, {"shaper"})) ELSE -1
        BY <2>1, <2>r, <3>1 DEF Objects, CountsInv
      <4>2. Cardinality(R!OfKind(r, {"shaper"})) \in Nat
        BY <1>t, <2>r, <3>1 DEF CountsInv
      <4> QED
        BY <4>1, <4>2, <2>1, RunCardinality DEF R!OwnCounts, R!OfKind
    <3>2. CASE phase # "running"
      <4>1. R!OwnCounts(r) /\ histogram = 0 /\ count = files[r].count
        BY <1>t, <2>r, <2>1, <3>2 DEF CountsInv, R!Closed
      <4> QED
        BY <4>1, <2>1, CountsStable DEF Objects
    <3> QED
      BY <3>1, <3>2
  <2>4. \A q \in 1 .. Len(files) : q # r => R!OwnCounts(q)'
    <3>1. \A q \in 1 .. Len(files) : q # r => q \in R!Closed
      BY <1>t, <2>r DEF R!Closed
    <3> QED
      BY <3>1, <2>1, CountsStable DEF CountsInv, Objects
  <2> QED
    BY <2>r, <2>1, <2>2, <2>3, <2>4 DEF CountsInv, Objects, R!Closed
<1>4. CASE R!EndProcessing
  BY <1>4, CountsStable DEF R!EndProcessing, R!counterVars, CountsInv, R!Closed
<1> QED
  BY <1>1, <1>2, <1>3, <1>4, RunSteps DEF Effects

(***************************************************************************)
(* The rows of the Trigger32 tree.  Of the GTIDs of the run that is on, all *)
(* but the last have their row in the tree, and the branches hold that of  *)
(* the last.                                                               *)
(***************************************************************************)
LastEvent(r, g) == \A q \in R!OfKind(r, {"gtid"}) : q <= g
EventsFilled(r) ==
  /\ fillCount = Cardinality(R!OfKind(r, {"gtid"}))
  /\ Len(trees.gtid) = IF fillCount = 0 THEN 0 ELSE fillCount - 1
  /\ \A g \in R!OfKind(r, {"gtid"}) :
       IF LastEvent(r, g) THEN R!RowOfEvent(r, g, R!Row(fields))
       ELSE R!Nth(r, g) \in DOMAIN trees.gtid /\ R!RowOfEvent(r, g, trees.gtid[R!Nth(r, g)])
EventsInv ==
  /\ \A r \in R!Closed : R!EventsIn(r)
  /\ phase = "running" => EventsFilled(context.run)
  /\ phase # "running" /\ context.run # 0 => trees.gtid = files[context.run].gtid

\* What leaves the records and the rows of a run alone leaves every GTID its row.
LEMMA EventsStable ==
  ASSUME NEW r, sent'[r] = sent[r], files'[r].gtid = files[r].gtid, r \in ended' => r \in ended,
         R!EventsIn(r)
  PROVE  R!EventsIn(r)'
BY SMTT(30) DEF R!EventsIn, R!RowOfEvent, R!Upto, R!Nth, R!OfKind

\* What a record is added to: the last GTID.
NewPlaces(kind, r, k) ==
  /\ \A g \in R!OfKind(r, {"gtid"}) :
       /\ R!Nth(r, g)' = R!Nth(r, g)
       /\ R!Upto(r, g) \subseteq 1 .. k - 1
       /\ R!Upto(r, g)' = R!Upto(r, g) \cup (IF kind # "gtid" /\ LastEvent(r, g) THEN {k} ELSE {})
       /\ g \in 1 .. k - 1
  /\ kind = "gtid" => R!Upto(r, k)' = {k}

\* A record is added to those of the last GTID, unless it is a GTID.
LEMMA ReceivedPlaces ==
  ASSUME RunTypes, NEW kind \in Kinds, NEW c \in [run : Nat, sub : Subs], c.run = context.run,
         NEW r, NEW k, NewRecord(kind, c, r, k), NewKind(kind, r, k)
  PROVE  NewPlaces(kind, r, k)
<1>1. /\ k \in Nat \ {0} /\ DOMAIN sent[r] = 1 .. k - 1 /\ DOMAIN sent'[r] = 1 .. k
  BY DEF NewRecord
<1>2. /\ R!OfKind(r, {"gtid"})' = R!OfKind(r, {"gtid"}) \cup (IF kind = "gtid" THEN {k} ELSE {})
      /\ R!OfKind(r, {"gtid"}) \subseteq 1 .. k - 1
  BY DEF NewKind
<1>3. ASSUME NEW g \in R!OfKind(r, {"gtid"})
      PROVE  /\ R!Nth(r, g)' = R!Nth(r, g)
             /\ R!Upto(r, g) \subseteq 1 .. k - 1
             /\ g \in 1 .. k - 1
  <2>1. g \in 1 .. k - 1
    BY <1>2, <1>3
  <2>2. {q \in R!OfKind(r, {"gtid"})' : q <= g} = {q \in R!OfKind(r, {"gtid"}) : q <= g}
    <3>1. ~(k <= g)
      BY <1>1, <2>1
    <3> QED
      BY <1>2, <3>1
  <2>3. R!Nth(r, g)' = R!Nth(r, g)
    BY <2>2 DEF R!Nth
  <2>4. R!Upto(r, g) \subseteq 1 .. k - 1
    BY <1>1 DEF R!Upto
  <2> QED
    BY <2>1, <2>3, <2>4
<1>4. ASSUME NEW g \in R!OfKind(r, {"gtid"})
      PROVE  R!Upto(r, g)' = R!Upto(r, g) \cup (IF kind # "gtid" /\ LastEvent(r, g) THEN {k} ELSE {})
  <2> DEFINE after(p) == \A q \in R!OfKind(r, {"gtid"}) : q > g => p < q
  <2>1. R!Upto(r, g) = {p \in 1 .. k - 1 : p >= g /\ after(p)}
    BY <1>1 DEF R!Upto
  <2>2. R!Upto(r, g)' = {p \in 1 .. k : p >= g /\ \A q \in R!OfKind(r, {"gtid"})' : q > g => p < q}
    BY <1>1 DEF R!Upto
  <2>3. g \in 1 .. k - 1
    BY <1>2, <1>4
  <2>4. \A p \in 1 .. k - 1 : (\A q \in R!OfKind(r, {"gtid"})' : q > g => p < q) <=> after(p)
    <3>1. \A p \in 1 .. k - 1 : p < k
      BY <1>1
    <3> QED
      BY <1>2, <3>1
  <2>5. k >= g /\ 1 .. k = 1 .. k - 1 \cup {k}
    BY <1>1, <2>3
  <2>6. (\A q \in R!OfKind(r, {"gtid"})' : q > g => k < q) <=> kind # "gtid" /\ LastEvent(r, g)
    <3>1. CASE kind = "gtid"
      <4>1. k \in R!OfKind(r, {"gtid"})' /\ k > g /\ ~(k < k)
        BY <3>1, <1>1, <1>2, <2>3
      <4> QED
        BY <4>1, <3>1
    <3>2. CASE kind # "gtid"
      <4>1. R!OfKind(r, {"gtid"})' = R!OfKind(r, {"gtid"})
        BY <3>2, <1>2
      <4>2. \A q \in R!OfKind(r, {"gtid"}) : q \in Int /\ ~(k < q) /\ g \in Int
        BY <1>1, <1>2, <2>3
      <4>3. \A q \in R!OfKind(r, {"gtid"}) : ~(q > g) <=> q <= g
        BY <4>2
      <4> QED
        BY <3>2, <4>1, <4>2, <4>3 DEF LastEvent
    <3> QED
      BY <3>1, <3>2
  <2> HIDE DEF after
  <2> QED
    BY <2>1, <2>2, <2>4, <2>5, <2>6
<1>5. ASSUME kind = "gtid" PROVE R!Upto(r, k)' = {k}
  <2>1. R!OfKind(r, {"gtid"})' = R!OfKind(r, {"gtid"}) \cup {k}
    BY <1>2, <1>5
  <2>2. \A q \in R!OfKind(r, {"gtid"})' : q <= k /\ q \in Int
    BY <1>1, <1>2, <2>1
  <2>3. \A p \in 1 .. k : p >= k <=> p = k
    BY <1>1
  <2>4. k \in 1 .. k /\ \A q \in R!OfKind(r, {"gtid"})' : ~(q > k)
    BY <1>1, <2>2
  <2> QED
    BY <1>1, <2>3, <2>4 DEF R!Upto
<1> QED
  BY <1>3, <1>4, <1>5 DEF NewPlaces

\* A GTID that gets no more records keeps its row; the last one's row, which is still
\* in the branches, changes with what comes.
LEMMA RowKept ==
  ASSUME RunTypes, NEW kind \in Kinds, NEW c \in [run : Nat, sub : Subs],
         NEW r, NEW k, NewRecord(kind, c, r, k), NewKind(kind, r, k), NewPlaces(kind, r, k),
         NEW g \in R!OfKind(r, {"gtid"}), kind = "gtid" \/ ~LastEvent(r, g),
         NEW row, R!RowOfEvent(r, g, row)
  PROVE  R!RowOfEvent(r, g, row)'
<1>1. R!Upto(r, g)' = R!Upto(r, g) /\ R!Upto(r, g) \subseteq 1 .. k - 1 /\ g \in 1 .. k - 1
  BY DEF NewPlaces
<1>2. /\ k \in Nat \ {0} /\ \A p \in 1 .. k - 1 : sent'[r][p] = sent[r][p] /\ p # k
  BY DEF NewRecord
<1>3. \A ks : R!Upto(r, g)' \cap R!OfKind(r, ks)' = R!Upto(r, g) \cap R!OfKind(r, ks)
  BY <1>1, <1>2 DEF NewKind
<1>4. \A p \in R!Upto(r, g) \cap R!OfKind(r, {"clock"}) : sent'[r][p] = sent[r][p]
  BY <1>1, <1>2
<1>5. sent'[r][g] = sent[r][g]
  BY <1>1, <1>2
<1> QED
  BY <1>3, <1>4, <1>5 DEF R!RowOfEvent

\* A record that is no GTID changes the row in the branches as it changes the event.
LEMMA RowInBranches ==
  ASSUME RunTypes, RunTypes',
         NEW kind \in Kinds, NEW c \in [run : Nat, sub : Subs], c.run = context.run,
         kind # "subRun" => c.sub = context.sub, R!Receive(kind, c), EventFilled(kind),
         NEW r, r = context.run, NEW k, NewRecord(kind, c, r, k), NewKind(kind, r, k),
         NewPlaces(kind, r, k),
         NEW g \in R!OfKind(r, {"gtid"}), kind # "gtid", LastEvent(r, g),
         NEW row, row = R!Row(fields), NEW next, next = R!Row(fields)',
         R!RowOfEvent(r, g, row)
  PROVE  R!RowOfEvent(r, g, next)'
<1>1. /\ R!Upto(r, g)' = R!Upto(r, g) \cup {k} /\ R!Upto(r, g) \subseteq 1 .. k - 1
      /\ g \in 1 .. k - 1
  BY DEF NewPlaces
<1>2. /\ k \in Nat \ {0} /\ \A p \in 1 .. k - 1 : sent'[r][p] = sent[r][p] /\ p < k
      /\ sent'[r][k].n = R!Number /\ sent'[r][k].sub = c.sub
  BY DEF NewRecord
<1>3. /\ row.gtid = fields.gtid /\ row.clock = fields.clock
      /\ row.run = context.run /\ row.sub = context.sub
  BY EventRowType DEF RunTypes
<1>4. /\ next.gtid = fields'.gtid /\ next.clock = fields'.clock
      /\ next.run = context'.run /\ next.sub = context'.sub
  <2>1. fields' \in [gtid : Nat, clock : Nat] /\ context' \in [run : Nat, sub : Subs]
    BY DEF RunTypes
  <2> QED
    BY <2>1 DEF R!Row
<1>5. /\ context' = c /\ fields'.gtid = fields.gtid
      /\ fields'.clock = IF kind = "clock" THEN R!Number ELSE fields.clock
  BY DEF R!Receive, EventFilled
<1>6. next.gtid = sent'[r][g].n /\ next.run = r
  <2>1. sent'[r][g] = sent[r][g]
    BY <1>1, <1>2
  <2> QED
    BY <2>1, <1>3, <1>4, <1>5 DEF R!RowOfEvent
<1>7. R!Upto(r, g)' \cap R!OfKind(r, {"subRun"})' = {} => next.sub = sent'[r][g].sub
  <2>1. SUFFICES ASSUME R!Upto(r, g)' \cap R!OfKind(r, {"subRun"})' = {}
                 PROVE  next.sub = sent'[r][g].sub
    OBVIOUS
  <2>2. kind # "subRun" /\ R!Upto(r, g) \cap R!OfKind(r, {"subRun"}) = {}
    BY <1>1, <2>1 DEF NewKind
  <2>3. row.sub = sent[r][g].sub
    BY <2>2 DEF R!RowOfEvent
  <2> QED
    BY <1>1, <1>2, <1>3, <1>4, <1>5, <2>2, <2>3
<1>8. LET clocks == R!Upto(r, g)' \cap R!OfKind(r, {"clock"})'
      IN  \A p \in clocks : (\A q \in clocks : q <= p) => next.clock = sent'[r][p].n
  <2>1. CASE kind = "clock"
    <3>1. k \in R!Upto(r, g)' \cap R!OfKind(r, {"clock"})'
      BY <1>1, <2>1 DEF NewKind
    <3>2. \A p \in R!Upto(r, g)' : k <= p => p = k
      BY <1>1, <1>2
    <3>3. next.clock = sent'[r][k].n
      BY <1>2, <1>4, <1>5, <2>1
    <3> QED
      BY <3>1, <3>2, <3>3
  <2>2. CASE kind # "clock"
    <3>1. R!Upto(r, g)' \cap R!OfKind(r, {"clock"})' = R!Upto(r, g) \cap R!OfKind(r, {"clock"})
      <4>1. R!OfKind(r, {"clock"})' = R!OfKind(r, {"clock"}) /\ k \notin R!OfKind(r, {"clock"})
        <5>1. kind \notin {"clock"} /\ k \notin 1 .. k - 1
          BY <1>2, <2>2
        <5>2. /\ R!OfKind(r, {"clock"})' = R!OfKind(r, {"clock"}) \cup
                    (IF kind \in {"clock"} THEN {k} ELSE {})
              /\ R!OfKind(r, {"clock"}) \subseteq 1 .. k - 1
          BY DEF NewKind
        <5> QED
          BY <5>1, <5>2
      <4> QED
        BY <4>1, <1>1
    <3>2. \A p \in R!Upto(r, g) : sent'[r][p] = sent[r][p]
      BY <1>1, <1>2
    <3>3. next.clock = row.clock
      BY <1>3, <1>4, <1>5, <2>2
    <3> QED
      BY <3>1, <3>2, <3>3 DEF R!RowOfEvent
  <2> QED
    BY <2>1, <2>2
<1> QED
  BY <1>6, <1>7, <1>8 DEF R!RowOfEvent

\* When a GTID comes, the row in the branches goes to the tree, at the place of its GTID.
LEMMA EventsReceived ==
  ASSUME RunTypes, RunTypes', EventsInv,
         NEW kind \in Kinds, NEW c \in [run : Nat, sub : Subs], c.run = context.run,
         kind # "subRun" => c.sub = context.sub, R!Receive(kind, c), EventFilled(kind),
         NEW r, r = context.run
  PROVE  EventsFilled(r)'
<1>k. PICK k : k = Len(sent[r]) + 1
  OBVIOUS
<1>1. NewRecord(kind, c, r, k) /\ NewKind(kind, r, k)
  BY <1>k, Received, ReceivedKinds
<1>2. NewPlaces(kind, r, k)
  BY <1>1, ReceivedPlaces
<1>o. PICK row : row = R!Row(fields)
  OBVIOUS
<1>n. PICK next : next = R!Row(fields)'
  OBVIOUS
<1>3. /\ EventsFilled(r) /\ fillCount \in Nat
      /\ trees.gtid \in Seq(EventRow) /\ row \in EventRow
  <2>1. EventsFilled(r) /\ fillCount \in Nat /\ trees.gtid \in Seq(EventRow)
    BY DEF EventsInv, R!Receive, RunTypes, TreeType
  <2> QED
    BY <2>1, <1>o, EventRowType DEF RunTypes
<1> DEFINE old == R!OfKind(r, {"gtid"})
           was == trees.gtid
           now == trees'.gtid
<1>4. /\ old' = old \cup (IF kind = "gtid" THEN {k} ELSE {}) /\ old \subseteq 1 .. k - 1
      /\ k \in Nat \ {0} /\ k \notin old
      /\ Cardinality(old') = Cardinality(old) + (IF kind \in {"gtid"} THEN 1 ELSE 0)
  BY <1>1 DEF NewKind, NewRecord
<1>5. fillCount' = Cardinality(old')
  BY <1>3, <1>4 DEF EventFilled, EventsFilled
<1>6. /\ Len(was) = (IF fillCount = 0 THEN 0 ELSE fillCount - 1)
      /\ Len(now) = IF fillCount' = 0 THEN 0 ELSE fillCount' - 1
      /\ \A i \in DOMAIN was : i \in DOMAIN now /\ now[i] = was[i]
      /\ kind = "gtid" /\ fillCount > 0 => fillCount \in DOMAIN now /\ now[fillCount] = row
  <2>0. Len(was) = IF fillCount = 0 THEN 0 ELSE fillCount - 1
    BY <1>3 DEF EventsFilled
  <2>1. CASE kind = "gtid" /\ fillCount > 0
    <3>1. now = Append(was, row) /\ fillCount' = fillCount + 1
      BY <2>1, <1>o DEF EventFilled
    <3> HIDE DEF now, was
    <3> QED
      BY <3>1, <2>0, <2>1, <1>3 DEF was
  <2>2. CASE kind = "gtid" /\ fillCount = 0
    <3>1. now = was /\ fillCount' = 1
      BY <2>2 DEF EventFilled
    <3> QED
      BY <3>1, <2>0, <2>2
  <2>3. CASE kind # "gtid"
    <3>1. now = was /\ fillCount' = fillCount
      BY <2>3, <1>3 DEF EventFilled
    <3> QED
      BY <3>1, <2>0, <2>3
  <2> QED
    BY <2>1, <2>2, <2>3, <1>3
<1>7. ASSUME NEW g \in old, kind = "gtid" \/ ~LastEvent(r, g)
      PROVE  /\ ~LastEvent(r, g)'
             /\ \E i, w : /\ i = R!Nth(r, g)' /\ i \in DOMAIN now /\ w = now[i]
                         /\ R!RowOfEvent(r, g, w)'
  <2>1. R!Nth(r, g)' = R!Nth(r, g) /\ g \in 1 .. k - 1
    BY <1>2, <1>7 DEF NewPlaces
  <2>2. CASE ~LastEvent(r, g)
    <3>1. PICK i, w : i = R!Nth(r, g) /\ i \in DOMAIN was /\ w = was[i] /\ R!RowOfEvent(r, g, w)
      BY <2>2, <1>3, <1>7 DEF EventsFilled
    <3>2. i \in DOMAIN now /\ w = now[i]
      BY <3>1, <1>6
    <3>3. R!RowOfEvent(r, g, w)'
      BY <3>1, <2>2, <1>1, <1>2, <1>7, RowKept
    <3>4. ~LastEvent(r, g)'
      BY <2>2, <1>4 DEF LastEvent
    <3> QED
      BY <2>1, <3>1, <3>2, <3>3, <3>4
  <2>3. CASE LastEvent(r, g)
    <3>1. kind = "gtid" /\ R!RowOfEvent(r, g, row)
      BY <2>3, <1>3, <1>7, <1>o DEF EventsFilled
    <3>2. R!Nth(r, g) = fillCount /\ fillCount > 0
      <4>1. {q \in old : q <= g} = old /\ g \in old
        BY <2>3, <1>7 DEF LastEvent
      <4>2. R!Nth(r, g) = R!Cardinality(old)
        BY <4>1 DEF R!Nth
      <4>3. Cardinality(old) # 0
        <5>1. IsFiniteSet(old)
          BY <1>1 DEF NewKind
        <5> QED
          BY <5>1, <4>1, FS_EmptySet
      <4> QED
        BY <4>2, <4>3, <1>3, RunCardinality DEF EventsFilled
    <3>3. fillCount \in DOMAIN now /\ row = now[fillCount]
      BY <3>1, <3>2, <1>6
    <3>4. R!RowOfEvent(r, g, row)'
      BY <3>1, <1>1, <1>2, <1>7, RowKept
    <3>5. ~LastEvent(r, g)'
      <4>1. k \in R!OfKind(r, {"gtid"})' /\ ~(k <= g)
        BY <3>1, <1>4, <2>1
      <4> QED
        BY <4>1 DEF LastEvent
    <3> QED
      BY <2>1, <3>2, <3>3, <3>4, <3>5
  <2> QED
    BY <2>2, <2>3
<1>8. ASSUME NEW g \in old, kind # "gtid", LastEvent(r, g)
      PROVE  R!RowOfEvent(r, g, R!Row(fields))'
  <2>1. R!RowOfEvent(r, g, row)
    BY <1>3, <1>8, <1>o DEF EventsFilled
  <2>2. R!RowOfEvent(r, g, next)'
    BY <2>1, <1>8, <1>1, <1>2, <1>o, <1>n, RowInBranches
  <2> QED
    BY <2>2, <1>n DEF R!RowOfEvent
<1>9. ASSUME kind = "gtid"
      PROVE  LastEvent(r, k)' /\ R!RowOfEvent(r, k, R!Row(fields))'
  <2>1. LastEvent(r, k)'
    BY <1>4, <1>9 DEF LastEvent
  <2>2. /\ sent'[r][k].n = R!Number /\ sent'[r][k].sub = c.sub
        /\ R!Upto(r, k)' = {k} /\ k \notin R!OfKind(r, {"clock"})'
    <3>1. R!OfKind(r, {"clock"})' = R!OfKind(r, {"clock"}) /\ R!OfKind(r, {"clock"}) \subseteq 1 .. k - 1
      <4>1. kind \notin {"clock"}
        BY <1>9
      <4>2. R!OfKind(r, {"clock"})' = R!OfKind(r, {"clock"}) \cup {}
        BY <4>1, <1>1 DEF NewKind
      <4> QED
        BY <4>2, <1>1 DEF NewKind
    <3> QED
      BY <3>1, <1>1, <1>2, <1>4, <1>9 DEF NewRecord, NewPlaces
  <2>3. next.gtid = R!Number /\ next.run = r /\ next.sub = c.sub
    <3>1. fields' \in [gtid : Nat, clock : Nat] /\ context' \in [run : Nat, sub : Subs]
      BY DEF RunTypes
    <3>2. next.gtid = fields'.gtid /\ next.run = context'.run /\ next.sub = context'.sub
      BY <3>1, <1>n DEF R!Row
    <3> QED
      BY <3>2, <1>9 DEF R!Receive, EventFilled
  <2>4. R!RowOfEvent(r, k, next)'
    BY <2>2, <2>3 DEF R!RowOfEvent
  <2> QED
    BY <2>1, <2>4, <1>n DEF R!RowOfEvent
<1>10. ASSUME NEW g \in old'
       PROVE  (IF LastEvent(r, g) THEN R!RowOfEvent(r, g, R!Row(fields))
               ELSE R!Nth(r, g) \in DOMAIN trees.gtid /\ R!RowOfEvent(r, g, trees.gtid[R!Nth(r, g)]))'
  <2>1. CASE g \in old /\ (kind = "gtid" \/ ~LastEvent(r, g))
    <3>1. PICK i, w : /\ i = R!Nth(r, g)' /\ i \in DOMAIN now /\ w = now[i]
                      /\ R!RowOfEvent(r, g, w)' /\ ~LastEvent(r, g)'
      BY <2>1, <1>7
    <3> QED
      BY <3>1 DEF R!RowOfEvent
  <2>2. CASE g \in old /\ kind # "gtid" /\ LastEvent(r, g)
    <3>1. LastEvent(r, g)'
      BY <2>2, <1>4 DEF LastEvent
    <3> QED
      BY <2>2, <3>1, <1>8
  <2>3. CASE kind = "gtid" /\ g = k
    BY <2>3, <1>9
  <2> QED
    BY <2>1, <2>2, <2>3, <1>4, <1>10
<1> QED
  BY <1>5, <1>6, <1>10 DEF EventsFilled

\* EndRun's own row is that of the last GTID.
LEMMA EventsEnded ==
  ASSUME RunTypes, NEW r, r = context.run, r # 0, EventsFilled(r), Objects(r), sent' = sent
  PROVE  R!EventsIn(r)'
<1>o. PICK row : row = R!Row(fields)
  OBVIOUS
<1> DEFINE gs  == R!OfKind(r, {"gtid"})
           was == trees.gtid
           now == files'[r].gtid
<1>1. /\ was \in Seq(EventRow) /\ row \in EventRow /\ now = Append(was, row) /\ fillCount \in Nat
      /\ Len(was) = IF fillCount = 0 THEN 0 ELSE fillCount - 1
      /\ fillCount = Cardinality(gs)
  BY <1>o, EventRowType DEF RunTypes, TreeType, Objects, EventsFilled
<1>2. /\ \A i \in DOMAIN was : i \in DOMAIN now /\ now[i] = was[i]
      /\ fillCount # 0 => fillCount \in DOMAIN now /\ now[fillCount] = row /\ Len(now) = fillCount
  <2> HIDE DEF was, now
  <2> QED
    BY <1>1
<1>3. IsFiniteSet(gs)
  <2>1. gs \subseteq 1 .. Len(sent[r])
    <3>1. sent[r] \in Seq(RunRecordType)
      <4>1. sent \in Seq(Seq(RunRecordType)) /\ r \in 1 .. Len(sent)
        BY DEF RunTypes
      <4> QED
        BY <4>1, ElementOfSeq
    <3> QED
      BY <3>1 DEF R!OfKind
  <2>2. IsFiniteSet(1 .. Len(sent[r]))
    <3>1. Len(sent[r]) \in Int
      <4>1. sent \in Seq(Seq(RunRecordType)) /\ r \in 1 .. Len(sent)
        BY DEF RunTypes
      <4>2. sent[r] \in Seq(RunRecordType)
        BY <4>1, ElementOfSeq
      <4> QED
        BY <4>2
    <3>2. 1 \in Int
      OBVIOUS
    <3> QED
      BY <3>1, <3>2, FS_Interval
  <2> QED
    BY <2>1, <2>2, FS_Subset
<1>4. ASSUME NEW g \in gs
      PROVE  \E i, w : i = R!Nth(r, g) /\ i \in DOMAIN now /\ w = now[i] /\ R!RowOfEvent(r, g, w)
  <2>1. CASE LastEvent(r, g)
    <3>1. {q \in gs : q <= g} = gs
      BY <2>1 DEF LastEvent
    <3>2. R!Nth(r, g) = fillCount
      <4>1. R!Nth(r, g) = R!Cardinality(gs)
        BY <3>1 DEF R!Nth
      <4> QED
        BY <4>1, <1>1, RunCardinality
    <3>3. fillCount # 0
      BY <1>1, <1>3, <1>4, FS_EmptySet
    <3>4. R!RowOfEvent(r, g, row)
      BY <2>1, <1>4, <1>o DEF EventsFilled
    <3> QED
      BY <3>2, <3>3, <3>4, <1>2
  <2>2. CASE ~LastEvent(r, g)
    BY <2>2, <1>2, <1>4 DEF EventsFilled
  <2> QED
    BY <2>1, <2>2
<1>5. gs # {} => Len(now) = R!Cardinality(gs)
  BY <1>1, <1>2, <1>3, FS_EmptySet, RunCardinality
<1>6. gs' = gs
  BY DEF R!OfKind
<1>7. ASSUME NEW g \in gs
      PROVE  (R!Nth(r, g) \in DOMAIN files[r].gtid /\ R!RowOfEvent(r, g, files[r].gtid[R!Nth(r, g)]))'
  <2>1. PICK i, w : i = R!Nth(r, g) /\ i \in DOMAIN now /\ w = now[i] /\ R!RowOfEvent(r, g, w)
    BY <1>4, <1>7
  <2>2. R!Nth(r, g)' = i
    BY <2>1 DEF R!Nth, R!OfKind
  <2> QED
    BY SMTT(30), <2>1, <2>2 DEF R!RowOfEvent, R!Upto, R!OfKind
<1> QED
  BY <1>5, <1>6, <1>7 DEF R!EventsIn

\* A row more leaves the rows that are there.
LEMMA EventsAppended ==
  ASSUME RunTypes, NEW r, r = context.run, r # 0, Objects(r), sent' = sent,
         trees.gtid = files[r].gtid, r \notin ended', R!EventsIn(r)
  PROVE  R!EventsIn(r)'
<1>o. PICK row : row = R!Row(fields)
  OBVIOUS
<1> DEFINE was == files[r].gtid
           now == files'[r].gtid
<1>1. was \in Seq(EventRow) /\ row \in EventRow /\ now = Append(was, row)
  BY <1>o, EventRowType DEF RunTypes, TreeType, Objects
<1>2. \A i \in DOMAIN was : i \in DOMAIN now /\ now[i] = was[i]
  <2> HIDE DEF was, now
  <2> QED
    BY <1>1
<1>3. ASSUME NEW g \in R!OfKind(r, {"gtid"})
      PROVE  (R!Nth(r, g) \in DOMAIN files[r].gtid /\ R!RowOfEvent(r, g, files[r].gtid[R!Nth(r, g)]))'
  <2>1. PICK i, w : i = R!Nth(r, g) /\ i \in DOMAIN was /\ w = was[i] /\ R!RowOfEvent(r, g, w)
    BY <1>3 DEF R!EventsIn
  <2>2. R!Nth(r, g)' = i /\ i \in DOMAIN now /\ w = now[i]
    BY <2>1, <1>2 DEF R!Nth, R!OfKind
  <2> QED
    BY SMTT(30), <2>1, <2>2 DEF R!RowOfEvent, R!Upto, R!OfKind
<1>4. R!OfKind(r, {"gtid"})' = R!OfKind(r, {"gtid"})
  BY DEF R!OfKind
<1> QED
  BY <1>3, <1>4 DEF R!EventsIn

\* Every step keeps every GTID its row.
LEMMA EventsStep == ASSUME RunTypes, EventsInv, R!Steps PROVE EventsInv'
<1>t. /\ context.run \in Nat /\ Len(files) = context.run /\ Len(sent) = context.run
  BY DEF RunTypes
<1>T. RunTypes'
  BY RunTypesStep
<1>1. CASE R!StartRun
  <2>r. PICK r : r = context.run + 1
    OBVIOUS
  <2>1. NewRun(r) /\ fillCount' = 0 /\ trees'.gtid = <<>> /\ phase = "idle" /\ ended' = ended
    BY <1>1, <2>r, Started DEF R!StartRun, R!StartTrees, R!NoTrees
  <2>2. \A q \in 1 .. r - 1 : R!EventsIn(q)'
    BY <2>1, EventsStable DEF NewRun, EventsInv, R!Closed
  <2>3. /\ DOMAIN sent'[r] = {} /\ context'.run = r
        /\ r \in Nat \ {0} /\ Len(files') = r /\ phase' = "running"
    BY <2>1 DEF NewRun
  <2>4. \A ks : R!OfKind(r, ks)' = {}
    BY <2>3 DEF R!OfKind
  <2>5. EventsFilled(r)'
    BY <2>1, <2>4, FS_EmptySet DEF EventsFilled
  <2> QED
    BY <2>2, <2>3, <2>5 DEF EventsInv, R!Closed, EventsFilled, LastEvent, R!OfKind, R!RowOfEvent
<1>2. ASSUME NEW kind \in Kinds, NEW c \in [run : Nat, sub : Subs], c.run = context.run,
             kind # "subRun" => c.sub = context.sub, R!Receive(kind, c), EventFilled(kind)
      PROVE  EventsInv'
  <2>r. PICK r : r = context.run
    OBVIOUS
  <2>k. PICK k : k = Len(sent[r]) + 1
    OBVIOUS
  <2>1. NewRecord(kind, c, r, k) /\ NewHeader(c, r)
    BY <1>2, <2>r, <2>k, Received, ReceivedFiles
  <2>2. phase = "running" /\ phase' = "running" /\ context'.run = r /\ ended' = ended
    BY <1>2, <2>r DEF R!Receive
  <2>3. \A q \in 1 .. Len(files) - 1 : R!EventsIn(q)'
    <3>1. \A q \in 1 .. Len(files) - 1 : sent'[q] = sent[q] /\ files'[q] = files[q]
      <4>1. \A q \in 1 .. Len(files) - 1 : q # r /\ q \in 1 .. Len(files) /\ q \in 1 .. Len(sent)
        BY <1>t, <2>r
      <4> QED
        BY <4>1, <2>1 DEF NewRecord, NewHeader
    <3> QED
      BY <3>1, <2>2, EventsStable DEF EventsInv, R!Closed
  <2>4. EventsFilled(r)'
    BY <1>2, <1>T, <2>r, EventsReceived
  <2>5. Len(files') = Len(files)
    BY <2>1 DEF NewHeader
  <2> QED
    BY SMTT(30), <2>2, <2>3, <2>4, <2>5 DEF EventsInv, R!Closed, EventsFilled, LastEvent, R!OfKind, R!RowOfEvent
<1>3. CASE R!EndRun \/ R!EndRunNotStarted
  <2>r. PICK r : r = context.run
    OBVIOUS
  <2>1. Objects(r) /\ UNCHANGED <<sent, context>> /\ phase' = "idle" /\ r # 0
    BY <1>3, <2>r, EndSteps
  <2>2. R!EventsIn(r)'
    <3>1. CASE R!EndRun
      <4>1. EventsFilled(r)
        BY <2>r, <3>1 DEF EventsInv, R!EndRun
      <4> QED
        BY <4>1, <2>1, <2>r, EventsEnded
    <3>2. CASE R!EndRunNotStarted
      <4>1. trees.gtid = files[r].gtid /\ R!EventsIn(r) /\ r \notin ended'
        BY <1>t, <2>r, <2>1, <3>2 DEF EventsInv, R!EndRunNotStarted, R!Closed, RunTypes
      <4> QED
        BY <4>1, <2>1, <2>r, EventsAppended
    <3> QED
      BY <1>3, <3>1, <3>2
  <2>3. \A q \in 1 .. Len(files) : q # r => R!EventsIn(q)'
    <3>1. \A q \in 1 .. Len(files) : q # r => q \in R!Closed
      BY <1>t, <2>r DEF R!Closed
    <3>2. \A q : q # r /\ q \in ended' => q \in ended
      BY <1>3, <2>r DEF R!EndRun, R!EndRunNotStarted
    <3> QED
      BY <3>1, <3>2, <2>1, EventsStable DEF EventsInv, Objects
  <2>4. trees'.gtid = files'[r].gtid /\ Len(files') = Len(files)
    BY <2>1 DEF Objects
  <2> QED
    BY <2>r, <2>1, <2>2, <2>3, <2>4 DEF EventsInv, R!Closed
<1>4. CASE R!EndProcessing
  BY <1>4, EventsStable DEF R!EndProcessing, R!treeVars, EventsInv, R!Closed
<1> QED
  BY <1>1, <1>2, <1>3, <1>4, RunSteps DEF Effects

(***************************************************************************)
(* The rows of the trigger and shaper trees.  If every trigger but the     *)
(* last had its shapers, the two trees are aligned, but for the row of a   *)
(* last trigger that has none yet; lastKind tells that it has none.  One   *)
(* shaper may have come before the first trigger; h is the rows of such.   *)
(***************************************************************************)
Triggers(r)    == R!OfKind(r, {"trigger"})
Shapers(r)     == R!OfKind(r, {"shaper"})
LastTrigger(r, t) == \A u \in Triggers(r) : u <= t
AllHadShapers(r) ==
  \A t \in Triggers(r) : LastTrigger(r, t) \/ \E q \in Shapers(r) : R!LastBefore(r, t, q)
Aligned(r, t, h) ==
  /\ \A i \in 1 .. Len(trees.shaper) - h : R!Pair(r, trees.trigger[i], trees.shaper[i + h])
  /\ IF \E q \in Shapers(r) : t < q
     THEN Len(trees.shaper) = Len(trees.trigger) + h
     ELSE /\ Len(trees.shaper) + 1 = Len(trees.trigger) + h
          /\ trees.trigger[Len(trees.trigger)].n = lastTrigger
PartsPaired(r) ==
  IF lastTrigger = 0
  THEN /\ Triggers(r) = {} /\ trees.trigger = <<>> /\ Len(trees.shaper) = R!Ahead(r)
       /\ Shapers(r) # {} => lastKind = "shaper"
  ELSE \E t \in Triggers(r) :
         /\ LastTrigger(r, t) /\ sent[r][t].n = lastTrigger
         /\ lastKind = IF \E q \in Shapers(r) : t < q THEN "shaper" ELSE "trigger"
         /\ AllHadShapers(r) => Aligned(r, t, R!Ahead(r))
PairsInv ==
  /\ \A r \in R!Closed : R!PairsIn(r)
  /\ \A r : phase = "running" /\ r = context.run => PartsPaired(r)
  /\ phase # "running" =>
       /\ lastTrigger = 0
       /\ context.run # 0 => /\ trees.trigger = files[context.run].trigger
                             /\ trees.shaper = files[context.run].shaper

\* Which rows of a run belong together is a matter of its records only.
LEMMA SameRecords ==
  ASSUME NEW r, sent'[r] = sent[r]
  PROVE  /\ R!NoLoneTrigger(r)' <=> R!NoLoneTrigger(r)
         /\ R!Ahead(r)' = R!Ahead(r)
         /\ \A a, b : R!Pair(r, a, b) => R!Pair(r, a, b)'
<1>1. \A ks : R!OfKind(r, ks)' = R!OfKind(r, ks)
  BY DEF R!OfKind
<1>2. \A t, q : R!LastBefore(r, t, q)' <=> R!LastBefore(r, t, q)
  BY <1>1 DEF R!LastBefore
<1>3. (R!NoLoneTrigger(r)' <=> R!NoLoneTrigger(r)) /\ (R!ShaperFirst(r)' <=> R!ShaperFirst(r))
  BY <1>1, <1>2 DEF R!NoLoneTrigger, R!ShaperFirst
<1>4. \A a, b : R!Pair(r, a, b) => R!Pair(r, a, b)'
  BY <1>1, <1>2 DEF R!Pair
<1> QED
  BY <1>3, <1>4 DEF R!Ahead

\* What leaves the records and the rows of a run alone leaves its rows paired.
LEMMA PairsStable ==
  ASSUME NEW r, sent'[r] = sent[r], files'[r].trigger = files[r].trigger,
         files'[r].shaper = files[r].shaper, R!PairsIn(r)
  PROVE  R!PairsIn(r)'
<1>a. PICK a, b, h : a = files[r].trigger /\ b = files[r].shaper /\ h = R!Ahead(r)
  OBVIOUS
<1>1. R!Ahead(r)' = h /\ files'[r].trigger = a /\ files'[r].shaper = b
  BY <1>a, SameRecords
<1> SUFFICES ASSUME R!NoLoneTrigger(r)
             PROVE  Len(b) = Len(a) + h /\ \A i \in DOMAIN a : R!Pair(r, a[i], b[i + h])'
  BY <1>1, SameRecords DEF R!PairsIn, R!Pair
<1>2. Len(b) = Len(a) + h /\ \A i \in DOMAIN a : R!Pair(r, a[i], b[i + h])
  BY <1>a DEF R!PairsIn
<1> QED
  BY <1>2, SameRecords

\* Which trigger is the last before a place does not change.
NewParts(kind, r, k) ==
  /\ Triggers(r)' = Triggers(r) \cup (IF kind = "trigger" THEN {k} ELSE {})
  /\ Shapers(r)' = Shapers(r) \cup (IF kind = "shaper" THEN {k} ELSE {})
  /\ Triggers(r) \subseteq 1 .. k - 1 /\ Shapers(r) \subseteq 1 .. k - 1
  /\ \A t, q \in 1 .. k - 1 : R!LastBefore(r, t, q)' <=> R!LastBefore(r, t, q)
  /\ \A p \in 1 .. k - 1 : sent'[r][p] = sent[r][p]
  /\ sent'[r][k].n = R!Number /\ k \in Nat \ {0}

\* A record that comes later is not the last before an earlier one.
LEMMA ReceivedParts ==
  ASSUME RunTypes, NEW kind \in Kinds, NEW c \in [run : Nat, sub : Subs],
         NEW r, NEW k, NewRecord(kind, c, r, k), NewKind(kind, r, k)
  PROVE  NewParts(kind, r, k)
<1>1. /\ Triggers(r)' = Triggers(r) \cup (IF kind = "trigger" THEN {k} ELSE {})
      /\ Triggers(r) \subseteq 1 .. k - 1
  BY DEF NewKind, Triggers
<1>2. /\ Shapers(r)' = Shapers(r) \cup (IF kind = "shaper" THEN {k} ELSE {})
      /\ Shapers(r) \subseteq 1 .. k - 1
  BY DEF NewKind, Shapers
<1>3. /\ \A p \in 1 .. k - 1 : sent'[r][p] = sent[r][p]
      /\ sent'[r][k].n = R!Number /\ k \in Nat \ {0}
  BY DEF NewRecord
<1>4. ASSUME NEW t \in 1 .. k - 1, NEW q \in 1 .. k - 1
      PROVE  R!LastBefore(r, t, q)' <=> R!LastBefore(r, t, q)
  <2>1. ~(k < q)
    BY <1>3
  <2> QED
    BY <2>1, <1>1 DEF R!LastBefore, Triggers
<1> QED
  BY <1>1, <1>2, <1>3, <1>4 DEF NewParts

\* Only a shaper before any trigger is ahead of them.
LEMMA AheadKept ==
  ASSUME NEW kind \in Kinds, NEW r, NEW k, NewParts(kind, r, k), kind = "shaper" => Triggers(r) # {}
  PROVE  R!Ahead(r)' = R!Ahead(r)
<1>1. /\ Triggers(r)' = Triggers(r) \cup (IF kind = "trigger" THEN {k} ELSE {})
      /\ Shapers(r)' = Shapers(r) \cup (IF kind = "shaper" THEN {k} ELSE {})
      /\ Triggers(r) \subseteq 1 .. k - 1 /\ Shapers(r) \subseteq 1 .. k - 1 /\ k \in Nat
  BY DEF NewParts
<1>2. /\ R!ShaperFirst(r) <=> \E q \in Shapers(r) : \A t \in Triggers(r) : q < t
      /\ R!ShaperFirst(r)' <=> \E q \in Shapers(r)' : \A t \in Triggers(r)' : q < t
  BY DEF R!ShaperFirst, Shapers, Triggers
<1>3. \A p \in 1 .. k - 1 : p < k /\ ~(k < p)
  BY <1>1
<1>4. R!ShaperFirst(r)' <=> R!ShaperFirst(r)
  BY <1>1, <1>2, <1>3
<1> QED
  BY <1>4 DEF R!Ahead

\* A shaper that comes before any trigger is ahead.
LEMMA AheadOfAll ==
  ASSUME NEW r, Triggers(r) = {}
  PROVE  R!Ahead(r) = IF Shapers(r) = {} THEN 0 ELSE 1
BY DEF R!Ahead, R!ShaperFirst, Triggers, Shapers

\* Rows that belong together still do.
LEMMA PairKept ==
  ASSUME NEW kind \in Kinds, NEW r, NEW k, NewParts(kind, r, k),
         NEW a, NEW b, R!Pair(r, a, b)
  PROVE  R!Pair(r, a, b)'
<1>1. PICK t \in Triggers(r), q \in Shapers(r) :
        R!LastBefore(r, t, q) /\ a.n = sent[r][t].n /\ b.n = sent[r][q].n
  BY DEF R!Pair, Triggers, Shapers
<1>2. /\ t \in Triggers(r)' /\ q \in Shapers(r)' /\ R!LastBefore(r, t, q)'
      /\ sent'[r][t] = sent[r][t] /\ sent'[r][q] = sent[r][q]
  BY <1>1 DEF NewParts
<1> QED
  BY <1>1, <1>2 DEF R!Pair, Triggers, Shapers

\* The rows that are there stay paired, wherever the trees have grown.
LEMMA RowsKept ==
  ASSUME NEW kind \in Kinds, NEW r, NEW k, NewParts(kind, r, k),
         NEW i, NEW j, NEW a, NEW b, a = trees.trigger[i], b = trees.shaper[j],
         R!Pair(r, a, b), trees'.trigger[i] = a, trees'.shaper[j] = b
  PROVE  R!Pair(r, trees.trigger[i], trees.shaper[j])'
<1>1. R!Pair(r, a, b)'
  BY PairKept
<1> QED
  BY <1>1 DEF R!Pair

\* A record that is neither trigger nor shaper leaves the trees alone.
LEMMA OtherParts ==
  ASSUME NEW kind \in Kinds, kind \notin {"trigger", "shaper"}, NEW r, NEW k,
         NewParts(kind, r, k), PartsPaired(r), trees'.trigger = trees.trigger,
         trees'.shaper = trees.shaper, lastKind' = lastKind, lastTrigger' = lastTrigger
  PROVE  PartsPaired(r)'
<1>1. Triggers(r)' = Triggers(r) /\ Shapers(r)' = Shapers(r)
  BY DEF NewParts
<1>2. AllHadShapers(r)' => AllHadShapers(r)
  <2>1. \A t \in Triggers(r) : \A q \in Shapers(r) : R!LastBefore(r, t, q)' <=> R!LastBefore(r, t, q)
    BY DEF NewParts
  <2> QED
    BY <1>1, <2>1 DEF AllHadShapers, LastTrigger
<1>h. PICK h : h = R!Ahead(r)
  OBVIOUS
<1>a. R!Ahead(r)' = h
  BY <1>h, AheadKept
<1>3. ASSUME NEW t \in Triggers(r), Aligned(r, t, h) PROVE Aligned(r, t, h)'
  <2>1. \A i \in 1 .. Len(trees.shaper) - h : R!Pair(r, trees.trigger[i], trees.shaper[i + h])'
    BY <1>3, RowsKept DEF Aligned
  <2> QED
    BY <1>1, <1>3, <2>1 DEF Aligned
<1>4. \A t \in Triggers(r) : sent'[r][t] = sent[r][t]
  BY DEF NewParts
<1>5. CASE lastTrigger = 0
  BY <1>1, <1>5, <1>h, <1>a DEF PartsPaired
<1>6. CASE lastTrigger # 0
  <2>1. PICK t \in Triggers(r) :
          /\ LastTrigger(r, t) /\ sent[r][t].n = lastTrigger
          /\ lastKind = IF \E q \in Shapers(r) : t < q THEN "shaper" ELSE "trigger"
          /\ AllHadShapers(r) => Aligned(r, t, h)
    BY <1>6, <1>h DEF PartsPaired
  <2>2. AllHadShapers(r)' => Aligned(r, t, R!Ahead(r))'
    BY <1>a, <1>2, <1>3, <2>1 DEF Aligned
  <2> QED
    BY <1>1, <1>4, <1>6, <2>1, <2>2 DEF PartsPaired, LastTrigger
<1> QED
  BY <1>5, <1>6

\* A trigger adds a row, and the trigger before it had its shapers.
LEMMA TriggerCame ==
  ASSUME RunTypes, NEW r, NEW k, NewParts("trigger", r, k), PartsPaired(r), PartsFilled("trigger")
  PROVE  PartsPaired(r)'
<1>o. PICK row : row = R!Row([n |-> R!Number])
  OBVIOUS
<1> DEFINE was == trees.trigger
           now == trees'.trigger
<1>1. /\ was \in Seq(PartRow) /\ trees.shaper \in Seq(PartRow) /\ row \in PartRow /\ row.n = R!Number
      /\ now = Append(was, row) /\ trees'.shaper = trees.shaper
      /\ lastTrigger' = R!Number /\ R!Number # 0 /\ lastKind' = "trigger"
  BY <1>o, NumberType, PartRowType DEF RunTypes, TreeType, PartsFilled
<1>2. /\ Len(now) = Len(was) + 1 /\ now[Len(now)].n = lastTrigger'
      /\ \A i \in DOMAIN was : i \in DOMAIN now /\ now[i] = was[i]
  <2> HIDE DEF was, now
  <2> QED
    BY <1>1
<1>3. /\ Triggers(r)' = Triggers(r) \cup {k} /\ Shapers(r)' = Shapers(r)
      /\ Triggers(r) \subseteq 1 .. k - 1 /\ Shapers(r) \subseteq 1 .. k - 1
      /\ k \in Nat \ {0} /\ sent'[r][k].n = R!Number
  BY DEF NewParts
<1>h. PICK h : h = R!Ahead(r)
  OBVIOUS
<1>a. R!Ahead(r)' = h /\ h \in {0, 1}
  <2>1. R!Ahead(r) \in {0, 1}
    BY DEF R!Ahead
  <2>2. "trigger" \in Kinds
    BY DEF Kinds
  <2> QED
    BY <1>h, <2>1, <2>2, AheadKept
<1>4. LastTrigger(r, k)' /\ ~(\E q \in Shapers(r) : k < q)
  BY <1>3 DEF LastTrigger
<1>5. ASSUME AllHadShapers(r)'
      PROVE  \A t \in Triggers(r) : \E q \in Shapers(r) : R!LastBefore(r, t, q)
  <2>1. \A t \in Triggers(r) : ~LastTrigger(r, t)'
    BY <1>3 DEF LastTrigger
  <2>2. \A t \in Triggers(r) : \A q \in Shapers(r) : R!LastBefore(r, t, q)' <=> R!LastBefore(r, t, q)
    BY DEF NewParts
  <2> QED
    BY <1>3, <1>5, <2>1, <2>2 DEF AllHadShapers
<1>6. ASSUME AllHadShapers(r)'
      PROVE  /\ \A i \in 1 .. Len(trees.shaper) - h : R!Pair(r, was[i], trees.shaper[i + h])
             /\ Len(trees.shaper) = Len(was) + h
  <2>1. CASE lastTrigger = 0
    <3>1. Len(trees.shaper) = h /\ Len(was) = 0
      BY <2>1, <1>h DEF PartsPaired
    <3> QED
      BY <3>1, <1>a
  <2>2. CASE lastTrigger # 0
    <3>1. AllHadShapers(r)
      BY <1>5, <1>6 DEF AllHadShapers
    <3>2. PICK t \in Triggers(r) : Aligned(r, t, h)
      BY <2>2, <3>1, <1>h DEF PartsPaired
    <3>3. \E q \in Shapers(r) : t < q
      BY <1>5, <1>6 DEF R!LastBefore
    <3> QED
      BY <3>2, <3>3 DEF Aligned
  <2> QED
    BY <2>1, <2>2
<1>7. ASSUME AllHadShapers(r)' PROVE Aligned(r, k, h)'
  <2>1. ASSUME NEW i \in 1 .. Len(trees.shaper) - h
        PROVE  R!Pair(r, trees.trigger[i], trees.shaper[i + h])'
    <3>0. i \in DOMAIN was
      BY <1>1, <1>a, <1>6, <1>7, <2>1
    <3>1. /\ R!Pair(r, was[i], trees.shaper[i + h])
          /\ trees'.trigger[i] = was[i] /\ trees'.shaper[i + h] = trees.shaper[i + h]
      BY <1>1, <1>2, <1>6, <1>7, <2>1, <3>0
    <3>2. "trigger" \in Kinds
      BY DEF Kinds
    <3> QED
      BY <3>1, <3>2, RowsKept
  <2>2. Len(trees'.shaper) + 1 = Len(now) + h /\ now[Len(now)].n = lastTrigger'
    <3>1. Len(trees'.shaper) = Len(was) + h /\ Len(was) \in Nat
      BY <1>1, <1>6, <1>7
    <3> QED
      BY <3>1, <1>2, <1>a
  <2> QED
    BY <1>1, <1>3, <1>4, <2>1, <2>2 DEF Aligned
<1>8. AllHadShapers(r)' => Aligned(r, k, R!Ahead(r))'
  BY <1>a, <1>7 DEF Aligned
<1> QED
  BY <1>1, <1>3, <1>4, <1>8 DEF PartsPaired

\* The first shaper before any trigger adds a row that is ahead.
LEMMA LoneShaperCame ==
  ASSUME RunTypes, NEW r, NEW k, NewParts("shaper", r, k), PartsPaired(r), PartsFilled("shaper"),
         lastTrigger = 0
  PROVE  PartsPaired(r)'
<1>1. /\ Triggers(r) = {} /\ trees.trigger = <<>> /\ Len(trees.shaper) = R!Ahead(r) /\ Shapers(r) = {}
      /\ trees'.trigger = trees.trigger /\ lastTrigger' = 0 /\ lastKind' = "shaper"
  BY DEF PartsPaired, PartsFilled
<1>2. Triggers(r)' = {} /\ Shapers(r)' = {k}
  BY <1>1 DEF NewParts
<1>3. R!Ahead(r) = 0
  BY <1>1, AheadOfAll
<1>4. R!Ahead(r)' = 1
  BY <1>2 DEF R!Ahead, R!ShaperFirst, Triggers, Shapers
<1>5. Len(trees'.shaper) = 1
  <2>1. PICK row : row = R!Row([n |-> R!Number])
    OBVIOUS
  <2>2. trees.shaper \in Seq(PartRow) /\ row \in PartRow /\ trees'.shaper = Append(trees.shaper, row)
    BY <2>1, NumberType, PartRowType DEF RunTypes, TreeType, PartsFilled
  <2> QED
    BY <2>2, <1>1, <1>3
<1> QED
  BY <1>1, <1>2, <1>4, <1>5 DEF PartsPaired

\* A shaper adds a row, and another one for its trigger unless it is the first after it.
LEMMA ShaperCame ==
  ASSUME RunTypes, NEW r, NEW k, NewParts("shaper", r, k), PartsPaired(r), PartsFilled("shaper"),
         lastTrigger # 0
  PROVE  PartsPaired(r)'
<1>o. PICK row : row = R!Row([n |-> R!Number])
  OBVIOUS
<1>a. PICK again : again = R!Row([n |-> lastTrigger])
  OBVIOUS
<1>t. PICK t \in Triggers(r) :
        /\ LastTrigger(r, t) /\ sent[r][t].n = lastTrigger
        /\ lastKind = IF \E q \in Shapers(r) : t < q THEN "shaper" ELSE "trigger"
        /\ AllHadShapers(r) => Aligned(r, t, R!Ahead(r))
  BY DEF PartsPaired
<1>h. PICK h : h = R!Ahead(r)
  OBVIOUS
<1>b. R!Ahead(r)' = h /\ h \in {0, 1}
  <2>1. R!Ahead(r) \in {0, 1}
    BY DEF R!Ahead
  <2>2. "shaper" \in Kinds
    BY DEF Kinds
  <2> QED
    BY <1>h, <1>t, <2>1, <2>2, AheadKept
<1>1. /\ trees.trigger \in Seq(PartRow) /\ trees.shaper \in Seq(PartRow)
      /\ row \in PartRow /\ row.n = R!Number /\ again \in PartRow /\ again.n = lastTrigger
      /\ trees'.trigger = IF lastKind = "shaper" THEN Append(trees.trigger, again) ELSE trees.trigger
      /\ trees'.shaper = Append(trees.shaper, row)
      /\ lastTrigger' = lastTrigger /\ lastTrigger # 0 /\ lastKind' = "shaper"
  BY <1>o, <1>a, NumberType, PartRowType DEF RunTypes, TreeType, PartsFilled
<1>3. /\ Triggers(r)' = Triggers(r) /\ Shapers(r)' = Shapers(r) \cup {k}
      /\ Triggers(r) \subseteq 1 .. k - 1 /\ Shapers(r) \subseteq 1 .. k - 1
      /\ k \in Nat \ {0} /\ sent'[r][k].n = R!Number /\ sent'[r][t].n = lastTrigger
  <2>1. /\ Triggers(r)' = Triggers(r) /\ Shapers(r)' = Shapers(r) \cup {k}
        /\ Triggers(r) \subseteq 1 .. k - 1 /\ Shapers(r) \subseteq 1 .. k - 1
        /\ k \in Nat \ {0} /\ sent'[r][k].n = R!Number
    BY DEF NewParts
  <2>2. sent'[r][t] = sent[r][t]
    BY <2>1, <1>t DEF NewParts
  <2> QED
    BY <2>1, <2>2, <1>t
<1>4. LastTrigger(r, t)' /\ t < k /\ R!LastBefore(r, t, k)'
  BY <1>3, <1>t DEF LastTrigger, R!LastBefore, Triggers
<1>5. ASSUME AllHadShapers(r)' PROVE AllHadShapers(r)
  <2>1. ASSUME NEW u \in Triggers(r), ~LastTrigger(r, u)
        PROVE  \E q \in Shapers(r) : R!LastBefore(r, u, q)
    <3>1. ~LastTrigger(r, u)' /\ u \in Triggers(r)'
      BY <1>3, <2>1 DEF LastTrigger
    <3>2. PICK q \in Shapers(r)' : R!LastBefore(r, u, q)'
      BY <1>5, <3>1 DEF AllHadShapers
    <3>3. q # k
      <4>1. u <= t /\ u # t
        BY <1>t, <2>1 DEF LastTrigger
      <4>2. u \in Int /\ t \in Int
        BY <1>3, <2>1
      <4>3. ~(t <= u)
        BY <4>1, <4>2
      <4> QED
        BY <3>2, <4>3, <1>3, <1>4 DEF R!LastBefore, Triggers
    <3> QED
      BY <1>3, <2>1, <3>2, <3>3 DEF NewParts
  <2> QED
    BY <2>1 DEF AllHadShapers
<1>6. ASSUME Aligned(r, t, h) PROVE Aligned(r, t, h)'
  <2>m. PICK m : m = Len(trees.shaper) + 1 - h
    OBVIOUS
  <2> DEFINE trig == trees.trigger
             shap == trees.shaper
  <2>0. Len(shap) \in Nat /\ Len(trig) \in Nat /\ m \in Int /\ m + h = Len(shap) + 1
    BY <1>1, <1>b, <2>m
  <2>1. /\ Len(trees'.trigger) = m /\ trees'.trigger[m].n = lastTrigger
        /\ \A i \in 1 .. m - 1 : trees'.trigger[i] = trig[i]
    <3>1. CASE lastKind = "shaper"
      <4>1. Len(trig) = m - 1 /\ trees'.trigger = Append(trig, again)
        <5>1. Len(shap) = Len(trig) + h
          BY <3>1, <1>6, <1>t DEF Aligned
        <5> QED
          BY <3>1, <5>1, <1>1, <1>b, <2>0
      <4>2. trig \in Seq(PartRow) /\ again \in PartRow /\ again.n = lastTrigger
        BY <1>1
      <4> HIDE DEF trig, shap
      <4> QED
        BY <4>1, <4>2, <2>0
    <3>2. CASE lastKind # "shaper"
      <4>1. Len(trig) = m /\ trig[Len(trig)].n = lastTrigger /\ trees'.trigger = trig
        <5>1. Len(shap) + 1 = Len(trig) + h /\ trig[Len(trig)].n = lastTrigger
          BY <3>2, <1>6, <1>t DEF Aligned
        <5> QED
          BY <3>2, <5>1, <1>1, <1>b, <2>0
      <4> HIDE DEF trig
      <4> QED
        BY <4>1
    <3> QED
      BY <3>1, <3>2
  <2>2. /\ Len(trees'.shaper) = m + h /\ trees'.shaper[m + h] = row
        /\ \A j \in 1 .. Len(shap) : trees'.shaper[j] = shap[j]
    BY <1>1, <2>0
  <2>3. R!Pair(r, trees.trigger[m], trees.shaper[m + h])'
    <3>1. PICK a, b : a = trees'.trigger[m] /\ b = trees'.shaper[m + h]
      OBVIOUS
    <3>2. R!Pair(r, a, b)'
      BY <1>1, <1>3, <1>4, <2>1, <2>2, <3>1 DEF R!Pair, Triggers, Shapers
    <3> QED
      BY <3>1, <3>2 DEF R!Pair
  <2>4. ASSUME NEW i \in 1 .. m - 1
        PROVE  R!Pair(r, trees.trigger[i], trees.shaper[i + h])'
    <3>1. i \in 1 .. Len(shap) - h /\ i + h \in 1 .. Len(shap)
      BY <2>0, <2>4, <1>b
    <3>2. R!Pair(r, trig[i], shap[i + h])
      BY <1>6, <3>1 DEF Aligned
    <3>3. trees'.trigger[i] = trig[i] /\ trees'.shaper[i + h] = shap[i + h]
      BY <2>1, <2>2, <2>4, <3>1
    <3>4. "shaper" \in Kinds
      BY DEF Kinds
    <3> QED
      BY <3>2, <3>3, <3>4, RowsKept
  <2>5. Len(trees'.shaper) = Len(trees'.trigger) + h /\ \E q \in Shapers(r)' : t < q
    BY <2>1, <2>2, <1>3, <1>4
  <2>6. ASSUME NEW i \in 1 .. Len(trees'.shaper) - h
        PROVE  R!Pair(r, trees.trigger[i], trees.shaper[i + h])'
    <3>1. i = m \/ i \in 1 .. m - 1
      BY <2>0, <2>2, <2>6, <1>b
    <3> QED
      BY <3>1, <2>3, <2>4
  <2> QED
    BY <2>5, <2>6 DEF Aligned
<1>7. AllHadShapers(r)' => Aligned(r, t, R!Ahead(r))'
  <2>1. AllHadShapers(r)' => Aligned(r, t, h)'
    BY <1>5, <1>6, <1>t, <1>h
  <2> QED
    BY <2>1, <1>b DEF Aligned
<1>8. \E q \in Shapers(r)' : t < q
  BY <1>3, <1>4
<1> QED
  BY <1>1, <1>3, <1>4, <1>7, <1>8 DEF PartsPaired

\* A record of any kind keeps the trees aligned.
LEMMA PartsReceived ==
  ASSUME RunTypes, PairsInv, NEW kind \in Kinds, NEW c \in [run : Nat, sub : Subs], c.run = context.run,
         R!Receive(kind, c), PartsFilled(kind), NEW r, r = context.run
  PROVE  PartsPaired(r)'
<1>k. PICK k : k = Len(sent[r]) + 1
  OBVIOUS
<1>1. NewParts(kind, r, k)
  <2>1. NewRecord(kind, c, r, k) /\ NewKind(kind, r, k)
    BY <1>k, Received, ReceivedKinds
  <2> QED
    BY <2>1, ReceivedParts
<1>2. PartsPaired(r)
  BY DEF PairsInv, R!Receive
<1>3. CASE kind = "trigger"
  BY <1>1, <1>2, <1>3, TriggerCame
<1>4. CASE kind = "shaper"
  BY <1>1, <1>2, <1>4, ShaperCame, LoneShaperCame
<1>5. CASE kind \notin {"trigger", "shaper"}
  <2>1. /\ trees'.trigger = trees.trigger /\ trees'.shaper = trees.shaper
        /\ lastKind' = lastKind /\ lastTrigger' = lastTrigger
    BY <1>5 DEF PartsFilled
  <2> QED
    BY <1>1, <1>2, <1>5, <2>1, OtherParts
<1> QED
  BY <1>3, <1>4, <1>5

\* When every trigger had its shapers, no row of the trigger tree waits for one.
LEMMA PartsEnded ==
  ASSUME RunTypes, NEW r, PartsPaired(r), sent' = sent,
         files'[r].trigger = trees.trigger, files'[r].shaper = trees.shaper
  PROVE  R!PairsIn(r)'
<1>0. trees.trigger \in Seq(PartRow) /\ R!Ahead(r) \in {0, 1}
  BY DEF RunTypes, TreeType, R!Ahead
<1>1. ASSUME R!NoLoneTrigger(r)
      PROVE  /\ Len(trees.shaper) = Len(trees.trigger) + R!Ahead(r)
             /\ \A i \in DOMAIN trees.trigger :
                  R!Pair(r, trees.trigger[i], trees.shaper[i + R!Ahead(r)])
  <2>1. CASE lastTrigger = 0
    <3>1. trees.trigger = <<>> /\ Len(trees.shaper) = R!Ahead(r)
      BY <2>1 DEF PartsPaired
    <3> QED
      BY <3>1, <1>0
  <2>2. CASE lastTrigger # 0
    <3>1. AllHadShapers(r)
      BY <1>1 DEF AllHadShapers, R!NoLoneTrigger, Triggers, Shapers
    <3>2. PICK t \in Triggers(r) : Aligned(r, t, R!Ahead(r))
      BY <2>2, <3>1 DEF PartsPaired
    <3>3. \E q \in Shapers(r) : t < q
      BY <1>1, <3>2 DEF R!NoLoneTrigger, R!LastBefore, Triggers, Shapers
    <3>4. Len(trees.shaper) = Len(trees.trigger) + R!Ahead(r)
      BY <3>2, <3>3 DEF Aligned
    <3>5. DOMAIN trees.trigger = 1 .. Len(trees.shaper) - R!Ahead(r)
      BY <3>4, <1>0
    <3> QED
      BY <3>2, <3>4, <3>5 DEF Aligned
  <2> QED
    BY <2>1, <2>2
<1>a. PICK a, b, h : a = trees.trigger /\ b = trees.shaper /\ h = R!Ahead(r)
  OBVIOUS
<1>2. R!Ahead(r)' = h /\ files'[r].trigger = a /\ files'[r].shaper = b
  BY <1>a, SameRecords
<1> SUFFICES ASSUME R!NoLoneTrigger(r)
             PROVE  Len(b) = Len(a) + h /\ \A i \in DOMAIN a : R!Pair(r, a[i], b[i + h])'
  BY <1>2, SameRecords DEF R!PairsIn, R!Pair
<1>3. Len(b) = Len(a) + h /\ \A i \in DOMAIN a : R!Pair(r, a[i], b[i + h])
  BY <1>1, <1>a
<1> QED
  BY <1>3, SameRecords

\* Every step keeps the rows of the two trees paired.
LEMMA PairsStep == ASSUME RunTypes, PairsInv, R!Steps PROVE PairsInv'
<1>t. /\ context.run \in Nat /\ Len(files) = context.run /\ Len(sent) = context.run
  BY DEF RunTypes
<1>1. CASE R!StartRun
  <2>r. PICK r : r = context.run + 1
    OBVIOUS
  <2>1. /\ NewRun(r) /\ phase = "idle" /\ lastTrigger' = 0
        /\ trees'.trigger = <<>> /\ trees'.shaper = <<>>
    BY <1>1, <2>r, Started DEF R!StartRun, R!StartTrees, R!NoTrees, PairsInv
  <2>2. \A q \in 1 .. r - 1 : R!PairsIn(q)'
    BY <2>1, PairsStable DEF NewRun, PairsInv, R!Closed
  <2>3. /\ DOMAIN sent'[r] = {} /\ context'.run = r
        /\ r \in Nat \ {0} /\ Len(files') = r /\ phase' = "running"
    BY <2>1 DEF NewRun
  <2>4. PartsPaired(r)'
    <3>1. Triggers(r)' = {} /\ Shapers(r)' = {}
      BY <2>3 DEF Triggers, Shapers, R!OfKind
    <3>2. R!Ahead(r)' = 0
      BY <3>1 DEF R!Ahead, R!ShaperFirst, Shapers
    <3> QED
      BY <2>1, <3>1, <3>2 DEF PartsPaired
  <2> QED
    BY <2>2, <2>3, <2>4 DEF PairsInv, R!Closed
<1>2. ASSUME NEW kind \in Kinds, NEW c \in [run : Nat, sub : Subs], c.run = context.run,
             R!Receive(kind, c), PartsFilled(kind)
      PROVE  PairsInv'
  <2>r. PICK r : r = context.run
    OBVIOUS
  <2>k. PICK k : k = Len(sent[r]) + 1
    OBVIOUS
  <2>1. NewRecord(kind, c, r, k) /\ NewHeader(c, r)
    BY <1>2, <2>r, <2>k, Received, ReceivedFiles
  <2>2. phase = "running" /\ phase' = "running" /\ context'.run = r
    BY <1>2, <2>r DEF R!Receive
  <2>3. \A q \in 1 .. Len(files) - 1 : R!PairsIn(q)'
    <3>1. \A q \in 1 .. Len(files) - 1 : sent'[q] = sent[q] /\ files'[q] = files[q]
      <4>1. \A q \in 1 .. Len(files) - 1 : q # r /\ q \in 1 .. Len(files) /\ q \in 1 .. Len(sent)
        BY <1>t, <2>r
      <4> QED
        BY <4>1, <2>1 DEF NewRecord, NewHeader
    <3> QED
      BY <3>1, <2>2, PairsStable DEF PairsInv, R!Closed
  <2>4. PartsPaired(r)'
    BY <1>2, <2>r, PartsReceived
  <2>5. Len(files') = Len(files)
    BY <2>1 DEF NewHeader
  <2> QED
    BY <2>2, <2>3, <2>4, <2>5 DEF PairsInv, R!Closed
<1>3. CASE R!EndRun \/ R!EndRunNotStarted
  <2>r. PICK r : r = context.run
    OBVIOUS
  <2>1. Objects(r) /\ UNCHANGED <<sent, context>> /\ phase' = "idle" /\ r # 0
    BY <1>3, <2>r, EndSteps
  <2>2. lastTrigger' = 0
    BY <1>3 DEF R!EndRun, R!EndRunNotStarted, R!EndTrees
  <2>3. R!PairsIn(r)'
    <3>0. files'[r].trigger = trees.trigger /\ files'[r].shaper = trees.shaper
      BY <2>1 DEF Objects
    <3>1. CASE phase = "running"
      <4>1. PartsPaired(r)
        BY <2>r, <3>1 DEF PairsInv
      <4> QED
        BY <3>0, <4>1, <2>1, PartsEnded
    <3>2. CASE phase # "running"
      <4>1. R!PairsIn(r) /\ trees.trigger = files[r].trigger /\ trees.shaper = files[r].shaper
        BY <1>t, <2>r, <2>1, <3>2 DEF PairsInv, R!Closed
      <4> QED
        BY <3>0, <4>1, <2>1, PairsStable
    <3> QED
      BY <3>1, <3>2
  <2>4. \A q \in 1 .. Len(files) : q # r => R!PairsIn(q)'
    <3>1. \A q \in 1 .. Len(files) : q # r => q \in R!Closed
      BY <1>t, <2>r DEF R!Closed
    <3> QED
      BY <3>1, <2>1, PairsStable DEF PairsInv, Objects
  <2>5. /\ trees'.trigger = files'[r].trigger /\ trees'.shaper = files'[r].shaper
        /\ Len(files') = Len(files)
    BY <2>1 DEF Objects
  <2> QED
    BY <2>r, <2>1, <2>2, <2>3, <2>4, <2>5 DEF PairsInv, R!Closed
<1>4. CASE R!EndProcessing
  BY <1>4, PairsStable DEF R!EndProcessing, R!treeVars, PairsInv, R!Closed
<1> QED
  BY <1>1, <1>2, <1>3, <1>4, RunSteps DEF Effects

(***************************************************************************)
(* Together: what holds when it is the run processors that are looked at.  *)
(***************************************************************************)
RunInv == RunTypes /\ HeadersInv /\ CountsInv /\ EventsInv /\ PairsInv

\* The program crashes at a shaper with no trigger before it in its run.
CrashInv == crashed => phase = "running" /\ lastTrigger = 0

\* Before the first run there is no file and nothing is counted.
LEMMA RunStarts == R!Init => RunInv
<1> SUFFICES ASSUME R!Init PROVE RunInv
  OBVIOUS
<1>1. RunTypes
  <2>1. R!Places = {}
    BY DEF R!Init, R!Places
  <2>2. IsFiniteSet(R!Places)
    BY <2>1, FS_EmptySet
  <2>3. trees \in TreeType /\ files \in Seq(RunFileType) /\ sent \in Seq(Seq(RunRecordType))
    BY DEF R!Init, R!NoTrees, TreeType
  <2> QED
    BY <2>2, <2>3 DEF R!Init, R!NoFile, RunTypes, Subs
<1>2. R!Closed = {} /\ phase = "idle" /\ context.run = 0 /\ Len(files) = 0 /\ lastTrigger = 0
  BY DEF R!Init, R!Closed
<1> QED
  BY <1>1, <1>2 DEF RunInv, HeadersInv, CountsInv, EventsInv, PairsInv

\* Every step keeps all of it.
LEMMA RunGoesOn == ASSUME RunInv, R!Steps PROVE RunInv'
BY RunTypesStep, HeadersStep, CountsStep, EventsStep, PairsStep DEF RunInv

\* What the invariant says of the closed files.
LEMMA RunShows == ASSUME RunInv, CrashInv PROVE R!FileOfOwnRun /\ R!EventRows /\ R!PairedRows
<1>1. R!FileOfOwnRun /\ R!EventRows /\ \A r \in R!Closed : R!PairsIn(r)
  BY DEF RunInv, RunTypes, HeadersInv, CountsInv, EventsInv, PairsInv, R!FileOfOwnRun, R!EventRows,
         R!Closed
<1>2. crashed => R!OfKind(context.run, {"trigger"}) = {}
  BY DEF RunInv, CrashInv, PairsInv, PartsPaired, Triggers
<1> QED
  BY <1>1, <1>2 DEF R!PairedRows

(***************************************************************************)
(* A step of another part leaves the run processors alone.                 *)
(***************************************************************************)
RunGoes == part = "runs" => RunInv /\ CrashInv
LEMMA RunHolds == AnySpec => []RunGoes
<1>1. AnyInit => RunGoes
  BY RunStarts DEF AnyInit, RunGoes, R!Init, CrashInv
<1>2. RunGoes /\ [AnyNext]_allVars => RunGoes'
  <2> SUFFICES ASSUME RunGoes, [AnyNext]_allVars, part' = "runs" PROVE RunInv' /\ CrashInv'
    BY DEF RunGoes
  <2> DEFINE writtenVars == <<setup, phase, context, file, lastSub, histogram, count, trees, fields,
                              fillCount, lastKind, lastTrigger, files, sent, ended>>
  <2>0. part = "runs"
    BY DEF AnyNext, allVars
  <2>1. ASSUME R!Steps PROVE RunInv'
    BY <2>0, <2>1, RunGoesOn DEF RunGoes
  <2>2. ASSUME UNCHANGED writtenVars PROVE RunInv'
    <3>1. RunTypes'
      BY <2>0, <2>2 DEF RunGoes, RunInv, RunTypes, R!Places
    <3>2. HeadersInv'
      BY <2>0, <2>2, HeadersStable DEF RunGoes, RunInv, HeadersInv
    <3>3. CountsInv'
      <4>1. \A r, ks : R!OfKind(r, ks)' = R!OfKind(r, ks)
        BY <2>2 DEF R!OfKind
      <4>2. \A r : R!OwnCounts(r) => R!OwnCounts(r)'
        BY <2>2, CountsStable
      <4>3. CountsInv /\ R!Closed' = R!Closed
        BY <2>0, <2>2 DEF RunGoes, RunInv, R!Closed
      <4> QED
        BY <2>2, <4>1, <4>2, <4>3 DEF CountsInv
    <3>4. EventsInv'
      <4>1. \A r : R!EventsIn(r) => R!EventsIn(r)'
        BY <2>2, EventsStable
      <4>2. EventsInv /\ R!Closed' = R!Closed
        BY <2>0, <2>2 DEF RunGoes, RunInv, R!Closed
      <4>3. ASSUME NEW r, EventsFilled(r) PROVE EventsFilled(r)'
        <5>1. R!OfKind(r, {"gtid"})' = R!OfKind(r, {"gtid"})
          BY <2>2 DEF R!OfKind
        <5>2. ASSUME NEW g, NEW w, R!RowOfEvent(r, g, w) PROVE R!RowOfEvent(r, g, w)'
          BY <2>2, <5>2 DEF R!RowOfEvent, R!Upto, R!OfKind
        <5>3. \A g : R!Nth(r, g)' = R!Nth(r, g) /\ (LastEvent(r, g)' <=> LastEvent(r, g))
          BY <5>1 DEF R!Nth, LastEvent
        <5>4. R!Row(fields)' = R!Row(fields) /\ UNCHANGED <<trees, fillCount>>
          BY <2>2 DEF R!Row
        <5>5. ASSUME NEW g, R!RowOfEvent(r, g, R!Row(fields)) PROVE R!RowOfEvent(r, g, R!Row(fields))'
          <6>1. PICK w : w = R!Row(fields)
            OBVIOUS
          <6>2. R!RowOfEvent(r, g, w)'
            BY <5>2, <5>5, <6>1
          <6> QED
            BY <5>4, <6>1, <6>2 DEF R!RowOfEvent
        <5>6. ASSUME NEW g, R!RowOfEvent(r, g, trees.gtid[R!Nth(r, g)])
              PROVE  R!RowOfEvent(r, g, trees.gtid[R!Nth(r, g)])'
          <6>1. PICK w : w = trees.gtid[R!Nth(r, g)]
            OBVIOUS
          <6>2. R!RowOfEvent(r, g, w)'
            BY <5>2, <5>6, <6>1
          <6> QED
            BY <5>3, <5>4, <6>1, <6>2 DEF R!RowOfEvent
        <5> QED
          BY <4>3, <5>1, <5>3, <5>4, <5>5, <5>6 DEF EventsFilled
      <4> QED
        BY <2>2, <4>1, <4>2, <4>3 DEF EventsInv
    <3>5. PairsInv'
      <4>1. \A r : R!PairsIn(r) => R!PairsIn(r)'
        BY <2>2, PairsStable
      <4>2. ASSUME NEW r, PartsPaired(r) PROVE PartsPaired(r)'
        <5>1. \A ks : R!OfKind(r, ks)' = R!OfKind(r, ks)
          BY <2>2 DEF R!OfKind
        <5>2. Triggers(r)' = Triggers(r) /\ Shapers(r)' = Shapers(r)
          BY <5>1 DEF Triggers, Shapers
        <5>3. PICK a, b, h : a = trees.trigger /\ b = trees.shaper /\ h = R!Ahead(r)
          OBVIOUS
        <5>4. R!Ahead(r)' = h /\ trees'.trigger = a /\ trees'.shaper = b
          BY <2>2, <5>3, SameRecords
        <5>5. AllHadShapers(r)' => AllHadShapers(r)
          BY <5>1, <5>2 DEF AllHadShapers, LastTrigger, R!LastBefore
        <5>6. ASSUME NEW t, Aligned(r, t, h) PROVE Aligned(r, t, R!Ahead(r))'
          <6>1. \A i \in 1 .. Len(b) - h : R!Pair(r, a[i], b[i + h])'
            BY <5>3, <5>6, <2>2, SameRecords DEF Aligned
          <6> QED
            BY <2>2, <5>2, <5>3, <5>4, <5>6, <6>1 DEF Aligned, R!Pair
        <5>7. CASE lastTrigger = 0
          BY <2>2, <4>2, <5>2, <5>3, <5>4, <5>7 DEF PartsPaired
        <5>8. CASE lastTrigger # 0
          <6>1. PICK t \in Triggers(r) :
                  /\ LastTrigger(r, t) /\ sent[r][t].n = lastTrigger
                  /\ lastKind = IF \E q \in Shapers(r) : t < q THEN "shaper" ELSE "trigger"
                  /\ AllHadShapers(r) => Aligned(r, t, h)
            BY <4>2, <5>3, <5>8 DEF PartsPaired
          <6>2. AllHadShapers(r)' => Aligned(r, t, R!Ahead(r))'
            BY <5>5, <5>6, <6>1
          <6> QED
            BY <2>2, <5>2, <5>8, <6>1, <6>2 DEF PartsPaired, LastTrigger
        <5> QED
          BY <5>7, <5>8
      <4>3. PairsInv /\ R!Closed' = R!Closed
        BY <2>0, <2>2 DEF RunGoes, RunInv, R!Closed
      <4> QED
        BY <2>2, <4>1, <4>2, <4>3 DEF PairsInv
    <3> QED
      BY <3>1, <3>2, <3>3, <3>4, <3>5 DEF RunInv
  <2>3. \/ R!Steps
        \/ UNCHANGED writtenVars
    BY DEF AnyNext, allVars, runVars, R!Next, R!LoneShaper, R!writerVars, R!counterVars, R!treeVars
  <2>4. CrashInv'
    <3>1. CASE R!LoneShaper
      BY <3>1 DEF R!LoneShaper, R!NoTriggerToProcess, R!treeVars, CrashInv
    <3>2. CASE ~crashed /\ UNCHANGED crashed
      BY <3>2 DEF CrashInv
    <3>3. CASE UNCHANGED runVars
      BY <2>0, <3>3 DEF runVars, RunGoes, CrashInv
    <3> QED
      BY <2>0, <3>1, <3>2, <3>3 DEF AnyNext, allVars, R!Next
  <2> QED
    BY <2>1, <2>2, <2>3, <2>4
<1> QED
  BY <1>1, <1>2, PTL DEF AnySpec, allVars

(***************************************************************************)
(* The histogram, the event count and the headers in the file of a run are *)
(* those of its own records, however many runs came before, and whether or *)
(* not an EndRun without a run wrote to the file once more.                *)
(***************************************************************************)
THEOREM FilesAreOwn == AnySpec => []FileOfOwnRun
<1>1. RunGoes => FileOfOwnRun
  BY RunShows DEF RunGoes, FileOfOwnRun
<1> QED
  BY <1>1, RunHolds, PTL

(***************************************************************************)
(* The file of a run has one row for every GTID, in order, with the last   *)
(* clock sent before the next GTID: two writers fill the branches of one   *)
(* tree, and the row is filled when the next GTID comes or the run ends.   *)
(***************************************************************************)
THEOREM EventsHaveRows == AnySpec => []EventRows
<1>1. RunGoes => EventRows
  BY RunShows DEF RunGoes, EventRows
<1> QED
  BY <1>1, RunHolds, PTL

(***************************************************************************)
(* If every trigger of a run had its shapers, the trigger tree and the     *)
(* shaper tree of its file have as many rows, and the n-th rows belong     *)
(* together.                                                               *)
(***************************************************************************)
THEOREM RowsArePaired == AnySpec => []PairedRows
<1>1. RunGoes => PairedRows
  BY RunShows DEF RunGoes, PairedRows
<1> QED
  BY <1>1, RunHolds, PTL

-----------------------------------------------------------------------------
(***************************************************************************)
(* The requests.  Values are known by the request they were loaded from.   *)
(***************************************************************************)
ValueType  == [from : Nat, state : {"empty", "asSent", "changed"}]
ValuesOf   == {<<>>} \cup UNION {[Q!Names(t) -> ValueType] : t \in Q!Types}
AnswerType == [n : Nat, tag : Nat, type : Nat, ok : BOOLEAN]
ItemType   == [item : {"word"}, n : Nat] \cup
              [item : {"body"}, n : Nat, answer : AnswerType, used : ValuesOf]
ReqTypes ==
  /\ requests \in Seq(Offers)
  /\ at \in {"idle", "handler", "inputs", "execute", "outputs", "error", "body"}
  /\ at # "idle" => Q!n # 0
  /\ DOMAIN handlers \subseteq Q!Types
  /\ \A t \in DOMAIN handlers : handlers[t] \in [Q!Names(t) -> ValueType]
  /\ at \in {"inputs", "execute", "outputs"} => Q!request.type \in DOMAIN handlers
  /\ decoder \in [tag : Nat, type : Nat] /\ answer \in AnswerType
  /\ used \in ValuesOf /\ stream \in Seq(ItemType) /\ connected \in BOOLEAN

\* What ExecuteProcess leaves of the values are the values, changed or forgotten.
LEMMA LeavesValues ==
  ASSUME NEW t, NEW names, Q!request.type = t, NEW values, values = handlers[t],
         values \in [names -> ValueType], NEW left \in Q!Leaves
  PROVE  left \in [names -> ValueType] /\ \A x \in names : left[x].from \in {values[x].from, 0}
<1>1. \A v \in ValueType : Q!Changed(v) \in ValueType /\ Q!Changed(v).from = v.from
  BY DEF Q!Changed, ValueType
<1>2. Q!Unset \in ValueType /\ Q!Unset.from = 0
  BY DEF Q!Unset, ValueType
<1>3. Q!vals = values
  BY DEF Q!vals
<1>4. CASE t = "OROrcaRequestFitProcessor"
  <2>1. PICK c \in {values.FitYValues, Q!Changed(values.FitYValues)} \X Q!Bounds :
          left = [values EXCEPT !.FitYValues = c[1], !.FitLowerBound = c[2][1], !.FitUpperBound = c[2][2],
                                !.FitOptions = Q!Changed(@), !.FitParameters = Q!Unset]
    BY <1>3, <1>4, Zenon DEF Q!Leaves, Q!FitLeaves
  <2>3. PICK y, l, u : y = c[1] /\ l = c[2][1] /\ u = c[2][2]
    OBVIOUS
  <2>4. /\ y \in {values.FitYValues, Q!Changed(values.FitYValues)}
        /\ l \in {values.FitLowerBound, Q!Changed(values.FitLowerBound)}
        /\ u \in {values.FitUpperBound, Q!Changed(values.FitUpperBound)}
        /\ left = [values EXCEPT !.FitYValues = y, !.FitLowerBound = l, !.FitUpperBound = u,
                                 !.FitOptions = Q!Changed(@), !.FitParameters = Q!Unset]
    BY <1>3, <2>1, <2>3 DEF Q!Bounds
  <2>2. /\ left = [x \in names |-> left[x]]
        /\ \A x \in names : left[x] \in {values[x], Q!Changed(values[x]), Q!Unset}
    BY <2>4
  <2> QED
    BY <2>2, <1>1, <1>2
<1>5. CASE t = "OROrcaRequestFFTProcessor"
  <2>1. \/ left = values
        \/ left = [values EXCEPT !.Waveform = Q!Changed(@), !.FFTOptions = Q!Changed(@)]
    BY <1>3, <1>5 DEF Q!Leaves, Q!FFTLeaves
  <2>2. /\ left = [x \in names |-> left[x]]
        /\ \A x \in names : left[x] \in {values[x], Q!Changed(values[x])}
    BY <2>1
  <2> QED
    BY <2>2, <1>1
<1>6. CASE t \notin {"OROrcaRequestFitProcessor", "OROrcaRequestFFTProcessor"}
  <2>1. left = values
    BY <1>3, <1>6 DEF Q!Leaves
  <2> QED
    BY <2>1
<1> QED
  BY <1>4, <1>5, <1>6

\* A loaded input is a value.
LEMMA LoadedValues ==
  ASSUME requests \in Seq(Offers), NEW old \in ValueType, NEW want, NEW given
  PROVE  /\ Q!LoadInput(old, want, given) \in ValueType
         /\ Q!LoadInput(old, want, given).from \in {old.from, Q!n}
         /\ given = want => Q!LoadInput(old, want, given) = [from |-> Q!n, state |-> "asSent"]
         /\ want \in DOMAIN Q!ElementOf /\ given = Q!ElementOf[want] =>
              Q!LoadInput(old, want, given).from = Q!n
         /\ given # want /\ ~(want \in DOMAIN Q!ElementOf /\ given = Q!ElementOf[want]) =>
              Q!LoadInput(old, want, given) = old
<1>1. Q!n \in Nat
  BY DEF Q!n
<1>2. CASE given = want
  <2>1. want \in DOMAIN Q!ElementOf => Q!ElementOf[want] # want
    BY DEF Q!ElementOf
  <2>2. Q!LoadInput(old, want, given) = [from |-> Q!n, state |-> "asSent"]
    BY <1>2, <2>1 DEF Q!LoadInput
  <2> QED
    BY <1>1, <1>2, <2>1, <2>2 DEF ValueType
<1>3. CASE given # want /\ want \in DOMAIN Q!ElementOf /\ given = Q!ElementOf[want]
  BY <1>1, <1>3 DEF Q!LoadInput, ValueType
<1>4. CASE given # want /\ ~(want \in DOMAIN Q!ElementOf /\ given = Q!ElementOf[want])
  BY <1>4 DEF Q!LoadInput
<1> QED
  BY <1>2, <1>3, <1>4

\* A new request is the last; those before it stay.
NewRequest(q, k) ==
  /\ requests' \in Seq(Offers) /\ k \in Nat \ {0}
  /\ Q!n = k - 1 /\ Q!n' = k /\ Q!request' = q
  /\ \A m \in 1 .. k - 1 : requests'[m] = requests[m]

\* ParseDataRecord adds the request, and leaves those before.
LEMMA RequestComes ==
  ASSUME ReqTypes, NEW q \in Offers, Q!ParseDataRecord(q), NEW k, k = Q!n + 1
  PROVE  NewRequest(q, k)
<1>1. requests \in Seq(Offers) /\ requests' = Append(requests, q) /\ k = Len(requests) + 1
  BY DEF ReqTypes, Q!ParseDataRecord, Q!n
<1>2. /\ requests' \in Seq(Offers) /\ k \in Nat \ {0} /\ Len(requests') = k /\ requests'[k] = q
      /\ \A m \in 1 .. k - 1 : requests'[m] = requests[m]
  BY <1>1
<1> QED
  BY <1>1, <1>2 DEF NewRequest, Q!n, Q!request

\* The other steps leave the requests alone.
LEMMA SameRequest ==
  ASSUME UNCHANGED requests
  PROVE  Q!n' = Q!n /\ Q!request' = Q!request
BY DEF Q!n, Q!request

\* What is sent is an item of the stream.
LEMMA SentItem ==
  ASSUME ReqTypes, NEW item \in ItemType, Q!Send(item)
  PROVE  stream' \in Seq(ItemType)
BY DEF ReqTypes, Q!Send

\* The handling of a request keeps the types.
LEMMA ReqTypesStep == ASSUME ReqTypes, Q!Next PROVE ReqTypes'
<1>0. /\ requests \in Seq(Offers) /\ Q!n \in Nat
      /\ decoder \in [tag : Nat, type : Nat] /\ answer \in AnswerType
      /\ used \in ValuesOf /\ stream \in Seq(ItemType) /\ connected \in BOOLEAN
  BY DEF ReqTypes, Q!n
<1>1. ASSUME NEW q \in Offers, Q!ParseDataRecord(q) PROVE ReqTypes'
  <2>k. PICK k : k = Q!n + 1
    OBVIOUS
  <2>1. NewRequest(q, k)
    BY <1>1, <2>k, RequestComes
  <2>2. /\ UNCHANGED <<handlers, answer, used, connected, stream>>
        /\ at' \in {"handler", "error"}
        /\ decoder' \in [tag : Nat, type : Nat]
    BY <1>0, <1>1 DEF Q!ParseDataRecord
  <2> QED
    BY <2>1, <2>2 DEF NewRequest, ReqTypes
<1>2. CASE Q!LoadRequestHandler
  <2>1. UNCHANGED <<requests, decoder, answer, used, connected, stream>> /\ Q!n # 0
    BY <1>2 DEF Q!LoadRequestHandler, ReqTypes
  <2>2. Q!n' = Q!n /\ Q!request' = Q!request
    BY <2>1, SameRequest
  <2>3. CASE Q!request.type \in Q!Types
    <3>1. /\ at' = "inputs" /\ DOMAIN handlers' = DOMAIN handlers \cup {Q!request.type}
          /\ \A t \in DOMAIN handlers' :
               handlers'[t] = IF t \in DOMAIN handlers THEN handlers[t] ELSE [x \in Q!Names(t) |-> Q!Unset]
      BY <1>2, <2>3 DEF Q!LoadRequestHandler
    <3>2. Q!Unset \in ValueType
      BY DEF Q!Unset, ValueType
    <3>3. \A t \in DOMAIN handlers' : handlers'[t] \in [Q!Names(t) -> ValueType]
      <4>1. \A t : [x \in Q!Names(t) |-> Q!Unset] \in [Q!Names(t) -> ValueType]
        BY <3>2
      <4>2. \A t \in DOMAIN handlers : handlers[t] \in [Q!Names(t) -> ValueType]
        BY DEF ReqTypes
      <4> QED
        BY <3>1, <4>1, <4>2
    <3>4. DOMAIN handlers' \subseteq Q!Types
      BY <3>1, <2>3 DEF ReqTypes
    <3> QED
      BY <2>1, <2>2, <3>1, <3>3, <3>4 DEF ReqTypes
  <2>4. CASE Q!request.type \notin Q!Types
    <3>1. at' = "error" /\ handlers' = handlers
      BY <1>2, <2>4 DEF Q!LoadRequestHandler
    <3> QED
      BY <2>1, <2>2, <3>1 DEF ReqTypes
  <2> QED
    BY <2>3, <2>4
<1>3. CASE Q!LoadInputs
  <2>1. UNCHANGED <<requests, decoder, answer, used, connected, stream>> /\ Q!n # 0 /\ at' \in {"execute", "error"}
    BY <1>3 DEF Q!LoadInputs, ReqTypes
  <2>2. Q!n' = Q!n /\ Q!request' = Q!request
    BY <2>1, SameRequest
  <2>t. PICK t : t = Q!request.type
    OBVIOUS
  <2>3. t \in DOMAIN handlers /\ handlers[t] \in [Q!Names(t) -> ValueType]
    BY <1>3, <2>t DEF ReqTypes, Q!LoadInputs
  <2>4. PICK e : e = [x \in Q!Names(t) |-> Q!Loaded(x, handlers[t][x])]
    OBVIOUS
  <2>5. e \in [Q!Names(t) -> ValueType]
    <3>1. \A x \in Q!Names(t) : Q!Loaded(x, handlers[t][x]) \in ValueType
      BY <1>0, <2>3, LoadedValues DEF Q!Loaded
    <3> QED
      BY <2>4, <3>1
  <2>6. handlers' = [handlers EXCEPT ![t] = e]
    BY <1>3, <2>3, <2>4, <2>t DEF Q!LoadInputs
  <2>7. /\ DOMAIN handlers' = DOMAIN handlers
        /\ \A u \in DOMAIN handlers : handlers'[u] \in [Q!Names(u) -> ValueType]
    BY <2>3, <2>5, <2>6 DEF ReqTypes
  <2> QED
    BY <2>1, <2>2, <2>3, <2>7, <2>t DEF ReqTypes
<1>4. CASE Q!ExecuteProcess
  <2>1. /\ UNCHANGED <<requests, decoder, answer, connected, stream>> /\ Q!n # 0 /\ at' \in {"outputs", "error"}
        /\ used' = Q!vals
    BY <1>4 DEF Q!ExecuteProcess, ReqTypes
  <2>2. Q!n' = Q!n /\ Q!request' = Q!request
    BY <2>1, SameRequest
  <2>t. PICK t : t = Q!request.type
    OBVIOUS
  <2>3. t \in DOMAIN handlers /\ handlers[t] \in [Q!Names(t) -> ValueType] /\ t \in Q!Types
    BY <1>4, <2>t DEF ReqTypes, Q!ExecuteProcess
  <2>4. used' \in ValuesOf
    BY <2>1, <2>3, <2>t DEF Q!vals, ValuesOf
  <2>5. /\ DOMAIN handlers' = DOMAIN handlers
        /\ \A u \in DOMAIN handlers : handlers'[u] \in [Q!Names(u) -> ValueType]
    <3>1. CASE handlers' = handlers
      BY <3>1 DEF ReqTypes
    <3>2. CASE \E left \in Q!Leaves : handlers' = [handlers EXCEPT ![t] = left]
      <4>1. PICK left \in Q!Leaves : handlers' = [handlers EXCEPT ![t] = left]
        BY <3>2
      <4>2. left \in [Q!Names(t) -> ValueType]
        BY <2>3, <2>t, LeavesValues
      <4> QED
        BY <2>3, <4>1, <4>2 DEF ReqTypes
    <3> QED
      BY <1>4, <2>t, <3>1, <3>2 DEF Q!ExecuteProcess
  <2> QED
    BY <2>1, <2>2, <2>3, <2>4, <2>5, <2>t DEF ReqTypes
<1>5. ASSUME NEW ok \in BOOLEAN, Q!WriteWord(ok) PROVE ReqTypes'
  <2>1. /\ UNCHANGED <<requests, decoder, handlers, used, connected>> /\ Q!n # 0
        /\ at' \in {"body", "error", "idle"}
    BY <1>5 DEF Q!WriteWord, ReqTypes
  <2>2. Q!n' = Q!n /\ Q!request' = Q!request
    BY <2>1, SameRequest
  <2>3. answer' \in AnswerType
    BY <1>0, <1>5 DEF Q!WriteWord, Q!Compose, AnswerType
  <2>4. stream' \in Seq(ItemType)
    <3>1. [item |-> "word", n |-> Q!n] \in ItemType
      BY <1>0 DEF ItemType
    <3> QED
      BY <1>5, <3>1, SentItem DEF Q!WriteWord
  <2> QED
    BY <2>1, <2>2, <2>3, <2>4 DEF ReqTypes
<1>6. CASE Q!WriteBody
  <2>1. /\ UNCHANGED <<requests, decoder, handlers, used, answer, connected>> /\ Q!n # 0
        /\ at' \in {"error", "idle"}
    BY <1>6 DEF Q!WriteBody, ReqTypes
  <2>2. Q!n' = Q!n /\ Q!request' = Q!request
    BY <2>1, SameRequest
  <2>3. stream' \in Seq(ItemType)
    <3>1. [item |-> "body", n |-> Q!n, answer |-> answer, used |-> IF answer.ok THEN used ELSE <<>>] \in ItemType
      BY <1>0 DEF ItemType, ValuesOf
    <3> QED
      BY <1>6, <3>1, SentItem DEF Q!WriteBody
  <2> QED
    BY <2>1, <2>2, <2>3 DEF ReqTypes
<1>7. CASE Q!Disconnect
  <2>1. UNCHANGED <<at, requests, decoder, handlers, answer, used, stream>> /\ connected' = FALSE
    BY <1>7 DEF Q!Disconnect
  <2>2. Q!n' = Q!n /\ Q!request' = Q!request
    BY <2>1, SameRequest
  <2> QED
    BY <2>1, <2>2 DEF ReqTypes
<1> QED
  BY <1>1, <1>2, <1>3, <1>4, <1>5, <1>6, <1>7 DEF Q!Next

(***************************************************************************)
(* The answers.  Until the connection goes every request has sent both of  *)
(* its items, or is about to; the decoder's tag and type are those of the  *)
(* request at hand if they could be read.                                  *)
(***************************************************************************)
AnswerInv ==
  /\ at # "idle" => /\ Q!Read(Q!request, "tag") => decoder.tag = Q!n
                    /\ Q!Read(Q!request, "type") => decoder.type = Q!n
  /\ at \in {"handler", "inputs", "execute", "outputs"} => Q!request.readable = "all"
  /\ at = "body" => answer.n = Q!n /\ Q!TagAnswered(answer)
  /\ \A b \in Q!Bodies : b.answer.n \in 1 .. Q!n /\ Q!TagAnswered(b.answer)
StreamInv ==
  /\ \A i \in DOMAIN stream :
       stream[i].n = (i + 1) \div 2 /\ stream[i].item = IF i % 2 = 1 THEN "word" ELSE "body"
  /\ connected => Len(stream) = IF at = "idle" THEN 2 * Q!n
                                ELSE IF at = "body" THEN 2 * Q!n - 1 ELSE 2 * Q!n - 2

\* What is sent is the last item of the stream, and its last body if it is one.
LEMMA SentBodies ==
  ASSUME ReqTypes, NEW item \in ItemType, Q!Send(item)
  PROVE  \A b \in Q!Bodies' : b \in Q!Bodies \/ (b = item /\ item.item = "body")
<1>1. stream \in Seq(ItemType) /\ (stream' = stream \/ stream' = Append(stream, item))
  BY DEF ReqTypes, Q!Send
<1>2. ASSUME stream' = Append(stream, item)
      PROVE  \A i \in DOMAIN stream' : stream'[i] = item \/ \E j \in DOMAIN stream : stream'[i] = stream[j]
  <2>1. /\ DOMAIN stream' = DOMAIN stream \cup {Len(stream) + 1}
        /\ stream'[Len(stream) + 1] = item
        /\ \A i \in DOMAIN stream : stream'[i] = stream[i]
    BY <1>1, <1>2
  <2> QED
    BY <2>1
<1> QED
  BY <1>1, <1>2 DEF Q!Bodies, Q!Range

\* An answer to a request stays one when another comes.
LEMMA TagStays ==
  ASSUME NEW a, requests'[a.n] = requests[a.n], Q!TagAnswered(a)
  PROVE  Q!TagAnswered(a)'
BY DEF Q!TagAnswered

\* A step sends a request's items in their order, each of them once.
LEMMA StreamStep == ASSUME ReqTypes, StreamInv, Q!Next PROVE StreamInv'
<1>0. requests \in Seq(Offers) /\ Q!n \in Nat /\ stream \in Seq(ItemType) /\ connected \in BOOLEAN
  BY DEF ReqTypes, Q!n
<1>1. ASSUME NEW q \in Offers, Q!ParseDataRecord(q) PROVE StreamInv'
  <2>1. /\ at = "idle" /\ at' \in {"handler", "error"} /\ UNCHANGED <<stream, connected>>
        /\ Q!n' = Q!n + 1
    BY <1>1, RequestComes DEF NewRequest, Q!ParseDataRecord
  <2> QED
    BY <1>0, <2>1 DEF StreamInv
<1>2. ASSUME Q!LoadRequestHandler \/ Q!LoadInputs \/ Q!ExecuteProcess PROVE StreamInv'
  <2>1. /\ at \in {"handler", "inputs", "execute"} /\ at' \in {"inputs", "execute", "outputs", "error"}
        /\ UNCHANGED <<stream, connected, requests>>
    BY <1>2 DEF Q!LoadRequestHandler, Q!LoadInputs, Q!ExecuteProcess
  <2>2. Q!n' = Q!n
    BY <2>1, SameRequest
  <2> QED
    BY <2>1, <2>2 DEF StreamInv
<1>3. ASSUME NEW ok \in BOOLEAN, Q!WriteWord(ok) PROVE StreamInv'
  <2>i. PICK item : item = [item |-> "word", n |-> Q!n]
    OBVIOUS
  <2>1. /\ UNCHANGED <<connected, requests>> /\ Q!Send(item)
        /\ at \in {"outputs", "error"} /\ Q!n # 0 /\ item.n = Q!n /\ item.item = "word"
    BY <1>3, <2>i DEF Q!WriteWord, ReqTypes
  <2>2. Q!n' = Q!n
    BY <2>1, SameRequest
  <2>3. CASE connected
    <3>k. PICK k : k = Len(stream)
      OBVIOUS
    <3>1. /\ k = 2 * Q!n - 2 /\ at' = "body" /\ stream' = Append(stream, item)
      BY <1>3, <2>1, <2>3, <3>k DEF StreamInv, Q!WriteWord, Q!Send
    <3>2. /\ DOMAIN stream' = DOMAIN stream \cup {k + 1} /\ Len(stream') = k + 1
          /\ stream'[k + 1] = item
          /\ \A i \in DOMAIN stream : stream'[i] = stream[i]
      BY SMTT(30), <1>0, <3>1, <3>k
    <3>3. (k + 2) \div 2 = Q!n /\ (k + 1) % 2 = 1 /\ k + 1 = 2 * Q!n - 1 /\ (k + 1) + 1 = k + 2
      BY <1>0, <2>1, <3>1
    <3> QED
      BY <2>1, <2>2, <3>1, <3>2, <3>3 DEF StreamInv
  <2>4. CASE ~connected
    <3>1. stream' = stream
      BY <2>1, <2>4 DEF Q!Send
    <3> QED
      BY <2>1, <2>4, <3>1 DEF StreamInv
  <2> QED
    BY <2>3, <2>4
<1>4. CASE Q!WriteBody
  <2>i. PICK item : item = [item |-> "body", n |-> Q!n, answer |-> answer, used |-> IF answer.ok THEN used ELSE <<>>]
    OBVIOUS
  <2>1. /\ UNCHANGED <<connected, requests>> /\ Q!Send(item)
        /\ at = "body" /\ Q!n # 0 /\ item.n = Q!n /\ item.item = "body"
    BY <1>4, <2>i DEF Q!WriteBody, ReqTypes
  <2>2. Q!n' = Q!n
    BY <2>1, SameRequest
  <2>3. CASE connected
    <3>k. PICK k : k = Len(stream)
      OBVIOUS
    <3>1. /\ k = 2 * Q!n - 1 /\ at' = "idle" /\ stream' = Append(stream, item)
      BY <1>4, <2>1, <2>3, <3>k DEF StreamInv, Q!WriteBody, Q!Send
    <3>2. /\ DOMAIN stream' = DOMAIN stream \cup {k + 1} /\ Len(stream') = k + 1
          /\ stream'[k + 1] = item
          /\ \A i \in DOMAIN stream : stream'[i] = stream[i]
      BY <1>0, <3>1, <3>k
    <3>3. (k + 2) \div 2 = Q!n /\ (k + 1) % 2 # 1 /\ k + 1 = 2 * Q!n /\ (k + 1) + 1 = k + 2
      BY <1>0, <2>1, <3>1
    <3> QED
      BY <2>1, <2>2, <3>1, <3>2, <3>3 DEF StreamInv
  <2>4. CASE ~connected
    <3>1. stream' = stream
      BY <2>1, <2>4 DEF Q!Send
    <3> QED
      BY <2>1, <2>4, <3>1 DEF StreamInv
  <2> QED
    BY <2>3, <2>4
<1>5. CASE Q!Disconnect
  BY <1>5 DEF Q!Disconnect, StreamInv
<1> QED
  BY <1>1, <1>2, <1>3, <1>4, <1>5 DEF Q!Next

\* A step keeps the answer that of the request at hand.
LEMMA AnswerStep == ASSUME ReqTypes, AnswerInv, Q!Next PROVE AnswerInv'
<1>0. /\ requests \in Seq(Offers) /\ Q!n \in Nat
  BY DEF ReqTypes, Q!n
<1>1. ASSUME NEW q \in Offers, Q!ParseDataRecord(q) PROVE AnswerInv'
  <2>k. PICK k : k = Q!n + 1
    OBVIOUS
  <2>1. NewRequest(q, k)
    BY <1>1, <2>k, RequestComes
  <2>2. /\ stream' = stream /\ Q!Bodies' = Q!Bodies
        /\ at' = IF q.readable = "all" THEN "handler" ELSE "error"
        /\ decoder' = [tag  |-> IF Q!Read(q, "tag") THEN k ELSE decoder.tag,
                       type |-> IF Q!Read(q, "type") THEN k ELSE decoder.type]
    BY <1>1, <2>k DEF Q!ParseDataRecord, Q!Bodies
  <2>3. ASSUME NEW b \in Q!Bodies PROVE b.answer.n \in 1 .. Q!n' /\ Q!TagAnswered(b.answer)'
    <3>a. PICK a : a = b.answer
      OBVIOUS
    <3>1. a.n \in 1 .. k - 1 /\ Q!TagAnswered(a)
      BY <2>1, <2>3, <3>a DEF AnswerInv, NewRequest
    <3>2. requests'[a.n] = requests[a.n] /\ a.n \in 1 .. k
      BY <2>1, <3>1 DEF NewRequest
    <3>3. Q!TagAnswered(a)'
      BY <3>1, <3>2, TagStays
    <3> QED
      BY <2>1, <3>2, <3>3, <3>a DEF NewRequest
  <2> QED
    BY <2>1, <2>2, <2>3 DEF NewRequest, AnswerInv
<1>a. ASSUME UNCHANGED requests, NEW a, Q!TagAnswered(a) PROVE Q!TagAnswered(a)'
  BY <1>a, TagStays
<1>2. ASSUME Q!LoadRequestHandler \/ Q!LoadInputs \/ Q!ExecuteProcess \/ Q!Disconnect PROVE AnswerInv'
  <2>1. /\ UNCHANGED <<stream, requests, decoder, answer>> /\ Q!Bodies' = Q!Bodies
        /\ \/ at' = at
           \/ at \in {"handler", "inputs", "execute"} /\ at' \in {"inputs", "execute", "outputs", "error"}
    BY <1>2 DEF Q!LoadRequestHandler, Q!LoadInputs, Q!ExecuteProcess, Q!Disconnect, Q!Bodies
  <2>2. Q!n' = Q!n /\ Q!request' = Q!request
    BY <2>1, SameRequest
  <2>3. \A a : Q!TagAnswered(a)' <=> Q!TagAnswered(a)
    BY <2>1 DEF Q!TagAnswered
  <2> QED
    BY <2>1, <2>2, <2>3 DEF AnswerInv
<1>3. ASSUME NEW ok \in BOOLEAN, Q!WriteWord(ok) PROVE AnswerInv'
  <2>i. PICK item : item = [item |-> "word", n |-> Q!n]
    OBVIOUS
  <2>1. /\ UNCHANGED <<requests, decoder>> /\ Q!Send(item) /\ item.item = "word" /\ item \in ItemType
        /\ at = (IF ok THEN "outputs" ELSE "error") /\ Q!n # 0 /\ at' \in {"body", "error", "idle"}
    BY <1>0, <1>3, <2>i DEF Q!WriteWord, ReqTypes, ItemType
  <2>2. Q!n' = Q!n /\ Q!request' = Q!request
    BY <2>1, SameRequest
  <2>3. \A b \in Q!Bodies' : b \in Q!Bodies
    BY <2>1, SentBodies
  <2>4. answer'.n = Q!n /\ Q!TagAnswered(answer)'
    <3>a. PICK a : a = [n |-> Q!n, tag |-> decoder.tag, type |-> decoder.type, ok |-> ok]
      OBVIOUS
    <3>1. answer' = a /\ a.n = Q!n /\ a.tag = decoder.tag /\ a.type = decoder.type /\ a.ok = ok
      BY <1>3, <3>a DEF Q!WriteWord, Q!Compose
    <3>2. requests[a.n] = Q!request
      BY <3>1 DEF Q!request
    <3>3. ok => Q!request.type \in Q!Types
      BY <2>1 DEF ReqTypes
    <3>4. Q!TagAnswered(a)
      BY <2>1, <3>1, <3>2, <3>3 DEF Q!TagAnswered, AnswerInv
    <3> QED
      BY <1>a, <2>1, <3>1, <3>4 DEF Q!TagAnswered
  <2>5. \A a : Q!TagAnswered(a)' <=> Q!TagAnswered(a)
    BY <2>1 DEF Q!TagAnswered
  <2>6. CASE at' = "body"
    BY <2>1, <2>2, <2>3, <2>4, <2>5, <2>6 DEF AnswerInv
  <2>7. CASE at' # "body"
    BY <2>1, <2>2, <2>3, <2>5, <2>7 DEF AnswerInv
  <2> QED
    BY <2>6, <2>7
<1>4. CASE Q!WriteBody
  <2>i. PICK item : item = [item |-> "body", n |-> Q!n, answer |-> answer, used |-> IF answer.ok THEN used ELSE <<>>]
    OBVIOUS
  <2>1. /\ UNCHANGED <<requests, decoder, answer>> /\ Q!Send(item) /\ at' \in {"error", "idle"}
        /\ at = "body" /\ Q!n # 0 /\ item.answer = answer /\ item \in ItemType
    BY <1>0, <1>4, <2>i DEF Q!WriteBody, ReqTypes, ItemType, ValuesOf
  <2>2. Q!n' = Q!n /\ Q!request' = Q!request
    BY <2>1, SameRequest
  <2>3. \A b \in Q!Bodies' : b \in Q!Bodies \/ b = item
    BY <2>1, SentBodies
  <2>4. \A a : Q!TagAnswered(a)' <=> Q!TagAnswered(a)
    BY <2>1 DEF Q!TagAnswered
  <2>5. answer.n = Q!n /\ Q!TagAnswered(answer) /\ Q!n \in 1 .. Q!n
    BY <1>0, <2>1 DEF AnswerInv
  <2> QED
    BY <2>1, <2>2, <2>3, <2>4, <2>5 DEF AnswerInv
<1> QED
  BY <1>1, <1>2, <1>3, <1>4 DEF Q!Next

(***************************************************************************)
(* The results.  A value of a handler is from a request that gave it, and  *)
(* a later one that gave it too did not get to its end; the request at     *)
(* hand has given nothing before its inputs are loaded.                    *)
(***************************************************************************)
LatestGiven(t, x, f) ==
  /\ f \in {0} \cup {m \in 1 .. Q!n : Q!Gave(m, t, x)}
  /\ \A m \in 1 .. Q!n :
       /\ Q!Gave(m, t, x) /\ f # 0
       /\ m < Q!n \/ at \notin {"handler", "inputs"}
       => m <= f \/ \E j \in Q!Names(t) : Q!Given(requests[m], j) \in Q!Unusable
AllLatest == \A t \in DOMAIN handlers : \A x \in Q!Names(t) : LatestGiven(t, x, handlers[t][x].from)
ResultInv ==
  /\ AllLatest
  /\ at = "execute" =>
       \A x \in Q!Names(Q!request.type) :
         Q!Given(Q!request, x) = Q!Wanted(Q!request.type, x) =>
           handlers[Q!request.type][x] = [from |-> Q!n, state |-> "asSent"]
  /\ at = "outputs" \/ (at = "body" /\ answer.ok) => Q!OwnInputs(Q!n, used)
  /\ \A b \in Q!Bodies : b.n \in 1 .. Q!n /\ (b.answer.ok => Q!OwnInputs(b.n, b.used))

\* What requests gave before stays.
LEMMA GaveStays ==
  ASSUME NEW m, NEW t, NEW x, requests'[m] = requests[m]
  PROVE  Q!Gave(m, t, x)' <=> Q!Gave(m, t, x)
BY DEF Q!Gave

\* Inputs that were a request's own stay so.
LEMMA OwnStays ==
  ASSUME NEW k \in Nat, \A m \in 1 .. k : requests'[m] = requests[m], requests'[k] = requests[k],
         NEW values, Q!OwnInputs(k, values)
  PROVE  Q!OwnInputs(k, values)'
<1>1. \A m \in 1 .. k : \A t, x : Q!Gave(m, t, x)' <=> Q!Gave(m, t, x)
  BY GaveStays
<1> QED
  BY <1>1 DEF Q!OwnInputs

\* A value stays the latest given while no request is added.
LEMMA LatestStays ==
  ASSUME UNCHANGED requests, at \notin {"handler", "inputs"} \/ at' \in {"handler", "inputs"},
         NEW t, NEW x, NEW f, LatestGiven(t, x, f)
  PROVE  LatestGiven(t, x, f)'
<1>1. \A m : Q!Gave(m, t, x)' <=> Q!Gave(m, t, x)
  BY GaveStays
<1>2. Q!n' = Q!n
  BY SameRequest
<1> QED
  BY <1>1, <1>2 DEF LatestGiven

\* A value stays the latest given when a request is added.
LEMMA LatestComes ==
  ASSUME ReqTypes, AllLatest, NEW q \in Offers, Q!ParseDataRecord(q)
  PROVE  AllLatest'
<1>k. PICK k : k = Q!n + 1
  OBVIOUS
<1>1. NewRequest(q, k)
  BY <1>k, RequestComes
<1>2. /\ handlers' = handlers /\ at = "idle"
      /\ at' = IF q.readable = "all" THEN "handler" ELSE "error"
  BY DEF Q!ParseDataRecord
<1>3. ASSUME NEW t, NEW x, NEW f, LatestGiven(t, x, f) PROVE LatestGiven(t, x, f)'
  <2>1. /\ f \in {0} \cup {m \in 1 .. k - 1 : Q!Gave(m, t, x)}
        /\ \A m \in 1 .. k - 1 : Q!Gave(m, t, x) /\ f # 0 =>
             m <= f \/ \E j \in Q!Names(t) : Q!Given(requests[m], j) \in Q!Unusable
    BY <1>1, <1>2, <1>3 DEF LatestGiven, NewRequest
  <2>2. \A m \in 1 .. k - 1 : requests'[m] = requests[m] /\ (Q!Gave(m, t, x)' <=> Q!Gave(m, t, x))
    BY <1>1, GaveStays DEF NewRequest
  <2>3. at' = "handler" \/ ~Q!Gave(k, t, x)'
    BY <1>1, <1>2 DEF Q!Gave, NewRequest, Q!request, Q!n
  <2>4. k \in Nat \ {0} /\ Q!n' = k
    BY <1>1 DEF NewRequest
  <2>5. \A m \in 1 .. k : m = k \/ m \in 1 .. k - 1
    BY <2>4
  <2>6. \A m \in 1 .. k - 1 : m \in 1 .. k
    BY <2>4
  <2>7. f \in {0} \cup {m \in 1 .. k : Q!Gave(m, t, x)'}
    BY <2>1, <2>2, <2>6
  <2>8. ASSUME NEW m \in 1 .. k, Q!Gave(m, t, x)', f # 0, m < k \/ at' \notin {"handler", "inputs"}
        PROVE  m <= f \/ \E j \in Q!Names(t) : Q!Given(requests'[m], j) \in Q!Unusable
    <3>1. m # k
      BY <2>3, <2>4, <2>8
    <3>2. m \in 1 .. k - 1
      BY <2>5, <2>8, <3>1
    <3> QED
      BY <2>1, <2>2, <2>8, <3>2
  <2> QED
    BY <2>4, <2>7, <2>8 DEF LatestGiven
<1>4. ASSUME NEW t \in DOMAIN handlers, NEW x \in Q!Names(t)
      PROVE  LatestGiven(t, x, handlers[t][x].from)'
  <2>1. PICK f : f = handlers[t][x].from
    OBVIOUS
  <2>2. LatestGiven(t, x, f)'
    BY <1>3, <1>4, <2>1 DEF AllLatest
  <2> QED
    BY <1>2, <2>1, <2>2 DEF LatestGiven
<1> QED
  BY <1>2, <1>4 DEF AllLatest

\* The names of the inputs are those the handler registered, and all are taken if none is bad.
LEMMA AllTaken ==
  ASSUME NEW t, t = Q!request.type, NEW x \in Q!Names(t)
  PROVE  Q!Taken(x) \/ \E j \in Q!Names(t) : Q!Given(Q!request, j) \in Q!Unusable
<1>1. PICK i \in DOMAIN Q!InputsOf[t] : x = Q!InputsOf[t][i][1]
  BY DEF Q!Names, Q!Range
<1>2. CASE Q!Bad = {}
  BY <1>1, <1>2 DEF Q!Taken, Q!Input
<1>3. CASE Q!Bad # {}
  <2>1. PICK b \in DOMAIN Q!InputsOf[t] : Q!Given(Q!request, Q!InputsOf[t][b][1]) \in Q!Unusable
    BY <1>3 DEF Q!Bad, Q!Input
  <2>2. Q!InputsOf[t][b][1] \in Q!Names(t)
    BY <2>1 DEF Q!Names, Q!Range
  <2> QED
    BY <2>1, <2>2
<1> QED
  BY <1>2, <1>3

\* Loading takes what the request at hand gives, and leaves the rest.
LEMMA InputLoaded ==
  ASSUME ReqTypes, AnswerInv, at = "inputs", NEW t, t = Q!request.type, NEW x \in Q!Names(t),
         NEW old \in ValueType, LatestGiven(t, x, old.from),
         NEW new, new = Q!Loaded(x, old), NEW k, k = Q!n
  PROVE  /\ new.from \in {0} \cup {m \in 1 .. k : Q!Gave(m, t, x)}
         /\ \A m \in 1 .. k : Q!Gave(m, t, x) /\ new.from # 0 =>
              m <= new.from \/ \E j \in Q!Names(t) : Q!Given(requests[m], j) \in Q!Unusable
         /\ Q!Bad = {} /\ Q!Given(Q!request, x) = Q!Wanted(t, x) =>
              new = [from |-> k, state |-> "asSent"]
<1> DEFINE want  == Q!Wanted(t, x)
           given == Q!Given(Q!request, x)
           takes == given = want \/ (want \in DOMAIN Q!ElementOf /\ given = Q!ElementOf[want])
<1>1. /\ requests \in Seq(Offers) /\ k \in Nat \ {0} /\ requests[k] = Q!request
      /\ Q!request.readable = "all"
  BY DEF ReqTypes, AnswerInv, Q!n, Q!request
<1>2. Q!Gave(k, t, x) <=> takes
  BY <1>1 DEF Q!Gave
<1>3. /\ old.from \in {0} \cup {m \in 1 .. k : Q!Gave(m, t, x)}
      /\ \A m \in 1 .. k - 1 : Q!Gave(m, t, x) /\ old.from # 0 =>
           m <= old.from \/ \E j \in Q!Names(t) : Q!Given(requests[m], j) \in Q!Unusable
  <2>1. \A m \in 1 .. k - 1 : m \in 1 .. k /\ m < k
    BY <1>1
  <2> QED
    BY <2>1 DEF LatestGiven
<1>4. \A m \in 1 .. k : m = k \/ m \in 1 .. k - 1
  BY <1>1
<1>5. CASE Q!Taken(x) /\ takes
  <2>1. new = Q!LoadInput(old, want, given)
    BY <1>5 DEF Q!Loaded
  <2>2. /\ new.from = k
        /\ given = want => new = [from |-> k, state |-> "asSent"]
    <3>1. given = want => new = [from |-> k, state |-> "asSent"]
      BY <1>1, <2>1, LoadedValues
    <3>2. want \in DOMAIN Q!ElementOf /\ given = Q!ElementOf[want] => new.from = k
      BY <1>1, <2>1, LoadedValues
    <3> QED
      BY <3>1, <3>2, <1>5
  <2>3. k \in 1 .. k /\ Q!Gave(k, t, x) /\ \A m \in 1 .. k : m <= k
    BY <1>1, <1>2, <1>5
  <2> QED
    BY <2>2, <2>3
<1>6. CASE Q!Taken(x) /\ ~takes
  <2>1. new = old
    BY <1>1, <1>6, LoadedValues DEF Q!Loaded
  <2>2. ~Q!Gave(k, t, x) /\ given # want
    BY <1>2, <1>6
  <2> QED
    BY <2>1, <2>2, <1>3, <1>4
<1>7. CASE ~Q!Taken(x)
  <2>1. new = old
    BY <1>7 DEF Q!Loaded
  <2>2. \E j \in Q!Names(t) : Q!Given(requests[k], j) \in Q!Unusable
    BY <1>1, <1>7, AllTaken
  <2>3. Q!Bad # {}
    <3>1. PICK i \in DOMAIN Q!InputsOf[t] : x = Q!InputsOf[t][i][1]
      BY DEF Q!Names, Q!Range
    <3> QED
      BY <3>1, <1>7 DEF Q!Taken, Q!Input
  <2> QED
    BY <2>1, <2>2, <2>3, <1>3, <1>4
<1> QED
  BY <1>5, <1>6, <1>7

\* LoadInputs keeps the values the latest given.
LEMMA ResultsLoaded ==
  ASSUME ReqTypes, AnswerInv, ResultInv, Q!LoadInputs
  PROVE  ResultInv'
<1>1. /\ UNCHANGED <<requests, decoder, answer, used, connected, stream>> /\ at = "inputs"
      /\ at' = IF Q!Bad = {} THEN "execute" ELSE "error"
  BY DEF Q!LoadInputs
<1>k. PICK k : k = Q!n
  OBVIOUS
<1>t. PICK t : t = Q!request.type
  OBVIOUS
<1>2. /\ Q!n' = k /\ Q!request' = Q!request /\ Q!Bodies' = Q!Bodies /\ k \in Nat \ {0}
      /\ requests[k] = Q!request
  BY <1>1, <1>k, SameRequest DEF Q!Bodies, ReqTypes, Q!n, Q!request
<1>3. t \in DOMAIN handlers /\ handlers[t] \in [Q!Names(t) -> ValueType]
  BY <1>1, <1>t DEF ReqTypes
<1>4. /\ DOMAIN handlers' = DOMAIN handlers
      /\ \A x \in Q!Names(t) : handlers'[t][x] = Q!Loaded(x, handlers[t][x])
      /\ \A u \in DOMAIN handlers : u # t => handlers'[u] = handlers[u]
  BY <1>3, <1>t DEF Q!LoadInputs
<1>5. \A m, u, x : Q!Gave(m, u, x)' <=> Q!Gave(m, u, x)
  BY <1>1, GaveStays
<1>6. ASSUME NEW x \in Q!Names(t)
      PROVE  /\ LatestGiven(t, x, handlers[t][x].from)'
             /\ at' = "execute" /\ Q!Given(Q!request, x) = Q!Wanted(t, x) =>
                  handlers'[t][x] = [from |-> k, state |-> "asSent"]
  <2>o. PICK old : old = handlers[t][x]
    OBVIOUS
  <2>n. PICK new : new = Q!Loaded(x, old)
    OBVIOUS
  <2>1. old \in ValueType /\ LatestGiven(t, x, old.from) /\ handlers'[t][x] = new
    BY <1>3, <1>4, <1>6, <2>o, <2>n DEF ResultInv, AllLatest
  <2>2. /\ new.from \in {0} \cup {m \in 1 .. k : Q!Gave(m, t, x)}
        /\ \A m \in 1 .. k : Q!Gave(m, t, x) /\ new.from # 0 =>
             m <= new.from \/ \E j \in Q!Names(t) : Q!Given(requests[m], j) \in Q!Unusable
        /\ Q!Bad = {} /\ Q!Given(Q!request, x) = Q!Wanted(t, x) =>
             new = [from |-> k, state |-> "asSent"]
    BY <1>1, <1>6, <1>k, <1>t, <2>1, <2>n, InputLoaded
  <2> QED
    BY <1>1, <1>2, <1>5, <2>1, <2>2 DEF LatestGiven
<1>7. ASSUME NEW u \in DOMAIN handlers, u # t, NEW x \in Q!Names(u)
      PROVE  LatestGiven(u, x, handlers[u][x].from)'
  <2>o. PICK f : f = handlers[u][x].from
    OBVIOUS
  <2>1. LatestGiven(u, x, f) /\ handlers'[u][x].from = f
    BY <1>4, <1>7, <2>o DEF ResultInv, AllLatest
  <2>2. ~Q!Gave(k, u, x)
    BY <1>2, <1>7, <1>t DEF Q!Gave
  <2>3. \A m \in 1 .. k : m = k \/ m < k
    BY <1>2
  <2> QED
    BY <1>1, <1>2, <1>5, <1>k, <2>1, <2>2, <2>3 DEF LatestGiven
<1>8. \A i \in Nat : \A values : requests'[i] = requests[i] =>
        (Q!OwnInputs(i, values)' <=> Q!OwnInputs(i, values))
  BY <1>1, <1>5 DEF Q!OwnInputs
<1>9. AllLatest'
  BY <1>4, <1>6, <1>7 DEF AllLatest
<1> QED
  BY <1>1, <1>2, <1>6, <1>8, <1>9, <1>k, <1>t DEF ResultInv

\* What is computed is computed from the values, and a value that is left is one of them.
LEMMA ResultsComputed ==
  ASSUME ReqTypes, ResultInv, Q!ExecuteProcess
  PROVE  ResultInv'
<1>1. /\ UNCHANGED <<requests, decoder, answer, connected, stream>> /\ at = "execute"
      /\ at' \in {"outputs", "error"} /\ used' = Q!vals
  BY DEF Q!ExecuteProcess
<1>k. PICK k : k = Q!n
  OBVIOUS
<1>t. PICK t : t = Q!request.type
  OBVIOUS
<1>v. PICK values : values = handlers[t]
  OBVIOUS
<1>2. /\ Q!n' = k /\ Q!request' = Q!request /\ Q!Bodies' = Q!Bodies /\ k \in Nat \ {0}
      /\ requests[k] = Q!request
  BY <1>1, <1>k, SameRequest DEF Q!Bodies, ReqTypes, Q!n, Q!request
<1>3. t \in DOMAIN handlers /\ values \in [Q!Names(t) -> ValueType] /\ used' = values
  BY <1>1, <1>t, <1>v DEF ReqTypes, Q!vals
<1>4. ASSUME NEW x \in Q!Names(t)
      PROVE  LatestGiven(t, x, values[x].from)
  BY <1>3, <1>4, <1>v DEF ResultInv, AllLatest
<1>5. Q!OwnInputs(k, values)
  <2>1. ASSUME NEW x \in Q!Names(t)
        PROVE  /\ Q!Given(Q!request, x) = Q!Wanted(t, x) => values[x] = [from |-> k, state |-> "asSent"]
               /\ values[x].from \in {0} \cup {m \in 1 .. k : Q!Gave(m, t, x)}
               /\ \A m \in 1 .. k : Q!Gave(m, t, x) /\ values[x].from # 0 =>
                    m <= values[x].from \/ \E j \in Q!Names(t) : Q!Given(requests[m], j) \in Q!Unusable
    <3>1. Q!Given(Q!request, x) = Q!Wanted(t, x) => values[x] = [from |-> k, state |-> "asSent"]
      BY <1>1, <1>k, <1>t, <1>v, <2>1 DEF ResultInv
    <3> QED
      BY <3>1, <1>1, <1>4, <1>k, <2>1 DEF LatestGiven
  <2> QED
    BY <1>2, <1>3, <1>t, <2>1 DEF Q!OwnInputs
<1>6. /\ DOMAIN handlers' = DOMAIN handlers
      /\ \A u \in DOMAIN handlers : \A x \in Q!Names(u) : handlers'[u][x].from \in {handlers[u][x].from, 0}
  <2>1. CASE handlers' = handlers
    BY <2>1
  <2>2. CASE \E left \in Q!Leaves : handlers' = [handlers EXCEPT ![t] = left]
    <3>1. PICK left \in Q!Leaves : handlers' = [handlers EXCEPT ![t] = left]
      BY <2>2
    <3>2. \A x \in Q!Names(t) : left[x].from \in {values[x].from, 0}
      BY <1>3, <1>t, <1>v, LeavesValues
    <3> QED
      BY <1>3, <1>v, <3>1, <3>2
  <2> QED
    BY <1>t, <2>1, <2>2 DEF Q!ExecuteProcess
<1>7. AllLatest'
  <2>1. ASSUME NEW u \in DOMAIN handlers, NEW x \in Q!Names(u)
        PROVE  LatestGiven(u, x, handlers[u][x].from)'
    <3>o. PICK old : old = handlers[u][x].from
      OBVIOUS
    <3>n. PICK new : new = handlers'[u][x].from
      OBVIOUS
    <3>1. LatestGiven(u, x, old) /\ new \in {old, 0}
      BY <1>6, <2>1, <3>n, <3>o DEF ResultInv, AllLatest
    <3>2. LatestGiven(u, x, new)
      BY <3>1 DEF LatestGiven
    <3>3. LatestGiven(u, x, new)'
      BY <1>1, <3>2, LatestStays
    <3> QED
      BY <3>3, <3>n DEF LatestGiven
  <2> QED
    BY <1>6, <2>1 DEF AllLatest
<1>8. \A i \in Nat : \A v : requests'[i] = requests[i] => (Q!OwnInputs(i, v)' <=> Q!OwnInputs(i, v))
  <2>1. \A m, u, x : Q!Gave(m, u, x)' <=> Q!Gave(m, u, x)
    BY <1>1, GaveStays
  <2> QED
    BY <1>1, <2>1 DEF Q!OwnInputs
<1>9. Q!OwnInputs(k, used)'
  <2>1. Q!OwnInputs(k, values)'
    BY <1>1, <1>2, <1>5, <1>8
  <2> QED
    BY <1>3, <2>1 DEF Q!OwnInputs
<1>10. at' = "outputs" => Q!OwnInputs(Q!n, used)'
  BY <1>2, <1>9 DEF Q!OwnInputs
<1>11. ASSUME NEW b \in Q!Bodies
       PROVE  b.n \in 1 .. k /\ (b.answer.ok => Q!OwnInputs(b.n, b.used)')
  <2>1. b.n \in 1 .. k /\ (b.answer.ok => Q!OwnInputs(b.n, b.used)) /\ b.n \in Nat
    BY <1>2, <1>11, <1>k DEF ResultInv
  <2> QED
    BY <1>1, <1>8, <2>1
<1> QED
  BY <1>1, <1>2, <1>7, <1>10, <1>11, <1>k DEF ResultInv

\* A step keeps the results those of the request's own inputs.
LEMMA ResultStep == ASSUME ReqTypes, AnswerInv, ResultInv, Q!Next PROVE ResultInv'
<1>0. requests \in Seq(Offers) /\ Q!n \in Nat
  BY DEF ReqTypes, Q!n
<1>1. ASSUME NEW q \in Offers, Q!ParseDataRecord(q) PROVE ResultInv'
  <2>k. PICK k : k = Q!n + 1
    OBVIOUS
  <2>1. NewRequest(q, k)
    BY <1>1, <2>k, RequestComes
  <2>2. Q!Bodies' = Q!Bodies /\ at' \in {"handler", "error"}
    BY <1>1 DEF Q!ParseDataRecord, Q!Bodies
  <2>3. AllLatest'
    BY <1>1, LatestComes DEF ResultInv
  <2>4. ASSUME NEW b \in Q!Bodies
        PROVE  b.n \in 1 .. k /\ (b.answer.ok => Q!OwnInputs(b.n, b.used)')
    <3>m. PICK m, values : m = b.n /\ values = b.used
      OBVIOUS
    <3>1. m \in 1 .. k - 1 /\ (b.answer.ok => Q!OwnInputs(m, values))
      BY <2>1, <2>4, <3>m DEF ResultInv, NewRequest
    <3>2. k \in Nat /\ \A i \in 1 .. k - 1 : requests'[i] = requests[i]
      BY <2>1 DEF NewRequest
    <3>3. m \in 1 .. k /\ m \in Nat /\ \A i \in 1 .. m : i \in 1 .. k - 1
      BY <3>1, <3>2
    <3>4. Q!OwnInputs(m, values) => Q!OwnInputs(m, values)'
      BY <3>1, <3>2, <3>3, OwnStays
    <3> QED
      BY <3>1, <3>3, <3>4, <3>m
  <2> QED
    BY <2>1, <2>2, <2>3, <2>4 DEF NewRequest, ResultInv
<1>2. CASE Q!LoadRequestHandler
  <2>1. /\ UNCHANGED <<requests, decoder, answer, used, connected, stream>> /\ at = "handler"
    BY <1>2 DEF Q!LoadRequestHandler
  <2>2. Q!n' = Q!n /\ Q!request' = Q!request /\ Q!Bodies' = Q!Bodies
    BY <2>1, SameRequest DEF Q!Bodies
  <2>3. \A i \in Nat : \A v : requests'[i] = requests[i] => (Q!OwnInputs(i, v)' <=> Q!OwnInputs(i, v))
    <3>1. \A m, u, x : Q!Gave(m, u, x)' <=> Q!Gave(m, u, x)
      BY <2>1, GaveStays
    <3> QED
      BY <2>1, <3>1 DEF Q!OwnInputs
  <2>4. AllLatest' /\ at' \in {"inputs", "error"}
    <3>1. CASE Q!request.type \in Q!Types
      <4>1. /\ at' = "inputs" /\ DOMAIN handlers' = DOMAIN handlers \cup {Q!request.type}
            /\ \A t \in DOMAIN handlers' :
                 handlers'[t] = IF t \in DOMAIN handlers THEN handlers[t] ELSE [x \in Q!Names(t) |-> Q!Unset]
        BY <1>2, <3>1 DEF Q!LoadRequestHandler
      <4>2. ASSUME NEW t \in DOMAIN handlers', NEW x \in Q!Names(t)
            PROVE  LatestGiven(t, x, handlers[t][x].from)'
        <5>f. PICK f : f = handlers'[t][x].from
          OBVIOUS
        <5>1. LatestGiven(t, x, f)
          <6>1. CASE t \in DOMAIN handlers
            BY <4>1, <4>2, <5>f, <6>1 DEF ResultInv, AllLatest
          <6>2. CASE t \notin DOMAIN handlers
            <7>1. f = 0
              <8>1. handlers'[t][x] = Q!Unset
                <9>1. handlers'[t] = [y \in Q!Names(t) |-> Q!Unset]
                  <10>1. t \in DOMAIN handlers' /\ t \notin DOMAIN handlers
                    BY <4>2, <6>2
                  <10> QED
                    BY <10>1, <4>1
                <9>2. x \in Q!Names(t)
                  BY <4>2
                <9> QED
                  BY <9>1, <9>2
              <8>2. Q!Unset.from = 0
                BY DEF Q!Unset
              <8> QED
                BY <5>f, <8>1, <8>2
            <7> QED
              BY <7>1 DEF LatestGiven
          <6> QED
            BY <6>1, <6>2
        <5>2. LatestGiven(t, x, f)'
          BY <2>1, <4>1, <5>1, LatestStays
        <5> QED
          BY <5>2, <5>f DEF LatestGiven
      <4> QED
        BY <4>1, <4>2 DEF AllLatest
    <3>2. CASE Q!request.type \notin Q!Types
      <4>1. at' = "error" /\ handlers' = handlers
        BY <1>2, <3>2 DEF Q!LoadRequestHandler
      <4>2. ASSUME NEW t \in DOMAIN handlers, NEW x \in Q!Names(t)
            PROVE  LatestGiven(t, x, handlers[t][x].from)'
        <5>1. LatestGiven(t, x, handlers[t][x].from)
          BY <4>2 DEF ResultInv, AllLatest
        <5>2. \A m : Q!Gave(m, t, x)' <=> Q!Gave(m, t, x)
          BY <2>1, GaveStays
        <5>3. ~Q!Gave(Q!n, t, x)
          BY <3>2, <4>2 DEF Q!Gave, ReqTypes, Q!request
        <5>4. \A m \in 1 .. Q!n : m = Q!n \/ m < Q!n
          BY <1>0
        <5> QED
          BY <2>1, <2>2, <4>1, <5>1, <5>2, <5>3, <5>4 DEF LatestGiven
      <4> QED
        BY <4>1, <4>2 DEF AllLatest
    <3> QED
      BY <3>1, <3>2
  <2> QED
    BY <1>0, <2>1, <2>2, <2>3, <2>4 DEF ResultInv
<1>3. CASE Q!LoadInputs
  BY <1>3, ResultsLoaded
<1>4. CASE Q!ExecuteProcess
  BY <1>4, ResultsComputed
<1>5. ASSUME UNCHANGED <<requests, handlers, used>>,
             at' = at \/ (at \notin {"handler", "inputs"} /\ at' \in {"body", "error", "idle"}),
             at' = "outputs" \/ (at' = "body" /\ answer'.ok) => Q!OwnInputs(Q!n, used),
             \A b \in Q!Bodies' : b \in Q!Bodies \/
               (Q!n # 0 /\ b.n = Q!n /\ (b.answer.ok => Q!OwnInputs(b.n, b.used)))
      PROVE  ResultInv'
  <2>1. Q!n' = Q!n /\ Q!request' = Q!request
    BY <1>5, SameRequest
  <2>2. \A i \in Nat : \A v : Q!OwnInputs(i, v)' <=> Q!OwnInputs(i, v)
    <3>1. \A m, u, x : Q!Gave(m, u, x)' <=> Q!Gave(m, u, x)
      BY <1>5, GaveStays
    <3> QED
      BY <1>5, <3>1 DEF Q!OwnInputs
  <2>3. \A t, x, f : LatestGiven(t, x, f) => LatestGiven(t, x, f)'
    BY <1>5, LatestStays
  <2>4. AllLatest'
    <3>1. ASSUME NEW t \in DOMAIN handlers, NEW x \in Q!Names(t)
          PROVE  LatestGiven(t, x, handlers[t][x].from)'
      <4>f. PICK f : f = handlers[t][x].from
        OBVIOUS
      <4>1. LatestGiven(t, x, f)'
        BY <2>3, <3>1, <4>f DEF ResultInv, AllLatest
      <4> QED
        BY <1>5, <4>1, <4>f DEF LatestGiven
    <3> QED
      BY <1>5, <3>1 DEF AllLatest
  <2>5. at' = "outputs" \/ (at' = "body" /\ answer'.ok) => Q!OwnInputs(Q!n, used)'
    <3>1. PICK k, w : k = Q!n /\ w = used
      OBVIOUS
    <3>2. Q!OwnInputs(k, w) => Q!OwnInputs(k, w)'
      BY <1>0, <2>2, <3>1
    <3>3. Q!OwnInputs(k, w)' => Q!OwnInputs(Q!n, used)'
      BY <1>5, <2>1, <3>1 DEF Q!OwnInputs
    <3> QED
      BY <1>5, <3>1, <3>2, <3>3
  <2>6. ASSUME NEW b \in Q!Bodies' PROVE b.n \in 1 .. Q!n /\ (b.answer.ok => Q!OwnInputs(b.n, b.used))
    BY <1>0, <1>5, <2>6 DEF ResultInv
  <2>7. ASSUME NEW b \in Q!Bodies' PROVE b.n \in 1 .. Q!n /\ (b.answer.ok => Q!OwnInputs(b.n, b.used)')
    BY <1>0, <2>2, <2>6, <2>7
  <2> QED
    BY <1>5, <2>1, <2>4, <2>5, <2>7 DEF ResultInv
<1>6. ASSUME NEW ok \in BOOLEAN, Q!WriteWord(ok) PROVE ResultInv'
  <2>i. PICK item : item = [item |-> "word", n |-> Q!n]
    OBVIOUS
  <2>1. /\ UNCHANGED <<requests, handlers, used>> /\ Q!Send(item) /\ item.item = "word" /\ item \in ItemType
        /\ at = (IF ok THEN "outputs" ELSE "error") /\ Q!n # 0 /\ at' \in {"body", "error", "idle"}
        /\ answer'.ok = ok
    BY <1>0, <1>6, <2>i DEF Q!WriteWord, Q!Compose, ReqTypes, ItemType
  <2>2. \A b \in Q!Bodies' : b \in Q!Bodies
    BY <2>1, SentBodies
  <2>3. ok => Q!OwnInputs(Q!n, used)
    BY <2>1 DEF ResultInv
  <2>4. at \notin {"handler", "inputs"}
    BY <2>1
  <2> QED
    BY <1>5, <2>1, <2>2, <2>3, <2>4
<1>7. CASE Q!WriteBody
  <2>i. PICK item : item = [item |-> "body", n |-> Q!n, answer |-> answer, used |-> IF answer.ok THEN used ELSE <<>>]
    OBVIOUS
  <2>1. /\ UNCHANGED <<requests, handlers, used, answer>> /\ Q!Send(item) /\ at' \in {"error", "idle"}
        /\ at = "body" /\ Q!n # 0 /\ item.answer = answer /\ item \in ItemType
        /\ item.n = Q!n /\ (answer.ok => item.used = used)
    BY <1>0, <1>7, <2>i DEF Q!WriteBody, ReqTypes, ItemType, ValuesOf
  <2>2. \A b \in Q!Bodies' : b \in Q!Bodies \/ b = item
    BY <2>1, SentBodies
  <2>3. answer.ok => Q!OwnInputs(Q!n, used)
    BY <2>1 DEF ResultInv
  <2>4. at \notin {"handler", "inputs"} /\ at' # "body"
    BY <2>1
  <2>5. \A b \in Q!Bodies' : b \in Q!Bodies \/ (b.n = Q!n /\ (b.answer.ok => Q!OwnInputs(b.n, b.used)))
    BY <2>1, <2>2, <2>3
  <2> QED
    BY <1>5, <2>1, <2>4, <2>5
<1>8. CASE Q!Disconnect
  <2>1. UNCHANGED <<at, requests, decoder, handlers, answer, used, stream>>
    BY <1>8 DEF Q!Disconnect
  <2>2. Q!Bodies' = Q!Bodies
    BY <2>1 DEF Q!Bodies
  <2>3. at' = "outputs" \/ (at' = "body" /\ answer'.ok) => Q!OwnInputs(Q!n, used)
    BY <2>1 DEF ResultInv
  <2> QED
    BY <1>5, <2>1, <2>2, <2>3
<1> QED
  BY <1>1, <1>2, <1>3, <1>4, <1>6, <1>7, <1>8 DEF Q!Next

(***************************************************************************)
(* A step of another part leaves the requests alone.                       *)
(***************************************************************************)
ReqInv     == ReqTypes /\ StreamInv /\ AnswerInv /\ ResultInv
RequestsGo == part = "requests" => ReqInv

\* Before the first request nothing is sent, and there is no handler.
LEMMA RequestsStart == Q!Init => ReqInv
<1> SUFFICES ASSUME Q!Init PROVE ReqInv
  OBVIOUS
<1>1. /\ DOMAIN handlers = {} /\ DOMAIN stream = {} /\ Q!n = 0 /\ at = "idle" /\ Len(stream) = 0
  BY DEF Q!Init, Q!n
<1>2. ReqTypes
  <2>1. requests \in Seq(Offers) /\ stream \in Seq(ItemType) /\ used \in ValuesOf
    BY DEF Q!Init, ValuesOf
  <2>2. answer \in AnswerType /\ decoder \in [tag : Nat, type : Nat]
    BY DEF Q!Init, AnswerType
  <2>3. connected \in BOOLEAN
    BY DEF Q!Init
  <2> QED
    BY <1>1, <2>1, <2>2, <2>3 DEF ReqTypes
<1>3. Q!Bodies = {}
  BY <1>1 DEF Q!Bodies, Q!Range
<1> QED
  BY <1>1, <1>2, <1>3 DEF ReqInv, StreamInv, AnswerInv, ResultInv, AllLatest

\* The requests keep their invariant, whatever part of the program runs.
LEMMA RequestsHold == AnySpec => []RequestsGo
<1>1. AnyInit => RequestsGo
  BY RequestsStart DEF AnyInit, RequestsGo
<1>2. RequestsGo /\ [AnyNext]_allVars => RequestsGo'
  <2> SUFFICES ASSUME RequestsGo, [AnyNext]_allVars, part' = "requests" PROVE ReqInv'
    BY DEF RequestsGo
  <2>1. CASE Q!Next /\ part = "requests"
    BY <2>1, ReqTypesStep, StreamStep, AnswerStep, ResultStep DEF RequestsGo, ReqInv
  <2>2. CASE UNCHANGED reqVars /\ part = "requests"
    <3>0. UNCHANGED <<at, requests, decoder, handlers, answer, used, connected, stream>>
      BY <2>2 DEF reqVars
    <3>1. ReqTypes'
      BY <2>2, <3>0, SameRequest DEF RequestsGo, ReqInv, ReqTypes
    <3>2. StreamInv'
      BY <2>2, <3>0, SameRequest DEF RequestsGo, ReqInv, StreamInv
    <3>3. AnswerInv'
      BY <2>2, <3>0, SameRequest DEF RequestsGo, ReqInv, AnswerInv, Q!TagAnswered, Q!Bodies
    <3>4. ResultInv'
      <4>0. /\ ResultInv /\ Q!n' = Q!n /\ Q!request' = Q!request /\ Q!Bodies' = Q!Bodies
            /\ \A m : requests'[m] = requests[m]
        BY <2>2, <3>0, SameRequest DEF RequestsGo, ReqInv, Q!Bodies
      <4>1. \A m, t, x : Q!Gave(m, t, x)' <=> Q!Gave(m, t, x)
        BY <4>0, GaveStays
      <4>2. \A i, v : Q!OwnInputs(i, v)' <=> Q!OwnInputs(i, v)
        BY <4>0, <4>1 DEF Q!OwnInputs
      <4>3. Q!OwnInputs(Q!n, used)' <=> Q!OwnInputs(Q!n, used)
        BY <3>0, <4>0, <4>1 DEF Q!OwnInputs
      <4>4. AllLatest'
        BY <3>0, <4>0, <4>1 DEF ResultInv, AllLatest, LatestGiven
      <4> QED
        BY <3>0, <4>0, <4>2, <4>3, <4>4 DEF ResultInv
    <3> QED
      BY <3>1, <3>2, <3>3, <3>4 DEF ReqInv
  <2> QED
    BY <2>1, <2>2 DEF AnyNext, allVars
<1> QED
  BY <1>1, <1>2, PTL DEF AnySpec, allVars

(***************************************************************************)
(* Each request is answered once, in order, a word and then a body, until  *)
(* the connection goes; an answer has the tag and the type of its own      *)
(* request, as far as they could be read.                                  *)
(***************************************************************************)
THEOREM AnswersFollow == AnySpec => []AnswersMatch
<1>1. ReqInv => Q!AnswersMatch
  <2> SUFFICES ASSUME ReqInv PROVE Q!AnswersMatch
    OBVIOUS
  <2>1. connected /\ at = "idle" => Len(stream) = 2 * Q!n
    BY DEF ReqInv, StreamInv
  <2>2. \A b \in Q!Bodies : Q!TagAnswered(b.answer)
    BY DEF ReqInv, AnswerInv
  <2> QED
    BY <2>1, <2>2 DEF ReqInv, StreamInv, Q!AnswersMatch, Q!OneAnswerEach
<1>2. RequestsGo => AnswersMatch
  BY <1>1 DEF RequestsGo, AnswersMatch
<1> QED
  BY <1>2, RequestsHold, PTL

(***************************************************************************)
(* A result is computed from the inputs of its own request, as they were   *)
(* sent, although the handlers are kept and change their values; what a    *)
(* request did not give as wanted is that of the last one that gave it.    *)
(***************************************************************************)
THEOREM ResultsAreOwn == AnySpec => []ResultsFromOwnInputs
<1>1. RequestsGo => ResultsFromOwnInputs
  BY DEF RequestsGo, ReqInv, ResultInv, ResultsFromOwnInputs, Q!ResultsFromOwnInputs
<1> QED
  BY <1>1, RequestsHold, PTL
-----------------------------------------------------------------------------
(***************************************************************************)
(* Sequences that are put together of others.                              *)
(***************************************************************************)
Below == {p \in Nat \X Nat : p[1] < p[2]}

\* Numbers do not decrease for ever.
LEMMA BelowIsWellFounded == IsWellFoundedOn(Below, Nat)
BY NatLessThanWellFounded, Zenon DEF OpToRel, Below

\* A set of numbers has a least one.
LEMMA Least ==
  ASSUME NEW T, T \subseteq Nat, T # {}
  PROVE  \E x \in T : \A y \in T : x <= y
<1>1. \A y, x \in Nat : <<y, x>> \notin Below => x <= y
  BY DEF Below
<1>2. \E x \in T : \A y \in T : ~ (<<y, x>> \in Below)
  BY BelowIsWellFounded, WFMin
<1> QED
  BY <1>1, <1>2

\* What holds of 0, and of each number when it holds of the one before, holds of all in T.
LEMMA AllReached ==
  ASSUME NEW n \in Nat, NEW T, 0 \in T, \A i \in 1 .. n : i - 1 \in T => i \in T
  PROVE  0 .. n \subseteq T
<1> SUFFICES ASSUME NEW k \in 0 .. n, k \notin T PROVE FALSE
  OBVIOUS
<1>1. PICK U : U = {i \in 0 .. n : i \notin T}
  OBVIOUS
<1>2. U \subseteq Nat /\ k \in U
  BY <1>1
<1>3. PICK i \in U : \A j \in U : i <= j
  BY <1>2, Least
<1>4. i \in 0 .. n /\ i \notin T /\ i # 0
  BY <1>1
<1>5. i \in 1 .. n /\ i - 1 \in 0 .. n /\ i - 1 \notin U
  BY <1>3, <1>4
<1> QED
  BY <1>1, <1>4, <1>5

\* What rises from one place to the next, rises.
LEMMA Rises ==
  ASSUME NEW n \in Nat, NEW s, \A i \in 0 .. n : s[i] \in Nat, \A i \in 1 .. n : s[i - 1] <= s[i]
  PROVE  \A i, j \in 0 .. n : i <= j => s[i] <= s[j]
<1> SUFFICES ASSUME NEW i \in 0 .. n PROVE \A j \in 0 .. n : i <= j => s[i] <= s[j]
  OBVIOUS
<1>1. PICK T : T = {j \in 0 .. n : i <= j => s[i] <= s[j]}
  OBVIOUS
<1>2. 0 \in T
  BY <1>1
<1>3. ASSUME NEW j \in 1 .. n, j - 1 \in T PROVE j \in T
  <2>1. j \in 0 .. n /\ j - 1 \in 0 .. n /\ s[j] \in Nat /\ s[j - 1] \in Nat /\ s[i] \in Nat
    OBVIOUS
  <2>2. s[j - 1] <= s[j] /\ (i <= j - 1 => s[i] <= s[j - 1])
    BY <1>1, <1>3
  <2>3. i <= j => i <= j - 1 \/ i = j
    BY <2>1
  <2> QED
    BY <1>1, <2>1, <2>2, <2>3
<1>4. 0 .. n \subseteq T
  BY <1>2, <1>3, AllReached
<1> QED
  BY <1>1, <1>4

\* A value between the first and the last of what rises is between one place and the next.
LEMMA Between ==
  ASSUME NEW n \in Nat, NEW s, \A i \in 0 .. n : s[i] \in Nat, \A i \in 1 .. n : s[i - 1] <= s[i],
         NEW k \in Nat, s[0] < k, k <= s[n]
  PROVE  \E j \in 1 .. n : s[j - 1] < k /\ k <= s[j]
<1>1. PICK T : T = {i \in 0 .. n : k <= s[i]}
  OBVIOUS
<1>2. T \subseteq Nat /\ n \in T
  BY <1>1
<1>3. PICK j \in T : \A i \in T : j <= i
  BY <1>2, Least
<1>4. j \in 0 .. n /\ k <= s[j] /\ j # 0
  BY <1>1
<1>5. j \in 1 .. n /\ j - 1 \in 0 .. n /\ j - 1 \notin T
  BY <1>3, <1>4
<1>6. ~ (k <= s[j - 1]) /\ s[j - 1] \in Nat
  BY <1>1, <1>5
<1> QED
  BY <1>4, <1>5, <1>6

\* How much the first n of ss are, put together.
Partial(ss, n, s) == s = [i \in 1 .. n |-> IF i = 1 THEN ss[i] ELSE s[i - 1] \o ss[i]]

LEMMA JoinedExist == ASSUME NEW ss PROVE \A n \in Nat : \E s : Partial(ss, n, s)
<1>1. PICK T : T = {n \in Nat : \E s : Partial(ss, n, s)}
  OBVIOUS
<1>2. 0 \in T
  <2>1. PICK s : s = [i \in 1 .. 0 |-> 0]
    OBVIOUS
  <2>2. s = [i \in 1 .. 0 |-> IF i = 1 THEN ss[i] ELSE s[i - 1] \o ss[i]]
    BY <2>1
  <2> QED
    BY <1>1, <2>2 DEF Partial
<1>3. ASSUME NEW n \in Nat \ {0}, n - 1 \in T PROVE n \in T
  <2>1. PICK s : s = [i \in 1 .. n - 1 |-> IF i = 1 THEN ss[i] ELSE s[i - 1] \o ss[i]]
    BY <1>1, <1>3 DEF Partial
  <2>2. PICK x : x = IF n = 1 THEN ss[n] ELSE s[n - 1] \o ss[n]
    OBVIOUS
  <2>3. PICK t : t = [i \in 1 .. n |-> IF i < n THEN s[i] ELSE x]
    OBVIOUS
  <2>4. ASSUME NEW i \in 1 .. n PROVE t[i] = IF i = 1 THEN ss[i] ELSE t[i - 1] \o ss[i]
    <3>1. CASE i = 1
      <4>1. CASE n = 1
        BY <2>2, <2>3, <3>1, <4>1
      <4>2. CASE n # 1
        <5>1. 1 < n /\ 1 \in 1 .. n - 1
          BY <4>2
        <5>2. t[1] = s[1] /\ s[1] = ss[1]
          BY <2>1, <2>3, <5>1
        <5> QED
          BY <3>1, <5>2
      <4> QED
        BY <4>1, <4>2
    <3>2. CASE i # 1
      <4>1. i - 1 \in 1 .. n /\ i - 1 < n
        BY <3>2
      <4>2. t[i - 1] = s[i - 1]
        BY <2>3, <4>1
      <4>3. CASE i = n
        <5>1. t[n] = x /\ n # 1
          BY <2>3, <3>2, <4>3
        <5>2. x = s[n - 1] \o ss[n]
          BY <2>2, <5>1
        <5> QED
          BY <3>2, <4>2, <4>3, <5>1, <5>2
      <4>4. CASE i # n
        <5>1. i < n /\ i \in 1 .. n - 1
          BY <4>4
        <5>2. t[i] = s[i] /\ s[i] = s[i - 1] \o ss[i]
          BY <2>1, <2>3, <3>2, <5>1
        <5> QED
          BY <3>2, <4>2, <5>2
      <4> QED
        BY <4>3, <4>4
    <3> QED
      BY <3>1, <3>2
  <2>5. t = [i \in 1 .. n |-> IF i = 1 THEN ss[i] ELSE t[i - 1] \o ss[i]]
    BY <2>3, <2>4
  <2> QED
    BY <1>1, <2>5 DEF Partial
<1>4. ASSUME NEW n \in Nat PROVE n \in T
  <2>1. \A i \in 1 .. n : i - 1 \in T => i \in T
    BY <1>3
  <2>2. 0 .. n \subseteq T
    BY <1>2, <2>1, AllReached
  <2> QED
    BY <2>2
<1> QED
  BY <1>1, <1>4

\* Where each of the sequences ends when they are put together.
Ends(ss, b) ==
  /\ b \in [0 .. Len(ss) -> Nat] /\ b[0] = 0
  /\ \A i \in 1 .. Len(ss) : b[i] = b[i - 1] + Len(ss[i])
Holds(s, ss, b) == \A i \in 1 .. Len(ss) : \A p \in 1 .. Len(ss[i]) : s[b[i - 1] + p] = ss[i][p]

\* The lengths of what they are put together of are those where they end.
LEMMA JoinedParts ==
  ASSUME NEW S, NEW ss \in Seq(Seq(S)), NEW n \in Nat \ {0}, n = Len(ss), NEW s, Partial(ss, n, s)
  PROVE  s[n] \in Seq(S) /\ \E b : Ends(ss, b) /\ Len(s[n]) = b[n] /\ Holds(s[n], ss, b)
<1>1. /\ \A i \in 1 .. n : ss[i] \in Seq(S)
      /\ s[1] = ss[1] /\ \A i \in 2 .. n : s[i] = s[i - 1] \o ss[i]
  <2>1. s = [i \in 1 .. n |-> IF i = 1 THEN ss[i] ELSE s[i - 1] \o ss[i]]
    BY DEF Partial
  <2>2. ASSUME NEW i \in 2 .. n PROVE s[i] = s[i - 1] \o ss[i]
    <3>1. i \in 1 .. n /\ i # 1
      OBVIOUS
    <3> QED
      BY <2>1, <3>1
  <2>3. s[1] = ss[1]
    <3>1. 1 \in 1 .. n
      OBVIOUS
    <3> QED
      BY <2>1, <3>1
  <2>4. \A i \in 1 .. n : ss[i] \in Seq(S)
    OBVIOUS
  <2> QED
    BY <2>2, <2>3, <2>4
<1>2. \A i \in 1 .. n : s[i] \in Seq(S)
  <2>1. PICK T : T = {i \in 0 .. n : i = 0 \/ s[i] \in Seq(S)}
    OBVIOUS
  <2>2. ASSUME NEW i \in 1 .. n, i - 1 \in T PROVE i \in T
    <3>1. CASE i = 1
      BY <1>1, <2>1, <3>1
    <3>2. CASE i # 1
      <4>1. i \in 2 .. n /\ s[i - 1] \in Seq(S) /\ ss[i] \in Seq(S)
        BY <1>1, <2>1, <2>2, <3>2
      <4>2. s[i] \in Seq(S)
        <5>1. PICK u \in Seq(S), v \in Seq(S) : u = s[i - 1] /\ v = ss[i]
          BY <4>1
        <5>2. s[i] = u \o v
          BY <1>1, <4>1, <5>1
        <5> QED
          BY <5>2, ConcatProperties
      <4> QED
        BY <2>1, <4>2
    <3> QED
      BY <3>1, <3>2
  <2>3. 0 \in T /\ n \in Nat
    BY <2>1
  <2>4. 0 .. n \subseteq T
    BY <2>2, <2>3, AllReached
  <2> SUFFICES ASSUME NEW i \in 1 .. n PROVE s[i] \in Seq(S)
    OBVIOUS
  <2>5. i \in 0 .. n /\ i # 0
    OBVIOUS
  <2>6. i \in T
    BY <2>4, <2>5
  <2> QED
    BY <2>1, <2>5, <2>6
<1>3. PICK b : b = [i \in 0 .. n |-> IF i = 0 THEN 0 ELSE Len(s[i])]
  OBVIOUS
<1>4. b \in [0 .. n -> Nat] /\ b[0] = 0 /\ \A i \in 1 .. n : b[i] = Len(s[i])
  BY <1>2, <1>3
<1>5. ASSUME NEW i \in 1 .. n PROVE b[i] = b[i - 1] + Len(ss[i])
  <2>1. ss[i] \in Seq(S) /\ Len(ss[i]) \in Nat
    BY <1>1
  <2>2. CASE i = 1
    BY <1>1, <1>4, <2>1, <2>2
  <2>3. CASE i # 1
    <3>1. i \in 2 .. n /\ i - 1 \in 1 .. n
      BY <2>3
    <3>2. PICK u \in Seq(S), v \in Seq(S) : u = s[i - 1] /\ v = ss[i]
      BY <1>1, <1>2, <3>1
    <3>3. s[i] = u \o v
      BY <1>1, <3>1, <3>2
    <3>4. Len(s[i]) = Len(s[i - 1]) + Len(ss[i])
      BY <3>2, <3>3, ConcatProperties
    <3> QED
      BY <1>4, <3>1, <3>4
  <2> QED
    BY <2>2, <2>3
<1>6. \A i, j \in 0 .. n : i <= j => b[i] <= b[j]
  <2>1. \A i \in 1 .. n : b[i - 1] <= b[i]
    <3> SUFFICES ASSUME NEW i \in 1 .. n PROVE b[i - 1] <= b[i]
      OBVIOUS
    <3>1. i - 1 \in 0 .. n /\ Len(ss[i]) \in Nat
      BY <1>1
    <3>2. b[i - 1] \in Nat /\ b[i] = b[i - 1] + Len(ss[i])
      BY <1>4, <1>5, <3>1
    <3> QED
      BY <3>1, <3>2
  <2>2. n \in Nat /\ \A i \in 0 .. n : b[i] \in Nat
    BY <1>4
  <2> QED
    BY <2>1, <2>2, Rises
<1>7. ASSUME NEW i \in 1 .. n, NEW p \in 1 .. Len(ss[i]) PROVE s[n][b[i - 1] + p] = ss[i][p]
  <2>1. ss[i] \in Seq(S) /\ i \in 0 .. n /\ i - 1 \in 0 .. n
    BY <1>1
  <2>2. PICK lo \in Nat, hi \in Nat, m \in Nat : lo = b[i - 1] /\ hi = b[i] /\ m = Len(ss[i])
    <3>1. Len(ss[i]) \in Nat
      BY <2>1
    <3>2. b[i] \in Nat /\ b[i - 1] \in Nat
      BY <1>4, <2>1
    <3> QED
      BY <3>1, <3>2
  <2>3. hi = lo + m /\ p \in 1 .. m
    BY <1>5, <2>2
  <2>4. PICK q \in Nat : q = lo + p
    BY <2>3
  <2>5. PICK T : T = {j \in 0 .. n : i <= j => s[j][q] = ss[i][p]}
    OBVIOUS
  <2>6. 0 \in T
    BY <2>5
  <2>7. ASSUME NEW j \in 1 .. n, j - 1 \in T PROVE j \in T
    <3>1. CASE j < i
      BY <2>5, <3>1
    <3>2. CASE j = i
      <4>1. CASE i = 1
        <5>1. lo = 0 /\ q = p
          BY <1>4, <2>2, <2>3, <2>4, <4>1
        <5> QED
          BY <1>1, <2>5, <3>2, <4>1, <5>1
      <4>2. CASE i # 1
        <5>1. i \in 2 .. n /\ i - 1 \in 1 .. n
          BY <4>2
        <5>2. PICK u \in Seq(S), v \in Seq(S) : u = s[i - 1] /\ v = ss[i]
          BY <1>2, <2>1, <5>1
        <5>3. s[i] = u \o v /\ Len(u) = lo /\ Len(v) = m
          BY <1>1, <1>4, <2>2, <5>1, <5>2
        <5>4. q \in 1 .. Len(u) + Len(v) /\ ~ (q <= Len(u)) /\ q - Len(u) = p
          BY <2>3, <2>4, <5>3
        <5>5. (u \o v)[q] = v[p]
          BY <5>4, ConcatProperties
        <5>6. s[i][q] = ss[i][p]
          BY <5>2, <5>3, <5>5
        <5> QED
          BY <2>5, <3>2, <5>6
      <4> QED
        BY <4>1, <4>2
    <3>3. CASE i < j
      <4>1. j \in 2 .. n /\ j - 1 \in 1 .. n /\ i <= j - 1 /\ j - 1 \in 0 .. n
        BY <3>3
      <4>2. PICK u \in Seq(S), v \in Seq(S) : u = s[j - 1] /\ v = ss[j]
        BY <1>1, <1>2, <4>1
      <4>3. s[j] = u \o v /\ Len(u) = b[j - 1]
        BY <1>1, <1>4, <4>1, <4>2
      <4>4. PICK l \in Nat, k \in Nat : l = Len(u) /\ k = Len(v)
        OBVIOUS
      <4>5. hi <= l
        BY <1>6, <2>1, <2>2, <4>1, <4>3, <4>4
      <4>6. q \in 1 .. l + k /\ q <= l
        BY <2>3, <2>4, <4>4, <4>5
      <4>7. (u \o v)[q] = u[q]
        BY <4>4, <4>6, ConcatProperties
      <4>8. s[j - 1][q] = ss[i][p]
        BY <2>5, <2>7, <4>1
      <4>9. s[j][q] = ss[i][p]
        BY <4>2, <4>3, <4>7, <4>8
      <4> QED
        BY <2>5, <4>9
    <3> QED
      BY <3>1, <3>2, <3>3
  <2>8. 0 .. n \subseteq T
    BY <2>6, <2>7, AllReached
  <2>9. n \in T /\ i <= n
    BY <2>8
  <2> QED
    BY <2>2, <2>4, <2>5, <2>9
<1>8. Ends(ss, b)
  BY <1>4, <1>5 DEF Ends
<1>9. Holds(s[n], ss, b)
  BY <1>7 DEF Holds
<1>10. s[n] \in Seq(S) /\ Len(s[n]) = b[n]
  BY <1>2, <1>4
<1> QED
  BY <1>8, <1>9, <1>10

\* The modules put together alike.
LEMMA SameFlat == \A ss : F!FlattenSeq(ss) = FlattenSeq(ss)
BY Zenon DEF F!FlattenSeq, FlattenSeq

\* What is put together has the sequences one behind the other.
LEMMA Flattened ==
  ASSUME NEW S, NEW ss \in Seq(Seq(S))
  PROVE  /\ FlattenSeq(ss) \in Seq(S)
         /\ \E b : /\ Ends(ss, b) /\ Len(FlattenSeq(ss)) = b[Len(ss)]
                   /\ Holds(FlattenSeq(ss), ss, b)
<1>1. CASE Len(ss) = 0
  <2>1. ss = << >> /\ FlattenSeq(ss) = << >>
    BY <1>1, EmptySeq DEF FlattenSeq
  <2>2. PICK b : b = [i \in 0 .. 0 |-> 0]
    OBVIOUS
  <2>3. Ends(ss, b) /\ Len(FlattenSeq(ss)) = b[Len(ss)]
    BY <1>1, <2>1, <2>2 DEF Ends
  <2>4. Holds(FlattenSeq(ss), ss, b)
    BY <1>1 DEF Holds
  <2>5. << >> \in Seq(S)
    OBVIOUS
  <2> QED
    BY <2>1, <2>3, <2>4, <2>5
<1>2. CASE Len(ss) # 0
  <2>1. PICK n \in Nat \ {0} : n = Len(ss)
    BY <1>2
  <2>. DEFINE s == CHOOSE flatten : flatten = [i \in 1 .. Len(ss) |->
                                      IF i = 1 THEN ss[i] ELSE flatten[i - 1] \o ss[i]]
  <2>2. FlattenSeq(ss) = s[Len(ss)]
    BY <1>2, Zenon DEF FlattenSeq
  <2>3. \E flatten : flatten = [i \in 1 .. Len(ss) |->
                                  IF i = 1 THEN ss[i] ELSE flatten[i - 1] \o ss[i]]
    <3>1. \E flatten : Partial(ss, n, flatten)
      BY <2>1, JoinedExist
    <3> QED
      BY <2>1, <3>1 DEF Partial
  <2>4. s = [i \in 1 .. Len(ss) |-> IF i = 1 THEN ss[i] ELSE s[i - 1] \o ss[i]]
    BY <2>3, Zenon
  <2>. HIDE DEF s
  <2>5. Partial(ss, n, s)
    BY <2>1, <2>4 DEF Partial
  <2>6. s[n] \in Seq(S) /\ \E b : Ends(ss, b) /\ Len(s[n]) = b[n] /\ Holds(s[n], ss, b)
    BY <2>1, <2>5, JoinedParts
  <2>7. FlattenSeq(ss) = s[n]
    BY <2>1, <2>2
  <2> QED
    BY <2>1, <2>6, <2>7
<1> QED
  BY <1>1, <1>2

\* They end in one place only.
LEMMA EndsOnce ==
  ASSUME NEW ss, NEW tt, Len(ss) \in Nat, Len(tt) \in Nat, Len(ss) <= Len(tt),
         \A i \in 1 .. Len(ss) : ss[i] = tt[i], NEW b, NEW c, Ends(ss, b), Ends(tt, c)
  PROVE  \A i \in 0 .. Len(ss) : b[i] = c[i]
<1>1. PICK T : T = {i \in 0 .. Len(ss) : b[i] = c[i]}
  OBVIOUS
<1>2. 0 \in T
  BY <1>1 DEF Ends
<1>3. ASSUME NEW i \in 1 .. Len(ss), i - 1 \in T PROVE i \in T
  <2>1. i \in 1 .. Len(tt) /\ i \in 0 .. Len(ss) /\ ss[i] = tt[i] /\ b[i - 1] = c[i - 1]
    BY <1>1, <1>3
  <2>2. b[i] = b[i - 1] + Len(ss[i]) /\ c[i] = c[i - 1] + Len(tt[i])
    BY <2>1 DEF Ends
  <2> QED
    BY <1>1, <2>1, <2>2
<1>4. 0 .. Len(ss) \subseteq T
  BY <1>2, <1>3, AllReached
<1> QED
  BY <1>1, <1>4

(***************************************************************************)
(* The files of a list.                                                    *)
(***************************************************************************)
Place      == Nat \X Nat \X Nat
FileWord   == [words : Seq(Place), swap : BOOLEAN]
Listed     == /\ fileList \in Lists /\ words = F!Files(fileList, Len(fileList))
              /\ ends = [f \in DOMAIN fileList |-> Len(F!Files(fileList, f))]
Records(f) == fileList[f].records
Length(f, r) == Records(f)[r].length
GoodFile(f)  == fileList[f].there /\ \A g \in 1 .. f : F!Whole(g)

\* What is assumed of a file.
LEMMA FileFacts ==
  ASSUME fileList \in Lists, NEW f \in 1 .. Len(fileList)
  PROVE  /\ Len(fileList) \in Nat /\ DOMAIN fileList = 1 .. Len(fileList)
         /\ fileList[f] \in FileType /\ Records(f) \in Seq(RecordType)
         /\ DOMAIN Records(f) = 1 .. Len(Records(f)) /\ Len(Records(f)) \in Nat
         /\ \A r \in 1 .. Len(Records(f)) :
              /\ Records(f)[r] \in RecordType /\ Length(f, r) \in Nat \ {0}
              /\ r = 1 \/ Records(f)[r - 1].kind = "stop" => Records(f)[r].kind = "header"
              /\ fileList[f].old /\ Records(f)[r].kind = "header" => Length(f, r) > 1
         /\ fileList[f].old => fileList[f].other
<1>1. /\ fileList \in Seq(FileType)
      /\ \A g \in DOMAIN fileList : LET records == fileList[g].records
           IN  /\ \A r \in DOMAIN records : r = 1 \/ records[r - 1].kind = "stop" => records[r].kind = "header"
               /\ fileList[g].old => fileList[g].other
               /\ \A r \in DOMAIN records :
                    fileList[g].old /\ records[r].kind = "header" => records[r].length > 1
  BY ListAssumption
<1>2. Len(fileList) \in Nat /\ DOMAIN fileList = 1 .. Len(fileList) /\ fileList[f] \in FileType
  BY <1>1
<1>3. Records(f) \in Seq(RecordType)
  BY <1>2 DEF FileType, Records
<1>4. /\ DOMAIN Records(f) = 1 .. Len(Records(f)) /\ Len(Records(f)) \in Nat
      /\ \A r \in 1 .. Len(Records(f)) : Records(f)[r] \in RecordType
  BY <1>3
<1>5. \A r \in 1 .. Len(Records(f)) : Length(f, r) \in Nat \ {0}
  BY <1>4 DEF Length, RecordType
<1>6. fileList[f].old => fileList[f].other
  BY <1>1, <1>2
<1>7. ASSUME NEW r \in 1 .. Len(Records(f))
      PROVE  /\ r = 1 \/ Records(f)[r - 1].kind = "stop" => Records(f)[r].kind = "header"
             /\ fileList[f].old /\ Records(f)[r].kind = "header" => Length(f, r) > 1
  <2>1. r \in DOMAIN fileList[f].records /\ f \in DOMAIN fileList
    BY <1>2, <1>4 DEF Records
  <2> QED
    BY <1>1, <2>1 DEF Records, Length
<1> QED
  BY <1>2, <1>3, <1>4, <1>5, <1>6, <1>7

\* The words of a file are those of its records, one behind the other.
FilePlan(f, c) ==
  /\ c \in [0 .. Len(Records(f)) -> Nat] /\ c[0] = 0
  /\ \A r \in 1 .. Len(Records(f)) : c[r] = c[r - 1] + Length(f, r)
  /\ Len(F!Words(fileList, f)) = c[Len(Records(f))]
  /\ \A r \in 1 .. Len(Records(f)) : \A p \in 1 .. Length(f, r) :
       F!Words(fileList, f)[c[r - 1] + p] = <<f, r, p>>
RecordEnds(f) == CHOOSE c : FilePlan(f, c)

LEMMA FilePlanned ==
  ASSUME fileList \in Lists, NEW f \in 1 .. Len(fileList)
  PROVE  F!Words(fileList, f) \in Seq(Place) /\ FilePlan(f, RecordEnds(f))
<1>1. PICK m \in Nat : m = Len(Records(f)) /\ DOMAIN Records(f) = 1 .. m
  BY FileFacts
<1>2. \A r \in 1 .. m : Length(f, r) \in Nat
  BY <1>1, FileFacts
<1>3. PICK parts : parts = [r \in 1 .. m |-> [p \in 1 .. Length(f, r) |-> <<f, r, p>>]]
  OBVIOUS
<1>4. ASSUME NEW r \in 1 .. m
      PROVE  /\ parts[r] \in Seq(Place) /\ Len(parts[r]) = Length(f, r)
             /\ \A p \in 1 .. Length(f, r) : parts[r][p] = <<f, r, p>>
  <2>1. parts[r] = [p \in 1 .. Length(f, r) |-> <<f, r, p>>]
    BY <1>3
  <2>2. \A p \in 1 .. Length(f, r) : <<f, r, p>> \in Place
    BY <1>2, FileFacts DEF Place
  <2> QED
    BY <1>2, <2>1, <2>2
<1>5. parts \in Seq(Seq(Place)) /\ Len(parts) = m
  BY <1>3, <1>4
<1>6. F!Words(fileList, f) = FlattenSeq(parts)
  <2>1. F!Words(fileList, f) = F!FlattenSeq(parts)
    BY <1>1, <1>3 DEF F!Words, Records, Length
  <2> QED
    BY <2>1, SameFlat
<1>7. PICK c : Ends(parts, c) /\ Len(FlattenSeq(parts)) = c[m] /\ Holds(FlattenSeq(parts), parts, c)
  BY <1>5, Flattened
<1>8. /\ c \in [0 .. m -> Nat] /\ c[0] = 0 /\ \A r \in 1 .. m : c[r] = c[r - 1] + Length(f, r)
  BY <1>4, <1>5, <1>7 DEF Ends
<1>9. \A r \in 1 .. m : \A p \in 1 .. Length(f, r) : FlattenSeq(parts)[c[r - 1] + p] = <<f, r, p>>
  <2> SUFFICES ASSUME NEW r \in 1 .. m, NEW p \in 1 .. Length(f, r)
               PROVE  FlattenSeq(parts)[c[r - 1] + p] = <<f, r, p>>
    OBVIOUS
  <2>1. p \in 1 .. Len(parts[r]) /\ r \in 1 .. Len(parts) /\ parts[r][p] = <<f, r, p>>
    BY <1>4, <1>5
  <2>2. FlattenSeq(parts)[c[r - 1] + p] = parts[r][p]
    BY <1>7, <2>1 DEF Holds
  <2> QED
    BY <2>1, <2>2
<1>10. FilePlan(f, c)
  BY <1>1, <1>6, <1>7, <1>8, <1>9 DEF FilePlan
<1>11. FilePlan(f, RecordEnds(f))
  BY <1>10, Zenon DEF RecordEnds
<1>12. F!Words(fileList, f) \in Seq(Place)
  BY <1>5, <1>6, Flattened
<1> QED
  BY <1>11, <1>12

LEMMA ContentsTaken ==
  ASSUME fileList \in Lists, NEW f \in 1 .. Len(fileList)
  PROVE  /\ F!Contents(fileList, f) \in Seq(Place)
         /\ GoodFile(f) => F!Contents(fileList, f) = F!Words(fileList, f)
         /\ ~ fileList[f].there => F!Contents(fileList, f) = << >>
<1>1. PICK w \in Seq(Place) : w = F!Words(fileList, f)
  BY FilePlanned
<1>2. fileList[f].cut \in Nat /\ fileList[f].there \in BOOLEAN
  BY FileFacts DEF FileType
<1>3. F!Contents(fileList, f) = IF fileList[f].there THEN SubSeq(w, 1, Len(w) - fileList[f].cut) ELSE << >>
  BY <1>1 DEF F!Contents
<1>4. SubSeq(w, 1, Len(w) - fileList[f].cut) \in Seq(Place)
  BY <1>2, SubSeqProperties
<1>5. fileList[f].cut = 0 => SubSeq(w, 1, Len(w) - fileList[f].cut) = w
  <2>1. SubSeq(w, 1, Len(w)) = w
    BY SubSeqFull
  <2>2. Len(w) \in Nat /\ Len(w) - 0 = Len(w)
    OBVIOUS
  <2> QED
    BY <2>1, <2>2
<1>6. GoodFile(f) => fileList[f].there /\ fileList[f].cut = 0
  <2>1. f \in 1 .. f
    BY FileFacts
  <2> QED
    BY <2>1 DEF GoodFile, F!Whole
<1>7. << >> \in Seq(Place)
  OBVIOUS
<1> QED
  BY <1>1, <1>3, <1>4, <1>5, <1>6, <1>7

\* The words of the list are those of its files, one behind the other.
ListPlan(b) ==
  /\ b \in [0 .. Len(fileList) -> Nat] /\ b[0] = 0
  /\ \A f \in 1 .. Len(fileList) : b[f] = b[f - 1] + Len(F!Contents(fileList, f)) /\ ends[f] = b[f]
  /\ Len(words) = b[Len(fileList)]
  /\ \A f \in 1 .. Len(fileList) : \A p \in 1 .. Len(F!Contents(fileList, f)) :
       words[b[f - 1] + p] = F!Contents(fileList, f)[p]

LEMMA ListPlanned == ASSUME Listed PROVE words \in Seq(Place) /\ \E b : ListPlan(b)
<1>1. PICK n \in Nat : n = Len(fileList) /\ DOMAIN fileList = 1 .. n
  <2>1. fileList \in Seq(FileType)
    BY ListAssumption DEF Listed
  <2> QED
    BY <2>1
<1>2. fileList \in Lists /\ words = F!Files(fileList, n) /\ ends = [f \in 1 .. n |-> Len(F!Files(fileList, f))]
  BY <1>1 DEF Listed
<1>3. PICK parts : parts = [f \in 1 .. n |-> F!Contents(fileList, f)]
  OBVIOUS
<1>4. \A f \in 1 .. n : parts[f] = F!Contents(fileList, f) /\ parts[f] \in Seq(Place)
  BY <1>1, <1>2, <1>3, ContentsTaken
<1>5. parts \in Seq(Seq(Place)) /\ Len(parts) = n
  BY <1>3, <1>4
<1>6. words = FlattenSeq(parts)
  BY <1>2, <1>3, SameFlat DEF F!Files
<1>7. PICK b : Ends(parts, b) /\ Len(FlattenSeq(parts)) = b[n] /\ Holds(FlattenSeq(parts), parts, b)
  BY <1>5, Flattened
<1>8. ASSUME NEW f \in 1 .. n PROVE ends[f] = b[f]
  <2>1. PICK some : some = [g \in 1 .. f |-> F!Contents(fileList, g)]
    OBVIOUS
  <2>2. \A g \in 1 .. f : some[g] = parts[g] /\ some[g] \in Seq(Place)
    <3>1. \A g \in 1 .. f : g \in 1 .. n
      OBVIOUS
    <3> QED
      BY <1>4, <2>1, <3>1
  <2>3. some \in Seq(Seq(Place)) /\ Len(some) = f
    BY <2>1, <2>2
  <2>4. ends[f] = Len(FlattenSeq(some))
    BY <1>2, <2>1, SameFlat DEF F!Files
  <2>5. PICK c : Ends(some, c) /\ Len(FlattenSeq(some)) = c[f]
    BY <2>3, Flattened
  <2>6. \A i \in 0 .. f : c[i] = b[i]
    <3>1. Len(some) \in Nat /\ Len(parts) \in Nat /\ Len(some) <= Len(parts)
      BY <1>5, <2>3
    <3>2. \A i \in 1 .. Len(some) : some[i] = parts[i]
      BY <2>2, <2>3
    <3>3. \A i \in 0 .. Len(some) : c[i] = b[i]
      BY <1>7, <2>5, <3>1, <3>2, EndsOnce
    <3> QED
      BY <2>3, <3>3
  <2> QED
    BY <2>4, <2>5, <2>6
<1>9. b \in [0 .. n -> Nat] /\ b[0] = 0 /\ \A f \in 1 .. n : b[f] = b[f - 1] + Len(F!Contents(fileList, f))
  BY <1>4, <1>5, <1>7 DEF Ends
<1>10. \A f \in 1 .. n : \A p \in 1 .. Len(F!Contents(fileList, f)) :
         words[b[f - 1] + p] = F!Contents(fileList, f)[p]
  BY <1>4, <1>5, <1>6, <1>7 DEF Holds
<1>11. ListPlan(b)
  BY <1>1, <1>6, <1>7, <1>8, <1>9, <1>10 DEF ListPlan
<1>12. words \in Seq(Place)
  BY <1>5, <1>6, Flattened
<1> QED
  BY <1>11, <1>12

\* The records that are expected are those of the files that are good, in their order.
HowMany(f)   == IF GoodFile(f) THEN Len(Records(f)) ELSE 0
OrderPlan(e) ==
  /\ e \in [0 .. Len(fileList) -> Nat] /\ e[0] = 0
  /\ \A f \in 1 .. Len(fileList) : e[f] = e[f - 1] + HowMany(f)
  /\ Len(F!Expected) = e[Len(fileList)]
  /\ \A f \in 1 .. Len(fileList) : \A r \in 1 .. HowMany(f) :
       F!Expected[e[f - 1] + r] =
         [words |-> [p \in 1 .. Length(f, r) |-> <<f, r, p>>], swap |-> fileList[f].other]

LEMMA OrderPlanned == ASSUME Listed PROVE F!Expected \in Seq(FileWord) /\ \E e : OrderPlan(e)
<1>1. PICK n \in Nat : n = Len(fileList) /\ DOMAIN fileList = 1 .. n /\ fileList \in Lists
  <2>1. fileList \in Seq(FileType)
    BY ListAssumption DEF Listed
  <2> QED
    BY <2>1 DEF Listed
<1>2. PICK parts : parts = [f \in 1 .. n |-> IF GoodFile(f) THEN F!Records(f) ELSE << >>]
  OBVIOUS
<1>3. F!Expected = FlattenSeq(parts)
  BY <1>1, <1>2, SameFlat DEF F!Expected, GoodFile
<1>4. ASSUME NEW f \in 1 .. n
      PROVE  /\ parts[f] \in Seq(FileWord) /\ Len(parts[f]) = HowMany(f) /\ HowMany(f) \in Nat
             /\ \A r \in 1 .. HowMany(f) :
                  parts[f][r] = [words |-> [p \in 1 .. Length(f, r) |-> <<f, r, p>>], swap |-> fileList[f].other]
  <2>1. CASE ~ GoodFile(f)
    BY <1>2, <2>1 DEF HowMany
  <2>2. CASE GoodFile(f)
    <3>1. PICK m \in Nat : m = Len(Records(f)) /\ DOMAIN Records(f) = 1 .. m
      BY <1>1, FileFacts
    <3>2. parts[f] = [r \in 1 .. m |-> [words |-> [p \in 1 .. Length(f, r) |-> <<f, r, p>>],
                                        swap |-> fileList[f].other]]
      BY <1>2, <2>2, <3>1 DEF F!Records, Records, Length
    <3>3. fileList[f].other \in BOOLEAN
      BY <1>1, FileFacts DEF FileType
    <3>4. ASSUME NEW r \in 1 .. m
          PROVE  [words |-> [p \in 1 .. Length(f, r) |-> <<f, r, p>>], swap |-> fileList[f].other] \in FileWord
      <4>1. Length(f, r) \in Nat
        BY <1>1, <3>1, FileFacts
      <4>2. \A p \in 1 .. Length(f, r) : <<f, r, p>> \in Place
        BY <1>1, <3>1, <4>1 DEF Place
      <4>3. [p \in 1 .. Length(f, r) |-> <<f, r, p>>] \in Seq(Place)
        BY <4>1, <4>2
      <4> QED
        BY <3>3, <4>3 DEF FileWord
    <3>5. parts[f] \in Seq(FileWord) /\ Len(parts[f]) = m
      BY <3>2, <3>4
    <3> QED
      BY <2>2, <3>1, <3>2, <3>5 DEF HowMany
  <2> QED
    BY <2>1, <2>2
<1>5. parts \in Seq(Seq(FileWord)) /\ Len(parts) = n
  BY <1>2, <1>4
<1>6. PICK e : Ends(parts, e) /\ Len(FlattenSeq(parts)) = e[n] /\ Holds(FlattenSeq(parts), parts, e)
  BY <1>5, Flattened
<1>7. e \in [0 .. n -> Nat] /\ e[0] = 0 /\ \A f \in 1 .. n : e[f] = e[f - 1] + HowMany(f)
  BY <1>4, <1>5, <1>6 DEF Ends
<1>8. ASSUME NEW f \in 1 .. n, NEW r \in 1 .. HowMany(f)
      PROVE  F!Expected[e[f - 1] + r] =
               [words |-> [p \in 1 .. Length(f, r) |-> <<f, r, p>>], swap |-> fileList[f].other]
  <2>1. r \in 1 .. Len(parts[f]) /\ f \in 1 .. Len(parts)
    BY <1>4, <1>5
  <2>2. F!Expected[e[f - 1] + r] = parts[f][r]
    BY <1>3, <1>6, <2>1 DEF Holds
  <2> QED
    BY <1>4, <2>2
<1>9. OrderPlan(e)
  BY <1>1, <1>3, <1>6, <1>7, <1>8 DEF OrderPlan
<1>10. F!Expected \in Seq(FileWord)
  BY <1>3, <1>5, Flattened
<1> QED
  BY <1>9, <1>10

\* Where the files' contents are the same, as many records are expected, and the other way round.
LEMMA StaysAlike ==
  ASSUME NEW n \in Nat, NEW e, NEW b, \A i \in 0 .. n : e[i] \in Nat,
         \A i \in 1 .. n : e[i - 1] <= e[i] /\ (e[i - 1] = e[i] => b[i - 1] = b[i]),
         NEW g \in 0 .. n, e[g] = e[n]
  PROVE  b[g] = b[n]
<1>1. \A i, j \in 0 .. n : i <= j => e[i] <= e[j]
  BY Rises
<1>2. PICK T : T = {i \in 0 .. n : g <= i => b[i] = b[g]}
  OBVIOUS
<1>3. 0 \in T
  BY <1>2
<1>4. ASSUME NEW i \in 1 .. n, i - 1 \in T PROVE i \in T
  <2>1. i \in 0 .. n /\ i - 1 \in 0 .. n /\ n \in 0 .. n
    OBVIOUS
  <2>2. CASE g <= i - 1
    <3>1. e[g] <= e[i - 1] /\ e[i - 1] <= e[i] /\ e[i] <= e[n]
      BY <1>1, <2>1, <2>2
    <3>2. e[i - 1] = e[i]
      BY <2>1, <3>1
    <3> QED
      BY <1>2, <1>4, <2>1, <2>2, <3>2
  <2>3. CASE ~ (g <= i - 1)
    BY <1>2, <2>1, <2>3
  <2> QED
    BY <2>2, <2>3
<1>5. 0 .. n \subseteq T
  BY <1>3, <1>4, AllReached
<1> QED
  BY <1>2, <1>5

\* A record that is expected: the r-th of file f.
Fits(e, k, f, r) ==
  /\ f \in 1 .. Len(fileList) /\ GoodFile(f) /\ r \in 1 .. Len(Records(f)) /\ k = e[f - 1] + r

LEMMA EachFits ==
  ASSUME Listed, NEW e, OrderPlan(e), NEW k \in 1 .. Len(F!Expected)
  PROVE  \E f, r : Fits(e, k, f, r)
<1>1. /\ Len(fileList) \in Nat /\ e[0] = 0 /\ Len(F!Expected) = e[Len(fileList)]
      /\ \A f \in 0 .. Len(fileList) : e[f] \in Nat
      /\ \A f \in 1 .. Len(fileList) : e[f] = e[f - 1] + HowMany(f)
  <2>1. fileList \in Seq(FileType)
    BY ListAssumption DEF Listed
  <2>2. Len(fileList) \in Nat
    BY <2>1
  <2>3. /\ e \in [0 .. Len(fileList) -> Nat] /\ e[0] = 0 /\ Len(F!Expected) = e[Len(fileList)]
        /\ \A f \in 1 .. Len(fileList) : e[f] = e[f - 1] + HowMany(f)
    BY DEF OrderPlan
  <2>4. \A f \in 0 .. Len(fileList) : e[f] \in Nat
    BY <2>3
  <2> QED
    BY <2>2, <2>3, <2>4
<1>2. ASSUME NEW f \in 1 .. Len(fileList)
      PROVE  HowMany(f) \in Nat /\ (HowMany(f) # 0 => GoodFile(f) /\ HowMany(f) = Len(Records(f)))
  BY FileFacts DEF HowMany, Listed
<1>3. \A f \in 1 .. Len(fileList) : e[f - 1] <= e[f]
  <2> SUFFICES ASSUME NEW f \in 1 .. Len(fileList) PROVE e[f - 1] <= e[f]
    OBVIOUS
  <2>1. f - 1 \in 0 .. Len(fileList) /\ e[f - 1] \in Nat /\ e[f] = e[f - 1] + HowMany(f)
    BY <1>1
  <2> QED
    BY <1>2, <2>1
<1>4. k \in Nat /\ e[0] < k /\ k <= e[Len(fileList)]
  BY <1>1
<1>5. PICK f \in 1 .. Len(fileList) : e[f - 1] < k /\ k <= e[f]
  BY <1>1, <1>3, <1>4, Between
<1>6. e[f - 1] \in Nat /\ e[f] = e[f - 1] + HowMany(f) /\ HowMany(f) \in Nat
  <2>1. f - 1 \in 0 .. Len(fileList)
    BY <1>1
  <2> QED
    BY <1>1, <1>2, <2>1
<1>7. k - e[f - 1] \in 1 .. HowMany(f) /\ k = e[f - 1] + (k - e[f - 1])
  BY <1>4, <1>5, <1>6
<1> QED
  BY <1>2, <1>7 DEF Fits

\* Where the records that are expected are in the files, and which they are.
Located(q, k, f, r) ==
  /\ f \in 1 .. Len(fileList) /\ r \in 1 .. Len(Records(f)) /\ GoodFile(f)
  /\ F!Expected[k] = [words |-> [p \in 1 .. Length(f, r) |-> <<f, r, p>>], swap |-> fileList[f].other]
  /\ q[k - 1] \in Nat /\ q[k] = q[k - 1] + Length(f, r)
  /\ \A p \in 1 .. Length(f, r) : words[q[k - 1] + p] = <<f, r, p>>
  /\ q[k] <= ends[f] /\ \A g \in 1 .. f - 1 : ends[g] <= q[k - 1]
Layout(q) ==
  /\ q[0] = 0
  /\ \A k \in 1 .. Len(F!Expected) : \E f, r :
       /\ Located(q, k, f, r)
       /\ IF r = 1 THEN k > 1 => \E g, s : g < f /\ Located(q, k - 1, g, s)
          ELSE k > 1 /\ Located(q, k - 1, f, r - 1)
       /\ r < Len(Records(f)) => k < Len(F!Expected) /\ Located(q, k + 1, f, r + 1)

\* The records that are expected are found one behind the other, whatever is between the files.
LEMMA ExpectedPlaces ==
  ASSUME Listed, NEW e, OrderPlan(e), NEW b, ListPlan(b), NEW q, q[0] = 0,
         \A k \in 1 .. Len(F!Expected) : q[k] = q[k - 1] + Len(F!Expected[k].words)
  PROVE  \A k \in 1 .. Len(F!Expected) : \A f, r : Fits(e, k, f, r) =>
           q[k] = b[f - 1] + RecordEnds(f)[r] /\ q[k - 1] = b[f - 1] + RecordEnds(f)[r - 1]
<1>1. PICK n \in Nat : n = Len(fileList) /\ fileList \in Lists
  <2>1. fileList \in Seq(FileType)
    BY ListAssumption DEF Listed
  <2> QED
    BY <2>1 DEF Listed
<1>2. /\ e[0] = 0 /\ \A f \in 0 .. n : e[f] \in Nat
      /\ \A f \in 1 .. n : e[f] = e[f - 1] + HowMany(f)
      /\ b[0] = 0 /\ \A f \in 0 .. n : b[f] \in Nat
      /\ \A f \in 1 .. n : b[f] = b[f - 1] + Len(F!Contents(fileList, f))
  BY <1>1 DEF OrderPlan, ListPlan
<1>3. ASSUME NEW f \in 1 .. n PROVE HowMany(f) \in Nat /\ e[f - 1] <= e[f]
  <2>1. HowMany(f) \in Nat
    BY <1>1, FileFacts DEF HowMany
  <2>2. f - 1 \in 0 .. n /\ e[f - 1] \in Nat
    BY <1>2
  <2> QED
    BY <1>2, <2>1, <2>2
<1>4. ASSUME NEW f \in 1 .. n, NEW g \in 1 .. f - 1, GoodFile(f), e[g - 1] = e[g]
      PROVE  b[g - 1] = b[g]
  <2>1. g \in 1 .. n /\ g \in 1 .. f /\ g - 1 \in 0 .. n
    OBVIOUS
  <2>2. HowMany(g) = 0
    <3>1. e[g - 1] \in Nat /\ e[g] = e[g - 1] + HowMany(g) /\ HowMany(g) \in Nat
      BY <1>2, <1>3, <2>1
    <3> QED
      BY <1>4, <3>1
  <2>3. Len(F!Contents(fileList, g)) = 0
    <3>1. CASE ~ fileList[g].there
      <4>1. F!Contents(fileList, g) = << >>
        BY <1>1, <2>1, <3>1, ContentsTaken
      <4> QED
        BY <4>1
    <3>2. CASE fileList[g].there
      <4>1. \A h \in 1 .. g : h \in 1 .. f
        BY <2>1
      <4>2. GoodFile(g)
        BY <1>4, <3>2, <4>1 DEF GoodFile
      <4>3. Len(Records(g)) = 0
        BY <2>2, <4>2 DEF HowMany
      <4>4. Len(F!Words(fileList, g)) = 0
        <5>1. FilePlan(g, RecordEnds(g))
          BY <1>1, <2>1, FilePlanned
        <5> QED
          BY <4>3, <5>1 DEF FilePlan
      <4> QED
        BY <1>1, <2>1, <4>2, <4>4, ContentsTaken
    <3> QED
      BY <3>1, <3>2
  <2> QED
    <3>1. b[g] = b[g - 1] + Len(F!Contents(fileList, g)) /\ b[g - 1] \in Nat
      BY <1>2, <2>1
    <3> QED
      BY <2>3, <3>1
<1>5. PICK M \in Nat : M = Len(F!Expected)
  BY OrderPlanned
<1>6. PICK T : T = {k \in 0 .. M : \A f, r : Fits(e, k, f, r) =>
                     q[k] = b[f - 1] + RecordEnds(f)[r] /\ q[k - 1] = b[f - 1] + RecordEnds(f)[r - 1]}
  OBVIOUS
<1>7. ASSUME NEW f, NEW r, NEW k \in Nat, Fits(e, k, f, r)
      PROVE  /\ f \in 1 .. n /\ f - 1 \in 0 .. n /\ GoodFile(f) /\ r \in 1 .. Len(Records(f))
             /\ k = e[f - 1] + r /\ e[f - 1] \in Nat /\ b[f - 1] \in Nat
             /\ RecordEnds(f)[0] = 0 /\ RecordEnds(f)[r] \in Nat /\ RecordEnds(f)[r - 1] \in Nat
             /\ RecordEnds(f)[r] = RecordEnds(f)[r - 1] + Length(f, r)
  <2>1. /\ f \in 1 .. n /\ f - 1 \in 0 .. n /\ GoodFile(f) /\ r \in 1 .. Len(Records(f))
        /\ k = e[f - 1] + r
    BY <1>1, <1>7 DEF Fits
  <2>2. FilePlan(f, RecordEnds(f)) /\ Len(Records(f)) \in Nat
    BY <1>1, <2>1, FilePlanned, FileFacts
  <2>3. r \in 0 .. Len(Records(f)) /\ r - 1 \in 0 .. Len(Records(f))
    BY <2>1, <2>2
  <2>4. /\ RecordEnds(f)[0] = 0 /\ RecordEnds(f)[r] \in Nat /\ RecordEnds(f)[r - 1] \in Nat
        /\ RecordEnds(f)[r] = RecordEnds(f)[r - 1] + Length(f, r)
    BY <2>1, <2>2, <2>3 DEF FilePlan
  <2> QED
    BY <1>2, <2>1, <2>4
<1>8. 0 \in T
  <2>1. ASSUME NEW f, NEW r, Fits(e, 0, f, r) PROVE FALSE
    <3>1. 0 = e[f - 1] + r /\ e[f - 1] \in Nat /\ r \in 1 .. Len(Records(f))
      BY <1>7, <2>1
    <3> QED
      BY <3>1
  <2> QED
    BY <1>6, <2>1
<1>9. ASSUME NEW k \in 1 .. M, k - 1 \in T PROVE k \in T
  <2> SUFFICES ASSUME NEW f, NEW r, Fits(e, k, f, r)
               PROVE  /\ q[k] = b[f - 1] + RecordEnds(f)[r]
                      /\ q[k - 1] = b[f - 1] + RecordEnds(f)[r - 1]
    BY <1>6
  <2>1. /\ f \in 1 .. n /\ f - 1 \in 0 .. n /\ GoodFile(f) /\ r \in 1 .. Len(Records(f))
        /\ k = e[f - 1] + r /\ e[f - 1] \in Nat /\ b[f - 1] \in Nat
        /\ RecordEnds(f)[0] = 0 /\ RecordEnds(f)[r] \in Nat /\ RecordEnds(f)[r - 1] \in Nat
        /\ RecordEnds(f)[r] = RecordEnds(f)[r - 1] + Length(f, r)
    BY <1>7
  <2>2. Length(f, r) \in Nat /\ Len(Records(f)) \in Nat
    BY <1>1, <2>1, FileFacts
  <2>3. Len(F!Expected[k].words) = Length(f, r)
    <3>1. r \in 1 .. HowMany(f) /\ f \in 1 .. Len(fileList)
      BY <1>1, <2>1 DEF HowMany
    <3>2. F!Expected[e[f - 1] + r] =
            [words |-> [p \in 1 .. Length(f, r) |-> <<f, r, p>>], swap |-> fileList[f].other]
      BY <3>1 DEF OrderPlan
    <3>3. F!Expected[k].words = [p \in 1 .. Length(f, r) |-> <<f, r, p>>]
      BY <2>1, <3>2
    <3> QED
      BY <2>2, <3>3
  <2>4. q[k] = q[k - 1] + Length(f, r)
    BY <1>5, <2>3
  <2>5. q[k - 1] = b[f - 1] + RecordEnds(f)[r - 1]
    <3>1. CASE r # 1
      <4>1. r - 1 \in 1 .. Len(Records(f)) /\ k - 1 = e[f - 1] + (r - 1)
        BY <2>1, <2>2, <3>1
      <4>2. Fits(e, k - 1, f, r - 1)
        BY <1>1, <2>1, <4>1 DEF Fits
      <4> QED
        BY <1>6, <1>9, <4>2
    <3>2. CASE r = 1
      <4>1. k - 1 = e[f - 1] /\ RecordEnds(f)[r - 1] = 0
        BY <2>1, <3>2
      <4>2. \A g \in 1 .. f - 1 : e[g - 1] <= e[g] /\ (e[g - 1] = e[g] => b[g - 1] = b[g])
        <5>1. \A g \in 1 .. f - 1 : g \in 1 .. n
          BY <2>1
        <5> QED
          BY <1>3, <1>4, <2>1, <5>1
      <4>3. f - 1 \in Nat /\ \A g \in 0 .. f - 1 : e[g] \in Nat
        <5>1. f - 1 \in Nat /\ \A g \in 0 .. f - 1 : g \in 0 .. n
          BY <2>1
        <5> QED
          BY <1>2, <5>1
      <4>4. ASSUME NEW g \in 0 .. f - 1, e[g] = e[f - 1] PROVE b[g] = b[f - 1]
        BY <4>2, <4>3, <4>4, StaysAlike
      <4>5. CASE k = 1
        <5>1. e[0] = e[f - 1] /\ 0 \in 0 .. f - 1
          BY <1>2, <4>1, <4>3, <4>5
        <5>2. b[f - 1] = 0
          BY <1>2, <4>4, <5>1
        <5> QED
          BY <4>1, <4>5, <5>2
      <4>6. CASE k # 1
        <5>1. k - 1 \in Nat /\ e[0] < k - 1 /\ k - 1 <= e[f - 1]
          BY <1>2, <4>1, <4>6
        <5>2. PICK g \in 1 .. f - 1 : e[g - 1] < k - 1 /\ k - 1 <= e[g]
          BY <4>2, <4>3, <5>1, Between
        <5>3. g \in 1 .. n /\ g \in 0 .. f - 1 /\ f - 1 \in 0 .. f - 1 /\ g <= f - 1 /\ g - 1 \in 0 .. f - 1
          BY <2>1
        <5>4. e[g] <= e[f - 1]
          BY <4>2, <4>3, <5>3, Rises
        <5>5. e[g] = e[f - 1] /\ e[g] = e[g - 1] + HowMany(g) /\ e[g - 1] \in Nat /\ HowMany(g) \in Nat
          <6>1. e[g] \in Nat /\ e[g - 1] \in Nat /\ e[f - 1] \in Nat
            BY <2>1, <4>3, <5>3
          <6>2. e[f - 1] <= e[g]
            BY <4>1, <5>2
          <6>3. e[g] = e[g - 1] + HowMany(g) /\ HowMany(g) \in Nat
            BY <1>2, <1>3, <5>3
          <6> QED
            BY <5>4, <6>1, <6>2, <6>3
        <5>6. HowMany(g) # 0 /\ k - 1 = e[g - 1] + HowMany(g)
          BY <4>1, <5>2, <5>5
        <5>7. GoodFile(g) /\ HowMany(g) = Len(Records(g))
          BY <5>6 DEF HowMany
        <5>8. Fits(e, k - 1, g, Len(Records(g)))
          <6>1. Len(Records(g)) \in 1 .. Len(Records(g))
            BY <5>5, <5>6, <5>7
          <6> QED
            BY <1>1, <5>3, <5>6, <5>7, <6>1 DEF Fits
        <5>9. q[k - 1] = b[g - 1] + RecordEnds(g)[Len(Records(g))]
          BY <1>6, <1>9, <5>8
        <5>10. RecordEnds(g)[Len(Records(g))] = Len(F!Contents(fileList, g))
          <6>1. FilePlan(g, RecordEnds(g)) /\ F!Contents(fileList, g) = F!Words(fileList, g)
            BY <1>1, <5>3, <5>7, FilePlanned, ContentsTaken
          <6> QED
            BY <6>1 DEF FilePlan
        <5>11. q[k - 1] = b[g] /\ b[g] = b[f - 1]
          <6>1. b[g] = b[g - 1] + Len(F!Contents(fileList, g))
            BY <1>2, <5>3
          <6>2. b[g] = b[f - 1]
            BY <4>4, <5>3, <5>5
          <6> QED
            BY <5>9, <5>10, <6>1, <6>2
        <5> QED
          BY <2>1, <4>1, <5>11
      <4> QED
        BY <4>5, <4>6
    <3> QED
      BY <3>1, <3>2
  <2>6. q[k] = b[f - 1] + RecordEnds(f)[r]
    <3>1. q[k] = (b[f - 1] + RecordEnds(f)[r - 1]) + Length(f, r)
      BY <2>4, <2>5
    <3>2. PICK i \in Nat, j \in Nat, l \in Nat : i = b[f - 1] /\ j = RecordEnds(f)[r - 1] /\ l = Length(f, r)
      BY <2>1, <2>2
    <3>3. q[k] = (i + j) + l /\ RecordEnds(f)[r] = j + l
      BY <2>1, <3>1, <3>2
    <3> QED
      BY <3>2, <3>3
  <2> QED
    BY <2>5, <2>6
<1>10. 0 .. M \subseteq T
  BY <1>8, <1>9, AllReached
<1> QED
  BY <1>5, <1>6, <1>10

LEMMA Placed ==
  ASSUME Listed, NEW e, OrderPlan(e), NEW b, ListPlan(b), NEW q, q[0] = 0,
         \A k \in 1 .. Len(F!Expected) : q[k] = q[k - 1] + Len(F!Expected[k].words),
         NEW k \in 1 .. Len(F!Expected), NEW f, NEW r, Fits(e, k, f, r)
  PROVE  Located(q, k, f, r)
<1>1. PICK n \in Nat : n = Len(fileList) /\ fileList \in Lists
  <2>1. fileList \in Seq(FileType)
    BY ListAssumption DEF Listed
  <2> QED
    BY <2>1 DEF Listed
<1>2. f \in 1 .. n /\ GoodFile(f) /\ r \in 1 .. Len(Records(f)) /\ k = e[f - 1] + r
  BY <1>1 DEF Fits
<1>3. PICK m \in Nat, l \in Nat : m = Len(Records(f)) /\ l = Length(f, r)
  BY <1>1, <1>2, FileFacts
<1>4. PICK c : /\ c = RecordEnds(f) /\ c \in [0 .. m -> Nat] /\ c[0] = 0
               /\ \A s \in 1 .. m : c[s] = c[s - 1] + Length(f, s)
               /\ Len(F!Words(fileList, f)) = c[m]
               /\ \A s \in 1 .. m : \A p \in 1 .. Length(f, s) :
                    F!Words(fileList, f)[c[s - 1] + p] = <<f, s, p>>
  <2>1. PICK c : c = RecordEnds(f) /\ FilePlan(f, c)
    BY <1>1, <1>2, FilePlanned
  <2> QED
    BY <1>3, <2>1 DEF FilePlan
<1>5. F!Contents(fileList, f) = F!Words(fileList, f)
  BY <1>1, <1>2, ContentsTaken
<1>6. q[k] = b[f - 1] + c[r] /\ q[k - 1] = b[f - 1] + c[r - 1]
  <2>1. q[k] = b[f - 1] + RecordEnds(f)[r] /\ q[k - 1] = b[f - 1] + RecordEnds(f)[r - 1]
    BY ExpectedPlaces
  <2> QED
    BY <1>4, <2>1
<1>7. /\ \A i \in 0 .. n : b[i] \in Nat
      /\ \A i \in 1 .. n : b[i] = b[i - 1] + Len(F!Contents(fileList, i)) /\ ends[i] = b[i]
  BY <1>1 DEF ListPlan
<1>8. PICK x \in Nat, y \in Nat, z \in Nat, o \in Nat :
        x = c[r - 1] /\ y = c[r] /\ z = c[m] /\ o = b[f - 1]
  <2>1. r - 1 \in 0 .. m /\ r \in 0 .. m /\ m \in 0 .. m /\ f - 1 \in 0 .. n
    BY <1>2, <1>3
  <2> QED
    BY <1>4, <1>7, <2>1
<1>9. y = x + l /\ b[f] = o + z /\ ends[f] = b[f]
  BY <1>2, <1>3, <1>4, <1>5, <1>7, <1>8
<1>10. \A i \in 1 .. m : c[i - 1] <= c[i]
  <2> SUFFICES ASSUME NEW i \in 1 .. m PROVE c[i - 1] <= c[i]
    OBVIOUS
  <2>1. i - 1 \in 0 .. m
    OBVIOUS
  <2>2. c[i - 1] \in Nat /\ c[i] = c[i - 1] + Length(f, i) /\ Length(f, i) \in Nat
    BY <1>1, <1>2, <1>3, <1>4, <2>1, FileFacts
  <2> QED
    BY <2>2
<1>11. y <= z
  <2>1. r \in 0 .. m /\ m \in 0 .. m /\ r <= m
    BY <1>2, <1>3
  <2>2. \A i \in 0 .. m : c[i] \in Nat
    BY <1>4
  <2> QED
    BY <1>8, <1>10, <2>1, <2>2, Rises
<1>12. q[k - 1] = o + x /\ q[k] = q[k - 1] + l /\ q[k - 1] \in Nat /\ q[k] <= ends[f]
  <2>1. q[k - 1] = o + x /\ q[k] = o + y
    BY <1>6, <1>8
  <2>2. o + y = (o + x) + l /\ o + x \in Nat /\ o + y <= o + z
    BY <1>9, <1>11
  <2> QED
    BY <1>9, <2>1, <2>2
<1>13. ASSUME NEW p \in 1 .. l PROVE words[q[k - 1] + p] = <<f, r, p>>
  <2>1. F!Words(fileList, f)[x + p] = <<f, r, p>>
    BY <1>2, <1>3, <1>4, <1>8
  <2>2. x + p \in 1 .. Len(F!Contents(fileList, f))
    <3>1. Len(F!Contents(fileList, f)) = z
      BY <1>4, <1>5, <1>8
    <3>2. x + p \in 1 .. z
      BY <1>9, <1>11
    <3> QED
      BY <3>1, <3>2
  <2>3. words[b[f - 1] + (x + p)] = F!Contents(fileList, f)[x + p]
    BY <1>1, <1>2, <2>2 DEF ListPlan
  <2>4. q[k - 1] + p = b[f - 1] + (x + p)
    BY <1>8, <1>12
  <2> QED
    BY <1>5, <2>1, <2>3, <2>4
<1>14. ASSUME NEW g \in 1 .. f - 1 PROVE ends[g] <= q[k - 1]
  <2>1. g \in 0 .. n /\ g \in 1 .. n /\ f - 1 \in 0 .. n /\ g <= f - 1
    BY <1>2
  <2>2. \A i \in 1 .. n : b[i - 1] <= b[i]
    <3> SUFFICES ASSUME NEW i \in 1 .. n PROVE b[i - 1] <= b[i]
      OBVIOUS
    <3>1. i - 1 \in 0 .. n
      OBVIOUS
    <3>2. F!Contents(fileList, i) \in Seq(Place)
      BY <1>1, ContentsTaken
    <3>3. b[i - 1] \in Nat /\ b[i] = b[i - 1] + Len(F!Contents(fileList, i)) /\ Len(F!Contents(fileList, i)) \in Nat
      BY <1>7, <3>1, <3>2
    <3> QED
      BY <3>3
  <2>3. b[g] <= b[f - 1]
    BY <1>7, <2>1, <2>2, Rises
  <2>4. ends[g] = b[g] /\ b[g] \in Nat
    BY <1>7, <2>1
  <2>5. q[k - 1] = b[f - 1] + x /\ b[f - 1] \in Nat
    BY <1>8, <1>12
  <2> QED
    BY <1>8, <2>3, <2>4, <2>5
<1>15. F!Expected[k] = [words |-> [p \in 1 .. Length(f, r) |-> <<f, r, p>>], swap |-> fileList[f].other]
  <2>1. r \in 1 .. HowMany(f) /\ f \in 1 .. Len(fileList)
    BY <1>1, <1>2 DEF HowMany
  <2>2. F!Expected[e[f - 1] + r] =
          [words |-> [p \in 1 .. Length(f, r) |-> <<f, r, p>>], swap |-> fileList[f].other]
    BY <2>1 DEF OrderPlan
  <2> QED
    BY <1>2, <2>2
<1> QED
  BY <1>1, <1>2, <1>3, <1>12, <1>13, <1>14, <1>15 DEF Located

LEMMA LaidOut == ASSUME Listed PROVE \E q : Layout(q)
<1>1. PICK e : OrderPlan(e)
  BY OrderPlanned
<1>2. PICK b : ListPlan(b)
  BY ListPlanned
<1>3. PICK M \in Nat : M = Len(F!Expected) /\ \A k \in 1 .. M : F!Expected[k].words \in Seq(Place)
  <2>1. PICK s \in Seq(FileWord) : s = F!Expected
    BY OrderPlanned
  <2>2. \A k \in 1 .. Len(s) : s[k] \in FileWord
    OBVIOUS
  <2>3. \A k \in 1 .. Len(s) : s[k].words \in Seq(Place)
    BY <2>2 DEF FileWord
  <2> QED
    BY <2>1, <2>3
<1>4. PICK parts : parts = [k \in 1 .. M |-> F!Expected[k].words]
  OBVIOUS
<1>5. parts \in Seq(Seq(Place)) /\ Len(parts) = M
  BY <1>3, <1>4
<1>6. PICK q : Ends(parts, q)
  BY <1>5, Flattened
<1>7. q[0] = 0 /\ \A k \in 1 .. M : q[k] = q[k - 1] + Len(F!Expected[k].words)
  BY <1>4, <1>5, <1>6 DEF Ends
<1>8. \A k \in 1 .. M : \A f, r : Fits(e, k, f, r) => Located(q, k, f, r)
  BY <1>1, <1>2, <1>3, <1>7, Placed
<1>9. ASSUME NEW k \in 1 .. M
      PROVE  \E f, r : /\ Located(q, k, f, r)
                       /\ IF r = 1 THEN k > 1 => \E g, s : g < f /\ Located(q, k - 1, g, s)
                          ELSE k > 1 /\ Located(q, k - 1, f, r - 1)
                       /\ r < Len(Records(f)) => k < M /\ Located(q, k + 1, f, r + 1)
  <2>1. PICK f, r : Fits(e, k, f, r)
    BY <1>1, <1>3, EachFits
  <2>2. Located(q, k, f, r)
    BY <1>8, <2>1
  <2>3. f \in 1 .. Len(fileList) /\ GoodFile(f) /\ r \in 1 .. Len(Records(f)) /\ k = e[f - 1] + r
    BY <2>1 DEF Fits
  <2>4. e[f - 1] \in Nat /\ \A g \in 0 .. f - 1 : e[g] \in Nat
    <3>1. f - 1 \in 0 .. Len(fileList) /\ \A g \in 0 .. f - 1 : g \in 0 .. Len(fileList)
      BY <2>3
    <3> QED
      BY <1>1, <3>1 DEF OrderPlan
  <2>7. ASSUME r < Len(Records(f)) PROVE k < M /\ Located(q, k + 1, f, r + 1)
    <3>1. r + 1 \in 1 .. Len(Records(f)) /\ k + 1 = e[f - 1] + (r + 1)
      <4>1. Len(Records(f)) \in Nat
        BY <2>3, FileFacts DEF Listed
      <4> QED
        BY <2>3, <2>4, <2>7, <4>1
    <3>2. Fits(e, k + 1, f, r + 1)
      BY <2>3, <3>1 DEF Fits
    <3>3. k < M
      <4>1. PICK n \in Nat : n = Len(fileList)
        BY <2>3, FileFacts DEF Listed
      <4>2. /\ \A i \in 0 .. n : e[i] \in Nat
            /\ \A i \in 1 .. n : e[i] = e[i - 1] + HowMany(i)
            /\ M = e[n]
        BY <1>1, <1>3, <4>1 DEF OrderPlan
      <4>3. \A i \in 1 .. n : e[i - 1] <= e[i]
        <5> SUFFICES ASSUME NEW i \in 1 .. n PROVE e[i - 1] <= e[i]
          OBVIOUS
        <5>1. i - 1 \in 0 .. n /\ e[i - 1] \in Nat
          BY <4>2
        <5>2. HowMany(i) \in Nat
          BY <4>1, FileFacts DEF Listed, HowMany
        <5> QED
          BY <4>2, <5>1, <5>2
      <4>4. f \in 0 .. n /\ n \in 0 .. n /\ f <= n /\ f \in 1 .. n
        BY <2>3, <4>1
      <4>5. e[f] <= e[n]
        BY <4>2, <4>3, <4>4, Rises
      <4>6. e[f] = e[f - 1] + Len(Records(f))
        BY <2>3, <4>2, <4>4 DEF HowMany
      <4>7. Len(Records(f)) \in Nat
        BY <2>3, FileFacts DEF Listed
      <4> QED
        BY <2>4, <3>1, <4>2, <4>5, <4>6, <4>7
    <3>4. k + 1 \in 1 .. M
      BY <3>3
    <3> QED
      BY <1>8, <3>2, <3>3, <3>4
  <2>5. CASE r = 1
    <3>1. ASSUME k > 1 PROVE \E g, s : g < f /\ Located(q, k - 1, g, s)
      <4>1. k - 1 \in 1 .. M /\ k - 1 = e[f - 1]
        BY <2>3, <2>4, <2>5, <3>1
      <4>2. PICK g, s : Fits(e, k - 1, g, s)
        BY <1>1, <1>3, <4>1, EachFits
      <4>3. Located(q, k - 1, g, s)
        BY <1>8, <4>1, <4>2
      <4>4. g \in 1 .. Len(fileList) /\ s \in 1 .. Len(Records(g)) /\ k - 1 = e[g - 1] + s
        BY <4>2 DEF Fits
      <4>5. ASSUME f <= g PROVE FALSE
        <5>1. /\ \A i \in 0 .. Len(fileList) : e[i] \in Nat
              /\ \A i \in 1 .. Len(fileList) : e[i] = e[i - 1] + HowMany(i)
          BY <1>1 DEF OrderPlan
        <5>2. \A i \in 1 .. Len(fileList) : e[i - 1] <= e[i]
          <6> SUFFICES ASSUME NEW i \in 1 .. Len(fileList) PROVE e[i - 1] <= e[i]
            OBVIOUS
          <6>1. i - 1 \in 0 .. Len(fileList) /\ e[i - 1] \in Nat
            BY <5>1
          <6>2. HowMany(i) \in Nat
            BY FileFacts DEF Listed, HowMany
          <6> QED
            BY <5>1, <6>1, <6>2
        <5>3. f - 1 \in 0 .. Len(fileList) /\ g - 1 \in 0 .. Len(fileList) /\ f - 1 <= g - 1
          BY <2>3, <4>4, <4>5
        <5>4. Len(fileList) \in Nat
          BY <2>3, FileFacts DEF Listed
        <5>5. e[f - 1] <= e[g - 1]
          BY <5>1, <5>2, <5>3, <5>4, Rises
        <5> QED
          BY <4>1, <4>4, <5>1, <5>3, <5>5
      <4>6. g < f
        BY <2>3, <4>4, <4>5
      <4> QED
        BY <4>3, <4>6
    <3> QED
      BY <2>2, <2>5, <2>7, <3>1
  <2>6. CASE r # 1
    <3>0. Len(Records(f)) \in Nat
      BY <2>3, FileFacts DEF Listed
    <3>1. r - 1 \in 1 .. Len(Records(f)) /\ k - 1 = e[f - 1] + (r - 1) /\ k > 1 /\ k - 1 \in 1 .. M
      BY <2>3, <2>4, <2>6, <3>0
    <3>2. Fits(e, k - 1, f, r - 1)
      BY <2>3, <3>1 DEF Fits
    <3>3. Located(q, k - 1, f, r - 1)
      BY <1>8, <3>1, <3>2
    <3> QED
      BY <2>2, <2>6, <2>7, <3>1, <3>3
  <2> QED
    BY <2>5, <2>6
<1> QED
  BY <1>3, <1>7, <1>9 DEF Layout

\* The files end in the stream.
LEMMA EndsInWords ==
  ASSUME Listed
  PROVE  /\ Len(words) \in Nat /\ words \in Seq(Place)
         /\ \A f \in 1 .. Len(fileList) : ends[f] \in Nat /\ ends[f] <= Len(words)
<1>1. PICK b : ListPlan(b) /\ words \in Seq(Place)
  BY ListPlanned
<1>2. PICK n \in Nat : n = Len(fileList) /\ fileList \in Lists
  <2>1. fileList \in Seq(FileType)
    BY ListAssumption DEF Listed
  <2> QED
    BY <2>1 DEF Listed
<1>3. /\ \A f \in 0 .. n : b[f] \in Nat
      /\ \A f \in 1 .. n : b[f] = b[f - 1] + Len(F!Contents(fileList, f)) /\ ends[f] = b[f]
      /\ Len(words) = b[n]
  BY <1>1, <1>2 DEF ListPlan
<1>4. \A f \in 1 .. n : b[f - 1] <= b[f]
  <2> SUFFICES ASSUME NEW f \in 1 .. n PROVE b[f - 1] <= b[f]
    OBVIOUS
  <2>1. f - 1 \in 0 .. n
    OBVIOUS
  <2>2. F!Contents(fileList, f) \in Seq(Place)
    BY <1>2, ContentsTaken
  <2>3. b[f - 1] \in Nat /\ b[f] = b[f - 1] + Len(F!Contents(fileList, f)) /\ Len(F!Contents(fileList, f)) \in Nat
    BY <1>3, <2>1, <2>2
  <2> QED
    BY <2>3
<1>5. ASSUME NEW f \in 1 .. n PROVE ends[f] \in Nat /\ ends[f] <= Len(words)
  <2>1. f \in 0 .. n /\ n \in 0 .. n /\ f <= n
    OBVIOUS
  <2>2. b[f] <= b[n]
    BY <1>3, <1>4, <2>1, Rises
  <2> QED
    BY <1>3, <2>1, <2>2
<1> QED
  BY <1>1, <1>2, <1>5

LEMMA LeastIs ==
  ASSUME NEW T, NEW x \in T, T \subseteq Int, \A y \in T : x <= y
  PROVE  F!Min(T) = x
<1>1. \E z \in T : \A y \in T : z <= y
  OBVIOUS
<1>2. F!Min(T) \in T /\ \A y \in T : F!Min(T) <= y
  BY <1>1, Zenon DEF F!Min
<1>3. PICK m \in Int : m = F!Min(T)
  BY <1>2
<1>4. m <= x /\ x <= m /\ x \in Int
  BY <1>2, <1>3
<1> QED
  BY <1>3, <1>4

LEMMA LargestIs ==
  ASSUME NEW T, NEW x \in T, T \subseteq Int, \A y \in T : y <= x
  PROVE  F!Max(T) = x
<1>1. \E z \in T : \A y \in T : z >= y
  OBVIOUS
<1>2. F!Max(T) \in T /\ \A y \in T : F!Max(T) >= y
  BY <1>1, Zenon DEF F!Max
<1>3. PICK m \in Int : m = F!Max(T)
  BY <1>2
<1>4. m >= x /\ m <= x /\ x \in Int
  BY <1>2, <1>3
<1> QED
  BY <1>3, <1>4

\* What a file has is read from it.
LEMMA AfterInFile ==
  ASSUME Listed, NEW f \in 1 .. Len(fileList), NEW o \in 1 .. f, NEW p \in Nat, NEW n \in Nat,
         p + n <= ends[f], \A g \in o .. f - 1 : ends[g] < p + n
  PROVE  F!After(n, F!At(o, p)) = F!At(f, p + n)
<1>1. PICK m \in Nat : m = Len(fileList) /\ \A g \in 1 .. m : ends[g] \in Nat
  <2>1. fileList \in Seq(FileType)
    BY ListAssumption DEF Listed
  <2> QED
    BY <2>1, EndsInWords
<1>2. PICK T : T = {g \in o .. m : ends[g] >= p + n}
  OBVIOUS
<1>3. f \in T /\ T \subseteq Int
  BY <1>1, <1>2
<1>4. ASSUME NEW g \in T PROVE f <= g
  <2>1. g \in o .. m /\ ends[g] >= p + n /\ g \in 1 .. m
    BY <1>1, <1>2
  <2>2. ~ (g \in o .. f - 1)
    BY <1>1, <2>1
  <2> QED
    BY <1>1, <2>1, <2>2
<1>5. F!Min(T) = f
  BY <1>3, <1>4, LeastIs
<1>6. F!At(o, p).opened = o /\ F!At(o, p).position = p
  BY DEF F!At
<1>7. F!After(n, F!At(o, p)) = IF T # {} THEN F!At(F!Min(T), p + n) ELSE F!At(m, Len(words))
  BY <1>1, <1>2, <1>6 DEF F!After
<1> QED
  BY <1>3, <1>5, <1>7

LEMMA ReadInFile ==
  ASSUME Listed, NEW f \in 1 .. Len(fileList), NEW p \in Nat, NEW n \in Nat, p + n <= ends[f]
  PROVE  /\ F!Read(n, F!At(f, p)).at = F!At(f, p + n)
         /\ F!Read(n, F!At(f, p)).words = [i \in 1 .. n |-> words[p + i]]
<1>1. Len(fileList) \in Nat /\ f \in Nat \ {0}
  BY FileFacts DEF Listed
<1>2. PICK to : to = F!After(n, F!At(f, p))
  OBVIOUS
<1>3. to = F!At(f, p + n)
  <2>1. f \in 1 .. f /\ \A g \in f .. f - 1 : ends[g] < p + n
    BY <1>1
  <2> QED
    BY <1>2, <2>1, AfterInFile
<1>4. to.opened = f /\ to.position = p + n /\ F!At(f, p).opened = f /\ F!At(f, p).position = p
  BY <1>3 DEF F!At
<1>5. F!Begin(f, F!At(f, p)) = p
  BY <1>4 DEF F!Begin
<1>. DEFINE Given(g) == IF g = to.opened THEN to.position - F!Begin(g, F!At(f, p))
                        ELSE ends[g] - F!Begin(g, F!At(f, p))
            giver(i)  == F!Max({0} \cup {g \in F!At(f, p).opened .. to.opened : Given(g) >= i})
            Word(i)  == IF giver(i) = 0 THEN <<0, 0, 0>> ELSE words[F!Begin(giver(i), F!At(f, p)) + i]
<1>6. F!Read(n, F!At(f, p)) = [words |-> [i \in 1 .. to.position - F!At(f, p).position |-> Word(i)], at |-> to]
  BY <1>2 DEF F!Read
<1>7. ASSUME NEW i \in 1 .. n PROVE Word(i) = words[p + i]
  <2>1. Given(f) = n
    BY <1>4, <1>5
  <2>2. {g \in F!At(f, p).opened .. to.opened : Given(g) >= i} = {f}
    <3>1. \A g : g \in F!At(f, p).opened .. to.opened <=> g = f
      BY <1>1, <1>4
    <3>. HIDE DEF Given
    <3>2. Given(f) >= i
      BY <2>1
    <3> QED
      BY <3>1, <3>2
  <2>. HIDE DEF Given
  <2>3. {0} \cup {f} \subseteq Int /\ f \in {0} \cup {f} /\ \A y \in {0} \cup {f} : y <= f
    BY <1>1
  <2>4. giver(i) = f
    BY <2>2, <2>3, LargestIs
  <2> QED
    BY <1>1, <1>5, <2>4
<1>. HIDE DEF Word
<1>8. to.position - F!At(f, p).position = n
  BY <1>4
<1>9. [i \in 1 .. n |-> Word(i)] = [i \in 1 .. n |-> words[p + i]]
  BY <1>7
<1> QED
  BY <1>3, <1>6, <1>8, <1>9

\* What the stream holds of a record that is expected, whose first word is at p + 1.
Laid(f, r, p) ==
  /\ f \in 1 .. Len(fileList) /\ r \in 1 .. Len(Records(f)) /\ GoodFile(f) /\ p \in Nat
  /\ \A i \in 1 .. Length(f, r) : words[p + i] = <<f, r, i>>
  /\ p + Length(f, r) <= ends[f] /\ \A g \in 1 .. f - 1 : ends[g] <= p

RestWords(f, r, l) == [i \in 1 .. l - 1 |-> <<f, r, i + 1>>]

\* A record that ends at q is found to be good.
IsGood(f, r, q) == \/ ~ (Records(f)[r].kind = "header" /\ fileList[f].old)
                   \/ F!OKToRead(F!At(f, q))

\* The word w is number i of the r-th record of file f.
LEMMA WordSays ==
  ASSUME Listed, NEW f \in 1 .. Len(fileList), NEW r \in 1 .. Len(Records(f)), NEW i,
         NEW w, w = <<f, r, i>>
  PROVE  /\ F!RecordOf(w) = Records(f)[r] /\ (F!IsFirst(w) <=> i = 1)
         /\ F!OldHeader(w) <=> Records(f)[r].kind = "header" /\ fileList[f].old
         /\ F!Other(w) = fileList[f].other
<1>1. w[1] = f /\ w[2] = r /\ w[3] = i
  OBVIOUS
<1> QED
  BY <1>1 DEF F!RecordOf, F!IsFirst, F!OldHeader, F!Other, Records

\* How long it is, and where it ends.
LEMMA LaidEnds ==
  ASSUME Listed, NEW f, NEW r, NEW p, Laid(f, r, p)
  PROVE  /\ Length(f, r) \in Nat \ {0} /\ p \in Nat /\ f \in Nat \ {0}
         /\ Records(f)[r].kind = "header" /\ fileList[f].old => Length(f, r) > 1
         /\ Len(fileList) \in Nat /\ f <= Len(fileList)
         /\ ends[f] \in Nat /\ p + Length(f, r) <= ends[f]
         /\ Len(words) \in Nat /\ ends[f] <= Len(words)
<1>1. /\ f \in 1 .. Len(fileList) /\ r \in 1 .. Len(Records(f)) /\ p \in Nat
      /\ p + Length(f, r) <= ends[f]
  BY DEF Laid
<1>2. fileList \in Lists
  BY DEF Listed
<1>3. /\ Length(f, r) \in Nat \ {0} /\ Len(fileList) \in Nat
      /\ Records(f)[r].kind = "header" /\ fileList[f].old => Length(f, r) > 1
  BY <1>1, <1>2, FileFacts
<1>4. Len(words) \in Nat /\ ends[f] \in Nat /\ ends[f] <= Len(words)
  BY <1>1, EndsInWords
<1>5. f \in Nat \ {0} /\ f <= Len(fileList)
  BY <1>1, <1>3
<1> QED
  BY <1>1, <1>3, <1>4, <1>5

\* The lines of an old header are read up to its last, which is good if there is more.
LEMMA LinesRead ==
  ASSUME Listed, NEW f, NEW r, NEW p, Laid(f, r, p), Records(f)[r].kind = "header", fileList[f].old,
         NEW l, l = Length(f, r)
  PROVE  LET lines == F!ReadLines(F!At(f, p + 1))
         IN  /\ lines.words = RestWords(f, r, l) /\ lines.at = F!At(f, p + l)
             /\ lines.ok = F!OKToRead(F!At(f, p + l))
<1>1. /\ f \in 1 .. Len(fileList) /\ r \in 1 .. Len(Records(f))
      /\ \A i \in 1 .. l : words[p + i] = <<f, r, i>>
  BY DEF Laid
<1>2. PICK n \in Nat, x \in Nat : n = l - 1 /\ n > 0 /\ x = p + 1
  BY LaidEnds
<1>3. /\ l = n + 1 /\ x + n = p + l /\ \A i \in 1 .. n : x + i = p + (i + 1) /\ i + 1 \in 1 .. l
  <2>1. PICK m \in Nat \ {0} : m = l /\ p \in Nat
    BY LaidEnds
  <2> QED
    BY <1>2, <2>1
<1>0. PICK z \in Nat, w0 \in Nat : z = ends[f] /\ w0 = Len(words)
  BY LaidEnds
<1>18. l \in Nat /\ p \in Nat /\ p + l <= z /\ z <= w0
  BY <1>0, LaidEnds
<1>4. PICK more \in Nat : more = Len(words) - x /\ n <= more /\ x + n <= Len(words)
  BY <1>0, <1>2, <1>3, <1>18
<1>5. \A i \in 1 .. n : words[x + i] = <<f, r, i + 1>>
  BY <1>1, <1>3
<1>19. F!At(f, x).opened = f /\ F!At(f, x).position = x
  BY DEF F!At
<1>6. PICK from : from = F!At(f, x) /\ from.opened = f /\ from.position = x
  BY <1>19
<1>7. ASSUME NEW i \in 1 .. n PROVE F!After(i, from) = F!At(f, x + i)
  <2>1. x + i <= ends[f] /\ i \in Nat
    <3>1. x + i <= x + n /\ x + n <= z
      BY <1>2, <1>3, <1>18
    <3> QED
      BY <1>0, <1>2, <3>1
  <2>2. f \in 1 .. f /\ \A g \in f .. f - 1 : ends[g] < x + i
    <3>1. f \in Nat \ {0}
      BY LaidEnds
    <3> QED
      BY <3>1
  <2> QED
    BY <1>1, <1>6, <2>1, <2>2, AfterInFile
<1>8. ASSUME NEW i \in 1 .. n PROVE F!IsLast(words[x + i]) <=> i = n
  <2>1. PICK w : w = words[x + i] /\ w = <<f, r, i + 1>>
    BY <1>5
  <2>2. F!OldHeader(w) /\ F!RecordOf(w) = Records(f)[r] /\ w[3] = i + 1
    BY <1>1, <2>1, WordSays
  <2>3. F!IsLast(w) <=> i + 1 = l
    BY <2>2 DEF F!IsLast, Length
  <2> QED
    BY <1>2, <1>3, <2>1, <2>3
<1>9. ASSUME NEW i \in 1 .. n, i # n PROVE F!OKToRead(F!After(i, from))
  <2>1. i + 1 \in 1 .. n /\ (x + i) + 1 = x + (i + 1) /\ (i + 1) + 1 # 1
    BY <1>2, <1>9
  <2>2. PICK w : w = words[(x + i) + 1] /\ w = <<f, r, (i + 1) + 1>>
    BY <1>5, <2>1
  <2>3. ~ F!ZeroNext(w)
    BY <1>1, <2>1, <2>2, WordSays DEF F!ZeroNext
  <2>4. x + i < Len(words)
    BY <1>2, <1>4, <2>1, LaidEnds
  <2>5. F!At(f, x + i).position = x + i
    BY DEF F!At
  <2>6. F!OKToRead(F!At(f, x + i))
    BY <2>2, <2>3, <2>4, <2>5 DEF F!OKToRead
  <2> QED
    BY <1>7, <2>6
<1>10. PICK T : T = {i \in 1 .. more : F!IsLast(words[x + i]) \/ ~ F!OKToRead(F!After(i, from))}
  OBVIOUS
<1>11. n \in T
  <2>1. n \in 1 .. n /\ n \in 1 .. more
    BY <1>2, <1>4
  <2> QED
    BY <1>8, <1>10, <2>1
<1>12. F!Min(T \cup {more}) = n
  <2>1. ASSUME NEW i \in T PROVE n <= i
    <3>1. i \in 1 .. more /\ (F!IsLast(words[x + i]) \/ ~ F!OKToRead(F!After(i, from)))
      BY <1>10, <2>1
    <3>2. i \in 1 .. n => i = n
      BY <1>8, <1>9, <3>1
    <3> QED
      BY <1>2, <3>1, <3>2
  <2>2. T \cup {more} \subseteq Int /\ n \in T \cup {more}
    BY <1>10, <1>11
  <2>3. \A i \in T \cup {more} : n <= i
    BY <1>4, <2>1
  <2> QED
    BY <2>2, <2>3, LeastIs
<1>13. PICK lines : lines = F!ReadLines(from)
  OBVIOUS
<1>14. /\ lines.words = SubSeq(words, x + 1, x + n) /\ lines.at = F!After(n, from)
       /\ lines.ok = (n > 0 /\ F!IsLast(words[x + n]) /\ F!OKToRead(F!After(n, from)))
  BY <1>4, <1>6, <1>10, <1>12, <1>13 DEF F!ReadLines
<1>15. F!After(n, from) = F!At(f, p + l) /\ F!IsLast(words[x + n]) = TRUE /\ n > 0
  <2>1. n \in 1 .. n
    BY <1>2
  <2>2. F!After(n, from) = F!At(f, x + n)
    BY <1>7, <2>1
  <2>3. F!IsLast(words[x + n])
    BY <1>8, <2>1
  <2>4. F!IsLast(words[x + n]) \in BOOLEAN
    BY DEF F!IsLast, F!OldHeader
  <2> QED
    BY <1>2, <1>3, <2>2, <2>3, <2>4
<1>16. lines.ok = F!OKToRead(F!At(f, p + l))
  <2>1. F!OKToRead(F!At(f, p + l)) \in BOOLEAN
    BY DEF F!OKToRead
  <2> QED
    BY <1>14, <1>15, <2>1, Zenon
<1>17. lines.words = [i \in 1 .. n |-> <<f, r, i + 1>>]
  <2>1. PICK s \in Seq(Place) : s = words /\ Len(s) = Len(words)
    BY EndsInWords
  <2>2. x + n <= Len(s) /\ x + 1 \in Nat /\ x + n \in Nat /\ 1 <= x + 1
    BY <1>2, <1>4, <2>1
  <2>3. SubSeq(s, x + 1, x + n) = [i \in 1 .. (x + n) - (x + 1) + 1 |-> s[(x + 1) + i - 1]]
    OBVIOUS
  <2>4. (x + n) - (x + 1) + 1 = n /\ \A i \in 1 .. n : (x + 1) + i - 1 = x + i
    BY <1>2
  <2>5. \A i \in 1 .. n : s[(x + 1) + i - 1] = <<f, r, i + 1>>
    BY <1>5, <2>1, <2>4
  <2>6. [i \in 1 .. (x + n) - (x + 1) + 1 |-> s[(x + 1) + i - 1]] = [i \in 1 .. n |-> <<f, r, i + 1>>]
    BY <2>4, <2>5
  <2> QED
    BY <1>14, <2>1, <2>3, <2>6
<1> QED
  BY <1>2, <1>6, <1>13, <1>14, <1>15, <1>16, <1>17 DEF RestWords

\* The rest of a record that is where it is expected is read, but for the end of an old header
\* when there is nothing that can be read after it.
LEMMA RestRead ==
  ASSUME Listed, NEW f, NEW r, NEW p, Laid(f, r, p), NEW v, v = "old" <=> fileList[f].old,
         NEW l, l = Length(f, r), NEW what, what = [kind |-> Records(f)[r].kind, length |-> l],
         NEW body, body = F!ReadRest(what, v, F!At(f, p + 1))
  PROVE  /\ body.words = RestWords(f, r, l)
         /\ body.at = F!At(f, p + l)
         /\ body.ok = IsGood(f, r, p + l)
<1>1. l \in Nat \ {0} /\ what.length = l /\ what.kind = Records(f)[r].kind
  BY LaidEnds
<1>2. CASE Records(f)[r].kind = "header" /\ fileList[f].old
  <2>2. body = F!ReadLines(F!At(f, p + 1))
    BY <1>1, <1>2 DEF F!ReadRest
  <2>3. /\ body.words = RestWords(f, r, l) /\ body.at = F!At(f, p + l)
        /\ body.ok = F!OKToRead(F!At(f, p + l))
    BY <1>2, <2>2, LinesRead
  <2>4. body.ok = IsGood(f, r, p + l)
    BY <1>2, <2>2, <2>3, Zenon DEF IsGood, F!ReadLines, F!OKToRead
  <2> QED
    BY <2>3, <2>4
<1>3. CASE ~ (Records(f)[r].kind = "header" /\ fileList[f].old)
  <2>0. /\ f \in 1 .. Len(fileList) /\ p \in Nat /\ p + l <= ends[f]
        /\ \A i \in 1 .. l : words[p + i] = <<f, r, i>>
    BY <1>1 DEF Laid
  <2>1. p + 1 \in Nat /\ l - 1 \in Nat /\ (p + 1) + (l - 1) = p + l
    <3>1. p \in Nat
      BY <2>0
    <3> QED
      BY <1>1, <3>1
  <2>2. PICK read : read = F!Read(l - 1, F!At(f, p + 1))
    OBVIOUS
  <2>3. read.at = F!At(f, p + l) /\ read.words = [i \in 1 .. l - 1 |-> words[(p + 1) + i]]
    <3>1. PICK x \in Nat, n \in Nat : x = p + 1 /\ n = l - 1 /\ x + n = p + l /\ x + n <= ends[f]
      BY <2>0, <2>1
    <3>2. F!Read(n, F!At(f, x)).at = F!At(f, x + n)
          /\ F!Read(n, F!At(f, x)).words = [i \in 1 .. n |-> words[x + i]]
      <4>1. f \in 1 .. Len(fileList) /\ x + n <= ends[f]
        BY <2>0, <3>1
      <4> QED
        BY <4>1, ReadInFile, ZenonT(60)
    <3> QED
      BY <2>2, <3>1, <3>2
  <2>4. \A i \in 1 .. l - 1 : words[(p + 1) + i] = <<f, r, i + 1>>
    <3> SUFFICES ASSUME NEW i \in 1 .. l - 1 PROVE words[(p + 1) + i] = <<f, r, i + 1>>
      OBVIOUS
    <3>1. i + 1 \in 1 .. l /\ (p + 1) + i = p + (i + 1)
      BY <1>1, <2>0
    <3> QED
      BY <2>0, <3>1
  <2>5. read.words = [i \in 1 .. l - 1 |-> <<f, r, i + 1>>]
    BY <2>3, <2>4
  <2>6. Len(read.words) = l - 1
    BY <2>1, <2>5
  <2>8. body = [words |-> read.words, ok |-> Len(read.words) = l - 1, at |-> read.at]
    <3>1. ~ (what.kind = "header" /\ v = "old") /\ ~ (what.length < 1)
      BY <1>1, <1>3
    <3> QED
      BY <1>1, <2>2, <3>1 DEF F!ReadRest
  <2>9. body.words = read.words /\ body.at = read.at /\ body.ok = (Len(read.words) = l - 1)
    BY <2>8
  <2>10. body.ok = TRUE
    BY <2>6, <2>9
  <2> QED
    BY <1>3, <2>3, <2>5, <2>9, <2>10 DEF RestWords, IsGood
<1> QED
  BY <1>2, <1>3

\* There is one place for each record.
LEMMA OnePlace ==
  ASSUME Listed, NEW q, NEW k, NEW f, NEW r, NEW g, NEW s, Located(q, k, f, r), Located(q, k, g, s)
  PROVE  f = g /\ r = s
<1>1. PICK u : u = [p \in 1 .. Length(f, r) |-> <<f, r, p>>] /\ F!Expected[k].words = u
  BY DEF Located
<1>2. PICK v : v = [p \in 1 .. Length(g, s) |-> <<g, s, p>>] /\ F!Expected[k].words = v
  BY DEF Located
<1>3. 1 \in 1 .. Length(f, r) /\ 1 \in 1 .. Length(g, s)
  <2>1. /\ f \in 1 .. Len(fileList) /\ r \in 1 .. Len(Records(f))
        /\ g \in 1 .. Len(fileList) /\ s \in 1 .. Len(Records(g)) /\ fileList \in Lists
    BY DEF Listed, Located
  <2>2. Length(f, r) \in Nat \ {0} /\ Length(g, s) \in Nat \ {0}
    BY <2>1, FileFacts
  <2> QED
    BY <2>2
<1>4. u[1] = <<f, r, 1>> /\ v[1] = <<g, s, 1>>
  BY <1>1, <1>2, <1>3
<1>5. <<f, r, 1>> = <<g, s, 1>>
  BY <1>1, <1>2, <1>4, Zenon
<1> QED
  BY <1>5

\* What is before a record, and what is after it.
LEMMA NextPlace ==
  ASSUME Listed, NEW q, Layout(q), NEW k \in 1 .. Len(F!Expected), NEW f, NEW r, Located(q, k, f, r)
  PROVE  /\ IF r = 1 THEN k > 1 => \E g, s : g < f /\ Located(q, k - 1, g, s)
            ELSE k > 1 /\ Located(q, k - 1, f, r - 1)
         /\ r < Len(Records(f)) => k < Len(F!Expected) /\ Located(q, k + 1, f, r + 1)
<1>1. PICK g, s :
        /\ Located(q, k, g, s)
        /\ IF s = 1 THEN k > 1 => \E h, t : h < g /\ Located(q, k - 1, h, t)
           ELSE k > 1 /\ Located(q, k - 1, g, s - 1)
        /\ s < Len(Records(g)) => k < Len(F!Expected) /\ Located(q, k + 1, g, s + 1)
  BY Zenon DEF Layout
<1>2. f = g /\ r = s
  BY <1>1, OnePlace
<1> QED
  BY <1>1, <1>2, Zenon

\* What the reader is to find a file's version to be.
Right(f) == IF fileList[f].old THEN "old" ELSE IF fileList[f].other THEN "newSwapped" ELSE "newUnswapped"

(***************************************************************************)
(* The reader is at the next record that is expected, the r-th of file f;  *)
(* or it has stopped before it, at the end of an old header after which    *)
(* there is nothing, or a first byte of zero.                              *)
(***************************************************************************)
InPlace(p, f, r) ==
  /\ filePosition = p /\ ~ astray /\ filesOpened \in 0 .. f
  /\ r # 1 => filesOpened = f /\ version = Right(f)
  /\ r = 1 /\ filesOpened = f => version = "unknown"
  /\ fileStage \in {"open", "run", "between", "done"}
  /\ IF fileStage = "open" THEN filesOpened = 0 /\ version = "unknown" ELSE filesOpened # 0
  /\ fileStage = "run" /\ ~ fileHeaderIn => Records(f)[r].kind = "header"
  /\ fileStage \in {"between", "done"} =>
       filesOpened # f \/ (r # 1 /\ Records(f)[r - 1].kind = "stop")
  /\ fileStage = "done" => ~ F!OKToRead(F!At(filesOpened, filePosition))
GaveUp(f, r) ==
  /\ fileStage \in {"between", "done"} /\ filesOpened = Len(fileList)
  /\ ~ F!OKToRead(F!At(filesOpened, filePosition))
  /\ Records(f)[r].kind = "header" /\ fileList[f].old
  /\ r < Len(Records(f)) => Records(f)[r + 1].zero
OnTrack(q, k) == \E f, r : Located(q, k, f, r) /\ (InPlace(q[k - 1], f, r) \/ GaveUp(f, r))
AllRead == Len(fileDelivered) >= Len(F!Expected)
FilesInv ==
  /\ Listed /\ \E S : fileDelivered \in Seq(S)
  /\ \A i \in 1 .. Len(fileDelivered) : i <= Len(F!Expected) => fileDelivered[i] = F!Expected[i]
  /\ \E q : Layout(q) /\ (~ AllRead => OnTrack(q, Len(fileDelivered) + 1))

\* What is read is the files, and stays so.
LEMMA FilesStay ==
  ASSUME UNCHANGED <<fileList, words, ends>>
  PROVE  /\ Listed' <=> Listed
         /\ F!Expected' = F!Expected
         /\ \A q, k, f, r : Located(q, k, f, r)' <=> Located(q, k, f, r)
         /\ \A q : Layout(q)' <=> Layout(q)
         /\ \A f : Records(f)' = Records(f) /\ Right(f)' = Right(f)
<1>1. F!Expected' = F!Expected
  BY DEF F!Expected, F!Whole, F!Records
<1>2. \A q, k, f, r : Located(q, k, f, r)' <=> Located(q, k, f, r)
  BY <1>1 DEF Located, GoodFile, F!Whole, Length, Records
<1>3. \A f : Records(f)' = Records(f) /\ Right(f)' = Right(f)
  BY DEF Records, Right
<1>4. \A q : Layout(q)' <=> Layout(q)
  BY <1>1 DEF Layout, Located, GoodFile, F!Whole, Length, Records
<1>5. Listed' <=> Listed
  BY DEF Listed
<1> QED
  BY <1>1, <1>2, <1>3, <1>4, <1>5

LEMMA FilesStart == F!Init => FilesInv
<1> SUFFICES ASSUME F!Init PROVE FilesInv
  OBVIOUS
<1>1. Listed
  BY DEF F!Init, Listed
<1>2. PICK q : Layout(q)
  BY <1>1, LaidOut
<1>3. /\ fileDelivered = << >> /\ filePosition = 0 /\ filesOpened = 0 /\ version = "unknown"
      /\ fileStage = "open" /\ astray = FALSE
  BY DEF F!Init
<1>4. Len(fileDelivered) = 0 /\ fileDelivered \in Seq({})
  BY <1>3
<1>5. Len(F!Expected) \in Nat
  BY <1>1, OrderPlanned
<1>6. ASSUME ~ AllRead PROVE OnTrack(q, 1)
  <2>1. 1 \in 1 .. Len(F!Expected)
    BY <1>4, <1>5, <1>6 DEF AllRead
  <2>2. PICK f, r : Located(q, 1, f, r)
    BY <1>2, <2>1 DEF Layout
  <2>3. r = 1
    BY <1>1, <1>2, <2>1, <2>2, NextPlace
  <2>4. f \in Nat \ {0} /\ q[1 - 1] = 0
    <3>1. f \in 1 .. Len(fileList) /\ q[0] = 0
      BY <1>2, <2>2 DEF Located, Layout
    <3>2. Len(fileList) \in Nat
      BY <1>1, <3>1, FileFacts DEF Listed
    <3> QED
      BY <3>1, <3>2
  <2>5. InPlace(q[1 - 1], f, r)
    BY <1>3, <2>3, <2>4 DEF InPlace
  <2> QED
    BY <2>2, <2>5 DEF OnTrack
<1> QED
  BY <1>1, <1>2, <1>4, <1>6 DEF FilesInv

\* What is known of the next record, when it is in place.
LEMMA PlaceFacts ==
  ASSUME Listed, NEW q, NEW k, NEW f, NEW r, Located(q, k, f, r)
  PROVE  /\ Laid(f, r, q[k - 1]) /\ q[k] = q[k - 1] + Length(f, r)
         /\ f \in Nat \ {0} /\ f <= Len(fileList) /\ Len(fileList) \in Nat
         /\ r \in Nat \ {0} /\ r <= Len(Records(f)) /\ Len(Records(f)) \in Nat
         /\ q[k - 1] \in Nat /\ q[k] \in Nat /\ q[k - 1] < q[k] /\ q[k] <= Len(words) /\ Len(words) \in Nat
         /\ r = 1 \/ Records(f)[r - 1].kind = "stop" => Records(f)[r].kind = "header"
<1>1. Laid(f, r, q[k - 1])
  BY DEF Located, Laid
<1>2. PICK l \in Nat \ {0}, z \in Nat, w \in Nat :
        /\ l = Length(f, r) /\ z = ends[f] /\ w = Len(words) /\ z <= w /\ q[k - 1] + l <= z
  BY <1>1, LaidEnds
<1>3. /\ q[k] = q[k - 1] + Length(f, r) /\ q[k - 1] \in Nat
      /\ f \in 1 .. Len(fileList) /\ r \in 1 .. Len(Records(f))
  BY DEF Located
<1>4. /\ Len(fileList) \in Nat /\ Len(Records(f)) \in Nat
      /\ r = 1 \/ Records(f)[r - 1].kind = "stop" => Records(f)[r].kind = "header"
  BY <1>3, FileFacts DEF Listed
<1>5. /\ q[k - 1] \in Nat /\ q[k] \in Nat /\ q[k - 1] < q[k] /\ q[k] <= Len(words) /\ Len(words) \in Nat
  BY <1>2, <1>3
<1>6. f \in Nat \ {0} /\ f <= Len(fileList) /\ r \in Nat \ {0} /\ r <= Len(Records(f))
  BY <1>3, <1>4
<1> QED
  BY <1>1, <1>3, <1>4, <1>5, <1>6

\* A record that is expected is read as it is: whole, and in the byte order of its file.
LEMMA RecordRead ==
  ASSUME Listed, NEW q, NEW k, NEW f, NEW r, Located(q, k, f, r), InPlace(q[k - 1], f, r), F!ReadRecord,
         NEW ok, ok = IsGood(f, r, q[k])
  PROVE  /\ UNCHANGED <<fileList, words, ends>>
         /\ filesOpened' = f /\ filePosition' = q[k] /\ version' = Right(f) /\ ~ astray'
         /\ fileDelivered' = IF ok THEN Append(fileDelivered, F!Expected[k]) ELSE fileDelivered
         /\ fileHeaderIn' = ok
         /\ fileStage' = IF ok /\ Records(f)[r].kind # "stop" THEN "run" ELSE "between"
<1>1. /\ Laid(f, r, q[k - 1]) /\ q[k] = q[k - 1] + Length(f, r)
      /\ f \in Nat \ {0} /\ f <= Len(fileList) /\ Len(fileList) \in Nat
      /\ r \in Nat \ {0} /\ r <= Len(Records(f)) /\ Len(Records(f)) \in Nat
      /\ q[k - 1] \in Nat
      /\ r = 1 \/ Records(f)[r - 1].kind = "stop" => Records(f)[r].kind = "header"
  BY PlaceFacts
<1>0. Length(f, r) \in Nat \ {0}
  BY <1>1, LaidEnds
<1>2. PICK l \in Nat \ {0}, p \in Nat : l = Length(f, r) /\ p = q[k - 1] /\ q[k] = p + l
  BY <1>0, <1>1
<1>3. /\ filePosition = p /\ ~ astray /\ filesOpened \in 0 .. f /\ filesOpened # 0
      /\ r # 1 => filesOpened = f /\ version = Right(f)
      /\ r = 1 /\ filesOpened = f => version = "unknown"
      /\ ~ fileHeaderIn => Records(f)[r].kind = "header"
  <2>1. fileStage = "run"
    BY DEF F!ReadRecord
  <2> QED
    BY <1>2, <2>1 DEF InPlace
<1>4. PICK word : word = words[filePosition + 1] /\ word = <<f, r, 1>>
  <2>1. 1 \in 1 .. Length(f, r)
    BY <1>0
  <2> QED
    BY <1>1, <1>2, <1>3, <2>1 DEF Laid
<1>5. f \in 1 .. Len(fileList) /\ r \in 1 .. Len(Records(f))
  BY <1>1
<1>6. /\ F!RecordOf(word) = Records(f)[r] /\ F!IsFirst(word) /\ F!Other(word) = fileList[f].other
      /\ F!OldHeader(word) <=> Records(f)[r].kind = "header" /\ fileList[f].old
  BY <1>4, <1>5, WordSays
<1>7. PICK first : first = F!After(1, F!At(filesOpened, filePosition)) /\ first = F!At(f, p + 1)
  <2>1. filesOpened \in 1 .. f
    BY <1>1, <1>3
  <2>2. p + 1 <= ends[f] /\ \A g \in filesOpened .. f - 1 : ends[g] < p + 1
    <3>1. p + l <= ends[f] /\ ends[f] \in Nat /\ \A g \in 1 .. f - 1 : ends[g] <= p
      BY <1>1, <1>2, LaidEnds DEF Laid
    <3>2. \A g \in 1 .. Len(fileList) : ends[g] \in Nat
      BY EndsInWords
    <3>3. \A g \in filesOpened .. f - 1 : g \in 1 .. f - 1 /\ g \in 1 .. Len(fileList)
      BY <1>1, <2>1
    <3>4. \A g \in filesOpened .. f - 1 : ends[g] <= p /\ ends[g] \in Nat
      BY <3>1, <3>2, <3>3
    <3> QED
      BY <1>2, <3>1, <3>4
  <2>3. PICK o \in 1 .. f, n \in Nat : o = filesOpened /\ n = 1
    BY <2>1
  <2>4. p + n <= ends[f] /\ \A g \in o .. f - 1 : ends[g] < p + n
    BY <2>2, <2>3
  <2>5. F!After(n, F!At(o, p)) = F!At(f, p + n)
    BY <1>5, <2>4, AfterInFile
  <2> QED
    BY <1>3, <2>3, <2>5
<1>8. first.opened = f /\ first.position = p + 1
  BY <1>7 DEF F!At
<1>9. fileList[f].other \in BOOLEAN /\ fileList[f].old \in BOOLEAN /\ (fileList[f].old => fileList[f].other)
  <2>1. fileList[f] \in FileType /\ (fileList[f].old => fileList[f].other)
    BY <1>5, FileFacts DEF Listed
  <2> QED
    BY <2>1 DEF FileType
<1>10. PICK v : v = F!DetermineFileTypeAndSetupSwap(F!VersionAfter(first, version), word) /\ v = Right(f)
  <2>1. F!VersionAfter(first, version) = IF f > filesOpened THEN "unknown" ELSE version
    BY <1>8 DEF F!VersionAfter
  <2>2. CASE r = 1
    <3>1. F!VersionAfter(first, version) = "unknown"
      BY <1>1, <1>3, <2>1, <2>2
    <3>2. F!GetStreamVersion(word) = Right(f)
      BY <1>1, <1>6, <2>2 DEF F!GetStreamVersion, F!IsHeader, Right
    <3> QED
      BY <3>1, <3>2 DEF F!DetermineFileTypeAndSetupSwap
  <2>3. CASE r # 1
    <3>1. F!VersionAfter(first, version) = Right(f)
      BY <1>1, <1>3, <2>1, <2>3
    <3>2. Right(f) # "unknown"
      BY DEF Right
    <3> QED
      BY <3>1, <3>2 DEF F!DetermineFileTypeAndSetupSwap
  <2> QED
    BY <2>2, <2>3
<1>11. F!SwapFor(v) = fileList[f].other
  BY <1>9, <1>10 DEF F!SwapFor, Right
<1>12. PICK what : what = [kind |-> Records(f)[r].kind, length |-> l] /\ F!Taken(word, v) = {what}
  <2>1. F!Taken(word, v) = {[kind |-> F!RecordOf(word).kind, length |-> F!RecordOf(word).length]}
    BY <1>6, <1>11 DEF F!Taken
  <2>2. Records(f)[r].length = l
    BY <1>2 DEF Length
  <2> QED
    BY <1>6, <2>1, <2>2
<1>13. PICK body : body = F!ReadRest(what, v, first)
  OBVIOUS
<1>14. /\ body.words = RestWords(f, r, l)
       /\ body.at = F!At(f, q[k]) /\ body.ok = ok
  <2>1. v = "old" <=> fileList[f].old
    BY <1>10 DEF Right
  <2>2. Laid(f, r, p) /\ l = Length(f, r) /\ body = F!ReadRest(what, v, F!At(f, p + 1))
    BY <1>1, <1>2, <1>7, <1>13
  <2>3. what = [kind |-> Records(f)[r].kind, length |-> l]
    BY <1>12
  <2>4. /\ body.words = RestWords(f, r, l)
        /\ body.at = F!At(f, p + l)
        /\ body.ok = IsGood(f, r, p + l)
    BY <2>1, <2>2, <2>3, RestRead
  <2> QED
    BY <1>2, <2>4
<1>15. body.at.opened = f /\ body.at.position = q[k] /\ ok \in BOOLEAN
  BY <1>14 DEF F!At, IsGood
<1>16. [words |-> <<word>> \o body.words, swap |-> F!SwapFor(v)] = F!Expected[k]
  <2>1. F!Expected[k] = [words |-> [i \in 1 .. l |-> <<f, r, i>>], swap |-> fileList[f].other]
    BY <1>2 DEF Located
  <2>2. PICK u, t : u = <<word>> /\ t = [i \in 1 .. l - 1 |-> <<f, r, i + 1>>]
    OBVIOUS
  <2>3. <<f, r, 1>> \in Place /\ \A i \in 1 .. l - 1 : <<f, r, i + 1>> \in Place
    BY <1>1 DEF Place
  <2>4. u \in Seq(Place) /\ Len(u) = 1 /\ u[1] = <<f, r, 1>> /\ t \in Seq(Place) /\ Len(t) = l - 1
    <3>1. u \in Seq(Place) /\ Len(u) = 1 /\ u[1] = <<f, r, 1>>
      BY <1>4, <2>2, <2>3
    <3>2. PICK n \in Nat : n = l - 1
      BY <1>2
    <3>3. t \in Seq(Place) /\ Len(t) = n
      BY <2>2, <2>3, <3>2
    <3> QED
      BY <3>1, <3>2, <3>3
  <2>5. /\ u \o t \in Seq(Place) /\ Len(u \o t) = l
        /\ \A i \in 1 .. l : (u \o t)[i] = IF i <= 1 THEN u[i] ELSE t[i - 1]
    <3>1. u \o t \in Seq(Place) /\ Len(u \o t) = Len(u) + Len(t)
      BY <2>4, ConcatProperties, Zenon
    <3>2. \A i \in 1 .. Len(u) + Len(t) : (u \o t)[i] = IF i <= Len(u) THEN u[i] ELSE t[i - Len(u)]
      BY <2>4, ConcatProperties, Zenon
    <3>3. Len(u) + Len(t) = l
      BY <1>2, <2>4
    <3> QED
      BY <2>4, <3>1, <3>2, <3>3
  <2>6. \A i \in 1 .. l : (u \o t)[i] = <<f, r, i>>
    <3> SUFFICES ASSUME NEW i \in 1 .. l PROVE (u \o t)[i] = <<f, r, i>>
      OBVIOUS
    <3>1. CASE i = 1
      BY <2>4, <2>5, <3>1
    <3>2. CASE i # 1
      <4>1. i - 1 \in 1 .. l - 1 /\ (i - 1) + 1 = i /\ ~ (i <= 1)
        BY <1>2, <3>2
      <4>2. t[i - 1] = <<f, r, (i - 1) + 1>>
        BY <2>2, <4>1
      <4> QED
        BY <2>5, <4>1, <4>2
    <3> QED
      BY <3>1, <3>2
  <2>7. u \o t = [i \in 1 .. l |-> <<f, r, i>>]
    <3>1. PICK c \in Seq(Place) : c = u \o t /\ Len(c) = l
      BY <2>5
    <3>2. c = [i \in 1 .. Len(c) |-> c[i]]
      OBVIOUS
    <3>3. \A i \in 1 .. l : c[i] = <<f, r, i>>
      BY <2>6, <3>1
    <3> QED
      BY <3>1, <3>2, <3>3
  <2> QED
    BY <1>11, <1>14, <2>1, <2>2, <2>7 DEF RestWords
<1>17. /\ UNCHANGED <<fileList, words, ends>>
       /\ filesOpened' = body.at.opened /\ filePosition' = body.at.position
       /\ version' = (IF body.at.opened > first.opened THEN "unknown" ELSE v)
       /\ astray' = (astray \/ ~ F!IsFirst(word))
       /\ fileDelivered' = (IF body.ok /\ ~ astray'
                            THEN Append(fileDelivered, [words |-> <<word>> \o body.words, swap |-> F!SwapFor(v)])
                            ELSE fileDelivered)
       /\ fileHeaderIn' = (body.ok /\ (fileHeaderIn \/ what.kind = "header"))
       /\ fileStage' = IF (body.ok /\ (fileHeaderIn \/ what.kind = "header")) /\ what.kind # "stop"
                       THEN "run" ELSE "between"
  <2>1. PICK given \in F!Taken(word, v) : LET rest == F!ReadRest(given, v, first) IN
          /\ filesOpened' = rest.at.opened /\ filePosition' = rest.at.position
          /\ version' = (IF rest.at.opened > first.opened THEN "unknown" ELSE v)
          /\ astray' = (astray \/ ~ F!IsFirst(word))
          /\ fileDelivered' = (IF rest.ok /\ ~ astray'
                               THEN Append(fileDelivered, [words |-> <<word>> \o rest.words, swap |-> F!SwapFor(v)])
                               ELSE fileDelivered)
          /\ fileHeaderIn' = (rest.ok /\ (fileHeaderIn \/ given.kind = "header"))
          /\ fileStage' = IF (rest.ok /\ (fileHeaderIn \/ given.kind = "header")) /\ given.kind # "stop"
                          THEN "run" ELSE "between"
    BY <1>4, <1>7, <1>10, Zenon DEF F!ReadRecord, F!Goto
  <2>2. given = what
    BY <1>12
  <2>3. F!ReadRest(given, v, first) = body
    BY <1>13, <2>2
  <2> QED
    BY <2>1, <2>2, <2>3, Zenon DEF F!ReadRecord
<1>18. fileHeaderIn \/ what.kind = "header"
  BY <1>3, <1>12
<1>19. ~ astray' /\ filesOpened' = f /\ filePosition' = q[k] /\ version' = Right(f)
  <2>1. filesOpened' = f /\ filePosition' = q[k]
    BY <1>15, <1>17
  <2>2. version' = Right(f)
    BY <1>1, <1>8, <1>10, <1>15, <1>17
  <2> QED
    BY <1>3, <1>6, <1>17, <2>1, <2>2
<1>20. fileDelivered' = IF ok THEN Append(fileDelivered, F!Expected[k]) ELSE fileDelivered
  BY <1>14, <1>16, <1>17, <1>19
<1>21. /\ fileHeaderIn' = ok
       /\ fileStage' = IF ok /\ Records(f)[r].kind # "stop" THEN "run" ELSE "between"
  BY <1>12, <1>14, <1>15, <1>17, <1>18
<1> QED
  BY <1>17, <1>19, <1>20, <1>21

\* What keeps the records that were read keeps their order.
LEMMA OrderKept ==
  ASSUME UNCHANGED <<fileList, words, ends, fileDelivered>>, FilesInv,
         \A q, k, f, r : /\ ~ AllRead /\ Layout(q) /\ k = Len(fileDelivered) + 1 /\ k \in 1 .. Len(F!Expected)
                         /\ Located(q, k, f, r) /\ (InPlace(q[k - 1], f, r) \/ GaveUp(f, r))
                         => InPlace(q[k - 1], f, r)' \/ GaveUp(f, r)'
  PROVE  FilesInv'
<1>1. PICK q : Layout(q) /\ (~ AllRead => OnTrack(q, Len(fileDelivered) + 1))
  BY DEF FilesInv
<1>2. /\ Listed' /\ F!Expected' = F!Expected /\ Layout(q)'
      /\ \A k, f, r : Located(q, k, f, r)' <=> Located(q, k, f, r)
  <2>1. UNCHANGED <<fileList, words, ends>> /\ Listed
    BY DEF FilesInv
  <2>2. /\ Listed' <=> Listed
        /\ F!Expected' = F!Expected
        /\ \A k, f, r : Located(q, k, f, r)' <=> Located(q, k, f, r)
        /\ Layout(q)' <=> Layout(q)
    BY <2>1, FilesStay, Zenon
  <2> QED
    BY <1>1, <2>1, <2>2, Zenon
<1>3. fileDelivered' = fileDelivered /\ (AllRead' <=> AllRead)
  BY <1>2 DEF AllRead
<1>4. Len(fileDelivered) \in Nat /\ Len(F!Expected) \in Nat
  BY OrderPlanned DEF FilesInv
<1>5. ASSUME ~ AllRead PROVE OnTrack(q, Len(fileDelivered) + 1)'
  <2>1. PICK k : k = Len(fileDelivered) + 1 /\ k \in 1 .. Len(F!Expected)
    BY <1>4, <1>5 DEF AllRead
  <2>2. PICK f, r : Located(q, k, f, r) /\ (InPlace(q[k - 1], f, r) \/ GaveUp(f, r))
    BY <1>1, <1>5, <2>1 DEF OnTrack
  <2>3. InPlace(q[k - 1], f, r)' \/ GaveUp(f, r)'
    BY <1>1, <1>5, <2>1, <2>2
  <2>4. Located(q, k, f, r)' /\ k = Len(fileDelivered') + 1
    BY <1>2, <1>3, <2>1, <2>2
  <2> QED
    BY <2>3, <2>4 DEF OnTrack
<1> QED
  BY <1>1, <1>2, <1>3, <1>5 DEF FilesInv

LEMMA OpenStep == ASSUME FilesInv, F!Open PROVE FilesInv'
<1>1. UNCHANGED <<fileList, words, ends, fileDelivered, filePosition, version, astray>> /\ fileStage = "open"
  BY DEF F!Open
<1>2. ASSUME NEW q, NEW k, NEW f, NEW r, Located(q, k, f, r), InPlace(q[k - 1], f, r) \/ GaveUp(f, r)
      PROVE  InPlace(q[k - 1], f, r)'
  <2>1. f \in Nat \ {0} /\ f <= Len(fileList) /\ Len(fileList) \in Nat /\ fileList # << >>
        /\ (r = 1 => Records(f)[r].kind = "header")
    <3>1. f \in Nat \ {0} /\ f <= Len(fileList) /\ Len(fileList) \in Nat /\ (r = 1 => Records(f)[r].kind = "header")
      BY <1>2, PlaceFacts DEF FilesInv
    <3> QED
      BY <3>1
  <2>2. InPlace(q[k - 1], f, r)
    BY <1>1, <1>2 DEF GaveUp
  <2>3. filesOpened = 0 /\ version = "unknown" /\ r = 1
    BY <1>1, <2>1, <2>2 DEF InPlace
  <2>4. fileStage' = "run" /\ filesOpened' = 1 /\ fileHeaderIn' = FALSE
    BY <2>1 DEF F!Open, F!OpenDataStream
  <2>5. Records(f)' = Records(f)
    BY <1>1 DEF Records
  <2>6. filesOpened' \in 0 .. f
    BY <2>1, <2>4
  <2> QED
    BY <1>1, <2>1, <2>2, <2>3, <2>4, <2>5, <2>6 DEF InPlace
<1> QED
  BY <1>1, <1>2, OrderKept

LEMMA EndOfStreamStep == ASSUME FilesInv, F!EndOfStream PROVE FilesInv'
<1>1. UNCHANGED <<fileList, words, ends, fileDelivered>> /\ fileStage = "run" /\ filePosition = Len(words)
  BY DEF F!EndOfStream
<1>2. ASSUME NEW q, NEW k, NEW f, NEW r, Located(q, k, f, r), InPlace(q[k - 1], f, r) \/ GaveUp(f, r)
      PROVE  FALSE
  <2>1. InPlace(q[k - 1], f, r)
    BY <1>1, <1>2 DEF GaveUp
  <2>2. q[k - 1] = Len(words)
    BY <1>1, <2>1 DEF InPlace
  <2>3. q[k - 1] \in Nat /\ q[k] \in Nat /\ q[k - 1] < q[k] /\ q[k] <= Len(words)
    BY <1>2, PlaceFacts DEF FilesInv
  <2> QED
    BY <2>2, <2>3
<1> QED
  BY <1>1, <1>2, OrderKept

LEMMA NextRunStep == ASSUME FilesInv, F!ProcessNextRun PROVE FilesInv'
<1>1. /\ UNCHANGED <<fileList, words, ends, fileDelivered, filesOpened, filePosition, version, astray>>
      /\ fileStage = "between" /\ fileHeaderIn' = FALSE
      /\ fileStage' = IF F!OKToRead(F!At(filesOpened, filePosition)) THEN "run" ELSE "done"
  BY DEF F!ProcessNextRun
<1>2. F!OKToRead(F!At(filesOpened, filePosition))' <=> F!OKToRead(F!At(filesOpened, filePosition))
  BY <1>1 DEF F!OKToRead, F!At, F!ZeroNext, F!IsFirst, F!RecordOf
<1>3. \A f : Records(f)' = Records(f) /\ Right(f)' = Right(f)
  BY <1>1, FilesStay
<1>4. ASSUME NEW q, NEW k, NEW f, NEW r, Located(q, k, f, r), InPlace(q[k - 1], f, r)
      PROVE  InPlace(q[k - 1], f, r)'
  <2>1. r = 1 \/ Records(f)[r - 1].kind = "stop" => Records(f)[r].kind = "header"
    BY <1>4, PlaceFacts DEF FilesInv
  <2>2. /\ filePosition = q[k - 1] /\ ~ astray /\ filesOpened \in 0 .. f
        /\ r # 1 => filesOpened = f /\ version = Right(f)
        /\ r = 1 /\ filesOpened = f => version = "unknown"
        /\ filesOpened # 0
        /\ filesOpened # f \/ (r # 1 /\ Records(f)[r - 1].kind = "stop")
    BY <1>1, <1>4 DEF InPlace
  <2>3. Records(f)[r].kind = "header"
    BY <2>1, <2>2
  <2>4. fileStage' \in {"run", "done"}
    BY <1>1
  <2>5. fileStage' = "done" => ~ F!OKToRead(F!At(filesOpened, filePosition))'
    BY <1>1, <1>2
  <2> QED
    BY <1>1, <1>3, <2>2, <2>3, <2>4, <2>5 DEF InPlace
<1>5. ASSUME NEW f, NEW r, GaveUp(f, r) PROVE GaveUp(f, r)'
  <2>1. fileStage' = "done"
    BY <1>1, <1>5 DEF GaveUp
  <2> QED
    BY <1>1, <1>2, <1>3, <1>5, <2>1 DEF GaveUp
<1> QED
  BY <1>1, <1>4, <1>5, OrderKept

\* The record after the one that was read is in place.
LEMMA ReadOn ==
  ASSUME FilesInv, F!ReadRecord, NEW q, Layout(q), NEW k, k = Len(fileDelivered) + 1,
         NEW f, NEW r, Located(q, k, f, r), InPlace(q[k - 1], f, r), k + 1 \in 1 .. Len(F!Expected),
         k \in Nat \ {0}, IsGood(f, r, q[k])
  PROVE  \E g, s : Located(q, k + 1, g, s) /\ InPlace(q[(k + 1) - 1], g, s)'
<1>1. /\ UNCHANGED <<fileList, words, ends>>
      /\ filesOpened' = f /\ filePosition' = q[k] /\ version' = Right(f) /\ ~ astray'
      /\ fileHeaderIn' = TRUE
      /\ fileStage' = IF Records(f)[r].kind # "stop" THEN "run" ELSE "between"
  <2>1. PICK ok : ok = IsGood(f, r, q[k]) /\ ok = TRUE
    BY DEF IsGood
  <2>2. /\ UNCHANGED <<fileList, words, ends>>
        /\ filesOpened' = f /\ filePosition' = q[k] /\ version' = Right(f) /\ ~ astray'
        /\ fileHeaderIn' = ok
        /\ fileStage' = IF ok /\ Records(f)[r].kind # "stop" THEN "run" ELSE "between"
    <3>1. Listed
      BY DEF FilesInv
    <3>2. ok = IsGood(f, r, q[k])
      BY <2>1
    <3>3. UNCHANGED <<fileList, words, ends>>
      BY DEF F!ReadRecord
    <3>4. filesOpened' = f /\ filePosition' = q[k]
      BY <3>1, <3>2, RecordRead
    <3>5. version' = Right(f) /\ ~ astray'
      BY <3>1, <3>2, RecordRead
    <3>6. fileHeaderIn' = ok
      BY <3>1, <3>2, RecordRead
    <3>7. fileStage' = IF ok /\ Records(f)[r].kind # "stop" THEN "run" ELSE "between"
      BY <3>1, <3>2, RecordRead
    <3> QED
      BY <3>3, <3>4, <3>5, <3>6, <3>7
  <2> QED
    BY <2>1, <2>2
<1>2. PICK g, s : Located(q, k + 1, g, s)
  BY DEF Layout
<1>3. /\ g \in Nat \ {0} /\ f \in Nat \ {0} /\ (k + 1) - 1 = k
      /\ s = 1 => Records(g)[s].kind = "header"
  <2>1. g \in Nat \ {0} /\ (s = 1 => Records(g)[s].kind = "header")
    BY <1>2, PlaceFacts DEF FilesInv
  <2>2. f \in Nat \ {0}
    BY PlaceFacts DEF FilesInv
  <2> QED
    BY <2>1, <2>2
<1>4. IF s = 1 THEN \E h, t : h < g /\ Located(q, k, h, t) ELSE Located(q, k, g, s - 1)
  <2>1. IF s = 1 THEN k + 1 > 1 => \E h, t : h < g /\ Located(q, (k + 1) - 1, h, t)
        ELSE Located(q, (k + 1) - 1, g, s - 1)
    BY <1>2, NextPlace DEF FilesInv
  <2>2. k + 1 > 1
    OBVIOUS
  <2> QED
    BY <1>3, <2>1, <2>2
<1>5. \A h : Records(h)' = Records(h) /\ Right(h)' = Right(h)
  BY <1>1, FilesStay
<1>6. CASE s = 1
  <2>1. PICK h, t : h < g /\ Located(q, k, h, t)
    BY <1>4, <1>6
  <2>2. f < g
    BY <2>1, OnePlace DEF FilesInv
  <2>3. filesOpened' \in 0 .. g /\ filesOpened' # g /\ filesOpened' # 0
    BY <1>1, <1>3, <2>2
  <2>4. fileStage' \in {"run", "between"}
    BY <1>1
  <2>5. InPlace(q[k], g, s)'
    BY <1>1, <1>3, <1>5, <1>6, <2>3, <2>4 DEF InPlace
  <2> QED
    BY <1>2, <1>3, <2>5
<1>7. CASE s # 1
  <2>1. f = g /\ r = s - 1
    BY <1>4, <1>7, OnePlace DEF FilesInv
  <2>2. filesOpened' \in 0 .. g /\ filesOpened' = g /\ filesOpened' # 0
    BY <1>1, <1>3, <2>1
  <2>3. fileStage' \in {"run", "between"} /\ (fileStage' = "between" => Records(g)[s - 1].kind = "stop")
    BY <1>1, <2>1
  <2>4. InPlace(q[k], g, s)'
    BY <1>1, <1>3, <1>5, <1>7, <2>1, <2>2, <2>3 DEF InPlace
  <2> QED
    BY <1>2, <1>3, <2>4
<1> QED
  BY <1>6, <1>7

\* An old header after which there is nothing, or a first byte of zero, is not taken to be good.
LEMMA ReadEnds ==
  ASSUME FilesInv, F!ReadRecord, NEW q, Layout(q), NEW k \in 1 .. Len(F!Expected),
         NEW f, NEW r, Located(q, k, f, r), InPlace(q[k - 1], f, r), ~ IsGood(f, r, q[k])
  PROVE  GaveUp(f, r)'
<1>1. /\ UNCHANGED <<fileList, words, ends>>
      /\ filesOpened' = f /\ filePosition' = q[k] /\ fileStage' = "between"
  <2>1. PICK ok : ok = IsGood(f, r, q[k]) /\ ok = FALSE
    BY DEF IsGood
  <2>2. /\ UNCHANGED <<fileList, words, ends>>
        /\ filesOpened' = f /\ filePosition' = q[k]
        /\ fileStage' = IF ok /\ Records(f)[r].kind # "stop" THEN "run" ELSE "between"
    <3>1. Listed
      BY DEF FilesInv
    <3>2. ok = IsGood(f, r, q[k])
      BY <2>1
    <3>3. UNCHANGED <<fileList, words, ends>>
      BY DEF F!ReadRecord
    <3>4. filesOpened' = f /\ filePosition' = q[k]
      BY <3>1, <3>2, RecordRead
    <3>7. fileStage' = IF ok /\ Records(f)[r].kind # "stop" THEN "run" ELSE "between"
      BY <3>1, <3>2, RecordRead
    <3> QED
      BY <3>3, <3>4, <3>7
  <2> QED
    BY <2>1, <2>2
<1>2. Records(f)[r].kind = "header" /\ fileList[f].old /\ ~ F!OKToRead(F!At(f, q[k]))
  BY DEF IsGood
<1>3. F!At(f, q[k]).opened = f /\ F!At(f, q[k]).position = q[k]
  BY DEF F!At
<1>4. /\ ~ (f < Len(fileList))
      /\ q[k] < Len(words) => F!ZeroNext(words[q[k] + 1])
  BY <1>2, <1>3 DEF F!OKToRead
<1>5. /\ f \in Nat /\ f <= Len(fileList) /\ Len(fileList) \in Nat
      /\ r \in Nat \ {0} /\ r <= Len(Records(f)) /\ Len(Records(f)) \in Nat
  BY PlaceFacts DEF FilesInv
<1>6. f = Len(fileList)
  BY <1>4, <1>5
<1>7. ASSUME r < Len(Records(f)) PROVE Records(f)[r + 1].zero
  <2>1. k < Len(F!Expected) /\ Located(q, k + 1, f, r + 1) /\ (k + 1) - 1 = k
    <3>1. k < Len(F!Expected) /\ Located(q, k + 1, f, r + 1)
      BY <1>7, NextPlace DEF FilesInv
    <3> QED
      BY <3>1
  <2>2. q[k] < q[k + 1] /\ q[k + 1] <= Len(words) /\ q[k] \in Nat /\ q[k + 1] \in Nat /\ Len(words) \in Nat
    BY <2>1, PlaceFacts DEF FilesInv
  <2>3. words[q[k] + 1] = <<f, r + 1, 1>>
    <3>1. Laid(f, r + 1, q[k])
      BY <2>1, PlaceFacts DEF FilesInv
    <3>2. 1 \in 1 .. Length(f, r + 1)
      BY <3>1, LaidEnds DEF FilesInv
    <3> QED
      BY <3>1, <3>2 DEF Laid
  <2>4. F!ZeroNext(words[q[k] + 1])
    BY <1>4, <2>2
  <2>5. f \in 1 .. Len(fileList) /\ r + 1 \in 1 .. Len(Records(f))
    BY <2>1 DEF Located
  <2>6. F!RecordOf(words[q[k] + 1]) = Records(f)[r + 1]
    BY <2>3, <2>5, WordSays DEF FilesInv
  <2> QED
    BY <2>4, <2>6 DEF F!ZeroNext
<1>8. Records(f)' = Records(f) /\ fileList' = fileList
  BY <1>1 DEF Records
<1>9. F!OKToRead(F!At(filesOpened, filePosition))' <=> F!OKToRead(F!At(f, q[k]))
  BY <1>1 DEF F!OKToRead, F!At, F!ZeroNext, F!IsFirst, F!RecordOf
<1> QED
  BY <1>1, <1>2, <1>6, <1>7, <1>8, <1>9 DEF GaveUp

LEMMA ReadRecordStep == ASSUME FilesInv, F!ReadRecord PROVE FilesInv'
<1>1. PICK q : Layout(q) /\ (~ AllRead => OnTrack(q, Len(fileDelivered) + 1))
  BY DEF FilesInv
<1>2. UNCHANGED <<fileList, words, ends>> /\ Listed
  BY DEF F!ReadRecord, FilesInv
<1>3. /\ Listed' /\ F!Expected' = F!Expected /\ Layout(q)'
      /\ \A k, f, r : Located(q, k, f, r)' <=> Located(q, k, f, r)
  BY <1>1, <1>2, FilesStay, Zenon
<1>4. PICK n \in Nat, k \in Nat : n = Len(F!Expected) /\ k = Len(fileDelivered) + 1 /\ Len(fileDelivered) \in Nat
  BY OrderPlanned DEF FilesInv
<1>5. PICK S : fileDelivered \in Seq(S)
  BY DEF FilesInv
<1>6. \A i \in 1 .. k - 1 : i <= n => fileDelivered[i] = F!Expected[i]
  BY <1>4 DEF FilesInv
<1>7. PICK x : fileDelivered' = fileDelivered \/ fileDelivered' = Append(fileDelivered, x)
  BY Zenon DEF F!ReadRecord
<1>8. fileDelivered' \in Seq(S \cup {x}) /\ Len(fileDelivered') \in Nat /\ Len(fileDelivered') >= k - 1
      /\ \A i \in 1 .. k - 1 : fileDelivered'[i] = fileDelivered[i]
  <2>1. x \in S \cup {x} /\ fileDelivered \in Seq(S \cup {x})
    BY <1>5
  <2>2. CASE fileDelivered' = fileDelivered
    BY <1>4, <2>1, <2>2
  <2>3. CASE fileDelivered' = Append(fileDelivered, x)
    BY <1>4, <2>1, <2>3
  <2> QED
    BY <1>7, <2>2, <2>3
<1>9. CASE AllRead
  <2>1. n <= k - 1
    BY <1>4, <1>9 DEF AllRead
  <2>2. AllRead'
    BY <1>3, <1>4, <1>8, <2>1 DEF AllRead
  <2>3. \A i \in 1 .. Len(fileDelivered') : i <= Len(F!Expected') => fileDelivered'[i] = F!Expected'[i]
    <3> SUFFICES ASSUME NEW i \in 1 .. Len(fileDelivered'), i <= Len(F!Expected')
                 PROVE fileDelivered'[i] = F!Expected'[i]
      OBVIOUS
    <3>1. i <= n /\ i \in 1 .. k - 1
      BY <1>3, <1>4, <1>8, <2>1
    <3> QED
      BY <1>3, <1>6, <1>8, <3>1
  <2> QED
    BY <1>3, <1>8, <2>2, <2>3 DEF FilesInv
<1>10. CASE ~ AllRead
  <2>1. k \in 1 .. n /\ k \in Nat \ {0}
    BY <1>4, <1>10 DEF AllRead
  <2>2. PICK f, r : Located(q, k, f, r) /\ InPlace(q[k - 1], f, r)
    <3>1. fileStage = "run"
      BY DEF F!ReadRecord
    <3>2. PICK f, r : Located(q, k, f, r) /\ (InPlace(q[k - 1], f, r) \/ GaveUp(f, r))
      BY <1>1, <1>4, <1>10 DEF OnTrack
    <3> QED
      BY <3>1, <3>2 DEF GaveUp
  <2>3. CASE IsGood(f, r, q[k])
    <3>1. fileDelivered' = Append(fileDelivered, F!Expected[k])
      <4>1. PICK ok : ok = IsGood(f, r, q[k]) /\ ok = TRUE
        BY <2>3 DEF IsGood
      <4>2. fileDelivered' = IF ok THEN Append(fileDelivered, F!Expected[k]) ELSE fileDelivered
        BY <1>2, <2>2, <4>1, RecordRead
      <4> QED
        BY <4>1, <4>2
    <3>2. Len(fileDelivered') = k /\ fileDelivered'[k] = F!Expected[k]
      BY <1>4, <1>5, <3>1
    <3>3. \A i \in 1 .. Len(fileDelivered') : i <= Len(F!Expected') => fileDelivered'[i] = F!Expected'[i]
      <4> SUFFICES ASSUME NEW i \in 1 .. Len(fileDelivered'), i <= Len(F!Expected')
                   PROVE fileDelivered'[i] = F!Expected'[i]
        OBVIOUS
      <4>1. CASE i = k
        BY <1>3, <3>2, <4>1
      <4>2. CASE i # k
        <5>1. i <= n /\ i \in 1 .. k - 1
          BY <1>3, <1>4, <3>2, <4>2
        <5> QED
          BY <1>3, <1>6, <1>8, <5>1
      <4> QED
        BY <4>1, <4>2
    <3>4. ASSUME ~ AllRead' PROVE OnTrack(q, Len(fileDelivered) + 1)'
      <4>1. k + 1 \in 1 .. n
        BY <1>3, <1>4, <3>2, <3>4 DEF AllRead
      <4>2. PICK g, s : Located(q, k + 1, g, s) /\ InPlace(q[(k + 1) - 1], g, s)'
        BY <1>1, <1>4, <2>1, <2>2, <2>3, <4>1, ReadOn
      <4>3. Located(q, k + 1, g, s)'
        BY <1>3, <4>2
      <4> QED
        BY <3>2, <4>2, <4>3 DEF OnTrack
    <3> QED
      BY <1>3, <1>8, <3>3, <3>4 DEF FilesInv
  <2>4. CASE ~ IsGood(f, r, q[k])
    <3>1. fileDelivered' = fileDelivered
      <4>1. PICK ok : ok = IsGood(f, r, q[k]) /\ ok = FALSE
        BY <2>4 DEF IsGood
      <4>2. fileDelivered' = IF ok THEN Append(fileDelivered, F!Expected[k]) ELSE fileDelivered
        BY <1>2, <2>2, <4>1, RecordRead
      <4> QED
        BY <4>1, <4>2
    <3>2. GaveUp(f, r)'
      BY <1>1, <1>4, <2>1, <2>2, <2>4, ReadEnds
    <3>3. Located(q, k, f, r)' /\ k = Len(fileDelivered') + 1
      BY <1>3, <1>4, <2>2, <3>1
    <3>4. OnTrack(q, Len(fileDelivered) + 1)'
      BY <3>2, <3>3 DEF OnTrack
    <3>5. \A i \in 1 .. Len(fileDelivered') : i <= Len(F!Expected') => fileDelivered'[i] = F!Expected'[i]
      BY <1>3, <3>1 DEF FilesInv
    <3> QED
      BY <1>3, <1>8, <3>4, <3>5 DEF FilesInv
  <2> QED
    BY <2>3, <2>4
<1> QED
  BY <1>9, <1>10

LEMMA FilesStep == ASSUME FilesInv, F!Next PROVE FilesInv'
  BY OpenStep, EndOfStreamStep, ReadRecordStep, NextRunStep DEF F!Next

\* What has been read is in order, and what was not is as AllRecordsRead says.
LEMMA FilesShow == ASSUME FilesInv PROVE F!AllInOrder
<1>1. PICK q : Layout(q) /\ (~ AllRead => OnTrack(q, Len(fileDelivered) + 1))
  BY DEF FilesInv
<1>2. Len(fileDelivered) \in Nat /\ Len(F!Expected) \in Nat /\ DOMAIN fileDelivered = 1 .. Len(fileDelivered)
  BY OrderPlanned DEF FilesInv
<1>3. F!FilesInOrder
  BY <1>2 DEF FilesInv, F!FilesInOrder
<1>4. ASSUME fileStage = "done", Len(fileDelivered) < Len(F!Expected)
      PROVE  LET next == F!Expected[Len(fileDelivered) + 1].words[1]
                 last == F!Expected[Len(fileDelivered)].words[1]
             IN  /\ filesOpened = Len(fileList)
                 /\ \/ /\ fileDelivered # << >> /\ next[1] = last[1]
                       /\ F!StopsEarly(F!RecordOf(last)) /\ F!RecordOf(next).zero
                    \/ /\ F!OldHeader(next)
                       /\ \A r \in DOMAIN fileList[next[1]].records :
                            r = next[2] + 1 => fileList[next[1]].records[r].zero
  <2>1. PICK k : k = Len(fileDelivered) + 1 /\ k \in 1 .. Len(F!Expected) /\ k - 1 = Len(fileDelivered)
    BY <1>2, <1>4
  <2>2. PICK f, r : Located(q, k, f, r) /\ (InPlace(q[k - 1], f, r) \/ GaveUp(f, r))
    BY <1>1, <1>2, <1>4, <2>1 DEF OnTrack, AllRead
  <2>3. /\ f \in Nat \ {0} /\ f <= Len(fileList) /\ Len(fileList) \in Nat
        /\ r \in Nat \ {0} /\ r <= Len(Records(f)) /\ Len(Records(f)) \in Nat
        /\ q[k - 1] \in Nat /\ q[k] \in Nat /\ q[k - 1] < q[k] /\ q[k] <= Len(words) /\ Len(words) \in Nat
    BY <2>2, PlaceFacts DEF FilesInv
  <2>4. ASSUME NEW j, NEW g, NEW s, Located(q, j, g, s)
        PROVE  F!Expected[j].words[1] = <<g, s, 1>> /\ F!RecordOf(<<g, s, 1>>) = Records(g)[s]
               /\ (F!OldHeader(<<g, s, 1>>) <=> Records(g)[s].kind = "header" /\ fileList[g].old)
    <3>1. 1 \in 1 .. Length(g, s) /\ g \in 1 .. Len(fileList) /\ s \in 1 .. Len(Records(g))
      <4>1. g \in 1 .. Len(fileList) /\ s \in 1 .. Len(Records(g))
        BY <2>4 DEF Located
      <4>2. Length(g, s) \in Nat \ {0}
        BY <4>1, FileFacts DEF FilesInv, Listed
      <4> QED
        BY <4>1, <4>2
    <3>2. F!Expected[j].words = [p \in 1 .. Length(g, s) |-> <<g, s, p>>]
      BY <2>4 DEF Located
    <3>3. F!Expected[j].words[1] = <<g, s, 1>>
      BY <3>1, <3>2
    <3> QED
      BY <3>1, <3>3, WordSays DEF FilesInv
  <2>5. PICK next : next = F!Expected[k].words[1] /\ next = <<f, r, 1>>
    BY <2>2, <2>4
  <2>6. /\ F!RecordOf(next) = Records(f)[r] /\ next[1] = f /\ next[2] = r
        /\ F!OldHeader(next) <=> Records(f)[r].kind = "header" /\ fileList[f].old
    BY <2>2, <2>4, <2>5
  <2>7. CASE GaveUp(f, r)
    <3>1. filesOpened = Len(fileList) /\ F!OldHeader(next)
      BY <2>6, <2>7 DEF GaveUp
    <3>2. \A s \in DOMAIN fileList[next[1]].records : s = next[2] + 1 => fileList[next[1]].records[s].zero
      <4>1. DOMAIN Records(f) = 1 .. Len(Records(f))
        BY <2>2, FileFacts DEF FilesInv, Listed, Located
      <4>2. \A s \in DOMAIN Records(f) : s = r + 1 => Records(f)[s].zero
        BY <2>3, <2>7, <4>1 DEF GaveUp
      <4> QED
        BY <2>6, <4>2 DEF Records
    <3> QED
      BY <2>1, <2>5, <3>1, <3>2
  <2>8. CASE InPlace(q[k - 1], f, r)
    <3>1. /\ ~ F!OKToRead(F!At(filesOpened, filePosition)) /\ filePosition = q[k - 1] /\ filesOpened \in 0 .. f
          /\ filesOpened # f \/ (r # 1 /\ Records(f)[r - 1].kind = "stop")
      BY <1>4, <2>8 DEF InPlace
    <3>2. /\ ~ (filesOpened < Len(fileList))
          /\ filePosition < Len(words) => F!ZeroNext(words[filePosition + 1])
      BY <3>1 DEF F!OKToRead, F!At
    <3>3. filesOpened = Len(fileList) /\ filesOpened = f
      BY <2>3, <3>1, <3>2
    <3>4. r # 1 /\ Records(f)[r - 1].kind = "stop"
      BY <3>1, <3>3
    <3>5. k > 1 /\ Located(q, k - 1, f, r - 1)
      BY <1>1, <2>1, <2>2, <3>4, NextPlace DEF FilesInv
    <3>6. PICK last : last = F!Expected[k - 1].words[1] /\ last = <<f, r - 1, 1>> /\ F!RecordOf(last) = Records(f)[r - 1]
      <4>1. F!Expected[k - 1].words[1] = <<f, r - 1, 1>> /\ F!RecordOf(<<f, r - 1, 1>>) = Records(f)[r - 1]
        <5>1. PICK j, s : j = k - 1 /\ s = r - 1 /\ Located(q, j, f, s)
          BY <3>5
        <5>2. F!Expected[j].words[1] = <<f, s, 1>> /\ F!RecordOf(<<f, s, 1>>) = Records(f)[s]
          BY <2>4, <5>1
        <5> QED
          BY <5>1, <5>2
      <4> QED
        BY <4>1, Zenon
    <3>7. words[filePosition + 1] = <<f, r, 1>>
      <4>1. Laid(f, r, q[k - 1])
        BY <2>2, PlaceFacts DEF FilesInv
      <4>2. 1 \in 1 .. Length(f, r)
        BY <4>1, LaidEnds DEF FilesInv
      <4> QED
        BY <3>1, <4>1, <4>2 DEF Laid
    <3>8. F!ZeroNext(next)
      BY <2>3, <2>5, <3>1, <3>2, <3>7
    <3>9. F!RecordOf(next).zero /\ next[1] = last[1] /\ F!StopsEarly(F!RecordOf(last))
      BY <2>6, <3>4, <3>6, <3>8 DEF F!ZeroNext, F!StopsEarly
    <3>10. fileDelivered # << >>
      BY <2>1, <3>5
    <3> QED
      BY <2>1, <2>5, <3>3, <3>6, <3>9, <3>10
  <2> QED
    BY <2>2, <2>7, <2>8
<1>5. F!AllRecordsRead
  BY <1>4, Zenon DEF F!AllRecordsRead
<1> QED
  BY <1>3, <1>5 DEF F!AllInOrder

FilesGo == part = "files" => FilesInv
LEMMA FilesHold == AnySpec => []FilesGo
<1>1. AnyInit => FilesGo
  BY FilesStart DEF AnyInit, FilesGo
<1>2. FilesGo /\ [AnyNext]_allVars => FilesGo'
  <2> SUFFICES ASSUME FilesGo, [AnyNext]_allVars, part' = "files" PROVE FilesInv'
    BY DEF FilesGo
  <2>1. CASE part = "files" /\ F!Next
    BY <2>1, FilesStep DEF FilesGo
  <2>2. CASE part = "files" /\ UNCHANGED fileVars
    <3>1. /\ UNCHANGED <<fileList, words, ends, fileDelivered>> /\ FilesInv
          /\ UNCHANGED <<filesOpened, filePosition, version, astray, fileStage, fileHeaderIn>>
      BY <2>2 DEF fileVars, FilesGo
    <3>2. F!OKToRead(F!At(filesOpened, filePosition))' <=> F!OKToRead(F!At(filesOpened, filePosition))
      BY <3>1 DEF F!OKToRead, F!At, F!ZeroNext, F!IsFirst, F!RecordOf
    <3>3. \A f : Records(f)' = Records(f) /\ Right(f)' = Right(f)
      BY <3>1, FilesStay
    <3>4. \A p, f, r : InPlace(p, f, r) => InPlace(p, f, r)'
      BY <3>1, <3>2, <3>3 DEF InPlace
    <3>5. \A f, r : GaveUp(f, r) => GaveUp(f, r)'
      BY <3>1, <3>2, <3>3 DEF GaveUp
    <3> QED
      BY <3>1, <3>4, <3>5, OrderKept
  <2> QED
    BY <2>1, <2>2 DEF AnyNext, allVars
<1> QED
  BY <1>1, <1>2, PTL DEF AnySpec, allVars

(***************************************************************************)
(* The records of a list of files come in the order of the files, each     *)
(* whole, once, and in the byte order of its own file, whatever the orders *)
(* before it and whichever files are not there, up to the first file that  *)
(* is cut; and all of these come, but for what follows a run's last record *)
(* or an old header if its first byte is zero, in the last file.           *)
(***************************************************************************)
THEOREM FilesReadInOrder == AnySpec => []AllInOrder
<1>1. FilesGo => AllInOrder
  BY FilesShow DEF FilesGo, AllInOrder
<1> QED
  BY <1>1, FilesHold, PTL
-----------------------------------------------------------------------------
(***************************************************************************)
(* The files of other programs.                                            *)
(***************************************************************************)
GivenFile == list \in ForeignLists /\ input = Words(1)
FileBlocks == list[1].blocks

\* What is assumed of the file that is read.
LEMMA GivenFacts ==
  ASSUME GivenFile
  PROVE  /\ Len(list) \in Nat \ {0} /\ list[1].size \in Nat /\ list[1].cut \in Nat
         /\ \/ list[1].format = "igor" /\ FileBlocks \in Seq(Seq(Int) \ {<<>>})
            \/ /\ list[1].format = "cvi" /\ FileBlocks \in Seq(Seq(Event) \ {<<>>})
               /\ list[1].head \in Int /\ list[1].size # 0 /\ list[1].tail \in {<<>>, <<kEOF>>}
BY ForeignAssumption, Zenon DEF GivenFile, FileBlocks

\* An event ends with its trailer, and has no other delimiter.
LEMMA EventFacts ==
  ASSUME NEW e \in Event
  PROVE  /\ e \in Seq(Int) /\ Len(e) \in Nat \ {0} /\ e[Len(e)] = kEventTrailer
         /\ \A x \in 1 .. Len(e) - 1 : e[x] # kEventTrailer
         /\ \A x \in 1 .. Len(e) : e[x] \in Int /\ e[x] # kEOF /\ e[x] # kBucketHeader
<1>1. e \in Seq(Int) /\ e # <<>> /\ \A i \in DOMAIN e : IF i = Len(e) THEN e[i] = kEventTrailer
                                    ELSE e[i] \notin {kEOF, kBucketHeader, kEventTrailer}
  BY DEF Event
<1>2. Len(e) \in Nat \ {0} /\ DOMAIN e = 1 .. Len(e)
  BY <1>1, EmptySeq
<1>3. Len(e) \in DOMAIN e
  BY <1>2
<1> QED
  BY <1>1, <1>2, <1>3 DEF kEOF, kBucketHeader, kEventTrailer

LEMMA FirstIs ==
  ASSUME NEW T, NEW x \in T, T \subseteq Int, \A y \in T : x <= y
  PROVE  Min(T) = x
<1>1. \E z \in T : \A y \in T : z <= y
  OBVIOUS
<1>2. Min(T) \in T /\ \A y \in T : Min(T) <= y
  BY <1>1, Zenon DEF Min
<1>3. PICK m \in Int : m = Min(T)
  BY <1>2
<1>4. m <= x /\ x <= m /\ x \in Int
  BY <1>2, <1>3
<1> QED
  BY <1>3, <1>4

\* What is before the i-th of some sequences ends where the one before it ends.
LEMMA BeforeEnds ==
  ASSUME NEW S, NEW ss \in Seq(Seq(S)), NEW b, Ends(ss, b), NEW i \in 1 .. Len(ss)
  PROVE  Before(ss, i) = b[i - 1]
<1>1. PICK n \in Nat, k \in Nat : n = Len(ss) /\ k = i - 1 /\ k <= n
  OBVIOUS
<1>2. PICK tt : tt = SubSeq(ss, 1, k)
  OBVIOUS
<1>3. tt \in Seq(Seq(S)) /\ Len(tt) = k /\ \A j \in 1 .. k : tt[j] = ss[j]
  <2>1. \A j \in 1 .. k : ss[j] \in Seq(S)
    BY <1>1
  <2>2. /\ tt \in Seq(Seq(S)) /\ Len(tt) = IF 1 <= k THEN k - 1 + 1 ELSE 0
        /\ \A j \in 1 .. k - 1 + 1 : tt[j] = ss[1 + j - 1]
    BY <1>2, <2>1, SubSeqProperties
  <2> QED
    BY <1>1, <2>2
<1>4. PICK c : Ends(tt, c) /\ Len(FlattenSeq(tt)) = c[k]
  BY <1>3, Flattened
<1>5. \A j \in 0 .. k : c[j] = b[j]
  <2>1. PICK uu : uu = ss
    OBVIOUS
  <2>2. Len(tt) \in Nat /\ Len(uu) \in Nat /\ Len(tt) <= Len(uu) /\ Ends(tt, c) /\ Ends(uu, b)
    BY <1>1, <1>3, <1>4, <2>1
  <2>3. \A j \in 1 .. Len(tt) : tt[j] = uu[j]
    BY <1>3, <2>1
  <2>4. \A j \in 0 .. Len(tt) : c[j] = b[j]
    BY <2>2, <2>3, EndsOnce, SMTT(30)
  <2> QED
    BY <1>3, <2>4
<1> QED
  BY <1>1, <1>2, <1>4, <1>5 DEF Before

\* The records that are expected are the first ones, and well formed.
LEMMA ExpectedFirst ==
  ASSUME NEW S, Blocks(1) \in Seq(S)
  PROVE  /\ Len(Expected) \in 0 .. Len(Blocks(1))
         /\ \A k \in 1 .. Len(Expected) : Expected[k] = Blocks(1)[k] /\ WellFormed(1, Blocks(1)[k])
<1>1. PICK all \in Seq(S) : all = Blocks(1)
  OBVIOUS
<1>2. PICK bad : bad = {i \in DOMAIN all : ~ WellFormed(1, all[i])}
  OBVIOUS
<1>3. PICK T : T = {i - 1 : i \in bad} \cup {Len(all)}
  OBVIOUS
<1>4. T \subseteq Nat /\ Len(all) \in T
  BY <1>2, <1>3
<1>5. PICK m \in T : \A y \in T : m <= y
  BY <1>4, Least
<1>6. Min(T) = m /\ m \in 0 .. Len(all)
  <2>1. T \subseteq Int /\ m \in Nat /\ m <= Len(all) /\ \A y \in T : m <= y
    BY <1>4, <1>5
  <2>2. Min(T) = m
    BY <2>1, FirstIs, Zenon
  <2> QED
    BY <2>1, <2>2
<1>7. Expected = SubSeq(all, 1, m)
  BY <1>1, <1>2, <1>3, <1>6 DEF Expected
<1>8. Len(Expected) = m /\ \A k \in 1 .. m : Expected[k] = all[k]
  <2>1. \A k \in 1 .. m : all[k] \in S
    BY <1>6
  <2>2. /\ Len(SubSeq(all, 1, m)) = IF 1 <= m THEN m - 1 + 1 ELSE 0
        /\ \A k \in 1 .. m - 1 + 1 : SubSeq(all, 1, m)[k] = all[1 + k - 1]
    BY <1>6, <2>1, SubSeqProperties
  <2> QED
    BY <1>6, <1>7, <2>2
<1>9. ASSUME NEW k \in 1 .. m PROVE WellFormed(1, all[k])
  <2>1. k \in DOMAIN all /\ ~ (m <= k - 1)
    BY <1>6
  <2>2. k - 1 \notin T
    BY <1>5, <2>1
  <2> QED
    BY <1>2, <1>3, <2>1, <2>2
<1> QED
  BY <1>1, <1>6, <1>8, <1>9

\* Where the parts of a sequence are, of which none is empty.
Joins(ss) ==
  /\ Len(ss) \in Nat /\ Len(FlattenSeq(ss)) \in Nat
  /\ \A i \in 1 .. Len(ss) :
       /\ Len(ss[i]) \in Nat \ {0} /\ Before(ss, i) \in Nat
       /\ Before(ss, i) = IF i = 1 THEN 0 ELSE Before(ss, i - 1) + Len(ss[i - 1])
       /\ Before(ss, i) + Len(ss[i]) <= Len(FlattenSeq(ss))
       /\ i = Len(ss) => Before(ss, i) + Len(ss[i]) = Len(FlattenSeq(ss))
       /\ \A x \in 1 .. Len(ss[i]) : FlattenSeq(ss)[Before(ss, i) + x] = ss[i][x]
  /\ \A y \in 1 .. Len(FlattenSeq(ss)) :
       \E i \in 1 .. Len(ss) : \E x \in 1 .. Len(ss[i]) : y = Before(ss, i) + x

LEMMA PartsJoin ==
  ASSUME NEW S, NEW ss \in Seq(Seq(S) \ {<<>>})
  PROVE  FlattenSeq(ss) \in Seq(S) /\ Joins(ss)
<1>1. PICK n \in Nat : n = Len(ss)
  OBVIOUS
<1>2. \A i \in 1 .. n : ss[i] \in Seq(S) /\ Len(ss[i]) \in Nat \ {0}
  <2> SUFFICES ASSUME NEW i \in 1 .. n PROVE ss[i] \in Seq(S) /\ Len(ss[i]) \in Nat \ {0}
    OBVIOUS
  <2>1. ss[i] \in Seq(S) /\ ss[i] # <<>>
    BY <1>1
  <2> QED
    BY <2>1, EmptySeq
<1>3. ss \in Seq(Seq(S))
  BY <1>1, <1>2
<1>4. PICK t, b : t = FlattenSeq(ss) /\ t \in Seq(S) /\ Ends(ss, b) /\ Len(t) = b[n] /\ Holds(t, ss, b)
  BY <1>1, <1>3, Flattened
<1>5. /\ \A i \in 0 .. n : b[i] \in Nat /\ b[0] = 0
      /\ \A i \in 1 .. n : b[i] = b[i - 1] + Len(ss[i])
  BY <1>1, <1>4 DEF Ends
<1>6. \A i \in 1 .. n : Before(ss, i) = b[i - 1]
  BY <1>1, <1>3, <1>4, BeforeEnds
<1>7. \A i \in 1 .. n : b[i - 1] <= b[i]
  <2> SUFFICES ASSUME NEW i \in 1 .. n PROVE b[i - 1] <= b[i]
    OBVIOUS
  <2>1. i - 1 \in 0 .. n
    OBVIOUS
  <2> QED
    BY <1>2, <1>5, <2>1
<1>8. \A i, j \in 0 .. n : i <= j => b[i] <= b[j]
  BY <1>5, <1>7, Rises
<1>9. ASSUME NEW i \in 1 .. n
      PROVE  /\ Len(ss[i]) \in Nat \ {0} /\ Before(ss, i) \in Nat
             /\ Before(ss, i) = IF i = 1 THEN 0 ELSE Before(ss, i - 1) + Len(ss[i - 1])
             /\ Before(ss, i) + Len(ss[i]) <= Len(t)
             /\ i = n => Before(ss, i) + Len(ss[i]) = Len(t)
             /\ \A x \in 1 .. Len(ss[i]) : t[Before(ss, i) + x] = ss[i][x]
  <2>1. i - 1 \in 0 .. n /\ i \in 0 .. n /\ n \in 0 .. n /\ i <= n
    OBVIOUS
  <2>2. Before(ss, i) = b[i - 1] /\ b[i - 1] \in Nat /\ b[i] = b[i - 1] + Len(ss[i])
    BY <1>5, <1>6, <2>1
  <2>3. b[i] <= b[n] /\ Len(t) = b[n]
    BY <1>4, <1>8, <2>1
  <2>4. i # 1 => Before(ss, i) = Before(ss, i - 1) + Len(ss[i - 1])
    <3>1. i # 1 => i - 1 \in 1 .. n
      OBVIOUS
    <3> QED
      BY <1>5, <1>6, <2>2, <3>1
  <2>5. i = 1 => Before(ss, i) = 0
    BY <1>5, <2>2
  <2>6. \A x \in 1 .. Len(ss[i]) : t[b[i - 1] + x] = ss[i][x]
    BY <1>1, <1>4 DEF Holds
  <2> QED
    BY <1>2, <2>2, <2>3, <2>4, <2>5, <2>6
<1>10. ASSUME NEW y \in 1 .. Len(t)
       PROVE  \E i \in 1 .. n : \E x \in 1 .. Len(ss[i]) : y = Before(ss, i) + x
  <2>1. y \in Nat /\ b[0] < y /\ y <= b[n]
    BY <1>4, <1>5
  <2>2. PICK i \in 1 .. n : b[i - 1] < y /\ y <= b[i]
    <3>1. \A i \in 0 .. n : b[i] \in Nat
      BY <1>5
    <3> QED
      BY <1>7, <2>1, <3>1, Between
  <2>3. Before(ss, i) = b[i - 1] /\ b[i] = b[i - 1] + Len(ss[i]) /\ b[i - 1] \in Nat
    <3>1. i - 1 \in 0 .. n
      OBVIOUS
    <3> QED
      BY <1>5, <1>6, <3>1
  <2>4. PICK x \in Int : x = y - b[i - 1]
    BY <2>1, <2>3
  <2>5. PICK from \in Nat, m \in Nat : from = b[i - 1] /\ m = Len(ss[i])
    BY <1>2, <2>3
  <2>6. from < y /\ y <= from + m /\ x = y - from
    BY <2>2, <2>3, <2>4, <2>5
  <2>7. x \in 1 .. m /\ y = from + x
    BY <2>1, <2>6
  <2> QED
    BY <2>3, <2>5, <2>7
<1>11. Joins(ss)
  <2>1. Len(FlattenSeq(ss)) = Len(t) /\ Len(t) \in Nat
    BY <1>4
  <2> QED
    BY <1>1, <1>4, <1>9, <1>10, <2>1 DEF Joins
<1> QED
  BY <1>4, <1>11

\* The places of an Igor file.
LEMMA BuffersPlaced ==
  ASSUME GivenFile, list[1].format = "igor"
  PROVE  /\ input \in Seq(Int) /\ Blocks(1) \in Seq(Nat \X Nat \X Nat) /\ Joins(FileBlocks)
         /\ Len(Blocks(1)) = Len(FileBlocks)
         /\ \A k \in 1 .. Len(Blocks(1)) :
              Blocks(1)[k] = <<1, Before(FileBlocks, k) + 1, Len(FileBlocks[k])>>
<1>1. FileBlocks \in Seq(Seq(Int) \ {<<>>}) /\ list[1].cut \in Nat
  BY GivenFacts
<1>2. FlattenSeq(FileBlocks) \in Seq(Int) /\ Joins(FileBlocks)
  BY <1>1, PartsJoin
<1>3. PICK n \in Nat : n = Len(FileBlocks) /\ DOMAIN FileBlocks = 1 .. n
  BY <1>1
<1>4. Blocks(1) = [k \in 1 .. n |-> <<1, Before(FileBlocks, k) + 1, Len(FileBlocks[k])>>]
  BY <1>3 DEF Blocks, BlockPlaces, FileBlocks
<1>5. \A k \in 1 .. n : <<1, Before(FileBlocks, k) + 1, Len(FileBlocks[k])>> \in Nat \X Nat \X Nat
  <2> SUFFICES ASSUME NEW k \in 1 .. n
               PROVE  <<1, Before(FileBlocks, k) + 1, Len(FileBlocks[k])>> \in Nat \X Nat \X Nat
    OBVIOUS
  <2>1. Before(FileBlocks, k) \in Nat /\ Len(FileBlocks[k]) \in Nat
    BY <1>2, <1>3 DEF Joins
  <2> QED
    BY <2>1
<1>6. Blocks(1) \in Seq(Nat \X Nat \X Nat) /\ Len(Blocks(1)) = n
  BY <1>4, <1>5
<1>7. input \in Seq(Int)
  <2>1. PICK t \in Seq(Int) : t = FlattenSeq(FileBlocks)
    BY <1>2
  <2>2. input = SubSeq(t, 1, Len(t) - list[1].cut)
    BY <2>1 DEF GivenFile, Words, AllWords, FileBlocks
  <2> QED
    BY <1>1, <2>2, SubSeqProperties
<1> QED
  BY <1>2, <1>3, <1>4, <1>6, <1>7

\* Where the buckets of a CVI file are.
BucketAt(i)   == 1 + Before(BucketsOf(list[1]), i)
BucketSize(i) == Len(FlattenSeq(FileBlocks[i]))
BucketLaid(i) ==
  /\ FileBlocks[i] \in Seq(Event) /\ Len(FileBlocks[i]) # 0 /\ Joins(FileBlocks[i])
  /\ BucketAt(i) \in Nat
  /\ BucketAt(i) = IF i = 1 THEN 1 ELSE BucketAt(i - 1) + 4 + BucketSize(i - 1)
  /\ BucketAt(i) + 1 <= Len(input) => input[BucketAt(i) + 1] = kBucketHeader
  /\ BucketAt(i) + 4 <= Len(input) => input[BucketAt(i) + 4] = BucketSize(i)
  /\ \A x \in 1 .. BucketSize(i) :
       BucketAt(i) + 4 + x <= Len(input) => input[BucketAt(i) + 4 + x] = FlattenSeq(FileBlocks[i])[x]
  /\ i = Len(FileBlocks) /\ BucketAt(i) + 4 + BucketSize(i) < Len(input) =>
       input[BucketAt(i) + 4 + BucketSize(i) + 1] = kEOF

\* The words of a bucket are its four and those of its events.
LEMMA BucketPut ==
  ASSUME NEW events \in Seq(Event), Len(events) # 0
  PROVE  LET w == BucketWords(events)
             d == FlattenSeq(events)
         IN  /\ events \in Seq(Seq(Int) \ {<<>>}) /\ Joins(events) /\ d \in Seq(Int)
             /\ w \in Seq(Int) \ {<<>>} /\ Len(w) = 4 + Len(d) /\ w[1] = kBucketHeader /\ w[4] = Len(d)
             /\ \A x \in 1 .. Len(d) : w[4 + x] = d[x]
<1>1. events \in Seq(Seq(Int) \ {<<>>})
  <2>1. \A e \in Event : e \in Seq(Int) \ {<<>>}
    BY DEF Event
  <2> QED
    BY <2>1
<1>2. PICK d : d = FlattenSeq(events) /\ d \in Seq(Int) /\ Joins(events)
  BY <1>1, PartsJoin
<1>3. PICK n \in Nat : n = Len(d)
  BY <1>2
<1>4. PICK h \in Seq(Int) : h = <<kBucketHeader, 1, 1, n>>
  <2>1. kBucketHeader \in Int
    BY DEF kBucketHeader
  <2>2. PICK k \in Int : k = kBucketHeader
    BY <2>1
  <2>3. <<k, 1, 1, n>> \in Seq(Int)
    OBVIOUS
  <2> QED
    BY <2>2, <2>3
<1>5. Len(h) = 4 /\ h[1] = kBucketHeader /\ h[4] = n
  BY <1>4
<1>6. PICK w : w = h \o d
  OBVIOUS
<1>7. w = BucketWords(events)
  BY <1>2, <1>3, <1>4, <1>6 DEF BucketWords
<1>8. /\ w \in Seq(Int) /\ Len(w) = 4 + n
      /\ \A i \in 1 .. 4 + n : w[i] = IF i <= 4 THEN h[i] ELSE d[i - 4]
  <2>1. d \in Seq(Int)
    BY <1>2
  <2>2. /\ h \o d \in Seq(Int) /\ Len(h \o d) = Len(h) + Len(d)
        /\ \A i \in 1 .. Len(h) + Len(d) : (h \o d)[i] = IF i <= Len(h) THEN h[i] ELSE d[i - Len(h)]
    BY <2>1, ConcatProperties
  <2> QED
    BY <1>3, <1>5, <1>6, <2>2
<1>9. w # <<>> /\ w[1] = kBucketHeader /\ w[4] = n
  <2>1. 1 \in 1 .. 4 + n /\ 4 \in 1 .. 4 + n
    BY <1>3
  <2>2. Len(w) # 0
    BY <1>3, <1>8
  <2> QED
    BY <1>5, <1>8, <2>1, <2>2
<1>10. \A x \in 1 .. n : w[4 + x] = d[x]
  <2> SUFFICES ASSUME NEW x \in 1 .. n PROVE w[4 + x] = d[x]
    OBVIOUS
  <2>1. PICK i \in 1 .. 4 + n : i = 4 + x /\ ~ (i <= 4) /\ i - 4 = x
    BY <1>3
  <2>2. w[i] = d[i - 4]
    BY <1>8, <2>1
  <2> QED
    BY <2>1, <2>2
<1> QED
  BY <1>1, <1>2, <1>3, <1>7, <1>8, <1>9, <1>10

LEMMA BucketsLaid ==
  ASSUME GivenFile, list[1].format = "cvi"
  PROVE  /\ input \in Seq(Int) /\ Len(FileBlocks) \in Nat
         /\ \A i \in 1 .. Len(FileBlocks) : BucketLaid(i)
<1>1. /\ FileBlocks \in Seq(Seq(Event) \ {<<>>}) /\ list[1].cut \in Nat /\ list[1].head \in Int
      /\ list[1].tail \in {<<>>, <<kEOF>>}
  BY GivenFacts
<1>2. PICK n \in Nat : n = Len(FileBlocks) /\ DOMAIN FileBlocks = 1 .. n
  BY <1>1
<1>3. \A i \in 1 .. n : FileBlocks[i] \in Seq(Event) /\ Len(FileBlocks[i]) # 0
  <2> SUFFICES ASSUME NEW i \in 1 .. n PROVE FileBlocks[i] \in Seq(Event) /\ Len(FileBlocks[i]) # 0
    OBVIOUS
  <2>1. FileBlocks[i] \in Seq(Event) /\ FileBlocks[i] # <<>>
    BY <1>1, <1>2
  <2> QED
    BY <2>1, EmptySeq
<1>4. PICK bs : bs = BucketsOf(list[1]) /\ bs = [i \in 1 .. n |-> BucketWords(FileBlocks[i])]
  BY <1>2 DEF BucketsOf, FileBlocks
<1>5. ASSUME NEW i \in 1 .. n
      PROVE  /\ Joins(FileBlocks[i]) /\ BucketSize(i) \in Nat
             /\ bs[i] \in Seq(Int) \ {<<>>} /\ Len(bs[i]) = 4 + BucketSize(i)
             /\ bs[i][1] = kBucketHeader /\ bs[i][4] = BucketSize(i)
             /\ \A x \in 1 .. BucketSize(i) : bs[i][4 + x] = FlattenSeq(FileBlocks[i])[x]
  <2>1. bs[i] = BucketWords(FileBlocks[i])
    BY <1>4
  <2>2. FlattenSeq(FileBlocks[i]) \in Seq(Int)
    BY <1>3, BucketPut
  <2>3. FileBlocks[i] \in Seq(Event) /\ Len(FileBlocks[i]) # 0
    BY <1>3
  <2>4. PICK w, d : w = BucketWords(FileBlocks[i]) /\ d = FlattenSeq(FileBlocks[i]) /\ d \in Seq(Int)
    BY <2>2
  <2>5. /\ Joins(FileBlocks[i]) /\ w \in Seq(Int) \ {<<>>} /\ Len(w) = 4 + Len(d) /\ w[1] = kBucketHeader
        /\ w[4] = Len(d) /\ \A x \in 1 .. Len(d) : w[4 + x] = d[x]
    BY <2>3, <2>4, BucketPut
  <2>6. BucketSize(i) = Len(d) /\ Len(d) \in Nat /\ bs[i] = w
    BY <2>1, <2>4 DEF BucketSize
  <2> QED
    BY <2>4, <2>5, <2>6
<1>6. bs \in Seq(Seq(Int) \ {<<>>}) /\ Len(bs) = n
  BY <1>4, <1>5
<1>7. PICK t : t = FlattenSeq(bs) /\ t \in Seq(Int) /\ Joins(bs)
  BY <1>6, PartsJoin
<1>8. PICK l \in Nat, h \in Seq(Int), c \in Seq(Int) :
         l = Len(t) /\ h = <<list[1].head>> /\ c = list[1].tail /\ Len(h) = 1 /\ (c = <<>> \/ c = <<kEOF>>)
  <2>1. kEOF \in Int
    BY DEF kEOF
  <2>2. PICK k \in Int, l \in Nat, x \in Int : k = kEOF /\ l = Len(t) /\ x = list[1].head
    <3>1. list[1].head \in Int
      BY <1>1
    <3>2. Len(t) \in Nat
      BY <1>7
    <3> QED
      BY <2>1, <3>1, <3>2
  <2>3. <<k>> \in Seq(Int) /\ <<>> \in Seq(Int) /\ <<x>> \in Seq(Int) /\ Len(<<x>>) = 1
    OBVIOUS
  <2>4. PICK c : c = list[1].tail /\ (c = <<>> \/ c = <<k>>)
    BY <1>1, <2>2
  <2>5. c \in Seq(Int)
    BY <2>3, <2>4
  <2> QED
    BY <2>2, <2>3, <2>4, <2>5
<1>9. PICK all : all = h \o t \o c
  OBVIOUS
<1>10. /\ all \in Seq(Int) /\ Len(all) = 1 + l + Len(c)
       /\ \A y \in 1 .. l : all[1 + y] = t[y]
       /\ \A y \in 1 .. Len(c) : all[1 + l + y] = c[y]
  <2>1. t \in Seq(Int)
    BY <1>7
  <2>2. PICK u : u = h \o t
    OBVIOUS
  <2>3. /\ u \in Seq(Int) /\ Len(u) = 1 + l
        /\ \A i \in 1 .. 1 + l : u[i] = IF i <= 1 THEN h[i] ELSE t[i - 1]
    BY <1>8, <2>1, <2>2, ConcatProperties
  <2>4. PICK m \in Nat : m = Len(c)
    OBVIOUS
  <2>5. /\ all \in Seq(Int) /\ Len(all) = 1 + l + m
        /\ \A i \in 1 .. 1 + l + m : all[i] = IF i <= 1 + l THEN u[i] ELSE c[i - (1 + l)]
    <3>1. all = u \o c
      BY <1>9, <2>2
    <3>2. /\ u \o c \in Seq(Int) /\ Len(u \o c) = Len(u) + Len(c)
          /\ \A i \in 1 .. Len(u) + Len(c) : (u \o c)[i] = IF i <= Len(u) THEN u[i] ELSE c[i - Len(u)]
      BY <2>3, ConcatProperties
    <3> QED
      BY <2>3, <2>4, <3>1, <3>2
  <2>6. ASSUME NEW y \in 1 .. l PROVE all[1 + y] = t[y]
    <3>1. 1 + y \in 1 .. 1 + l + m /\ 1 + y \in 1 .. 1 + l /\ ~ (1 + y <= 1) /\ 1 + y - 1 = y
      OBVIOUS
    <3> QED
      BY <2>3, <2>5, <3>1
  <2>7. ASSUME NEW y \in 1 .. m PROVE all[1 + l + y] = c[y]
    <3>1. PICK i \in 1 .. 1 + l + m : i = 1 + l + y /\ ~ (i <= 1 + l) /\ i - (1 + l) = y
      OBVIOUS
    <3>2. all[i] = c[i - (1 + l)]
      BY <2>5, <3>1
    <3> QED
      BY <3>1, <3>2
  <2> QED
    BY <2>4, <2>5, <2>6, <2>7
<1>11. input \in Seq(Int) /\ Len(input) <= Len(all) /\ \A y \in 1 .. Len(input) : input[y] = all[y]
  <2>1. all = AllWords(list[1])
    BY <1>4, <1>7, <1>8, <1>9 DEF AllWords
  <2>2. PICK k \in Int : k = Len(all) - list[1].cut /\ k <= Len(all)
    <3>1. PICK m \in Nat, z \in Nat : m = Len(all) /\ z = list[1].cut
      BY <1>1, <1>10
    <3>2. m - z \in Int /\ m - z <= m
      BY <3>1
    <3> QED
      BY <3>1, <3>2
  <2>3. input = SubSeq(all, 1, k)
    BY <2>1, <2>2 DEF GivenFile, Words
  <2>4. \A i \in 1 .. k : all[i] \in Int
    BY <1>10, <2>2
  <2>5. /\ input \in Seq(Int) /\ Len(input) = IF 1 <= k THEN k - 1 + 1 ELSE 0
        /\ \A i \in 1 .. k - 1 + 1 : input[i] = all[1 + i - 1]
    BY <2>3, <2>4, SubSeqProperties
  <2> QED
    BY <1>10, <2>2, <2>5
<1>12. ASSUME NEW i \in 1 .. n PROVE BucketLaid(i)
  <2>1. /\ Before(bs, i) \in Nat /\ Before(bs, i) + Len(bs[i]) <= l
        /\ Before(bs, i) = IF i = 1 THEN 0 ELSE Before(bs, i - 1) + Len(bs[i - 1])
        /\ i = n => Before(bs, i) + Len(bs[i]) = l
        /\ \A x \in 1 .. Len(bs[i]) : t[Before(bs, i) + x] = bs[i][x]
    BY <1>6, <1>7, <1>8, Zenon DEF Joins
  <2>2. PICK from \in Nat, s \in Nat : from = Before(bs, i) /\ s = BucketSize(i) /\ Len(bs[i]) = 4 + s
    BY <1>5, <2>1
  <2>3. BucketAt(i) = 1 + from /\ from + 4 + s <= l
    BY <1>4, <2>1, <2>2 DEF BucketAt
  <2>4. ASSUME NEW x \in 1 .. 4 + s, 1 + from + x <= Len(input) PROVE input[1 + from + x] = bs[i][x]
    <3>1. 1 + from + x \in 1 .. Len(input) /\ from + x \in 1 .. l /\ 1 + from + x = 1 + (from + x)
      <4>1. PICK m \in Nat : m = Len(input)
        BY <1>11
      <4>2. 1 + from + x <= m
        BY <2>4, <4>1
      <4>3. from + 4 + s <= l
        BY <2>3
      <4>4. 1 + from + x \in 1 .. m /\ from + x \in 1 .. l /\ 1 + from + x = 1 + (from + x)
        BY <4>2, <4>3
      <4> QED
        BY <4>1, <4>4
    <3>2. input[1 + from + x] = t[from + x]
      BY <1>10, <1>11, <3>1
    <3> QED
      BY <2>1, <2>2, <3>2
  <2>5. BucketAt(i) = IF i = 1 THEN 1 ELSE BucketAt(i - 1) + 4 + BucketSize(i - 1)
    <3>1. CASE i = 1
      BY <2>1, <2>2, <2>3, <3>1
    <3>2. CASE i # 1
      <4>1. i - 1 \in 1 .. n
        BY <3>2
      <4>2. Len(bs[i - 1]) = 4 + BucketSize(i - 1) /\ BucketSize(i - 1) \in Nat /\ Before(bs, i - 1) \in Nat
        BY <1>5, <1>6, <1>7, <4>1 DEF Joins
      <4>3. BucketAt(i - 1) = 1 + Before(bs, i - 1)
        BY <1>4 DEF BucketAt
      <4>4. from = Before(bs, i - 1) + Len(bs[i - 1])
        BY <2>1, <2>2, <3>2
      <4> QED
        BY <2>3, <3>2, <4>2, <4>3, <4>4
    <3> QED
      BY <3>1, <3>2
  <2>6. BucketAt(i) + 1 <= Len(input) => input[BucketAt(i) + 1] = kBucketHeader
    <3>1. 1 \in 1 .. 4 + s
      OBVIOUS
    <3> QED
      BY <1>5, <2>3, <2>4, <3>1
  <2>7. BucketAt(i) + 4 <= Len(input) => input[BucketAt(i) + 4] = BucketSize(i)
    <3>1. 4 \in 1 .. 4 + s
      OBVIOUS
    <3> QED
      BY <1>5, <2>3, <2>4, <3>1
  <2>8. ASSUME NEW x \in 1 .. s, BucketAt(i) + 4 + x <= Len(input)
        PROVE  input[BucketAt(i) + 4 + x] = FlattenSeq(FileBlocks[i])[x]
    <3>1. 4 + x \in 1 .. 4 + s /\ 1 + from + (4 + x) = BucketAt(i) + 4 + x
      BY <2>3
    <3>2. input[1 + from + (4 + x)] = bs[i][4 + x]
      BY <2>4, <2>8, <3>1
    <3> QED
      BY <1>5, <2>2, <3>1, <3>2
  <2>9. ASSUME i = n, BucketAt(i) + 4 + s < Len(input) PROVE input[BucketAt(i) + 4 + s + 1] = kEOF
    <3>1. from + 4 + s = l
      <4>1. Before(bs, i) + Len(bs[i]) = l
        BY <2>1, <2>9
      <4>2. from + (4 + s) = l
        BY <2>2, <4>1
      <4> QED
        BY <4>2
    <3>2. 1 + l + 1 \in 1 .. Len(input) /\ Len(c) # 0 /\ BucketAt(i) + 4 + s + 1 = 1 + l + 1
      <4>1. PICK m \in Nat, k \in Nat, e \in Nat : m = Len(c) /\ k = Len(input) /\ e = BucketAt(i) /\ e = 1 + from
        BY <1>11, <2>3
      <4>2. k <= 1 + l + m /\ e + 4 + s < k
        BY <1>10, <1>11, <2>9, <4>1
      <4> QED
        BY <3>1, <4>1, <4>2
    <3>3. c = <<kEOF>> /\ Len(c) = 1 /\ c[1] = kEOF
      BY <1>8, <3>2
    <3>4. all[1 + l + 1] = kEOF
      BY <1>10, <3>3
    <3> QED
      BY <1>11, <3>1, <3>2, <3>4
  <2>10. FileBlocks[i] \in Seq(Event) /\ Len(FileBlocks[i]) # 0 /\ Joins(FileBlocks[i]) /\ BucketAt(i) \in Nat
    BY <1>3, <1>5, <2>3
  <2> QED
    BY <1>2, <2>2, <2>5, <2>6, <2>7, <2>8, <2>9, <2>10, Zenon DEF BucketLaid
<1> QED
  BY <1>2, <1>11, <1>12

\* How many events there are in the buckets, and which place each has.
EventOrder(b) ==
  /\ b[0] = 0 /\ \A i \in 0 .. Len(FileBlocks) : b[i] \in Nat
  /\ \A i \in 1 .. Len(FileBlocks) : b[i] = b[i - 1] + Len(FileBlocks[i])
  /\ Len(Blocks(1)) = b[Len(FileBlocks)]
  /\ \A i \in 1 .. Len(FileBlocks) : \A j \in 1 .. Len(FileBlocks[i]) :
       Blocks(1)[b[i - 1] + j] =
         <<1, BucketAt(i) + 4 + Before(FileBlocks[i], j) + 1, Len(FileBlocks[i][j])>>

LEMMA EventsPlaced ==
  ASSUME GivenFile, list[1].format = "cvi"
  PROVE  Blocks(1) \in Seq(Nat \X Nat \X Nat) /\ \E b : EventOrder(b)
<1>1. PICK n \in Nat : n = Len(FileBlocks) /\ DOMAIN FileBlocks = 1 .. n
  <2>1. FileBlocks \in Seq(Seq(Event) \ {<<>>})
    BY GivenFacts
  <2> QED
    BY <2>1
<1>2. \A i \in 1 .. n : BucketLaid(i)
  BY <1>1, BucketsLaid
<1>3. PICK parts : parts = [i \in 1 .. n |-> EventPlaces(1, i)]
  OBVIOUS
<1>4. ASSUME NEW i \in 1 .. n
      PROVE  /\ Len(FileBlocks[i]) \in Nat /\ parts[i] \in Seq(Nat \X Nat \X Nat)
             /\ Len(parts[i]) = Len(FileBlocks[i])
             /\ \A j \in 1 .. Len(FileBlocks[i]) : parts[i][j] =
                  <<1, BucketAt(i) + 4 + Before(FileBlocks[i], j) + 1, Len(FileBlocks[i][j])>>
  <2>1. FileBlocks[i] \in Seq(Event) /\ Joins(FileBlocks[i]) /\ BucketAt(i) \in Nat
    BY <1>2 DEF BucketLaid
  <2>2. PICK m \in Nat, a \in Nat : m = Len(FileBlocks[i]) /\ DOMAIN FileBlocks[i] = 1 .. m /\ a = BucketAt(i)
    BY <2>1
  <2>3. parts[i] = [j \in 1 .. m |-> <<1, a + 4 + Before(FileBlocks[i], j) + 1, Len(FileBlocks[i][j])>>]
    <3>1. parts[i] = EventPlaces(1, i)
      BY <1>3
    <3> QED
      BY <2>2, <3>1 DEF EventPlaces, BucketAt, FileBlocks
  <2>4. ASSUME NEW j \in 1 .. m
        PROVE  <<1, a + 4 + Before(FileBlocks[i], j) + 1, Len(FileBlocks[i][j])>> \in Nat \X Nat \X Nat
    <3>1. Before(FileBlocks[i], j) \in Nat /\ Len(FileBlocks[i][j]) \in Nat
      BY <2>1, <2>2 DEF Joins
    <3> QED
      BY <3>1
  <2>5. PICK T, g : T = Nat \X Nat \X Nat /\ g = parts[i]
    OBVIOUS
  <2>6. /\ DOMAIN g = 1 .. m /\ g = [j \in 1 .. m |-> g[j]] /\ \A j \in 1 .. m : g[j] \in T
        /\ \A j \in 1 .. m : g[j] = <<1, a + 4 + Before(FileBlocks[i], j) + 1, Len(FileBlocks[i][j])>>
    BY <2>3, <2>4, <2>5
  <2>7. g \in Seq(T) /\ Len(g) = m
    BY <2>6
  <2> QED
    BY <2>2, <2>5, <2>6, <2>7
<1>5. parts \in Seq(Seq(Nat \X Nat \X Nat)) /\ Len(parts) = n
  BY <1>3, <1>4
<1>6. Blocks(1) = FlattenSeq(parts)
  <2>1. list[1].format # "igor"
    OBVIOUS
  <2> QED
    BY <1>1, <1>3, <2>1 DEF Blocks, FileBlocks
<1>7. PICK b : Ends(parts, b) /\ Len(FlattenSeq(parts)) = b[n] /\ Holds(FlattenSeq(parts), parts, b)
  BY <1>5, Flattened
<1>8. /\ b[0] = 0 /\ \A i \in 0 .. n : b[i] \in Nat
      /\ \A i \in 1 .. n : b[i] = b[i - 1] + Len(FileBlocks[i])
  BY <1>4, <1>5, <1>7 DEF Ends
<1>9. ASSUME NEW i \in 1 .. n, NEW j \in 1 .. Len(FileBlocks[i])
      PROVE  FlattenSeq(parts)[b[i - 1] + j] =
               <<1, BucketAt(i) + 4 + Before(FileBlocks[i], j) + 1, Len(FileBlocks[i][j])>>
  <2>1. i \in 1 .. Len(parts) /\ j \in 1 .. Len(parts[i])
    BY <1>4, <1>5
  <2>2. FlattenSeq(parts)[b[i - 1] + j] = parts[i][j]
    BY <1>7, <2>1 DEF Holds
  <2> QED
    BY <1>4, <2>2
<1>10. EventOrder(b)
  BY <1>1, <1>6, <1>7, <1>8, <1>9 DEF EventOrder
<1>11. Blocks(1) \in Seq(Nat \X Nat \X Nat)
  BY <1>5, <1>6, Flattened
<1> QED
  BY <1>10, <1>11

\* Every place is an event's.
LEMMA EventOfPlace ==
  ASSUME GivenFile, list[1].format = "cvi", NEW b, EventOrder(b), NEW k \in 1 .. Len(Blocks(1))
  PROVE  \E i \in 1 .. Len(FileBlocks) : \E j \in 1 .. Len(FileBlocks[i]) : k = b[i - 1] + j
<1>1. PICK n \in Nat : n = Len(FileBlocks)
  BY BucketsLaid
<1>2. /\ b[0] = 0 /\ \A i \in 0 .. n : b[i] \in Nat
      /\ \A i \in 1 .. n : b[i] = b[i - 1] + Len(FileBlocks[i])
      /\ Len(Blocks(1)) = b[n]
  BY <1>1 DEF EventOrder
<1>3. \A i \in 1 .. n : Len(FileBlocks[i]) \in Nat
  BY <1>1, BucketsLaid DEF BucketLaid
<1>4. \A i \in 1 .. n : b[i - 1] <= b[i]
  <2> SUFFICES ASSUME NEW i \in 1 .. n PROVE b[i - 1] <= b[i]
    OBVIOUS
  <2>1. i - 1 \in 0 .. n
    OBVIOUS
  <2>2. b[i - 1] \in Nat /\ b[i] = b[i - 1] + Len(FileBlocks[i]) /\ Len(FileBlocks[i]) \in Nat
    BY <1>2, <1>3, <2>1
  <2> QED
    BY <2>2
<1>5. k \in Nat /\ b[0] < k /\ k <= b[n] /\ \A i \in 0 .. n : b[i] \in Nat
  <2>1. n \in 0 .. n
    OBVIOUS
  <2>2. PICK x \in Nat : x = b[n] /\ x = Len(Blocks(1))
    BY <1>2, <2>1
  <2>3. k \in 1 .. x
    BY <2>2
  <2>4. k \in Nat /\ 0 < k /\ k <= x
    BY <2>3
  <2> QED
    BY <1>2, <2>2, <2>4
<1>6. PICK i \in 1 .. n : b[i - 1] < k /\ k <= b[i]
  BY <1>4, <1>5, Between
<1>7. b[i] = b[i - 1] + Len(FileBlocks[i]) /\ b[i - 1] \in Nat
  <2>1. i - 1 \in 0 .. n
    OBVIOUS
  <2> QED
    BY <1>2, <2>1
<1>8. PICK j \in Int : j = k - b[i - 1]
  BY <1>5, <1>7
<1>9. j \in 1 .. Len(FileBlocks[i]) /\ k = b[i - 1] + j
  <2>1. PICK from \in Nat, m \in Nat : from = b[i - 1] /\ m = Len(FileBlocks[i])
    BY <1>3, <1>7
  <2>2. from < k /\ k <= from + m /\ j = k - from /\ k \in Nat
    BY <1>5, <1>6, <1>7, <1>8, <2>1
  <2>3. j \in 1 .. m /\ k = from + j
    BY <2>2
  <2> QED
    BY <2>1, <2>3
<1> QED
  BY <1>1, <1>9

\* An event in its bucket, whose words begin at a.
EventIn(i, j, a, o, e) ==
  /\ a \in Nat /\ a = BucketAt(i) + 4 /\ o \in Nat /\ o = Before(FileBlocks[i], j)
  /\ e \in Event /\ e = FileBlocks[i][j] /\ BucketSize(i) \in Nat /\ o + Len(e) <= BucketSize(i)
  /\ \A x \in 1 .. Len(e) : a + o + x <= Len(input) => input[a + o + x] = e[x]

LEMMA EventIsIn ==
  ASSUME GivenFile, list[1].format = "cvi",
         NEW i \in 1 .. Len(FileBlocks), NEW j \in 1 .. Len(FileBlocks[i])
  PROVE  \E a, o, e : EventIn(i, j, a, o, e)
<1>1. BucketLaid(i)
  BY BucketsLaid
<1>2. FileBlocks[i] \in Seq(Event) /\ Joins(FileBlocks[i]) /\ BucketAt(i) \in Nat
  BY <1>1 DEF BucketLaid
<1>3. PICK d : d = FlattenSeq(FileBlocks[i]) /\ Len(d) \in Nat
  BY <1>2 DEF Joins
<1>4. PICK a, o, e : a = BucketAt(i) + 4 /\ o = Before(FileBlocks[i], j) /\ e = FileBlocks[i][j]
  OBVIOUS
<1>5. /\ o \in Nat /\ Len(e) \in Nat /\ o + Len(e) <= Len(d)
      /\ \A x \in 1 .. Len(e) : d[o + x] = e[x]
  BY <1>2, <1>3, <1>4 DEF Joins
<1>6. e \in Event /\ a \in Nat /\ BucketSize(i) = Len(d)
  BY <1>2, <1>3, <1>4 DEF BucketSize
<1>7. ASSUME NEW x \in 1 .. Len(e), a + o + x <= Len(input) PROVE input[a + o + x] = e[x]
  <2>1. o + x \in 1 .. BucketSize(i) /\ BucketAt(i) + 4 + (o + x) = a + o + x
    <3>1. PICK m \in Nat, p \in Nat, q \in Nat : m = Len(e) /\ p = BucketAt(i) /\ q = BucketSize(i)
      BY <1>2, <1>3, <1>5, <1>6
    <3>2. a = p + 4 /\ o + m <= q /\ x \in 1 .. m
      BY <1>3, <1>4, <1>5, <1>6, <3>1
    <3> QED
      BY <1>5, <3>1, <3>2
  <2>2. input[BucketAt(i) + 4 + (o + x)] = d[o + x]
    BY <1>1, <1>3, <1>7, <2>1 DEF BucketLaid
  <2> QED
    BY <1>5, <2>1, <2>2
<1>8. EventIn(i, j, a, o, e)
  BY <1>3, <1>4, <1>5, <1>6, <1>7 DEF EventIn
<1> QED
  BY <1>8

\* No other bucket begins, and the file does not end, where an event's words are.
LEMMA NoDelimiters ==
  ASSUME GivenFile, list[1].format = "cvi", NEW i \in 1 .. Len(FileBlocks),
         NEW x \in 1 .. BucketSize(i), BucketAt(i) + 4 + x <= Len(input)
  PROVE  input[BucketAt(i) + 4 + x] \notin {kBucketHeader, kEOF}
<1>1. BucketLaid(i)
  BY BucketsLaid
<1>2. PICK j \in 1 .. Len(FileBlocks[i]) : \E y \in 1 .. Len(FileBlocks[i][j]) : x = Before(FileBlocks[i], j) + y
  BY <1>1 DEF BucketLaid, Joins, BucketSize
<1>3. PICK y \in 1 .. Len(FileBlocks[i][j]) : x = Before(FileBlocks[i], j) + y
  BY <1>2
<1>4. PICK a, o, e : EventIn(i, j, a, o, e)
  BY EventIsIn
<1>5. y \in 1 .. Len(e) /\ e \in Event /\ a + o + y = BucketAt(i) + 4 + x
  <2>1. a \in Nat /\ a = BucketAt(i) + 4 /\ o \in Nat /\ o = Before(FileBlocks[i], j) /\ e = FileBlocks[i][j] /\ e \in Event
    BY <1>4 DEF EventIn
  <2>2. y \in Int /\ BucketAt(i) \in Nat
    BY <1>1, <2>1, EventFacts DEF BucketLaid
  <2>3. x = o + y /\ y \in 1 .. Len(e)
    BY <1>3, <2>1
  <2>4. a + o + y = BucketAt(i) + 4 + x
    BY <2>1, <2>2, <2>3
  <2> QED
    BY <2>1, <2>3, <2>4
<1>6. input[BucketAt(i) + 4 + x] = e[y]
  BY <1>4, <1>5 DEF EventIn
<1> QED
  BY <1>5, <1>6, EventFacts

LEMMA LengthExpected ==
  ASSUME GivenFile
  PROVE  /\ Len(Expected) \in Nat /\ Len(Expected) <= Len(Blocks(1)) /\ Len(Blocks(1)) \in Nat
         /\ \A k \in 1 .. Len(Expected) : Expected[k] = Blocks(1)[k] /\ WellFormed(1, Blocks(1)[k])
<1>1. PICK T : T = Nat \X Nat \X Nat
  OBVIOUS
<1>2. Blocks(1) \in Seq(T)
  BY <1>1, GivenFacts, BuffersPlaced, EventsPlaced
<1>3. Len(Blocks(1)) \in Nat
  BY <1>2
<1> QED
  BY <1>2, <1>3, ExpectedFirst

(***************************************************************************)
(* The reader has not begun, or is at the next record that is expected, or *)
(* has stopped before it for good.  In a CVI file, the bucket of its event *)
(* is to be read, or was.                                                  *)
(***************************************************************************)
NotBegun ==
  /\ delivered = <<>> /\ ~ known /\ ~ headerIn /\ position = 0 /\ bucket = <<>> /\ bucketPosition = 0
  /\ IF stage = "open" THEN opened = 0 ELSE stage = "run" /\ opened = 1
BucketEnd(i)   == End(BucketAt(i) + 4 + BucketSize(i))
BucketPlaces(i) == [x \in 1 .. BucketSize(i) |->
                      IF BucketAt(i) + 4 + x <= Len(input) THEN BucketAt(i) + 4 + x ELSE 0]
InBucket(i, j) ==
  \/ j = 1 /\ bucketPosition = Len(bucket) /\ position = BucketAt(i)
  \/ /\ bucket = BucketPlaces(i) /\ bucketPosition = Before(FileBlocks[i], j) /\ position = BucketEnd(i)
AtEvent(k, b, i, j) ==
  /\ EventOrder(b) /\ i \in 1 .. Len(FileBlocks) /\ j \in 1 .. Len(FileBlocks[i]) /\ k = b[i - 1] + j
  /\ InBucket(i, j)
AtNext(k) ==
  /\ stage = "run" /\ opened = 1 /\ known /\ headerIn
  /\ IF list[1].format = "igor" THEN position = Before(FileBlocks, k) ELSE \E b, i, j : AtEvent(k, b, i, j)
Stopped(k) ==
  /\ known /\ stage \in {"run", "between", "done"} /\ (stage = "run" => ~ headerIn)
  /\ StopsAt(Expected[k])
ForeignInv ==
  /\ GivenFile /\ \E S : delivered \in Seq(S)
  /\ \A i \in 1 .. Len(delivered) : i <= Len(Expected) => delivered[i] = Expected[i]
  /\ Len(delivered) < Len(Expected) =>
       NotBegun \/ AtNext(Len(delivered) + 1) \/ Stopped(Len(delivered) + 1)

\* What the file is, and what is expected of it, stay.
LEMMA FileStays ==
  ASSUME UNCHANGED <<list, input>>
  PROVE  /\ Expected' = Expected /\ FileBlocks' = FileBlocks /\ (GivenFile => GivenFile')
         /\ \A p : StopsAt(p)' <=> StopsAt(p)
         /\ \A b : EventOrder(b)' <=> EventOrder(b)
         /\ \A i : BucketAt(i)' = BucketAt(i) /\ BucketEnd(i)' = BucketEnd(i) /\ BucketPlaces(i)' = BucketPlaces(i)
<1>1. Blocks(1)' = Blocks(1)
  BY DEF Blocks, BlockPlaces, EventPlaces
<1>2. \A p : WellFormed(1, p)' <=> WellFormed(1, p)
  BY DEF WellFormed
<1>3. Expected' = Expected
  BY <1>1, <1>2 DEF Expected
<1>4. FileBlocks' = FileBlocks /\ (GivenFile => GivenFile')
  BY DEF FileBlocks, GivenFile, Words
<1>5. \A p : StopsAt(p)' <=> StopsAt(p)
  BY DEF StopsAt, ZeroOrEnd
<1>6. \A i : BucketAt(i)' = BucketAt(i) /\ BucketSize(i)' = BucketSize(i)
  BY <1>4 DEF BucketAt, BucketSize
<1>7. \A i : BucketEnd(i)' = BucketEnd(i) /\ BucketPlaces(i)' = BucketPlaces(i)
  BY <1>6 DEF BucketEnd, BucketPlaces, End
<1>8. \A b : EventOrder(b)' <=> EventOrder(b)
  BY <1>1, <1>4, <1>6, Zenon DEF EventOrder
<1> QED
  BY <1>3, <1>4, <1>5, <1>6, <1>7, <1>8

LEMMA EndIs ==
  ASSUME NEW p \in Int, Len(input) \in Nat
  PROVE  End(p) = IF p <= Len(input) THEN p ELSE Len(input)
<1>1. PICK T : T = {p, Len(input)} /\ End(p) = Min(T)
  BY DEF End
<1>2. CASE p <= Len(input)
  <2>1. p \in T /\ T \subseteq Int /\ \A y \in T : p <= y
    BY <1>1, <1>2
  <2>2. Min(T) = p
    BY <2>1, FirstIs, Zenon
  <2> QED
    BY <1>1, <1>2, <2>2
<1>3. CASE ~ (p <= Len(input))
  <2>1. Len(input) \in T /\ T \subseteq Int /\ \A y \in T : Len(input) <= y
    BY <1>1, <1>3
  <2>2. Min(T) = Len(input)
    BY <2>1, FirstIs, Zenon
  <2> QED
    BY <1>1, <1>3, <2>2
<1> QED
  BY <1>1, <1>2, <1>3

\* The records so far stay, and what comes is the next that is expected.
LEMMA RecordsKept ==
  ASSUME ForeignInv, UNCHANGED <<list, input>>, NEW r,
         delivered' = delivered \/ delivered' = Append(delivered, r),
         delivered' # delivered /\ Len(delivered) < Len(Expected) => r = Expected[Len(delivered) + 1]
  PROVE  /\ (GivenFile /\ \E S : delivered \in Seq(S))'
         /\ (\A i \in 1 .. Len(delivered) : i <= Len(Expected) => delivered[i] = Expected[i])'
         /\ Len(delivered) \in Nat /\ Len(delivered') \in {Len(delivered), Len(delivered) + 1}
         /\ delivered' = delivered \/ Len(delivered') = Len(delivered) + 1
<1>1. GivenFile' /\ Expected' = Expected
  BY FileStays DEF ForeignInv
<1>2. PICK S : delivered \in Seq(S)
  BY DEF ForeignInv
<1>3. PICK n \in Nat : n = Len(delivered) /\ \A i \in 1 .. n : i <= Len(Expected) => delivered[i] = Expected[i]
  BY <1>2 DEF ForeignInv
<1>4. CASE delivered' = delivered
  BY <1>1, <1>2, <1>3, <1>4
<1>5. CASE delivered' # delivered
  <2>1. PICK T : T = S \cup {r}
    OBVIOUS
  <2>2. delivered \in Seq(T) /\ r \in T /\ delivered' = Append(delivered, r)
    BY <1>2, <1>5, <2>1
  <2>3. PICK d : d = Append(delivered, r) /\ d = delivered'
    BY <2>2
  <2>4. /\ d \in Seq(T) /\ Len(d) = n + 1 /\ \A i \in 1 .. n : d[i] = delivered[i]
        /\ d[n + 1] = r
    BY <1>3, <2>2, <2>3, AppendProperties
  <2>5. ASSUME NEW i \in 1 .. n + 1, i <= Len(Expected) PROVE d[i] = Expected[i]
    <3>1. CASE i <= n
      BY <1>3, <2>4, <2>5, <3>1
    <3>2. CASE i = n + 1
      <4>1. n < Len(Expected)
        <5>1. Len(Expected) \in Int
          BY LengthExpected DEF ForeignInv
        <5> QED
          BY <2>5, <3>2, <5>1
      <4> QED
        BY <1>3, <1>5, <2>4, <3>2, <4>1
    <3> QED
      BY <3>1, <3>2
  <2> QED
    BY <1>1, <1>3, <2>3, <2>4, <2>5
<1> QED
  BY <1>4, <1>5

\* A step takes what is delivered on by a record, at most.
LEMMA DeliveredGrows ==
  ASSUME Next
  PROVE  /\ UNCHANGED <<list, input>>
         /\ \E r : delivered' = delivered \/ delivered' = Append(delivered, r)
<1>1. CASE Open
  BY <1>1 DEF Open
<1>2. CASE ReadHeader
  BY <1>2 DEF ReadHeader
<1>3. CASE ReadIgorRecord
  BY <1>3 DEF ReadIgorRecord, Return
<1>4. CASE ReadCviRecord
  BY <1>4 DEF ReadCviRecord, CviReads, Return
<1>5. CASE ProcessNextRun
  BY <1>5 DEF ProcessNextRun
<1> QED
  BY <1>1, <1>2, <1>3, <1>4, <1>5 DEF Next

\* A reader that has stopped delivers nothing more.
LEMMA StoppedStays ==
  ASSUME Next, NEW k, Stopped(k)
  PROVE  delivered' = delivered /\ Stopped(k)'
<1>1. UNCHANGED <<list, input>>
  BY DeliveredGrows
<1>2. /\ known /\ stage \in {"run", "between", "done"} /\ (stage = "run" => ~ headerIn)
      /\ StopsAt(Expected[k])'
  BY <1>1, FileStays DEF Stopped
<1>3. delivered' = delivered /\ known' /\ stage' \in {"run", "between", "done"} /\ (stage' = "run" => ~ headerIn')
  <2>1. CASE Open
    BY <1>2, <2>1 DEF Open
  <2>2. CASE ReadHeader
    BY <1>2, <2>2 DEF ReadHeader
  <2>3. CASE \E ok, r : Return(ok, r) /\ stage = "run"
    BY <1>2, <2>3 DEF Return
  <2>4. CASE ReadIgorRecord
    BY <2>3, <2>4 DEF ReadIgorRecord
  <2>5. CASE ReadCviRecord
    BY <2>3, <2>5 DEF ReadCviRecord, CviReads
  <2>6. CASE ProcessNextRun
    BY <1>2, <2>6 DEF ProcessNextRun
  <2> QED
    BY <2>1, <2>2, <2>4, <2>5, <2>6 DEF Next
<1> QED
  BY <1>2, <1>3 DEF Stopped

\* An Igor buffer: if the bytes the reader looks at are not zero, it is read whole.
LEMMA BufferRead ==
  ASSUME GivenFile, list[1].format = "igor", ReadIgorRecord, headerIn, opened = 1,
         NEW k \in 1 .. Len(Expected), position = Before(FileBlocks, k)
  PROVE  \/ delivered' = delivered /\ Stopped(k)'
         \/ /\ delivered' = Append(delivered, Expected[k])
            /\ stage' = "run" /\ opened' = 1 /\ known' /\ headerIn'
            /\ position' = position + Len(FileBlocks[k])
<1>1. PICK l \in Nat : l = Len(input)
  BY BuffersPlaced
<1>2. k \in 1 .. Len(Blocks(1)) /\ Expected[k] = Blocks(1)[k] /\ WellFormed(1, Blocks(1)[k])
  BY LengthExpected
<1>3. k \in 1 .. Len(FileBlocks) /\ Blocks(1)[k] = <<1, position + 1, Len(FileBlocks[k])>>
  BY <1>2, BuffersPlaced
<1>4. PICK p \in Nat, n \in Nat \ {0} : p = position /\ n = Len(FileBlocks[k])
  BY <1>3, BuffersPlaced DEF Joins
<1>5. Expected[k] = <<1, p + 1, n>> /\ p + 1 + n - 1 <= l /\ n = input[p + 1] /\ n # 1
  <2>1. Expected[k] = <<1, p + 1, n>> /\ WellFormed(1, <<1, p + 1, n>>)
    BY <1>2, <1>3, <1>4
  <2> QED
    BY <1>1, <2>1 DEF WellFormed
<1>6. input[position + 1] = n /\ End(position + 2) = p + 2 /\ p + n <= l /\ n >= 2
  <2>1. n >= 2 /\ p + n <= l /\ p + 1 <= l /\ p + 2 <= l
    <3>1. n # 1 /\ p + 1 + n - 1 <= l
      BY <1>5
    <3> QED
      BY <3>1
  <2>2. End(p + 2) = p + 2
    BY <1>1, <2>1, EndIs
  <2> QED
    BY <1>1, <1>4, <1>5, <2>1, <2>2
<1>7. UNCHANGED <<list, input, opened, headerIn, known>> /\ known
  BY DEF ReadIgorRecord, Return
<1>8. PICK start, all : start = p + 2 /\ all = p + n
  OBVIOUS
<1>9. /\ position' = IF OKToRead(start) THEN all ELSE start
      /\ Return(OKToRead(start) /\ OKToRead(all), Expected[k])
  <2>. DEFINE length == input[position + 1]
              from   == End(position + 2)
              to     == from + BufferRest(length)
              more   == position + 2 <= Len(input) /\ OKToRead(from)
              whole  == more /\ length >= 2 /\ to <= Len(input)
  <2>1. /\ position' = IF ~ more THEN from ELSE IF whole THEN to ELSE Len(input)
        /\ Return(whole /\ OKToRead(to), <<opened, position + 1, to - position>>)
    BY Zenon DEF ReadIgorRecord
  <2>2. from = start /\ to = all /\ length = n
    <3>1. length = n /\ from = p + 2
      BY <1>6
    <3>2. to = p + 2 + (n - 2)
      BY <3>1 DEF BufferRest
    <3>3. p + 2 + (n - 2) = p + n
      OBVIOUS
    <3> QED
      BY <1>8, <3>1, <3>2, <3>3
  <2>3. p + 2 <= l /\ all <= l /\ all - p = n
    BY <1>6, <1>8
  <2>4. (more <=> OKToRead(start)) /\ (whole <=> OKToRead(start))
    BY <1>1, <1>4, <1>6, <2>2, <2>3
  <2>5. <<opened, position + 1, to - position>> = Expected[k]
    BY <1>4, <1>5, <2>2, <2>3
  <2>. HIDE DEF whole, more, to, from, length
  <2>6. (whole /\ OKToRead(to)) = (OKToRead(start) /\ OKToRead(all))
    BY <2>2, <2>4
  <2>7. position' = IF OKToRead(start) THEN all ELSE start
    BY <2>1, <2>2, <2>4
  <2> QED
    BY <2>1, <2>5, <2>6, <2>7
<1>10. CASE OKToRead(start) /\ OKToRead(all)
  BY <1>4, <1>7, <1>8, <1>9, <1>10 DEF Return
<1>11. CASE ~ (OKToRead(start) /\ OKToRead(all))
  <2>1. delivered' = delivered /\ stage' = "between"
    BY <1>9, <1>11 DEF Return
  <2>2. ZeroOrEnd(p + 3) \/ ZeroOrEnd(p + 1 + n)
    <3>1. ~ OKToRead(start) => ZeroOrEnd(p + 3)
      BY <1>1, <1>8 DEF OKToRead, ZeroOrEnd
    <3>2. ~ OKToRead(all) => ZeroOrEnd(p + 1 + n)
      BY <1>1, <1>8 DEF OKToRead, ZeroOrEnd
    <3> QED
      BY <1>11, <3>1, <3>2
  <2>3. StopsAt(Expected[k])
    BY <1>5, <2>2 DEF StopsAt
  <2> QED
    BY <1>7, <2>1, <2>3, FileStays DEF Stopped
<1> QED
  BY <1>10, <1>11

\* An event in its bucket, as long as the file says and in it as a whole.
EventAt(i, j, a, o, e, l) ==
  /\ EventIn(i, j, a, o, e) /\ l \in Nat \ {0} /\ l = Len(e)
  /\ a + o + l <= Len(input) /\ l \in {list[1].size, list[1].size + 2}

\* The next event's place.
LEMMA EventExpected ==
  ASSUME GivenFile, list[1].format = "cvi", NEW k \in 1 .. Len(Expected), NEW b, EventOrder(b),
         NEW i \in 1 .. Len(FileBlocks), NEW j \in 1 .. Len(FileBlocks[i]), k = b[i - 1] + j
  PROVE  \E a, o, e, l : EventAt(i, j, a, o, e, l) /\ Expected[k] = <<1, a + o + 1, l>>
<1>1. PICK a, o, e : EventIn(i, j, a, o, e)
  BY EventIsIn
<1>2. PICK l \in Nat \ {0} : l = Len(e)
  BY <1>1, EventFacts DEF EventIn
<1>3. a \in Nat /\ o \in Nat /\ a = BucketAt(i) + 4 /\ o = Before(FileBlocks[i], j) /\ l = Len(FileBlocks[i][j])
  BY <1>1, <1>2 DEF EventIn
<1>4. Expected[k] = Blocks(1)[k] /\ WellFormed(1, Blocks(1)[k])
  BY LengthExpected
<1>5. Blocks(1)[k] = <<1, a + o + 1, l>>
  BY <1>3 DEF EventOrder
<1>6. a + o + 1 + l - 1 <= Len(input) /\ l \in {list[1].size, list[1].size + 2}
  BY <1>4, <1>5 DEF WellFormed
<1>7. a + o + l <= Len(input)
  <2>1. PICK m \in Int : m = Len(input)
    BY BucketsLaid
  <2>2. a \in Nat /\ o \in Nat /\ a + o + 1 + l - 1 <= m
    BY <1>3, <1>6, <2>1
  <2>3. a + o + l <= m
    BY <2>2
  <2> QED
    BY <2>1, <2>3
<1>8. EventAt(i, j, a, o, e, l)
  BY <1>1, <1>2, <1>6, <1>7 DEF EventAt
<1> QED
  BY <1>4, <1>5, <1>8

\* A bucket is read whole, up to the end of the file.
LEMMA BucketRead ==
  ASSUME GivenFile, list[1].format = "cvi", NEW i \in 1 .. Len(FileBlocks), BucketAt(i) + 5 <= Len(input),
         NEW uninitialized
  PROVE  ReadBucket(BucketAt(i), uninitialized) = [ok |-> TRUE, at |-> BucketEnd(i), words |-> BucketPlaces(i)]
<1>1. PICK l \in Nat, from \in Nat, s \in Nat :
         /\ l = Len(input) /\ from = BucketAt(i) /\ s = BucketSize(i) /\ from + 5 <= l
         /\ input[from + 1] = kBucketHeader /\ input[from + 4] = s
  <2>1. BucketLaid(i) /\ Len(input) \in Nat
    BY BucketsLaid
  <2>2. BucketAt(i) \in Nat /\ BucketSize(i) \in Nat
    BY <2>1 DEF BucketLaid, BucketSize, Joins
  <2>3. BucketAt(i) + 1 <= Len(input) /\ BucketAt(i) + 4 <= Len(input)
    BY <2>1, <2>2
  <2> QED
    BY <2>1, <2>2, <2>3 DEF BucketLaid
<1>2. OKToRead(from)
  <2>1. kBucketHeader % Byte # 0
    BY ForeignAssumption
  <2> QED
    BY <1>1, <2>1 DEF OKToRead
<1>3. Found(from) = from + 1
  <2>1. PICK T : T = Stops(from)
    OBVIOUS
  <2>2. T \subseteq Int /\ from + 1 \in T /\ \A y \in T : from + 1 <= y
    BY <1>1, <2>1 DEF Stops
  <2>3. PICK q \in T : q = from + 1
    BY <2>2
  <2>4. Min(T) = q
    BY <2>2, <2>3, FirstIs
  <2> QED
    BY <2>1, <2>3, <2>4 DEF Found
<1>4. from + 1 + 3 <= Len(input) /\ input[from + 1 + 3] = s
  <2>1. from + 1 + 3 = from + 4 /\ from + 4 <= Len(input)
    BY <1>1
  <2> QED
    BY <1>1, <2>1
<1>5. PICK q : q = Found(from)
  OBVIOUS
<1>6. q = from + 1 /\ input[q] = kBucketHeader /\ q + 3 <= Len(input) /\ input[q + 3] = s
  BY <1>1, <1>3, <1>4, <1>5
<1>7. ReadBucket(from, uninitialized) = [ok |-> TRUE, at |-> End(q + 3 + s),
                          words |-> [x \in 1 .. s |-> IF q + 3 + x <= Len(input) THEN q + 3 + x ELSE 0]]
  BY <1>2, <1>5, <1>6 DEF ReadBucket
<1>8. q + 3 + s = BucketAt(i) + 4 + BucketSize(i)
  BY <1>1, <1>6
<1>9. \A x \in 1 .. s : q + 3 + x = BucketAt(i) + 4 + x
  BY <1>1, <1>6
<1>10. BucketPlaces(i) = [x \in 1 .. s |-> IF q + 3 + x <= Len(input) THEN q + 3 + x ELSE 0]
  BY <1>1, <1>9 DEF BucketPlaces
<1> QED
  BY <1>1, <1>7, <1>8, <1>10 DEF BucketEnd

\* In its bucket, an event is found to be as long as it is.
EventSeen(i, a, o, l) ==
  /\ EventLength(BucketPlaces(i), o, list[1].size) = l
  /\ IsTrailer(BucketPlaces(i), o + l)
  /\ BucketPlaces(i)[o + 1] = a + o + 1 /\ Len(BucketPlaces(i)) = BucketSize(i)
  /\ o + list[1].size <= Len(BucketPlaces(i))

LEMMA EventFound ==
  ASSUME GivenFile, list[1].format = "cvi", NEW i, NEW j, NEW a, NEW o, NEW e, NEW l \in Nat \ {0},
         EventAt(i, j, a, o, e, l)
  PROVE  EventSeen(i, a, o, l)
<1>1. PICK m \in Nat, n \in Nat, s \in Nat : m = Len(input) /\ n = list[1].size /\ s = BucketSize(i)
  <2>1. Len(input) \in Nat
    BY BucketsLaid
  <2> QED
    BY <2>1, GivenFacts DEF EventAt, EventIn
<1>2. a \in Nat /\ o \in Nat /\ e \in Event /\ o + l <= s /\ a + o + l <= m /\ (l = n \/ l = n + 2)
      /\ l = Len(e)
  BY <1>1 DEF EventAt, EventIn
<1>3. PICK w : w = BucketPlaces(i) /\ Len(w) = s /\ \A x \in 1 .. l : w[o + x] = a + o + x
  <2>1. PICK w : w = [x \in 1 .. s |-> IF a + x <= m THEN a + x ELSE 0]
    OBVIOUS
  <2>2. w = BucketPlaces(i)
    BY <1>1, <2>1 DEF BucketPlaces, EventAt, EventIn
  <2>3. Len(w) = s
    BY <2>1
  <2>4. ASSUME NEW x \in 1 .. l PROVE w[o + x] = a + o + x
    <3>1. o + x \in 1 .. s /\ a + (o + x) <= m /\ a + (o + x) = a + o + x
      BY <1>2
    <3> QED
      BY <2>1, <3>1
  <2> QED
    BY <2>2, <2>3, <2>4
<1>4. ASSUME NEW x \in 1 .. l
      PROVE  IsTrailer(w, o + x) <=> x = l
  <2>1. o + x <= Len(w) /\ w[o + x] = a + o + x /\ w[o + x] # 0
    BY <1>2, <1>3
  <2>2. a + o + x <= Len(input)
    BY <1>1, <1>2
  <2>3. input[a + o + x] = e[x]
    BY <1>2, <2>2 DEF EventAt, EventIn
  <2>4. e[x] = kEventTrailer <=> x = l
    <3>1. e[l] = kEventTrailer /\ \A y \in 1 .. l - 1 : e[y] # kEventTrailer
      BY <1>2, EventFacts
    <3>2. x = l \/ x \in 1 .. l - 1
      OBVIOUS
    <3> QED
      BY <3>1, <3>2
  <2> QED
    BY <2>1, <2>3, <2>4 DEF IsTrailer
<1>5. IsTrailer(w, o + l) /\ w[o + 1] = a + o + 1 /\ o + n <= Len(w)
  <2>1. l \in 1 .. l /\ 1 \in 1 .. l
    OBVIOUS
  <2> QED
    BY <1>2, <1>3, <1>4, <2>1
<1>6. EventLength(w, o, n) = l
  <2>1. CASE l = n
    BY <1>5, <2>1 DEF EventLength
  <2>2. CASE l = n + 2
    <3>1. ~ IsTrailer(w, o + n)
      <4>1. n # 0
        BY <1>1, GivenFacts
      <4>2. n \in 1 .. l /\ n # l
        BY <2>2, <4>1
      <4> QED
        BY <1>4, <4>2
    <3> QED
      BY <2>2, <3>1 DEF EventLength
  <2> QED
    BY <1>2, <2>1, <2>2
<1> QED
  BY <1>1, <1>3, <1>5, <1>6 DEF EventSeen

\* The event the reader is at is returned, if more of the file can be read.
LEMMA EventTaken ==
  ASSUME GivenFile, list[1].format = "cvi", ReadCviRecord, opened = 1,
         NEW k, NEW b, NEW i, NEW j, AtEvent(k, b, i, j),
         NEW a \in Nat, NEW o \in Nat, NEW e, NEW l \in Nat \ {0}, EventAt(i, j, a, o, e, l)
  PROVE  /\ bucketPosition' = o + l /\ position' = BucketEnd(i) /\ bucket' = BucketPlaces(i)
         /\ Return(OKToRead(BucketEnd(i)), <<1, a + o + 1, l>>)
<1>0. PICK uninitialized \in Uninitialized : CviReads(uninitialized)
  BY Zenon DEF ReadCviRecord
<1>. DEFINE read  == IF bucketPosition = Len(bucket) THEN ReadBucket(position, uninitialized)
                     ELSE [ok |-> TRUE, at |-> position, words |-> bucket]
            p     == IF bucketPosition = Len(bucket) THEN 0 ELSE bucketPosition
            w     == read.words
            n     == EventLength(w, p, list[opened].size)
            start == IF IsTrailer(w, p + n) THEN p ELSE Min(Trailers(w, p)) - 1
<1>1. /\ position' = read.at /\ bucket' = w
      /\ IF ~ read.ok \/ p + list[opened].size > Len(w)
         THEN bucketPosition' = (IF read.ok THEN p ELSE bucketPosition) /\ Return(FALSE, <<>>)
         ELSE IF ~ IsTrailer(w, p + n) /\ Trailers(w, p) = {}
         THEN bucketPosition' = Len(w) /\ Return(FALSE, <<>>)
         ELSE /\ bucketPosition' = start + n
              /\ Return(OKToRead(read.at), <<opened, w[start + 1], n>>)
  BY <1>0, Zenon DEF CviReads
<1>2. PICK c \in Nat, s \in Nat, m \in Nat, z \in Nat :
        c = BucketAt(i) /\ s = BucketSize(i) /\ m = Len(input) /\ z = list[1].size
  <2>1. BucketAt(i) \in Nat /\ Len(input) \in Nat
    <3>1. i \in 1 .. Len(FileBlocks)
      BY DEF AtEvent
    <3>2. BucketLaid(i) /\ input \in Seq(Int)
      BY <3>1, BucketsLaid, Zenon
    <3> QED
      BY <3>2 DEF BucketLaid
  <2> QED
    BY <2>1, GivenFacts DEF EventAt, EventIn
<1>11. a = c + 4 /\ o + l <= s /\ a + o + l <= m
  BY <1>2 DEF EventAt, EventIn
<1>3. i \in 1 .. Len(FileBlocks) /\ j \in 1 .. Len(FileBlocks[i]) /\ InBucket(i, j)
  BY DEF AtEvent
<1>4. /\ EventLength(BucketPlaces(i), o, z) = l /\ IsTrailer(BucketPlaces(i), o + l)
      /\ BucketPlaces(i)[o + 1] = a + o + 1 /\ Len(BucketPlaces(i)) = s /\ o + z <= s
  <2>1. EventSeen(i, a, o, l)
    BY EventFound, Zenon
  <2> QED
    BY <1>2, <2>1 DEF EventSeen
<1>5. read = [ok |-> TRUE, at |-> BucketEnd(i), words |-> BucketPlaces(i)] /\ p = o
  <2>1. CASE j = 1 /\ bucketPosition = Len(bucket) /\ position = BucketAt(i)
    <3>1. BucketAt(i) + 5 <= Len(input)
      <4>1. c + 5 <= m
        BY <1>11
      <4> QED
        BY <1>2, <4>1
    <3>2. ReadBucket(position, uninitialized) = [ok |-> TRUE, at |-> BucketEnd(i), words |-> BucketPlaces(i)]
      BY <1>3, <2>1, <3>1, BucketRead
    <3>3. o = 0
      <4>1. Joins(FileBlocks[i]) /\ 1 \in 1 .. Len(FileBlocks[i])
        BY <1>3, <2>1, BucketsLaid DEF BucketLaid
      <4> QED
        BY <2>1, <4>1 DEF Joins, EventAt, EventIn
    <3> QED
      BY <2>1, <3>2, <3>3
  <2>2. CASE bucket = BucketPlaces(i) /\ bucketPosition = o /\ position = BucketEnd(i)
    <3>1. bucketPosition # Len(bucket)
      <4>1. o # s
        BY <1>11
      <4> QED
        BY <1>4, <2>2, <4>1
    <3> QED
      BY <2>2, <3>1
  <2> QED
    BY <1>3, <2>1, <2>2 DEF InBucket, EventAt, EventIn
<1>6. read.ok /\ read.at = BucketEnd(i) /\ w = BucketPlaces(i) /\ list[opened].size = z
  BY <1>2, <1>5
<1>7. n = l
  BY <1>4, <1>5, <1>6
<1>8. IsTrailer(w, p + n) /\ w[p + 1] = a + o + 1 /\ Len(w) = s /\ start = p
  <2>1. IsTrailer(w, p + n)
    BY <1>4, <1>5, <1>6, <1>7
  <2> QED
    BY <1>4, <1>5, <1>6, <2>1
<1>. HIDE DEF read, p, w, n, start
<1>9. ~ (~ read.ok \/ p + list[opened].size > Len(w)) /\ ~ (~ IsTrailer(w, p + n) /\ Trailers(w, p) = {})
  <2>1. p + list[opened].size = o + z /\ Len(w) = s /\ o + z <= s
    BY <1>4, <1>5, <1>6, <1>8
  <2>2. ~ (o + z > s)
    <3>1. \A x, y \in Nat : x <= y => ~ (x > y)
      OBVIOUS
    <3>2. o + z \in Nat /\ s \in Nat
      OBVIOUS
    <3> QED
      BY <2>1, <3>1, <3>2
  <2> QED
    BY <1>6, <1>8, <2>1, <2>2
<1>10. bucketPosition' = start + n /\ Return(OKToRead(read.at), <<opened, w[start + 1], n>>)
  BY <1>1, <1>9
<1> QED
  BY <1>1, <1>5, <1>6, <1>7, <1>8, <1>10

\* After an event comes the next of its bucket, or the first of the next one.
LEMMA EventFollows ==
  ASSUME GivenFile, list[1].format = "cvi", NEW k \in 1 .. Len(Expected), k + 1 \in 1 .. Len(Expected),
         NEW b, EventOrder(b), NEW i \in 1 .. Len(FileBlocks), NEW j \in 1 .. Len(FileBlocks[i]), k = b[i - 1] + j
  PROVE  \/ /\ j + 1 \in 1 .. Len(FileBlocks[i]) /\ k + 1 = b[i - 1] + (j + 1)
            /\ Before(FileBlocks[i], j + 1) = Before(FileBlocks[i], j) + Len(FileBlocks[i][j])
         \/ /\ i + 1 \in 1 .. Len(FileBlocks) /\ 1 \in 1 .. Len(FileBlocks[i + 1])
            /\ k + 1 = b[i + 1 - 1] + 1 /\ BucketEnd(i) = BucketAt(i + 1)
            /\ Before(FileBlocks[i], j) + Len(FileBlocks[i][j]) = BucketSize(i)
<1>1. PICK n \in Nat : n = Len(FileBlocks)
  BY BucketsLaid
<1>2. BucketLaid(i) /\ Joins(FileBlocks[i])
  BY BucketsLaid DEF BucketLaid
<1>3. PICK m \in Nat : m = Len(FileBlocks[i])
  BY <1>2 DEF Joins
<1>4. /\ b[i - 1] \in Nat /\ b[i] = b[i - 1] + m /\ Len(Blocks(1)) = b[n] /\ b[i] \in Nat
  <2>1. i - 1 \in 0 .. n /\ i \in 0 .. n
    BY <1>1
  <2> QED
    BY <1>1, <1>3, <2>1 DEF EventOrder
<1>5. k + 1 <= Len(Blocks(1)) /\ Len(Blocks(1)) \in Nat
  BY LengthExpected
<1>6. CASE j < m
  <2>1. j + 1 \in 1 .. m /\ k + 1 = b[i - 1] + (j + 1) /\ j + 1 # 1 /\ j + 1 - 1 = j
    <3>1. PICK x \in Nat : x = b[i - 1]
      BY <1>4
    <3>2. j \in 1 .. m /\ k = x + j
      BY <1>3, <3>1
    <3>3. j + 1 \in 1 .. m /\ x + j + 1 = x + (j + 1) /\ j + 1 # 1 /\ j + 1 - 1 = j
      BY <1>6, <3>2
    <3> QED
      BY <3>1, <3>2, <3>3
  <2>2. Before(FileBlocks[i], j + 1) = Before(FileBlocks[i], j) + Len(FileBlocks[i][j])
    <3>1. PICK y \in 1 .. m : y = j + 1 /\ y # 1 /\ y - 1 = j
      BY <2>1
    <3>2. Before(FileBlocks[i], y) = Before(FileBlocks[i], y - 1) + Len(FileBlocks[i][y - 1])
      BY <1>2, <1>3, <3>1 DEF Joins
    <3> QED
      BY <3>1, <3>2
  <2> QED
    BY <1>3, <2>1, <2>2
<1>7. CASE j = m
  <2>1. k = b[i]
    BY <1>4, <1>7
  <2>2. i # n
    <3>1. PICK x \in Nat : x = b[i] /\ k = x
      BY <1>4, <2>1
    <3>2. PICK y \in Nat : y = b[n] /\ k + 1 <= y
      BY <1>4, <1>5
    <3>3. x # y
      BY <3>1, <3>2
    <3> QED
      BY <3>1, <3>2, <3>3
  <2>3. i + 1 \in 1 .. n /\ i + 1 # 1 /\ i + 1 - 1 = i
    BY <1>1, <2>2
  <2>4. BucketLaid(i + 1)
    BY <1>1, <2>3, BucketsLaid
  <2>5. 1 \in 1 .. Len(FileBlocks[i + 1])
    BY <2>4 DEF BucketLaid
  <2>6. k + 1 = b[i + 1 - 1] + 1
    BY <2>1, <2>3
  <2>7. Before(FileBlocks[i], j) + Len(FileBlocks[i][j]) = BucketSize(i)
    BY <1>2, <1>3, <1>7 DEF Joins, BucketSize
  <2>8. BucketAt(i + 1) = BucketAt(i) + 4 + BucketSize(i) /\ BucketAt(i + 1) \in Nat
    BY <2>3, <2>4 DEF BucketLaid
  <2>9. BucketAt(i + 1) <= Len(input) /\ Len(input) \in Nat
    <3>1. PICK c \in 1 .. Len(Expected), y \in 1 .. Len(FileBlocks) : c = k + 1 /\ y = i + 1
      BY <1>1, <2>3
    <3>2. 1 \in 1 .. Len(FileBlocks[y]) /\ c = b[y - 1] + 1
      BY <2>5, <2>6, <3>1
    <3>3. PICK a, o, e, l : EventAt(y, 1, a, o, e, l)
      BY <3>1, <3>2, EventExpected
    <3>4. /\ a = BucketAt(i + 1) + 4 /\ o \in Nat /\ l \in Nat \ {0} /\ a + o + l <= Len(input)
          /\ Len(input) \in Nat
      BY <3>1, <3>3, BucketsLaid DEF EventAt, EventIn
    <3> QED
      BY <2>8, <3>4
  <2>10. BucketEnd(i) = BucketAt(i + 1)
    <3>1. PICK p \in Int : p = BucketAt(i + 1)
      BY <2>8
    <3>2. End(p) = p
      BY <2>9, <3>1, EndIs
    <3> QED
      BY <2>8, <3>1, <3>2 DEF BucketEnd
  <2> QED
    BY <1>1, <2>3, <2>5, <2>6, <2>7, <2>10
<1> QED
  BY <1>3, <1>6, <1>7

\* If nothing more can be read, no bucket header is left, and no end mark.
LEMMA BucketsOver ==
  ASSUME GivenFile, list[1].format = "cvi", NEW i \in 1 .. Len(FileBlocks), NEW j,
         NEW a \in Nat, NEW o \in Nat, NEW e, NEW l \in Nat \ {0}, EventAt(i, j, a, o, e, l),
         ~ OKToRead(BucketEnd(i))
  PROVE  StopsAt(<<1, a + o + 1, l>>)
<1>1. PICK c \in Nat, s \in Nat, m \in Nat, n \in Nat :
        c = BucketAt(i) /\ s = BucketSize(i) /\ m = Len(input) /\ n = Len(FileBlocks)
  <2>1. BucketAt(i) \in Nat /\ Len(input) \in Nat /\ Len(FileBlocks) \in Nat
    <3>1. BucketLaid(i) /\ input \in Seq(Int) /\ Len(FileBlocks) \in Nat
      BY BucketsLaid, Zenon
    <3> QED
      BY <3>1 DEF BucketLaid
  <2> QED
    BY <2>1 DEF EventAt, EventIn
<1>5. a = c + 4 /\ o + l <= s
  BY <1>1 DEF EventAt, EventIn
<1>2. BucketLaid(i)
  BY BucketsLaid
<1>3. m <= c + 4 + s
  <2> SUFFICES ASSUME c + 4 + s < m PROVE FALSE
    BY <1>1
  <2>1. BucketEnd(i) = c + 4 + s
    <3>1. PICK p \in Int : p = c + 4 + s
      OBVIOUS
    <3>2. End(p) = p
      BY <1>1, <3>1, EndIs
    <3> QED
      BY <1>1, <3>1, <3>2 DEF BucketEnd
  <2>2. input[c + 4 + s + 1] \in {kBucketHeader, kEOF}
    <3>1. CASE i = n
      BY <1>1, <1>2, <3>1 DEF BucketLaid
    <3>2. CASE i # n
      <4>1. PICK y \in 1 .. n : y = i + 1 /\ y # 1 /\ y - 1 = i
        <5>1. i \in 1 .. n
          BY <1>1
        <5>2. i \in Int /\ 1 <= i /\ i < n
          BY <3>2, <5>1
        <5>3. i + 1 \in 1 .. n /\ i + 1 # 1 /\ i + 1 - 1 = i
          BY <5>2
        <5> QED
          BY <5>3
      <4>2. BucketLaid(y)
        BY <1>1, <4>1, BucketsLaid
      <4>3. BucketAt(y) = c + 4 + s
        BY <1>1, <4>1, <4>2 DEF BucketLaid
      <4>4. c + 4 + s + 1 <= m
        OBVIOUS
      <4>5. input[BucketAt(y) + 1] = kBucketHeader
        BY <1>1, <4>2, <4>3, <4>4 DEF BucketLaid
      <4> QED
        BY <4>3, <4>5
    <3> QED
      BY <3>1, <3>2
  <2>3. OKToRead(c + 4 + s)
    BY <1>1, <2>2, ForeignAssumption DEF OKToRead
  <2> QED
    BY <2>1, <2>3
<1>4. ASSUME NEW q \in a + o + 1 + l .. Len(input) PROVE input[q] \notin {kBucketHeader, kEOF}
  <2>1. q \in Int /\ c + 4 + o + 1 + l <= q /\ q <= m
    BY <1>1, <1>5
  <2>2. PICK x \in 1 .. s : c + 4 + x = q
    <3>1. PICK x \in Int : x = q - (c + 4)
      BY <2>1
    <3>2. x <= s /\ 1 <= x /\ c + 4 + x = q
      BY <1>3, <1>5, <2>1, <3>1
    <3> QED
      BY <3>2
  <2> QED
    BY <1>1, <2>1, <2>2, NoDelimiters
<1>6. PICK place : place = <<1, a + o + 1, l>>
  OBVIOUS
<1>7. place[2] + place[3] = a + o + 1 + l /\ list[1].format # "igor"
  BY <1>6
<1> QED
  BY <1>4, <1>6, <1>7 DEF StopsAt

\* A CVI event: it is returned, or it is the last that can be.
LEMMA EventRead ==
  ASSUME GivenFile, list[1].format = "cvi", ReadCviRecord, headerIn, opened = 1,
         NEW k \in 1 .. Len(Expected), NEW b, NEW i, NEW j, AtEvent(k, b, i, j)
  PROVE  \/ delivered' = delivered /\ Stopped(k)'
         \/ delivered' = Append(delivered, Expected[k]) /\ (k + 1 \in 1 .. Len(Expected) => AtNext(k + 1)')
<1>1. EventOrder(b) /\ i \in 1 .. Len(FileBlocks) /\ j \in 1 .. Len(FileBlocks[i]) /\ k = b[i - 1] + j
  BY DEF AtEvent
<1>2. PICK a, o, e, l : EventAt(i, j, a, o, e, l) /\ Expected[k] = <<1, a + o + 1, l>>
  BY <1>1, EventExpected
<1>0. a \in Nat /\ o \in Nat /\ l \in Nat \ {0}
  BY <1>2 DEF EventAt, EventIn
<1>3. /\ bucketPosition' = o + l /\ position' = BucketEnd(i) /\ bucket' = BucketPlaces(i)
      /\ Return(OKToRead(BucketEnd(i)), Expected[k])
  <2>1. /\ bucketPosition' = o + l /\ position' = BucketEnd(i) /\ bucket' = BucketPlaces(i)
        /\ Return(OKToRead(BucketEnd(i)), <<1, a + o + 1, l>>)
    BY <1>2, <1>0, EventTaken, Zenon
  <2> QED
    BY <1>2, <2>1
<1>4. UNCHANGED <<list, input, opened, headerIn, known>> /\ known
  BY <1>3 DEF Return, ReadCviRecord, CviReads
<1>5. CASE OKToRead(BucketEnd(i))
  <2>1. delivered' = Append(delivered, Expected[k]) /\ stage' = "run"
    BY <1>3, <1>5 DEF Return
  <2>2. ASSUME k + 1 \in 1 .. Len(Expected) PROVE \E x, y : AtEvent(k + 1, b, x, y)'
    <3>1. EventOrder(b)' /\ FileBlocks' = FileBlocks /\ BucketPlaces(i)' = BucketPlaces(i) /\ BucketEnd(i)' = BucketEnd(i)
      BY <1>1, <1>4, FileStays
    <3>2. \A x : BucketAt(x)' = BucketAt(x)
      BY <1>4, FileStays
    <3>3. o = Before(FileBlocks[i], j) /\ l = Len(FileBlocks[i][j])
      BY <1>2 DEF EventAt, EventIn
    <3>4. CASE /\ j + 1 \in 1 .. Len(FileBlocks[i]) /\ k + 1 = b[i - 1] + (j + 1)
               /\ Before(FileBlocks[i], j + 1) = Before(FileBlocks[i], j) + Len(FileBlocks[i][j])
      <4>1. InBucket(i, j + 1)'
        BY <1>3, <3>1, <3>3, <3>4 DEF InBucket
      <4>2. AtEvent(k + 1, b, i, j + 1)'
        BY <1>1, <3>1, <3>4, <4>1 DEF AtEvent
      <4> QED
        BY <4>2
    <3>5. CASE /\ i + 1 \in 1 .. Len(FileBlocks) /\ 1 \in 1 .. Len(FileBlocks[i + 1])
               /\ k + 1 = b[i + 1 - 1] + 1 /\ BucketEnd(i) = BucketAt(i + 1)
               /\ Before(FileBlocks[i], j) + Len(FileBlocks[i][j]) = BucketSize(i)
      <4>1. bucketPosition' = Len(bucket')
        <5>1. Len(BucketPlaces(i)) = BucketSize(i)
          BY <1>0, <1>2, EventFound DEF EventSeen
        <5>2. o + l = BucketSize(i)
          BY <3>3, <3>5
        <5> QED
          BY <1>3, <5>1, <5>2
      <4>2. InBucket(i + 1, 1)'
        BY <1>3, <3>2, <3>5, <4>1 DEF InBucket
      <4>3. AtEvent(k + 1, b, i + 1, 1)'
        BY <3>1, <3>5, <4>2 DEF AtEvent
      <4> QED
        BY <4>3
    <3>6. \/ /\ j + 1 \in 1 .. Len(FileBlocks[i]) /\ k + 1 = b[i - 1] + (j + 1)
             /\ Before(FileBlocks[i], j + 1) = Before(FileBlocks[i], j) + Len(FileBlocks[i][j])
          \/ /\ i + 1 \in 1 .. Len(FileBlocks) /\ 1 \in 1 .. Len(FileBlocks[i + 1])
             /\ k + 1 = b[i + 1 - 1] + 1 /\ BucketEnd(i) = BucketAt(i + 1)
             /\ Before(FileBlocks[i], j) + Len(FileBlocks[i][j]) = BucketSize(i)
      BY <1>1, <2>2, EventFollows, Zenon
    <3> QED
      BY <3>4, <3>5, <3>6, Zenon
  <2>3. list[1].format # "igor"
    OBVIOUS
  <2> QED
    BY <1>4, <2>1, <2>2, <2>3 DEF AtNext
<1>6. CASE ~ OKToRead(BucketEnd(i))
  <2>1. delivered' = delivered /\ stage' = "between"
    BY <1>3, <1>6 DEF Return
  <2>2. StopsAt(Expected[k])
    BY <1>1, <1>2, <1>0, <1>6, BucketsOver
  <2> QED
    BY <1>4, <2>1, <2>2, FileStays DEF Stopped
<1> QED
  BY <1>5, <1>6

\* The file in hand is given from the start.
LEMMA ForeignStart == ASSUME Init PROVE ForeignInv
<1>1. GivenFile /\ delivered = <<>> /\ NotBegun
  BY DEF Init, GivenFile, NotBegun
<1>2. delivered \in Seq({}) /\ Len(delivered) = 0
  BY <1>1
<1> QED
  BY <1>1, <1>2 DEF ForeignInv

\* The header: the first record comes next, or the file cannot be read.
LEMMA HeaderRead ==
  ASSUME GivenFile, ReadHeader, NotBegun, 1 \in 1 .. Len(Expected)
  PROVE  delivered' = delivered /\ (AtNext(1)' \/ Stopped(1)')
<1>1. /\ UNCHANGED <<list, input, opened, delivered, bucket, bucketPosition>> /\ known' /\ opened = 1
      /\ position = 0 /\ bucket = <<>> /\ bucketPosition = 0
  BY DEF ReadHeader, NotBegun
<1>2. 1 \in 1 .. Len(Blocks(1))
  BY LengthExpected
<1>3. FileBlocks' = FileBlocks
  BY <1>1, FileStays
<1>4. CASE IgorHeader
  <2>1. list[1].format = "igor" /\ headerIn' /\ stage' = "run" /\ position' = 0
    BY <1>1, <1>4 DEF IgorHeader, Format
  <2>2. Before(FileBlocks, 1) = 0
    <3>1. Joins(FileBlocks) /\ 1 \in 1 .. Len(FileBlocks)
      BY <1>2, <2>1, BuffersPlaced
    <3> QED
      BY <3>1 DEF Joins
  <2> QED
    BY <1>1, <1>3, <2>1, <2>2 DEF AtNext
<1>5. CASE CviHeader /\ OKToRead(0)
  <2>1. list[1].format = "cvi" /\ list[1].format # "igor" /\ headerIn' /\ stage' = "run" /\ position' = 1
    BY <1>1, <1>5 DEF CviHeader, Format
  <2>2. PICK b : EventOrder(b)
    BY <2>1, EventsPlaced
  <2>3. 1 \in 1 .. Len(FileBlocks)
    <3>1. PICK i \in 1 .. Len(FileBlocks) : TRUE
      BY <1>2, <2>1, <2>2, EventOfPlace
    <3>2. Len(FileBlocks) \in Nat
      BY <2>1, BucketsLaid
    <3> QED
      BY <3>1, <3>2
  <2>4. BucketLaid(1)
    BY <2>1, <2>3, BucketsLaid
  <2>5. 1 \in 1 .. Len(FileBlocks[1]) /\ BucketAt(1) = 1
    BY <2>4 DEF BucketLaid
  <2>6. 1 = b[1 - 1] + 1
    BY <2>2 DEF EventOrder
  <2>7. EventOrder(b)' /\ BucketAt(1)' = BucketAt(1)
    BY <1>1, <2>2, FileStays
  <2>8. InBucket(1, 1)'
    BY <1>1, <2>1, <2>5, <2>7 DEF InBucket
  <2>9. AtEvent(1, b, 1, 1)'
    BY <1>3, <2>3, <2>5, <2>6, <2>7, <2>8 DEF AtEvent
  <2> QED
    BY <1>1, <2>1, <2>9 DEF AtNext
<1>6. CASE CviHeader /\ ~ OKToRead(0)
  <2>1. list[1].format = "cvi" /\ list[1].format # "igor" /\ stage' = "between"
    BY <1>1, <1>6 DEF CviHeader, Format
  <2>2. Len(input) \in Nat
    BY <2>1, BucketsLaid
  <2>3. ZeroOrEnd(1)
    BY <1>6, <2>2 DEF OKToRead, ZeroOrEnd
  <2>4. StopsAt(Expected[1])
    BY <2>1, <2>3 DEF StopsAt
  <2> QED
    BY <1>1, <2>1, <2>4, FileStays DEF Stopped
<1> QED
  BY <1>4, <1>5, <1>6 DEF ReadHeader, CviHeader, NotBegun

\* From one record to the next.
LEMMA NextRead ==
  ASSUME GivenFile, Next, NEW k \in 1 .. Len(Expected), AtNext(k)
  PROVE  \/ delivered' = delivered /\ Stopped(k)'
         \/ delivered' = Append(delivered, Expected[k]) /\ (k + 1 \in 1 .. Len(Expected) => AtNext(k + 1)')
<1>1. stage = "run" /\ opened = 1 /\ known /\ headerIn
  BY DEF AtNext
<1>2. UNCHANGED <<list, input>>
  BY DeliveredGrows
<1>3. CASE ReadIgorRecord
  <2>1. list[1].format = "igor" /\ position = Before(FileBlocks, k)
    BY <1>1, <1>3 DEF ReadIgorRecord, Format, AtNext
  <2>2. CASE /\ delivered' = Append(delivered, Expected[k])
             /\ stage' = "run" /\ opened' = 1 /\ known' /\ headerIn'
             /\ position' = position + Len(FileBlocks[k])
    <3>1. ASSUME k + 1 \in 1 .. Len(Expected) PROVE position' = Before(FileBlocks, k + 1)
      <4>1. Joins(FileBlocks) /\ k + 1 \in 1 .. Len(FileBlocks) /\ k + 1 # 1 /\ k + 1 - 1 = k
        <5>1. k + 1 \in 1 .. Len(Blocks(1))
          BY <3>1, LengthExpected
        <5>2. k \in Int /\ 1 <= k
          OBVIOUS
        <5>3. k + 1 # 1 /\ k + 1 - 1 = k
          BY <5>2
        <5>4. Joins(FileBlocks) /\ Len(Blocks(1)) = Len(FileBlocks)
          BY <2>1, BuffersPlaced
        <5> QED
          BY <5>1, <5>3, <5>4
      <4>2. PICK y \in 1 .. Len(FileBlocks) : y = k + 1 /\ y # 1 /\ y - 1 = k
        BY <4>1
      <4>3. Before(FileBlocks, y) = Before(FileBlocks, y - 1) + Len(FileBlocks[y - 1])
        BY <4>1, <4>2 DEF Joins
      <4> QED
        BY <2>1, <2>2, <4>2, <4>3
    <3>2. FileBlocks' = FileBlocks
      BY <1>2, FileStays
    <3> QED
      BY <1>2, <2>1, <2>2, <3>1, <3>2 DEF AtNext
  <2> QED
    BY <1>1, <1>3, <2>1, <2>2, BufferRead, Zenon
<1>4. CASE ReadCviRecord
  <2>1. list[1].format = "cvi"
    BY <1>1, <1>4 DEF ReadCviRecord, CviReads, Format
  <2>2. PICK b, i, j : AtEvent(k, b, i, j)
    BY <2>1 DEF AtNext
  <2> QED
    BY <1>1, <1>4, <2>1, <2>2, EventRead, Zenon
<1> QED
  BY <1>1, <1>3, <1>4 DEF Next, Open, ReadHeader, ProcessNextRun

LEMMA ForeignStep == ASSUME ForeignInv, Next PROVE ForeignInv'
<1>1. UNCHANGED <<list, input>> /\ GivenFile /\ Expected' = Expected
  BY DeliveredGrows, FileStays DEF ForeignInv
<1>2. PICK n \in Nat, m \in Nat : n = Len(delivered) /\ m = Len(Expected)
  <2>1. \E S : delivered \in Seq(S)
    BY DEF ForeignInv
  <2> QED
    BY <1>1, <2>1, LengthExpected
<1>3. CASE n < m
  <2>1. PICK k \in 1 .. Len(Expected) : k = n + 1
    BY <1>2, <1>3
  <2>2. \/ delivered' = delivered /\ (NotBegun' \/ AtNext(k)' \/ Stopped(k)')
        \/ delivered' = Append(delivered, Expected[k]) /\ (k + 1 \in 1 .. Len(Expected) => AtNext(k + 1)')
    <3>1. CASE NotBegun
      <4>1. k = 1
        BY <1>2, <2>1, <3>1 DEF NotBegun
      <4>2. CASE Open
        BY <3>1, <4>2 DEF Open, NotBegun
      <4>3. CASE ReadHeader
        BY <1>1, <2>1, <3>1, <4>1, <4>3, HeaderRead
      <4> QED
        BY <3>1, <4>2, <4>3 DEF Next, NotBegun, ReadIgorRecord, ReadCviRecord, CviReads, ProcessNextRun
    <3>2. CASE AtNext(k)
      BY <1>1, <3>2, NextRead, Zenon
    <3>3. CASE Stopped(k)
      BY <3>3, StoppedStays, Zenon
    <3> QED
      BY <1>2, <1>3, <2>1, <3>1, <3>2, <3>3 DEF ForeignInv
  <2>3. PICK r : r = Expected[k]
    OBVIOUS
  <2>4. /\ delivered' = delivered \/ delivered' = Append(delivered, r)
        /\ delivered' # delivered /\ Len(delivered) < Len(Expected) => r = Expected[Len(delivered) + 1]
    BY <1>2, <2>1, <2>2, <2>3
  <2>5. /\ (GivenFile /\ \E S : delivered \in Seq(S))'
        /\ (\A i \in 1 .. Len(delivered) : i <= Len(Expected) => delivered[i] = Expected[i])'
        /\ delivered' = delivered \/ Len(delivered') = n + 1
    BY <1>1, <1>2, <2>4, RecordsKept
  <2>6. (Len(delivered) < Len(Expected) =>
           NotBegun \/ AtNext(Len(delivered) + 1) \/ Stopped(Len(delivered) + 1))'
    <3>1. CASE delivered' = delivered /\ (NotBegun' \/ AtNext(k)' \/ Stopped(k)')
      <4>1. Len(delivered') + 1 = k
        BY <1>2, <2>1, <3>1
      <4> QED
        BY <3>1, <4>1, Zenon
    <3>2. CASE delivered' = Append(delivered, Expected[k]) /\ (k + 1 \in 1 .. Len(Expected) => AtNext(k + 1)')
      <4>1. Len(delivered') = k
        <5>1. PICK S : delivered \in Seq(S)
          BY DEF ForeignInv
        <5>2. PICK T : T = S \cup {r}
          OBVIOUS
        <5>3. delivered \in Seq(T) /\ r \in T
          BY <5>1, <5>2
        <5>4. Len(Append(delivered, r)) = Len(delivered) + 1
          BY <5>3, AppendProperties
        <5> QED
          BY <1>2, <2>1, <2>3, <3>2, <5>4
      <4>2. ASSUME Len(delivered') < Len(Expected)' PROVE AtNext(k + 1)'
        <5>1. k < m
          BY <1>1, <1>2, <4>1, <4>2
        <5>2. k + 1 \in 1 .. Len(Expected)
          BY <1>2, <2>1, <5>1
        <5> QED
          BY <3>2, <5>2
      <4>3. Len(delivered') + 1 = k + 1
        BY <4>1
      <4> QED
        BY <4>2, <4>3, Zenon
    <3> QED
      BY <2>2, <3>1, <3>2
  <2> QED
    BY <2>5, <2>6 DEF ForeignInv
<1>4. CASE ~ (n < m)
  <2>1. PICK r : delivered' = delivered \/ delivered' = Append(delivered, r)
    BY DeliveredGrows
  <2>2. ~ (Len(delivered) < Len(Expected))
    BY <1>2, <1>4
  <2>3. /\ (GivenFile /\ \E S : delivered \in Seq(S))'
        /\ (\A i \in 1 .. Len(delivered) : i <= Len(Expected) => delivered[i] = Expected[i])'
        /\ Len(delivered') \in {n, n + 1}
    BY <1>1, <1>2, <2>1, <2>2, RecordsKept
  <2>4. ~ (Len(delivered') < Len(Expected)')
    BY <1>1, <1>2, <1>4, <2>3
  <2> QED
    BY <2>3, <2>4 DEF ForeignInv
<1> QED
  BY <1>3, <1>4

LEMMA ForeignShow == ASSUME ForeignInv PROVE RecordsOfFile
<1>1. PICK n \in Nat, m \in Nat : n = Len(delivered) /\ m = Len(Expected)
  <2>1. \E S : delivered \in Seq(S)
    BY DEF ForeignInv
  <2> QED
    BY <2>1, LengthExpected DEF ForeignInv
<1>2. PICK T : T = {n, m}
  OBVIOUS
<1>3. Min(T) \in Nat /\ Min(T) <= n /\ Min(T) <= m
  <2>1. PICK x \in T : x \in Nat /\ \A y \in T : x <= y
    <3>1. CASE n <= m
      BY <1>2, <3>1
    <3>2. CASE ~ (n <= m)
      BY <1>2, <3>2
    <3> QED
      BY <3>1, <3>2
  <2>2. T \subseteq Int
    BY <1>2
  <2>3. Min(T) = x
    BY <2>1, <2>2, FirstIs, Zenon
  <2> QED
    BY <1>2, <2>1, <2>3
<1>4. \A i \in 1 .. Min(T) : delivered[i] = Expected[i]
  <2> SUFFICES ASSUME NEW i \in 1 .. Min(T) PROVE delivered[i] = Expected[i]
    OBVIOUS
  <2>1. i \in 1 .. n /\ i <= m
    BY <1>3
  <2> QED
    BY <1>1, <2>1 DEF ForeignInv
<1>5. stage = "done" /\ n < m => StopsAt(Expected[n + 1])
  <2>1. NotBegun => stage # "done"
    BY DEF NotBegun
  <2>2. AtNext(n + 1) => stage # "done"
    BY DEF AtNext
  <2>3. n < m => NotBegun \/ AtNext(n + 1) \/ Stopped(n + 1)
    BY <1>1 DEF ForeignInv
  <2> QED
    BY <2>1, <2>2, <2>3 DEF Stopped
<1> QED
  BY <1>1, <1>2, <1>4, <1>5, Zenon DEF RecordsOfFile

LEMMA ForeignStays == ASSUME ForeignInv, UNCHANGED foreignVars PROVE ForeignInv'
<1>1. /\ UNCHANGED <<list, input>>
      /\ UNCHANGED <<opened, position, stage, headerIn, delivered, known, bucket, bucketPosition>>
  BY DEF foreignVars
<1>2. /\ Expected' = Expected /\ FileBlocks' = FileBlocks /\ GivenFile'
      /\ \A p : StopsAt(p)' <=> StopsAt(p)
      /\ \A b : EventOrder(b)' <=> EventOrder(b)
      /\ \A i : BucketAt(i)' = BucketAt(i) /\ BucketEnd(i)' = BucketEnd(i) /\ BucketPlaces(i)' = BucketPlaces(i)
  BY <1>1, FileStays DEF ForeignInv
<1>3. \A i, j : InBucket(i, j)' <=> InBucket(i, j)
  BY <1>1, <1>2 DEF InBucket
<1>4. \A k, b, i, j : AtEvent(k, b, i, j)' <=> AtEvent(k, b, i, j)
  BY <1>2, <1>3 DEF AtEvent
<1>5. \A k : (AtNext(k)' <=> AtNext(k)) /\ (Stopped(k)' <=> Stopped(k))
  <2>1. \A k : (\E b, i, j : AtEvent(k, b, i, j)') <=> \E b, i, j : AtEvent(k, b, i, j)
    BY <1>4
  <2> QED
    BY <1>1, <1>2, <2>1 DEF AtNext, Stopped
<1>6. NotBegun' <=> NotBegun
  BY <1>1 DEF NotBegun
<1> QED
  BY <1>1, <1>2, <1>5, <1>6 DEF ForeignInv

ForeignGoes == part = "foreign" => ForeignInv
LEMMA ForeignHolds == AnySpec => []ForeignGoes
<1>1. AnyInit => ForeignGoes
  BY ForeignStart DEF AnyInit, ForeignGoes
<1>2. ForeignGoes /\ [AnyNext]_allVars => ForeignGoes'
  <2> SUFFICES ASSUME ForeignGoes, [AnyNext]_allVars, part' = "foreign" PROVE ForeignInv'
    BY DEF ForeignGoes
  <2>1. CASE part = "foreign" /\ Next
    BY <2>1, ForeignStep DEF ForeignGoes
  <2>2. CASE part = "foreign" /\ UNCHANGED foreignVars
    BY <2>2, ForeignStays DEF ForeignGoes
  <2> QED
    BY <2>1, <2>2 DEF AnyNext, allVars
<1> QED
  BY <1>1, <1>2, PTL DEF AnySpec, allVars

(***************************************************************************)
(* The records of an Igor or a CVI file are its buffers or its events, in  *)
(* order, each once and whole, up to one whose length is not what the file *)
(* says; and when the reading is over, those that are missing follow a     *)
(* place where the reader takes the next byte, zero or not there, for an   *)
(* error.                                                                  *)
(***************************************************************************)
THEOREM ForeignRecordsInOrder == AnySpec => []RecordsOfForeignFile
<1>1. ForeignGoes => RecordsOfForeignFile
  BY ForeignShow DEF ForeignGoes, RecordsOfForeignFile
<1> QED
  BY <1>1, ForeignHolds, PTL
=============================================================================
