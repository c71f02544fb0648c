----------------------------- MODULE RunProcessors -----------------------------
(***************************************************************************)
(* The processors that write what a run leaves behind, in the order an     *)
(* application adds them: ORFileWriter, ORHistWriter, OREventCounter, the  *)
(* trees of ORTrigger32TreeWriter (two writers fill the rows of one tree)  *)
(* and those of ORTrig4ChanShaperCompoundProcessor.  The manager calls     *)
(* StartRun, ProcessDataRecord for every record, EndRun, and EndRun too    *)
(* for a run whose header came and whose start did not.                    *)
(*                                                                         *)
(* A data record is known by its number in the stream; 0 is what a field   *)
(* holds before the first record.                                          *)
(***************************************************************************)
EXTENDS Integers, Sequences, FiniteSets, Functions

CONSTANTS
  Setups,      (* what the crate may send: sets of record kinds           *)
  SubRuns,     (* sub-run numbers                                         *)
  MaxRuns,     (* bound: runs                                             *)
  MaxRecords   (* bound: records of all runs                              *)

VARIABLES
  setup,       (* the kinds of records of this stream                     *)
  phase,       (* "idle", "running" or "done"                             *)
  context,     (* fRunContext: run and sub-run number                     *)
  file,        (* fFile: the run its file is named for                    *)
  lastSub,     (* fLastSubRunNumber                                       *)
  histogram,   (* fHists: the entries of the histogram                    *)
  count,       (* fEventCount                                             *)
  trees,       (* the trees in memory: their rows                         *)
  fields,      (* the variables their branches point to                   *)
  fillCount,   (* fFillCount of the GTID writer                           *)
  lastKind,    (* fLastRecordDataId: the kind the id stands for           *)
  lastTrigger, (* *fLastTriggerRecordPtr, 0 for NULL                      *)
  files,       (* what is in the file of each run                         *)
  crashed,     (* the program has read through fLastTriggerRecordPtr, NULL *)
  sent,        (* history: the records of each run                        *)
  ended        (* history: runs whose EndRun came exactly once            *)

writerVars   == <<file, lastSub>>
counterVars  == <<histogram, count>>
treeVars     == <<trees, fields, fillCount, lastKind, lastTrigger>>
vars == <<setup, phase, context, writerVars, counterVars, treeVars, files, crashed, sent, ended>>

NoFile    == 0
Empty     == [headers |-> <<>>, histogram |-> -1, count |-> -1,
              gtid |-> <<>>, trigger |-> <<>>, shaper |-> <<>>]
NoTrees   == [gtid |-> <<>>, trigger |-> <<>>, shaper |-> <<>>]
Places    == UNION {{<<r, p>> : p \in DOMAIN sent[r]} : r \in DOMAIN sent}
Number    == Cardinality(Places) + 1

\* TTree::Fill: a row of what the branches point to, the run context included.
Row(values) == [x \in DOMAIN values \cup DOMAIN context |->
                  IF x \in DOMAIN values THEN values[x] ELSE context[x]]

Init ==
  /\ setup \in Setups
  /\ phase = "idle"
  /\ context = [run |-> 0, sub |-> 0]
  /\ file = NoFile /\ lastSub = 0
  /\ histogram = 0 /\ count = 0
  /\ trees = NoTrees /\ fields = [gtid |-> 0, clock |-> 0]
  /\ fillCount = 0
  /\ lastKind = "none" /\ lastTrigger = 0
  /\ files = <<>> /\ sent = <<>> /\ ended = {} /\ crashed = FALSE

(***************************************************************************)
(* StartRun.  The file of the run before is closed, and its trees go with  *)
(* it; the writers make theirs in the new one.                             *)
(***************************************************************************)
StartFile ==
  /\ file' = context.run + 1 /\ lastSub' = 0
  /\ files' = Append(files, [Empty EXCEPT !.headers = <<0>>])
\* Mutant: the counter goes on from the run before.
StartCountersOnce == histogram' = 0 /\ UNCHANGED count
StartCounters == histogram' = 0 /\ count' = 0
StartTrees ==
  /\ trees' = NoTrees /\ fillCount' = 0
  /\ UNCHANGED <<fields, lastKind, lastTrigger>>

StartRun ==
  /\ phase = "idle" /\ context.run < MaxRuns
  /\ phase' = "running"
  /\ context' = [run |-> context.run + 1, sub |-> 0]
  /\ StartFile /\ StartCounters /\ StartTrees
  /\ sent' = Append(sent, <<>>)
  /\ UNCHANGED <<setup, ended>>

(***************************************************************************)
(* ProcessDataRecord.  The file writer notes the first record of every     *)
(* sub-run, whatever its kind; a run record comes after the run context    *)
(* has taken its number over.                                              *)
(***************************************************************************)
WriteHeader(c) ==
  /\ files' = IF c.sub = lastSub THEN files
              ELSE [files EXCEPT ![file].headers = Append(@, c.sub)]
  /\ lastSub' = c.sub
  /\ UNCHANGED file

\* A record comes, in the run context c.
Receive(kind, c) ==
  /\ phase = "running" /\ kind \in setup /\ Number <= MaxRecords
  /\ context' = c
  /\ sent' = [sent EXCEPT ![c.run] = Append(@, [kind |-> kind, n |-> Number, sub |-> c.sub])]
  /\ WriteHeader(c)
  /\ UNCHANGED <<setup, phase, ended>>

SubRunStart(s) ==
  /\ Receive("subRun", [context EXCEPT !.sub = s])
  /\ UNCHANGED <<counterVars, treeVars>>

\* kFillBeforeProcessDataRecord: the row of the record before is filled when the
\* next one comes.
FillBefore == fillCount > 0

GTID ==
  /\ Receive("gtid", context)
  /\ trees' = IF FillBefore THEN [trees EXCEPT !.gtid = Append(@, Row(fields))] ELSE trees
  /\ fillCount' = fillCount + 1
  /\ fields' = [fields EXCEPT !.gtid = Number]
  /\ UNCHANGED <<counterVars, lastKind, lastTrigger>>

\* The clock writer shares the tree and does not fill it.  It refuses the
\* clock of the other trigger (kFailure); both are counted.
Clock(kind) ==
  /\ Receive(kind, context)
  /\ fields' = IF kind = "clock" THEN [fields EXCEPT !.clock = Number] ELSE fields
  /\ count' = count + 1
  /\ UNCHANGED <<histogram, trees, fillCount, lastKind, lastTrigger>>

TriggerRow(t) == Append(trees.trigger, Row([n |-> t]))

\* Mutant: a trigger that comes after shapers is taken for one with a shaper before it.
TriggerAfterShaper ==
  /\ Receive("trigger", context)
  /\ trees' = [trees EXCEPT !.trigger = TriggerRow(Number)]
  /\ lastTrigger' = Number
  /\ UNCHANGED <<counterVars, fields, fillCount, lastKind>>
Trigger ==
  /\ Receive("trigger", context)
  /\ trees' = [trees EXCEPT !.trigger = TriggerRow(Number)]
  /\ lastTrigger' = Number /\ lastKind' = "trigger"
  /\ UNCHANGED <<counterVars, fields, fillCount>>

\* A shaper that follows a shaper has the trigger before them processed once more.  EndRun frees
\* that record and keeps the id: a shaper may be the first of its run, and follow one of a run
\* before.  Before the first record of all the id is whatever was in memory.
TriggerAgain == lastKind = "shaper"
NoTriggerToProcess == lastTrigger = 0 /\ lastKind \in {"shaper", "none"}

Shaper ==
  /\ Receive("shaper", context)
  /\ TriggerAgain => lastTrigger # 0
  /\ trees' = [trees EXCEPT !.shaper = Append(@, Row([n |-> Number])),
                            !.trigger = IF TriggerAgain THEN TriggerRow(lastTrigger) ELSE @]
  /\ lastKind' = "shaper"
  /\ histogram' = histogram + 1
  /\ UNCHANGED <<count, fields, fillCount, lastTrigger>>

\* There is no trigger to process again: its writer reads the id of a record at NULL.
LoneShaper ==
  /\ phase = "running" /\ "shaper" \in setup /\ Number <= MaxRecords
  /\ NoTriggerToProcess
  /\ crashed' = TRUE
  /\ UNCHANGED <<setup, phase, context, writerVars, counterVars, treeVars, files, sent, ended>>

(***************************************************************************)
(* EndRun.  Every writer writes its objects to the file that is open.  The *)
(* histogram writer forgets its histograms; they belong to the file.       *)
(***************************************************************************)
\* Mutant: the last row, not yet filled, is left out.
EndTreesAsFilled ==
  /\ lastTrigger' = 0
  /\ UNCHANGED <<trees, fields, fillCount, lastKind>>
EndTrees ==
  /\ trees' = [trees EXCEPT !.gtid = Append(@, Row(fields))]
  /\ lastTrigger' = 0
  /\ UNCHANGED <<fields, fillCount, lastKind>>
EndCounters ==
  /\ histogram' = 0
  /\ UNCHANGED count
\* TObject::Write: a histogram that was never filled was never made.
WriteObjects ==
  files' = [files EXCEPT
    ![file] = [headers   |-> @.headers,
               histogram |-> IF histogram > 0 THEN histogram ELSE @.histogram,
               count     |-> count,
               gtid      |-> trees'.gtid, trigger |-> trees'.trigger, shaper |-> trees'.shaper]]

EndRun ==
  /\ phase = "running"
  /\ phase' = "idle"
  /\ EndTrees /\ EndCounters /\ WriteObjects
  /\ ended' = ended \cup {context.run}
  /\ UNCHANGED <<setup, context, writerVars, sent>>

\* A header came and the run did not start.  With no file yet the file writer
\* answers kBreak, and no other EndRun is called.
EndRunNotStarted ==
  /\ phase = "idle"
  /\ file # NoFile /\ file \in ended
  /\ EndTrees /\ EndCounters /\ WriteObjects
  /\ ended' = ended \ {file}
  /\ UNCHANGED <<setup, phase, context, writerVars, sent>>

\* The file is closed; the manager asks no more of these processors.
EndProcessing ==
  /\ phase = "idle"
  /\ phase' = "done"
  /\ UNCHANGED <<setup, context, writerVars, counterVars, treeVars, files, sent, ended>>

Steps ==
  \/ StartRun \/ EndRun \/ EndRunNotStarted \/ EndProcessing
  \/ \E s \in SubRuns : SubRunStart(s)
  \/ GTID
  \/ \E k \in {"clock", "otherClock"} : Clock(k)
  \/ Trigger \/ Shaper

Next == ~crashed /\ ((Steps /\ UNCHANGED crashed) \/ LoneShaper)

Spec == Init /\ [][Next]_vars
-----------------------------------------------------------------------------
OfKind(r, ks) == {p \in DOMAIN sent[r] : sent[r][p].kind \in ks}
Closed        == IF phase = "running" THEN 1 .. Len(files) - 1 ELSE 1 .. Len(files)

(***************************************************************************)
(* The two writers of the Trigger32 tree make rows of what was sent        *)
(* together: the file of a run has, in order, one row for every GTID with  *)
(* the last clock of its own trigger sent before the next GTID, if any was *)
(* (ORVTreeWriter::EndRun adds the last row).  Its sub-run is that of the  *)
(* GTID unless the sub-run changed before the next.                        *)
(***************************************************************************)
Upto(r, g) == \* the places in sent[r] of the GTID at g and of what follows it
  {p \in DOMAIN sent[r] : p >= g /\ \A q \in OfKind(r, {"gtid"}) : q > g => p < q}
Nth(r, g)  == Cardinality({q \in OfKind(r, {"gtid"}) : q <= g})
RowOfEvent(r, g, row) ==
  LET clocks == Upto(r, g) \cap OfKind(r, {"clock"})
  IN  /\ row.gtid = sent[r][g].n
      /\ \A p \in clocks : (\A q \in clocks : q <= p) => row.clock = sent[r][p].n
      /\ Upto(r, g) \cap OfKind(r, {"subRun"}) = {} => row.sub = sent[r][g].sub
      /\ row.run = r
EventsIn(r) ==
  LET gs == OfKind(r, {"gtid"})
  IN  /\ \A g \in gs : Nth(r, g) \in DOMAIN files[r].gtid /\ RowOfEvent(r, g, files[r].gtid[Nth(r, g)])
      /\ gs # {} /\ r \in ended => Len(files[r].gtid) = Cardinality(gs)
EventRows == \A r \in Closed : EventsIn(r)

(***************************************************************************)
(* The n-th row of the shaper tree belongs to the trigger in the n-th row  *)
(* of the trigger tree, the last before it, if every trigger of the run    *)
(* had its shapers (ORTrig4ChanShaperCompoundProcessor exists to keep the  *)
(* two aligned).  A run whose first shaper came before any trigger has one *)
(* row more of shapers, at the front, and the others belong to the trigger *)
(* one row before; with a second such shaper, or after a run that ended    *)
(* with a shaper, the program crashes.                                     *)
(***************************************************************************)
LastBefore(r, t, q) == \* the trigger at t is the last before the place q
  t < q /\ \A u \in OfKind(r, {"trigger"}) : u < q => u <= t
NoLoneTrigger(r) ==
  \A t \in OfKind(r, {"trigger"}) : \E q \in OfKind(r, {"shaper"}) : LastBefore(r, t, q)
ShaperFirst(r) ==
  \E q \in OfKind(r, {"shaper"}) : \A t \in OfKind(r, {"trigger"}) : q < t
Ahead(r) == IF ShaperFirst(r) THEN 1 ELSE 0
Pair(r, trigger, shaper) ==
  \E t \in OfKind(r, {"trigger"}), q \in OfKind(r, {"shaper"}) :
    LastBefore(r, t, q) /\ trigger.n = sent[r][t].n /\ shaper.n = sent[r][q].n
PairsIn(r) ==
  NoLoneTrigger(r) =>
    /\ Len(files[r].shaper) = Len(files[r].trigger) + Ahead(r)
    /\ \A i \in DOMAIN files[r].trigger : Pair(r, files[r].trigger[i], files[r].shaper[i + Ahead(r)])
PairedRows ==
  /\ \A r \in Closed : PairsIn(r)
  /\ crashed => OfKind(context.run, {"trigger"}) = {}

(***************************************************************************)
(* What a file holds is its own run's: the histogram and the event count   *)
(* count its records, however many runs came before or were cut off        *)
(* (StartRun and EndRun reset), and the header is there once for the run   *)
(* and once more for each change of its sub-run (ORFileWriter).            *)
(***************************************************************************)
OwnHeaders(r) ==
  LET headers == files[r].headers
  IN  /\ Range(headers) = {0} \cup {sent[r][p].sub : p \in DOMAIN sent[r]}
      /\ \A i \in 1 .. Len(headers) - 1 : headers[i] # headers[i + 1]
OwnCounts(r) ==
  LET shapers == Cardinality(OfKind(r, {"shaper"}))
  IN  /\ files[r].count = Cardinality(OfKind(r, {"clock", "otherClock"}))
      /\ files[r].histogram = IF shapers = 0 THEN -1 ELSE shapers
FileOfOwnRun == \A r \in Closed : OwnHeaders(r) /\ OwnCounts(r)
=============================================================================
