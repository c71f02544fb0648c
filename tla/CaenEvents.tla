----------------------------- MODULE CaenEvents -----------------------------
(***************************************************************************)
(* The blocks of several CAEN charge converters, one record per card and   *)
(* event, as ORCaen792qdcDecoder and ORCaen965qdcDecoder lay them out and  *)
(* ORCaen792qdcTreeWriter, ORCaen965qdcTreeWriter and                      *)
(* ORCaen792qdcMultiCardTreeWriter write them.                             *)
(*                                                                         *)
(* A decoder keeps pointers into the record, and finds them anew only when *)
(* the event count (792) or the address of the record (965) has changed;   *)
(* the reader has one buffer for all records, so that a pointer kept is a  *)
(* place in whatever record is there now.  A card stands for its crate and *)
(* card number; a value is known by the card, event and channel it is of.  *)
(***************************************************************************)
EXTENDS Integers, Sequences, SequencesExt

CONSTANTS
  NCards,     (* the cards, read out in the order of their numbers         *)
  NChannels,  (* GetNChannels()                                            *)
  Blocks,     (* what a card may send: sequences of channels, and -1 for a  *)
              (* word that is not data, which ends the block               *)
  LastEvent,  (* bound: the events of a run are 1 .. LastEvent             *)
  Runs        (* bound: the number of runs                                 *)

VARIABLES
  model,            (* the cards are 792s, or 965s                         *)
  run, event, card, (* what is sent next: a run, its event, its card       *)
  buffer,           (* the words in the reader's buffer after the header   *)
  cached,           (* fLastEventCount, or fRecord, of each decoder: 0 before the first record *)
  fLocPtrs,         (* how many words it points at, from the first of buffer on *)
  fEventCount, fNValues, fCard, fQDCVal, (* of the multi-card writer       *)
  alarmed,          (* the multi-card writer has returned kAlarm           *)
  ended,            (* EndRun has been called for the run                  *)
  tree,             (* history: the rows of the multi-card tree of the run *)
  carried,          (* history: the last row of the run before            *)
  last, single,     (* history: the last record, and the row of it in the tree for one card *)
  laidOut,          (* history: the event of the record that its decoder's pointers were found in *)
  received,         (* history: the values received in the run             *)
  sizes             (* history: the event and the data words of each record received in the run *)

multiVars == <<fEventCount, fNValues, fCard, fQDCVal, tree, alarmed>>
cacheVars == <<cached, fLocPtrs>>
historyVars == <<carried, last, single, laidOut, received, sizes>>
vars == <<model, run, event, card, buffer, cacheVars, multiVars, ended, historyVars>>

Writers == {"single", "multi"}
Zero    == [card |-> 0, event |-> 0, channel |-> 0]
Value(c, e, ch) == [card |-> c, event |-> e, channel |-> ch]

\* The words of a record after its two header words; a 965 sends no end of block.
EndOfBlock(c, e)   == IF model = "792" THEN <<Value(c, e, -2)>> ELSE << >>
Words(c, e, block) == [i \in 1 .. Len(block) |-> Value(c, e, block[i])] \o EndOfBlock(c, e)

\* The channel that a word gives when it is read as data; of an end of block these bits
\* belong to the event count, and are 0 for the counts of the model.
ChannelOf(w) == IF w.channel \in Nat THEN w.channel ELSE 0

IsData(w) == w.channel \in Nat
-----------------------------------------------------------------------------
(***************************************************************************)
(* The decoders.                                                           *)
(***************************************************************************)

\* LoadLocPtrs: the words pointed at, up to the first that is not data.
LoadLocPtrs(words) ==
  CHOOSE n \in 0 .. Len(words) :
    /\ \A i \in 1 .. n : IsData(words[i])
    /\ n = Len(words) \/ ~IsData(words[n + 1])

\* Mutant: the layout of the first event is kept.
EventIsCachedForEver(w, e) == cached[w] # 0

\* Whether NValuesOf keeps the pointers it has: of an event, or of the record at an address,
\* which is that of the only buffer.
EventIsCached(w, e) == cached[w] = e
RecordIsCached(w)   == cached[w] # 0

\* NValuesOf with the record of event e in the buffer: how many words the decoder points at.
NValuesOf(w, e, words) ==
  IF (IF model = "792" THEN EventIsCached(w, e) ELSE RecordIsCached(w)) THEN fLocPtrs[w]
  ELSE LoadLocPtrs(words)

\* The row of the 792's writer for one card, whose decoder points at n words of buf.
Row792(buf, n) ==
  [vals |-> {[buf[i] EXCEPT !.channel = ChannelOf(buf[i])] : i \in 1 .. n}, questionable |-> FALSE]

\* The row of the 965's: its valid values, and whether there are as many as words in the record.
Row965(buf, n, words) ==
  [vals |-> {buf[i] : i \in 1 .. n} \cap {w \in Range(buf) : IsData(w)},
   questionable |-> n # Len(words)]
-----------------------------------------------------------------------------
(***************************************************************************)
(* ORCaen792qdcMultiCardTreeWriter: one row for the cards of an event.     *)
(***************************************************************************)
multi == [count |-> fEventCount, n |-> fNValues, cards |-> fCard, vals |-> fQDCVal,
      rows |-> tree, alarm |-> alarmed]

Clear(s) == [s EXCEPT !.n = 0, !.vals = [i \in 1 .. NChannels * Len(s.cards) |-> Zero]]
RowOf(s) == [event |-> s.count, cards |-> s.cards, vals |-> s.vals]
Fill(s)  == [s EXCEPT !.rows = Append(@, RowOf(s))]

\* The row of the event before is complete when the first record of another comes.
CloseEvent(s, e) == IF e # s.count /\ s.n > 0 THEN Clear(Fill(s)) ELSE s

\* The first record is of neither of the first two counts: it is skipped, as are all after it.
BadStart(s, e) == e > s.count + 1 /\ s.count = 0

\* Mutant: the place of a card is that of the record in its event.
NextSlot(s, c) == s.n \div NChannels + 1

\* Where the values of card c go: the next place, or a later one if cards were skipped.
SlotOf(s, c) ==
  LET next == s.n \div NChannels + 1
      at   == {i \in next .. Len(s.cards) : s.cards[i] = c}
  IN  IF next > Len(s.cards) THEN next
      ELSE IF at = {} THEN 0 ELSE CHOOSE i \in at : \A j \in at : i <= j

AddCard(s, c) ==
  IF s.n \div NChannels < Len(s.cards) THEN s
  ELSE [s EXCEPT !.cards = Append(@, c), !.vals = @ \o [i \in 1 .. NChannels |-> Zero]]

\* Where the value of a channel goes if its card is at slot, and the words that go to place k.
Place(slot, ch)           == NChannels * (slot - 1) + ch + 1
WordsFor(slot, buf, n, k) == {i \in 1 .. n : Place(slot, ChannelOf(buf[i])) = k}

\* The values of the n words of buf are stored.  A later word of a channel wins.
Store(s, slot, buf, n) ==
  [s EXCEPT !.n = NChannels * slot,
            !.vals = [k \in DOMAIN s.vals |->
                        LET of == WordsFor(slot, buf, n, k)
                        IN  IF of = {} THEN s.vals[k]
                            ELSE buf[CHOOSE i \in of : \A j \in of : j <= i]]]

\* ProcessMyDataRecord, whose decoder points at n words of buf.
Multi(s, c, e, buf, n) ==
  LET closed == CloseEvent(s, e)
      added  == AddCard([closed EXCEPT !.count = e], c)
      slot   == SlotOf(added, c)
  IN  IF BadStart(closed, e) THEN closed
      ELSE IF slot = 0 THEN [added EXCEPT !.alarm = TRUE]
      ELSE Store(added, slot, buf, IF n < NChannels THEN n ELSE NChannels)

SetMulti(s) ==
  /\ fEventCount' = s.count /\ fNValues' = s.n /\ fCard' = s.cards /\ fQDCVal' = s.vals
  /\ tree' = s.rows /\ alarmed' = s.alarm
-----------------------------------------------------------------------------
(***************************************************************************)
(* The records of a run, some of which may be lost, and the run's end.     *)
(***************************************************************************)
AfterRecord ==
  IF card < NCards THEN card' = card + 1 /\ UNCHANGED event ELSE card' = 1 /\ event' = event + 1


\* The record comes into the buffer, and each writer's ProcessMyDataRecord is called.
ProcessRecord(block) ==
  /\ event <= LastEvent /\ ~ended /\ ~alarmed
  /\ LET words == Words(card, event, block)
         buf   == words \o SubSeq(buffer, Len(words) + 1, Len(buffer))
         n     == [w \in Writers |-> NValuesOf(w, event, words)]
         skips == model = "965" \/ BadStart(CloseEvent(multi, event), event)
         asked == IF skips THEN {"single"} ELSE Writers
     IN  /\ buffer' = buf /\ last' = words
         /\ fLocPtrs' = [w \in Writers |-> IF w \in asked THEN n[w] ELSE fLocPtrs[w]]
         /\ cached' = [w \in Writers |-> IF w \in asked THEN event ELSE cached[w]]
         /\ single' = IF model = "792" THEN Row792(buf, n["single"])
                      ELSE Row965(buf, n["single"], words)
         /\ IF model = "792" THEN SetMulti(Multi(multi, card, event, buf, n["multi"]))
            ELSE UNCHANGED multiVars
         /\ laidOut' = IF model = "965" \/ EventIsCached("single", event) THEN laidOut ELSE event
         /\ received' = received \cup {words[i] : i \in 1 .. LoadLocPtrs(words)}
         /\ sizes' = sizes \cup {<<event, LoadLocPtrs(words)>>}
  /\ AfterRecord
  /\ UNCHANGED <<model, run, ended, carried>>

LoseRecord ==
  /\ event <= LastEvent /\ ~ended /\ ~alarmed
  /\ AfterRecord
  /\ UNCHANGED <<model, run, buffer, cacheVars, multiVars, ended, historyVars>>

\* EndRun fills a row, and leaves the count, the cards and the values as they are.
EndRun ==
  /\ ~ended /\ ~alarmed /\ ended' = TRUE
  /\ SetMulti(Fill(multi))
  /\ UNCHANGED <<model, run, event, card, buffer, cacheVars, historyVars>>

\* The next run has a new tree; BeginRun, which would reset the count, is never called.
StartRun ==
  /\ ended /\ run < Runs
  /\ run' = run + 1 /\ event' = 1 /\ card' = 1 /\ ended' = FALSE
  /\ tree' = << >>
  /\ carried' = RowOf(multi) /\ last' = << >> /\ received' = {} /\ sizes' = {}
  /\ UNCHANGED <<model, buffer, cacheVars, fEventCount, fNValues, fCard, fQDCVal, alarmed, single,
                 laidOut>>
-----------------------------------------------------------------------------
Init ==
  /\ model \in {"792", "965"}
  /\ run = 1 /\ event = 1 /\ card = 1 /\ ended = FALSE
  /\ buffer = << >> /\ cached = [w \in Writers |-> 0] /\ fLocPtrs = [w \in Writers |-> 0]
  /\ fEventCount = 0 /\ fNValues = 0 /\ fCard = << >> /\ fQDCVal = << >>
  /\ tree = << >> /\ alarmed = FALSE /\ carried = RowOf(multi)
  /\ last = << >> /\ single = [vals |-> {}, questionable |-> FALSE] /\ laidOut = 0
  /\ received = {} /\ sizes = {}

Next == (\E block \in Blocks : ProcessRecord(block)) \/ LoseRecord \/ EndRun \/ StartRun

Spec == Init /\ [][Next]_vars
-----------------------------------------------------------------------------
\* A row of the multi-card tree holds the values received of its event, all of them, each at
\* the place of its card and channel and 0 elsewhere, whichever cards' records were lost, with
\* two exceptions.  A record is read by the layout of the first of its event, so that an event
\* whose cards sent different numbers of values has a row that is wrong.  And a run after another
\* begins with the last row of the run before, once more, or mixed with its own values if their
\* counts agree.
ValuesOf(e)     == {v \in received : v.event = e}
InPlace(row, k) == \E s \in DOMAIN row.cards :
                     row.cards[s] = row.vals[k].card /\ k = Place(s, row.vals[k].channel)
RowIsEvent(row) ==
  /\ \A k \in DOMAIN row.vals :
       row.vals[k] # Zero => row.vals[k] \in ValuesOf(row.event) /\ InPlace(row, k)
  /\ \A v \in ValuesOf(row.event) : \E k \in DOMAIN row.vals : row.vals[k] = v
Came(e)          == \E p \in sizes : p[1] = e
Mixed(e)         == \E p, q \in sizes : p[1] = e /\ q[1] = e /\ p[2] # q[2]
CarriedOver(row) == /\ carried.event > 0
                    /\ row = carried \/ (row.event = carried.event /\ Came(row.event))
RowsAreEvents ==
  \A i \in DOMAIN tree :
    \/ RowIsEvent(tree[i])
    \/ Mixed(tree[i].event)
    \/ i = 1 /\ CarriedOver(tree[1])

\* Unless it alarmed, or skipped the whole run because the first event was lost, the
\* multi-card tree has a row for every event of the run of which a record came, at its end.
EveryEventHasRow ==
  (ended /\ ~alarmed /\ fEventCount > 0) =>
    {v.event : v \in received} \subseteq {tree[i].event : i \in DOMAIN tree}

MultiCardTree == RowsAreEvents /\ EveryEventHasRow

\* A 792's record is read by the layout of the first record with its event count, of whichever
\* card or run.  Its row is its values if it has as many as that one, and the first of them if it
\* has more; if it has fewer, words behind them are taken for values.  A 965's row is its values
\* whenever it is not marked as questionable, although the decoder never looks at a second
\* record's layout.
RowsOfOneCard ==
  last # << >> =>
    LET own == {w \in Range(last) : IsData(w)}
        n   == LoadLocPtrs(last)
    IN  IF model = "792"
        THEN /\ laidOut = last[Len(last)].event
             /\ n = fLocPtrs["single"] => single.vals = own
             /\ n > fLocPtrs["single"] => single.vals \subseteq own
        ELSE ~single.questionable => single.vals = own
=============================================================================
