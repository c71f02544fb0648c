------------------------------ MODULE MCDecoding ------------------------------
(***************************************************************************)
(* The decoders that keep a state, the records of every card and the       *)
(* decoder dictionaries for TLC, one of them at a time.  The variables of  *)
(* the others are empty.                                                   *)
(***************************************************************************)
EXTENDS Decoders, MCRecords, MCHeaders

VARIABLES asDaemon, phase, document, header, loadedFrom, hardware, dataIds, settings

dict == <<asDaemon, phase, document, header, loadedFrom, hardware, dataIds, settings>>

D == INSTANCE Dictionaries WITH
       Headers <- MCHeaders, ObjectPaths <- MCPaths, ClassOf <- MCClasses, MaxHeaders <- 2

\* Two cards, which may send one value or two, or words that are not data.
MCBlocks == {<<0>>, <<0, 1>>, <<1, -1>>, <<-1>>}

\* Fragments of b may be lost; a's waveforms need one or two, b's two or three, and c's are as
\* long as a head.
MCTotalOf == [a |-> 2, b |-> 3, c |-> 4]
-----------------------------------------------------------------------------
NoDict ==
  /\ asDaemon = <<>> /\ phase = <<>> /\ document = <<>> /\ header = <<>> /\ loadedFrom = <<>>
  /\ hardware = <<>> /\ dataIds = <<>> /\ settings = <<>>
NoRecords ==
  /\ chain = <<>> /\ record = <<>> /\ mustSwap = <<>> /\ swapped = <<>> /\ swaps = <<>> /\ next = <<>>
  /\ rows = <<>>
NoDecoder == NoCaen /\ NoLong /\ NoDGF4c

MCInit ==
  \/ AnyInit /\ NoRecords /\ NoDict
  \/ part = "records" /\ Init   /\ NoDecoder /\ NoDict
  \/ part = "dict"    /\ D!Init /\ NoDecoder /\ NoRecords

MCNext ==
  \/ AnyNext /\ UNCHANGED <<vars, dict>>
  \/ part = "records" /\ Next   /\ UNCHANGED <<partVars, dict>>
  \/ part = "dict"    /\ D!Next /\ UNCHANGED <<partVars, vars>>

MCSpec == MCInit /\ [][MCNext]_<<partVars, vars, dict>>
-----------------------------------------------------------------------------
\* A decoder reads the words of its record, all of them and no others.
RecordsRead == part = "records" => ReadsItsRecord

\* What a writer reads was swapped once, in the unit it is read in, if the stream needs it.
RecordsSwapped == part = "records" => SwappedAsRead

\* Every branch of a card's tree is filled and is wide enough for its value.
ColumnsFilled == part = "records" => ColumnsHoldValues

\* A header is read as it was written, a decoder finds the settings of its card, and two processors
\* take the records of one data id only if the header does not describe one of them.
SettingsFound == part = "dict" => D!SettingsFound
=============================================================================
