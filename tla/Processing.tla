------------------------------ MODULE Processing ------------------------------
(***************************************************************************)
(* The readers of files and the processors at the end of the chain, one of *)
(* them at a time: part says which, and the variables of the others are    *)
(* empty.  The components share no state: what reaches a processor is any  *)
(* sequence of records and of starts and ends of runs that the manager may *)
(* produce.                                                                *)
(***************************************************************************)
EXTENDS ForeignReaders

CONSTANTS
  Lists,        (* FileReaders: the lists of files on the command line    *)
  MaxLength,    (* FileReaders: lengths an accidental first word may give *)
  Setups,       (* RunProcessors: sets of kinds of records                *)
  SubRuns,      (* RunProcessors: sub-run numbers                         *)
  MaxRuns,      (* bound: runs of a processor                             *)
  MaxRecords,   (* RunProcessors, bound: records of all runs              *)
  Channels, DeadChannels, (* NoiseFilter: channels, and those not drawn   *)
  Cut,          (* NoiseFilter: the time cut                              *)
  Period,       (* NoiseFilter: the length of the rate histogram          *)
  MaxTime,      (* NoiseFilter, bound: clock values                       *)
  MaxShapers,   (* NoiseFilter, bound: shaper records of a run            *)
  Offers,       (* Requests: the requests Orca may send                   *)
  MaxRequests   (* Requests, bound                                        *)

\* A file is runs, each with its header first; an old header has lines, and those who wrote it
\* wrote in the other byte order.
RecordType == [kind : {"header", "data", "short", "stop"}, length : Nat \ {0}, zero : BOOLEAN]
FileType   == [there : BOOLEAN, other : BOOLEAN, old : BOOLEAN, cut : Nat, records : Seq(RecordType)]
ASSUME ListAssumption ==
  \A l \in Lists : l \in Seq(FileType) /\ \A f \in DOMAIN l :
    LET records == l[f].records
    IN  /\ \A r \in DOMAIN records : r = 1 \/ records[r - 1].kind = "stop" => records[r].kind = "header"
        /\ l[f].old => l[f].other
        /\ \A r \in DOMAIN records : l[f].old /\ records[r].kind = "header" => records[r].length > 1

\* The cut and the period are lengths of time, and a period is not empty.
ASSUME FilterAssumption == Cut \in Nat /\ Period \in Nat \ {0}

VARIABLES
  part,       \* what is looked at
  fileList, words, ends, filesOpened, filePosition, version, fileMustSwap, fileStage,
  fileHeaderIn, fileDelivered, astray,
  setup, phase, context, file, lastSub, histogram, count, trees, fields, fillCount,
  lastKind, lastTrigger, files, crashed, sent, ended,
  running, triggerBefore, fBothRecords, filterTrees, fRateHist, resets, filterCrashed, hits, runs,
  at, requests, decoder, handlers, answer, used, connected, stream

fileVars ==
  <<fileList, words, ends, filesOpened, filePosition, version, fileMustSwap, fileStage,
  fileHeaderIn, fileDelivered, astray>>
runVars ==
  <<setup, phase, context, file, lastSub, histogram, count, trees, fields, fillCount,
  lastKind, lastTrigger, files, crashed, sent, ended>>
noiseVars ==
  <<running, triggerBefore, fBothRecords, filterTrees, fRateHist, resets, filterCrashed, hits,
  runs>>
reqVars ==
  <<at, requests, decoder, handlers, answer, used, connected, stream>>

F == INSTANCE FileReaders WITH
       list <- fileList, opened <- filesOpened,
       position <- filePosition, mustSwap <- fileMustSwap, stage <- fileStage,
       headerIn <- fileHeaderIn, delivered <- fileDelivered

R == INSTANCE RunProcessors

N == INSTANCE NoiseFilter WITH
       lastTrigger <- triggerBefore, trees <- filterTrees, crashed <- filterCrashed

Q == INSTANCE Requests
-----------------------------------------------------------------------------
NoForeign ==
  /\ list = <<>> /\ input = <<>> /\ opened = <<>> /\ position = <<>> /\ stage = <<>> /\ headerIn = <<>>
  /\ delivered = <<>> /\ known = <<>> /\ fRunNumber = <<>> /\ bucket = <<>>
  /\ bucketPosition = <<>>
NoFiles ==
  /\ fileList = <<>> /\ words = <<>> /\ ends = <<>> /\ filesOpened = <<>>
  /\ filePosition = <<>> /\ version = <<>> /\ fileMustSwap = <<>> /\ fileStage = <<>>
  /\ fileHeaderIn = <<>> /\ fileDelivered = <<>> /\ astray = <<>>
NoRuns ==
  /\ setup = <<>> /\ phase = <<>> /\ context = <<>> /\ file = <<>> /\ lastSub = <<>>
  /\ histogram = <<>> /\ count = <<>> /\ trees = <<>> /\ fields = <<>> /\ fillCount = <<>>
  /\ lastKind = <<>> /\ lastTrigger = <<>> /\ files = <<>> /\ sent = <<>> /\ ended = <<>>
  /\ crashed = <<>>
NoNoise ==
  /\ running = <<>> /\ filterCrashed = <<>> /\ triggerBefore = <<>> /\ fBothRecords = <<>>
  /\ filterTrees = <<>> /\ fRateHist = <<>> /\ resets = <<>> /\ hits = <<>> /\ runs = <<>>
NoRequests ==
  /\ at = <<>> /\ requests = <<>> /\ decoder = <<>> /\ handlers = <<>> /\ answer = <<>>
  /\ used = <<>> /\ connected = <<>> /\ stream = <<>>

AnyInit ==
  \/ part = "foreign" /\ Init /\ NoFiles /\ NoRuns /\ NoNoise /\ NoRequests
  \/ part = "files" /\ F!Init /\ NoForeign /\ NoRuns /\ NoNoise /\ NoRequests
  \/ part = "runs" /\ R!Init /\ NoForeign /\ NoFiles /\ NoNoise /\ NoRequests
  \/ part = "noise" /\ N!Init /\ NoForeign /\ NoFiles /\ NoRuns /\ NoRequests
  \/ part = "requests" /\ Q!Init /\ NoForeign /\ NoFiles /\ NoRuns /\ NoNoise

AnyNext ==
  \/ part = "foreign" /\ Next /\ UNCHANGED <<part, fileVars, runVars, noiseVars, reqVars>>
  \/ part = "files" /\ F!Next /\ UNCHANGED <<part, foreignVars, runVars, noiseVars, reqVars>>
  \/ part = "runs" /\ R!Next /\ UNCHANGED <<part, foreignVars, fileVars, noiseVars, reqVars>>
  \/ part = "noise" /\ N!Next /\ UNCHANGED <<part, foreignVars, fileVars, runVars, reqVars>>
  \/ part = "requests" /\ Q!Next /\ UNCHANGED <<part, foreignVars, fileVars, runVars, noiseVars>>

AnySpec == AnyInit /\ [][AnyNext]_<<part, foreignVars, fileVars, runVars, noiseVars, reqVars>>
-----------------------------------------------------------------------------
\* Records come in the order of the files, whole, in the byte order of each, and all come.
AllInOrder == part = "files" => F!AllInOrder

\* The records of an Igor or CVI file are its buffers or events, in order, each once.
RecordsOfForeignFile == part = "foreign" => RecordsOfFile

\* A row has the GTID and the clock that were sent together, and every GTID has a row.
EventRows == part = "runs" => R!EventRows

\* The n-th row of the shaper tree belongs to the trigger in the n-th of the trigger tree, but
\* for a shaper before the first trigger.
PairedRows == part = "runs" => R!PairedRows

\* The counts, the histogram and the headers in a file are those of its own run.
FileOfOwnRun == part = "runs" => R!FileOfOwnRun

\* A hit is written if and only if none of its channel came within the cut before it.
NoiseIsCut == part = "noise" => N!NoiseIsCut

\* The rate histogram shows the hits of one period.
RateOfOnePeriod == part = "noise" => N!RateOfOnePeriod

\* Each request is answered once, in order, with its own tag.
AnswersMatch == part = "requests" => Q!AnswersMatch

\* A result is computed from the inputs of its own request.
ResultsFromOwnInputs == part = "requests" => Q!ResultsFromOwnInputs
=============================================================================
