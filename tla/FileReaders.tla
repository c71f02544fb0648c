------------------------------ MODULE FileReaders ------------------------------
(***************************************************************************)
(* ORFileReader and the framing of ORVReader on it: a list of files, read  *)
(* one after the other as one stream of records, each file in the byte     *)
(* order of the machine that wrote it; and the manager's loop around it.   *)
(*                                                                         *)
(* A word is known by its place <<file, record, number>>.  What a word     *)
(* says that is not the first of a record, or is one read in the wrong     *)
(* byte order, may be anything.                                            *)
(***************************************************************************)
EXTENDS Integers, Sequences, SequencesExt, FiniteSets, FiniteSetsExt

CONSTANTS
  Lists,        (* the lists of files on the command line                 *)
  MaxLength     (* bound: the lengths an accidental first word may give   *)

VARIABLES
  list,         (* the command line's files                               *)
  words, ends,  (* what is in them one after the other, and to where each *)
  opened,       (* the files opened; the others are fFileList             *)
  position,     (* the words read                                         *)
  version, mustSwap, (* fStreamVersion and fMustSwap                      *)
  stage,        (* where the manager's loop is                            *)
  headerIn,     (* headerIsReadIn                                         *)
  delivered,    (* the records ReadRecord has returned, with MustSwap     *)
  astray        (* history: a first word was none; delivered ends there   *)
fileVars == <<list, words, ends, opened, position, version, mustSwap, stage, headerIn, delivered, astray>>

(***************************************************************************)
(* A file: whether it is there, its byte order, the form of its header,    *)
(* its records [kind, length, zero], and how many words of it are missing  *)
(* at its end.  zero: the record's first byte is zero.                     *)
(***************************************************************************)
Words(l, f)  == FlattenSeq([r \in DOMAIN l[f].records |-> [p \in 1 .. l[f].records[r].length |-> <<f, r, p>>]])
Contents(l, f) == IF l[f].there THEN SubSeq(Words(l, f), 1, Len(Words(l, f)) - l[f].cut) ELSE <<>>
Files(l, n)  == FlattenSeq([f \in 1 .. n |-> Contents(l, f)])
RecordOf(w)  == list[w[1]].records[w[2]]
IsFirst(w)   == w[3] = 1
OldHeader(w) == RecordOf(w).kind = "header" /\ list[w[1]].old

Init ==
  /\ list \in Lists /\ words = Files(list, Len(list))
  /\ ends = [f \in DOMAIN list |-> Len(Files(list, f))]
  /\ opened = 0 /\ position = 0 /\ version = "unknown" /\ mustSwap = FALSE
  /\ stage = "open" /\ headerIn = FALSE /\ delivered = <<>> /\ astray = FALSE

(***************************************************************************)
(* OKToRead: files are left, or the next byte can be read and is not zero. *)
(* OpenDataStream asks before it takes the file off the list, so that a    *)
(* file that is not there is opened as well, and has nothing to read.      *)
(***************************************************************************)
At(o, p)    == [opened |-> o, position |-> p]
ZeroNext(w) == IsFirst(w) /\ RecordOf(w).zero
OKToRead(at) == \/ at.opened < Len(list)
                \/ at.position < Len(words) /\ ~ZeroNext(words[at.position + 1])

OpenDataStream == stage' = (IF list = <<>> THEN "done" ELSE "run") /\ opened' = (IF list = <<>> THEN 0 ELSE 1)
Open ==
  /\ stage = "open" /\ OpenDataStream
  /\ headerIn' = FALSE
  /\ UNCHANGED <<list, words, ends, position, version, mustSwap, delivered, astray>>

(***************************************************************************)
(* Read: what the open file does not give is asked of the next one, which  *)
(* writes it at the start of the buffer again: the word i of the buffer is *)
(* of the last file that gave that many.  A file that is opened has its    *)
(* version to be found out.                                                *)
(***************************************************************************)
After(n, at) ==
  LET last == {f \in at.opened .. Len(list) : ends[f] >= at.position + n}
  IN  IF last # {} THEN At(Min(last), at.position + n) ELSE At(Len(list), Len(words))
Begin(f, at) == IF f = at.opened THEN at.position ELSE ends[f - 1]
Read(n, at) ==
  LET to == After(n, at)
      Given(f) == IF f = to.opened THEN to.position - Begin(f, at) ELSE ends[f] - Begin(f, at)
      Word(i) == LET f == Max({0} \cup {g \in at.opened .. to.opened : Given(g) >= i})
                 IN  IF f = 0 THEN <<0, 0, 0>> ELSE words[Begin(f, at) + i]
  IN  [words |-> [i \in 1 .. to.position - at.position |-> Word(i)], at |-> to]

(***************************************************************************)
(* ReadFirstWord: the version of a stream is looked for in each first word *)
(* until one is known; a word of an unknown version leaves fMustSwap as it *)
(* is.                                                                     *)
(***************************************************************************)
Other(w)     == list[w[1]].other
IsHeader(w)  == IsFirst(w) /\ RecordOf(w).kind = "header"
GetStreamVersion(w) ==
  IF ~IsHeader(w) THEN "unknown"
  ELSE IF OldHeader(w) THEN "old" ELSE IF Other(w) THEN "newSwapped" ELSE "newUnswapped"
DetermineFileTypeAndSetupSwap(known, w) == IF known = "unknown" THEN GetStreamVersion(w) ELSE known
SwapFor(v) == CASE v = "unknown" -> mustSwap [] v = "newUnswapped" -> FALSE [] OTHER -> TRUE

\* What the first word is taken for: a kind and a length.
Taken(w, v) ==
  IF IsFirst(w) /\ (Other(w) = SwapFor(v) \/ OldHeader(w))
  THEN {[kind |-> RecordOf(w).kind, length |-> RecordOf(w).length]}
  ELSE {[kind |-> k, length |-> n] : k \in {"header", "data"}, n \in 0 .. MaxLength}
       \cup {[kind |-> "short", length |-> 1]}

(***************************************************************************)
(* ReadRestOfHeader of an old header: its lines, one word each here, until *)
(* the last; after each the stream must be good for more.                  *)
(***************************************************************************)
IsLast(w) == OldHeader(w) /\ w[3] = RecordOf(w).length
ReadLines(at) ==
  LET more == Len(words) - at.position
      n == Min({i \in 1 .. more : IsLast(words[at.position + i]) \/ ~OKToRead(After(i, at))} \cup {more})
  IN  [words |-> SubSeq(words, at.position + 1, at.position + n), at |-> After(n, at),
       ok |-> n > 0 /\ IsLast(words[at.position + n]) /\ OKToRead(After(n, at))]

\* ReadRestOfHeader and ReadRestOfLongRecord; a short record has no rest.
ReadRest(what, v, at) ==
  IF what.kind = "header" /\ v = "old" THEN ReadLines(at)
  ELSE IF what.length < 1 THEN [words |-> <<>>, ok |-> FALSE, at |-> at]
  ELSE LET body == Read(what.length - 1, at)
       IN  [words |-> body.words, ok |-> Len(body.words) = what.length - 1, at |-> body.at]

Goto(at) == opened' = at.opened /\ position' = at.position
\* Mutant: a file that is opened is read with the version of the one before.
VersionKept(at, v) == v
VersionAfter(at, v) == IF at.opened > opened THEN "unknown" ELSE v

EndOfStream ==
  /\ stage = "run" /\ position = Len(words)
  /\ Goto(After(1, At(opened, position))) /\ version' = VersionAfter(After(1, At(opened, position)), version)
  /\ stage' = "between"
  /\ UNCHANGED <<list, words, ends, mustSwap, headerIn, delivered, astray>>

ReadRecord ==
  /\ stage = "run" /\ position < Len(words)
  /\ LET word  == words[position + 1]
         first == After(1, At(opened, position))
         v     == DetermineFileTypeAndSetupSwap(VersionAfter(first, version), word)
     IN \E what \in Taken(word, v) :
          LET body == ReadRest(what, v, first)
              good == body.ok /\ (headerIn \/ what.kind = "header") IN
          /\ Goto(body.at)
          /\ version' = IF body.at.opened > first.opened THEN "unknown" ELSE v
          /\ mustSwap' = SwapFor(v)
          /\ astray' = (astray \/ ~IsFirst(word))
          /\ delivered' = IF body.ok /\ ~astray'
                          THEN Append(delivered, [words |-> <<word>> \o body.words, swap |-> SwapFor(v)])
                          ELSE delivered
          /\ headerIn' = good
          /\ stage' = IF good /\ what.kind # "stop" THEN "run" ELSE "between"
  /\ UNCHANGED <<list, words, ends>>

\* The manager after a run: the next one, if the reader is good for more.
ProcessNextRun ==
  /\ stage = "between"
  /\ stage' = IF OKToRead(At(opened, position)) THEN "run" ELSE "done"
  /\ headerIn' = FALSE
  /\ UNCHANGED <<list, words, ends, opened, position, version, mustSwap, delivered, astray>>

Next == Open \/ EndOfStream \/ ReadRecord \/ ProcessNextRun
Spec == Init /\ [][Next]_fileVars
-----------------------------------------------------------------------------
\* The records of the files in order, with the byte order each is in, up to
\* the first file that ends in the middle of a record.
Whole(f) == list[f].cut = 0 \/ ~list[f].there
Records(f) == [r \in DOMAIN list[f].records |->
                 [words |-> [p \in 1 .. list[f].records[r].length |-> <<f, r, p>>], swap |-> list[f].other]]
Expected ==
  FlattenSeq([f \in DOMAIN list |->
                IF list[f].there /\ \A g \in 1 .. f : Whole(g) THEN Records(f) ELSE <<>>])

(***************************************************************************)
(* The records come in the order of the files, each whole, once, and with  *)
(* the byte order of its own file, whatever the orders of the files before *)
(* it and whichever files are not there: up to the first file that is cut  *)
(* (what comes after that may be anything).                                *)
(***************************************************************************)
FilesInOrder ==
  LET expected == Expected
  IN  \A i \in DOMAIN delivered : i <= Len(expected) => delivered[i] = expected[i]

(***************************************************************************)
(* All of them come, but for what follows a run's last record in the last  *)
(* file if its first byte is zero (OKToRead takes it for the end), and an  *)
(* old header with nothing after it, or a first byte of zero.              *)
(***************************************************************************)
StopsEarly(r) == r.kind = "stop"
AllRecordsRead ==
  stage = "done" /\ Len(delivered) < Len(Expected) =>
    LET next == Expected[Len(delivered) + 1].words[1]
        last == Expected[Len(delivered)].words[1]
    IN  /\ opened = Len(list)
        /\ \/ delivered # <<>> /\ next[1] = last[1] /\ StopsEarly(RecordOf(last)) /\ RecordOf(next).zero
           \/ /\ OldHeader(next)
              /\ \A r \in DOMAIN list[next[1]].records : r = next[2] + 1 => list[next[1]].records[r].zero

AllInOrder == FilesInOrder /\ AllRecordsRead
=============================================================================
