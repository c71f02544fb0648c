----------------------------- MODULE ForeignReaders -----------------------------
(***************************************************************************)
(* ORIgorFileReader and ORSisCviFileReader, which make records of files    *)
(* Orca did not write: dumps of DGF4c buffers (Igor), and buckets of       *)
(* SIS3302 events (CVI).  Both invent the header, deliver it first, and    *)
(* read one file: unlike ORFileReader::Read, theirs opens no other.        *)
(*                                                                         *)
(* A word of an Igor file has 16 bits, one of a CVI file 32; the 16 words  *)
(* of a CVI header are one here, the file's number.  What a word says      *)
(* beyond lengths and delimiters, and whether its first byte is zero, is   *)
(* left out.                                                               *)
(***************************************************************************)
EXTENDS Integers, Sequences, SequencesExt, FiniteSets, FiniteSetsExt

CONSTANTS
  ForeignLists,   (* lists of files [format, blocks, head, size, cut]     *)
  Byte,           (* the number of values of a byte                       *)
  Uninitialized   (* the lengths an uninitialized word may give a bucket  *)

VARIABLES
  list,           (* the files of the command line                        *)
  input,          (* the words of the first, the only one that is read    *)
  opened,         (* how many were opened                                 *)
  position,       (* the words read of the last                           *)
  stage,          (* where the manager's loop is                          *)
  headerIn,       (* headerIsReadIn                                       *)
  delivered,      (* the records processed: <<file, first word, length>>  *)
  known,          (* fStreamVersion is known: the header was delivered    *)
  fRunNumber,     (* the run number of the next header, less one          *)
  bucket,         (* fBucket                                              *)
  bucketPosition  (* fBucketPosition                                      *)
foreignVars == <<list, input, opened, position, stage, headerIn, delivered, known, fRunNumber, bucket, bucketPosition>>

(***************************************************************************)
(* The files.  A block of an Igor file is a buffer, a sequence of words    *)
(* whose first is its length; one of a CVI file is a bucket, a sequence of *)
(* events, each a sequence of data that ends in a trailer.                 *)
(***************************************************************************)
kEOF == -1
kBucketHeader == -2
kEventTrailer == -3
BucketWords(events) == <<kBucketHeader, 1, 1, Len(FlattenSeq(events))>> \o FlattenSeq(events)
BucketsOf(file) == [i \in DOMAIN file.blocks |-> BucketWords(file.blocks[i])]
AllWords(file) == IF file.format = "igor" THEN FlattenSeq(file.blocks)
                  ELSE <<file.head>> \o FlattenSeq(BucketsOf(file)) \o file.tail

\* Buffers, buckets and events are not empty; the data of an event are no delimiters, and the first
\* bytes of these are not zero.
Event == {e \in Seq(Int) \ {<<>>} : \A i \in DOMAIN e : IF i = Len(e) THEN e[i] = kEventTrailer
                                    ELSE e[i] \notin {kEOF, kBucketHeader, kEventTrailer}}
ASSUME ForeignAssumption ==
  /\ kEOF % Byte # 0 /\ kBucketHeader % Byte # 0 /\ Uninitialized \subseteq Nat
  /\ \A l \in ForeignLists :
       /\ DOMAIN l = 1 .. Len(l) /\ Len(l) \in Nat \ {0}
       /\ l[1].size \in Nat /\ l[1].cut \in Nat
       /\ \/ l[1].format = "igor" /\ l[1].blocks \in Seq(Seq(Int) \ {<<>>})
          \/ /\ l[1].format = "cvi" /\ l[1].blocks \in Seq(Seq(Event) \ {<<>>})
             /\ l[1].head \in Int /\ l[1].size # 0 /\ l[1].tail \in {<<>>, <<kEOF>>}

Words(f) == LET all == AllWords(list[f]) IN SubSeq(all, 1, Len(all) - list[f].cut)
Format == list[opened].format

Init ==
  /\ list \in ForeignLists /\ input = Words(1) /\ opened = 0 /\ position = 0
  /\ stage = "open" /\ headerIn = FALSE /\ delivered = <<>>
  /\ known = FALSE /\ fRunNumber = 0 /\ bucket = <<>> /\ bucketPosition = 0

(***************************************************************************)
(* OKToRead of ORFileReader at a position: files are left, or a byte is    *)
(* there and is not zero.                                                  *)
(***************************************************************************)
OKToRead(at) == \/ opened < Len(list)
                \/ at < Len(input) /\ input[at + 1] % Byte # 0
End(p)    == Min({p, Len(input)})

Open ==
  /\ stage = "open"
  /\ opened' = 1 /\ known' = FALSE /\ stage' = "run" /\ headerIn' = FALSE
  /\ UNCHANGED <<list, input, position, delivered, fRunNumber, bucket, bucketPosition>>

(***************************************************************************)
(* ReadHeader.  The Igor header is text that depends on the run number     *)
(* only; that of a CVI file is made of its first words, and empty if they  *)
(* cannot be read: the manager then has no header.                         *)
(***************************************************************************)
IgorHeader == /\ Format = "igor" /\ fRunNumber' = fRunNumber + 1 /\ headerIn' = TRUE
              /\ stage' = "run" /\ UNCHANGED position
CviHeader  == /\ Format = "cvi" /\ headerIn' = OKToRead(position)
              /\ position' = IF headerIn' THEN position + 1 ELSE position
              /\ fRunNumber' = IF headerIn' THEN list[opened].head ELSE fRunNumber
              /\ stage' = IF headerIn' THEN "run" ELSE "between"
ReadHeader ==
  /\ stage = "run" /\ ~known
  /\ IgorHeader \/ CviHeader
  /\ known' = TRUE
  /\ UNCHANGED <<list, input, opened, delivered, bucket, bucketPosition>>

(***************************************************************************)
(* The manager with what ReadRecord returned: a record without a header    *)
(* before it ends the run as well.                                         *)
(***************************************************************************)
Return(ok, record) ==
  /\ stage' = IF ok /\ headerIn THEN "run" ELSE "between"
  /\ delivered' = IF ok /\ headerIn THEN Append(delivered, record) ELSE delivered
  /\ UNCHANGED <<list, input, opened, headerIn, known, fRunNumber>>

(***************************************************************************)
(* An Igor buffer: two words, of which the first is its length, and the    *)
(* others.  A length below two asks for a negative number of bytes, which  *)
(* leaves the stream at its end.  The id is that of ORDGF4cModel:Event.    *)
(***************************************************************************)
BufferRest(length) == length - 2
ReadIgorRecord ==
  LET length == input[position + 1]
      start  == End(position + 2)
      all    == start + BufferRest(length)
      head   == position + 2 <= Len(input)
      more   == head /\ OKToRead(start)
      whole  == more /\ length >= 2 /\ all <= Len(input)
  IN  /\ stage = "run" /\ known /\ Format = "igor"
      /\ position' = IF ~more THEN start ELSE IF whole THEN all ELSE Len(input)
      /\ Return(whole /\ OKToRead(all), <<opened, position + 1, all - position>>)
      /\ UNCHANGED <<bucket, bucketPosition>>

(***************************************************************************)
(* ReadBucket: words up to a bucket header, which may be lost, its number, *)
(* a reserved word and the length.  The words of the bucket are known by   *)
(* their positions, 0 for one that was not read.  A length that was not    *)
(* read is whatever the word held.  If another file is left, a search that *)
(* finds nothing does not end.                                             *)
(***************************************************************************)
Stops(from) == {q \in from + 1 .. Len(input) : input[q] \in {kBucketHeader, kEOF} \/ ~OKToRead(q)}
Found(from) == Min(Stops(from))
ReadBucket(from, uninitialized) ==
  LET q == Found(from)
      length == IF q + 3 <= Len(input) THEN input[q + 3] ELSE uninitialized
  IN  IF ~OKToRead(from) THEN [ok |-> FALSE, at |-> from, words |-> bucket]
      ELSE IF input[q] # kBucketHeader THEN [ok |-> FALSE, at |-> q, words |-> bucket]
      ELSE [ok |-> TRUE, at |-> End(q + 3 + length),
            words |-> [i \in 1 .. length |-> IF q + 3 + i <= Len(input) THEN q + 3 + i ELSE 0]]

(***************************************************************************)
(* A CVI event: as long as the header says, or two words more in wrap      *)
(* mode; else the bucket is searched for the next trailer, and the record  *)
(* starts with it.  What is read behind the bucket is position 0.          *)
(***************************************************************************)
IsTrailer(b, i) == i <= Len(b) /\ b[i] # 0 /\ input[b[i]] = kEventTrailer
\* Mutant: events in wrap mode are not recognized.
AsHeaderSays(b, p, n) == n
EventLength(b, p, n) == IF IsTrailer(b, p + n) THEN n ELSE n + 2
Trailers(b, p) == {i \in p + 1 .. Len(b) : IsTrailer(b, i)}
CviReads(uninitialized) ==
  LET read == IF bucketPosition = Len(bucket) THEN ReadBucket(position, uninitialized)
              ELSE [ok |-> TRUE, at |-> position, words |-> bucket]
      p == IF bucketPosition = Len(bucket) THEN 0 ELSE bucketPosition
      b == read.words
      n == EventLength(b, p, list[opened].size)
      start == IF IsTrailer(b, p + n) THEN p ELSE Min(Trailers(b, p)) - 1
  IN  /\ stage = "run" /\ known /\ Format = "cvi"
      /\ bucketPosition = Len(bucket) /\ OKToRead(position) => Stops(position) # {}
      /\ position' = read.at /\ bucket' = b
      /\ IF ~read.ok \/ p + list[opened].size > Len(b)
         THEN bucketPosition' = (IF read.ok THEN p ELSE bucketPosition) /\ Return(FALSE, <<>>)
         ELSE IF ~IsTrailer(b, p + n) /\ Trailers(b, p) = {}
         THEN bucketPosition' = Len(b) /\ Return(FALSE, <<>>)
         ELSE /\ bucketPosition' = start + n
              /\ Return(OKToRead(read.at), <<opened, b[start + 1], n>>)

ReadCviRecord == \E uninitialized \in Uninitialized : CviReads(uninitialized)

ProcessNextRun ==
  /\ stage = "between"
  /\ stage' = IF OKToRead(position) THEN "run" ELSE "done"
  /\ headerIn' = FALSE
  /\ UNCHANGED <<list, input, opened, position, delivered, known, fRunNumber, bucket, bucketPosition>>

Next == Open \/ ReadHeader \/ ReadIgorRecord \/ ReadCviRecord \/ ProcessNextRun
Spec == Init /\ [][Next]_foreignVars
FairSpec == Spec /\ WF_foreignVars(Next)
-----------------------------------------------------------------------------
\* The buffers of an Igor file and the events of a CVI file, up to the first
\* that is none.
Before(bs, i) == Len(FlattenSeq(SubSeq(bs, 1, i - 1)))
BlockPlaces(f) == [i \in DOMAIN list[f].blocks |->
                     <<f, Before(list[f].blocks, i) + 1, Len(list[f].blocks[i])>>]
EventPlaces(f, i) ==
  LET events == list[f].blocks[i]
      data   == 1 + Before(BucketsOf(list[f]), i) + 4
  IN  [j \in DOMAIN events |-> <<f, data + Before(events, j) + 1, Len(events[j])>>]
Blocks(f) == IF list[f].format = "igor" THEN BlockPlaces(f)
             ELSE FlattenSeq([i \in DOMAIN list[f].blocks |-> EventPlaces(f, i)])
WellFormed(f, place) ==
  LET length == IF list[f].format = "igor" THEN {input[place[2]]} \ {1} ELSE {list[f].size, list[f].size + 2}
  IN  place[2] + place[3] - 1 <= Len(input) /\ place[3] \in length
Expected ==
  LET all == Blocks(1)
      bad == {i \in DOMAIN all : ~WellFormed(1, all[i])}
  IN  SubSeq(all, 1, Min({i - 1 : i \in bad} \cup {Len(all)}))

(***************************************************************************)
(* The records are the buffers or events of the file, each once and whole, *)
(* in order, up to one that is malformed.  Those that are missing when the *)
(* reading is over are the ones at which the reader takes the next byte,   *)
(* zero or not there after what it has read well, for an error: after an   *)
(* Igor buffer or its first two words, after a CVI bucket, or at the start *)
(* of a CVI file.                                                          *)
(***************************************************************************)
ZeroOrEnd(q) == q > Len(input) \/ input[q] % Byte = 0
StopsAt(place) ==
  LET after == place[2] + place[3]
  IN  IF list[1].format = "igor" THEN ZeroOrEnd(after) \/ ZeroOrEnd(place[2] + 2)
      ELSE \/ ZeroOrEnd(1)
           \/ \A q \in after .. Len(input) : input[q] \notin {kBucketHeader, kEOF}
RecordsOfFile ==
  LET expected == Expected
      n == Len(delivered)
  IN  /\ \A i \in 1 .. Min({n, Len(expected)}) : delivered[i] = expected[i]
      /\ stage = "done" /\ n < Len(expected) => StopsAt(expected[n + 1])

\* The manager comes to the end of the files it was given.
ReadingEnds == <>(stage = "done")
=============================================================================
