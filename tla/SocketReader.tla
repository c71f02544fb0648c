---------------------------- MODULE SocketReader ----------------------------
(***************************************************************************)
(* ORSocketReader from the peer's records to the records ReadRecord hands  *)
(* to ORDataProcManager: the loop of SocketReadoutThread, the circular     *)
(* buffer between the threads (module CircularBuffer), and the main        *)
(* thread's ReadRecord, Read and ReadFromCircularBuffer.                   *)
(*                                                                         *)
(* A record is the sequence of the ordinals of its words.  The length the  *)
(* first word of a record announces is the only framing the reader has.    *)
(*                                                                         *)
(* While SocketReadoutThread receives a record it holds the write lock, for *)
(* as long as the peer takes to send it; the reader waits then.            *)
(***************************************************************************)
EXTENDS Integers, Sequences

CONSTANTS
  BufferLength,   (* fBufferLength, in words                             *)
  RecordLengths,  (* the record lengths the peer may announce            *)
  Requests,       (* word counts a Read may wait for: 1 or the rest of a record *)
  Cuts,           (* word counts after which the socket may fail in a record *)
  MaxRecords,     (* bound: records stored in a behaviour                *)
  MaxWords        (* bound: words announced by the peer in a behaviour   *)

ASSUME SocketAssumption ==
  /\ BufferLength \in Nat /\ BufferLength >= 16
  /\ RecordLengths \subseteq Nat /\ Requests \subseteq Nat \ {0}
  /\ MaxWords \in Nat /\ MaxRecords \in Nat
  /\ Cuts \subseteq 0 .. BufferLength
  /\ 1 \in Requests /\ \A n \in RecordLengths : 1 .. n - 1 \subseteq Requests

VARIABLES
  buffer, amountInBuffer, writeIndex, readIndex, lostLongCount, isRunning,
  writer, taker, localBuffer, overran, filled, taken, discarded, noticed,
  pc,            (* where SocketReadoutThread is between critical sections *)
  socketIsOK,    (* fSocketIsOK                                            *)
  accepted,      (* history: the records stored whole                      *)
  truncated,     (* history: the length announced by the record the socket *)
                 (* failed in, if a part of it was stored, and its ordinal *)
  localRead,     (* fLocalBuffer.readIndex                                 *)
  reader,        (* which Read of ReadRecord is under way, and the words it *)
                 (* still needs                                            *)
  record,        (* the words of the record read so far                    *)
  got            (* history: the records ReadRecord has returned           *)

ringVars   == <<buffer, amountInBuffer, writeIndex, readIndex, lostLongCount,
                isRunning, writer, taker, localBuffer, overran, filled, taken,
                discarded, noticed>>
threadVars == <<pc, socketIsOK, accepted, truncated>>
readerVars == <<localRead, reader, record, got>>
vars       == <<ringVars, threadVars, readerVars>>

Ring == INSTANCE CircularBuffer

Words(at, n) == [i \in 1 .. n |-> at + i - 1]
None         == [at |-> -1, n |-> 0]
AwaitFirst   == [phase |-> "first", need |-> 1]
-----------------------------------------------------------------------------
(***************************************************************************)
(* SocketReadoutThread: while (fSocketIsOK) { peek; measure; store or drop }. *)
(***************************************************************************)

\* The peeked word announces n words, and the room for them is measured.
Announce(n) ==
  /\ pc = "loop" /\ socketIsOK /\ Len(accepted) < MaxRecords
  /\ Ring!Room(n)
  /\ UNCHANGED <<threadVars, readerVars>>

\* The peek returns nothing (the peer closed), or the first word of the stream
\* is of no known version.
PeekFails ==
  /\ pc = "loop" /\ socketIsOK /\ isRunning /\ writer.at = "idle"
  /\ socketIsOK' = FALSE /\ pc' = "exit"
  /\ UNCHANGED <<ringVars, accepted, truncated, readerVars>>

\* The loop condition fails.
LeaveLoop ==
  /\ pc = "loop" /\ ~socketIsOK
  /\ pc' = "exit"
  /\ UNCHANGED <<ringVars, socketIsOK, accepted, truncated, readerVars>>

CountLost ==
  /\ Ring!Drop
  /\ pc' = "discard"
  /\ UNCHANGED <<socketIsOK, accepted, truncated, readerVars>>

\* The words of a lost record are read from the socket and forgotten, or the
\* socket fails meanwhile.
Discard ==
  /\ pc = "discard"
  /\ pc' = "loop"
  /\ socketIsOK' \in BOOLEAN
  /\ UNCHANGED <<ringVars, accepted, truncated, readerVars>>

\* The write lock is taken to receive a record there is room for ...
ReceiveBegin ==
  /\ pc = "loop" /\ writer.at = "fill"
  /\ pc' = "receive"
  /\ UNCHANGED <<ringVars, socketIsOK, accepted, truncated, readerVars>>

\* ... and given back when all of it has come,
StoreRecord ==
  /\ pc = "receive"
  /\ Ring!Fill
  /\ pc' = "loop"
  /\ accepted' = Append(accepted, Words(filled, writer.n))
  /\ UNCHANGED <<socketIsOK, truncated, readerVars>>

\* or when the socket fails: before any word of the record counts, or after the
\* words up to the end of the buffer have been counted.
StoreFails ==
  /\ pc = "receive"
  /\ \/ /\ \E k \in Cuts : Ring!FailFirst(k)
        /\ UNCHANGED truncated
     \/ /\ \E k \in Cuts : Ring!FailSecond(k)
        /\ truncated' = [at |-> filled, n |-> writer.n]
  /\ socketIsOK' = FALSE /\ pc' = "exit"
  /\ UNCHANGED <<accepted, readerVars>>

ThreadExit ==
  /\ pc = "exit"
  /\ Ring!Stop
  /\ pc' = "done"
  /\ UNCHANGED <<socketIsOK, accepted, truncated, readerVars>>

ThreadNext ==
  \/ \E n \in RecordLengths : Announce(n)
  \/ PeekFails \/ LeaveLoop \/ CountLost \/ Discard
  \/ ReceiveBegin \/ StoreRecord \/ StoreFails \/ ThreadExit
-----------------------------------------------------------------------------
(***************************************************************************)
(* ReadRecord: a Read of the first word, then one of the rest.  Read hands *)
(* out what the local buffer holds and refills it when it is used up.      *)
(***************************************************************************)
Available == Len(localBuffer) - localRead

\* The reader's sections on the circular buffer wait for the lock.
LockIsFree == pc # "receive"

\* ReadFromCircularBuffer is called for a used up local buffer ...
RefillBegin ==
  /\ reader.phase # "eof" /\ Available = 0 /\ LockIsFree
  /\ Ring!Check(reader.need)
  /\ UNCHANGED <<threadVars, readerVars>>

\* ... sleeps and looks again ...
RefillWake ==
  /\ LockIsFree
  /\ Ring!Wake
  /\ UNCHANGED <<threadVars, readerVars>>

\* ... and returns with words,
RefillEnd ==
  /\ LockIsFree
  /\ Ring!Commit
  /\ localRead' = 0
  /\ UNCHANGED <<threadVars, reader, record, got>>

\* or with none: Read is short, and ReadRecord returns false.
RefillNone ==
  /\ LockIsFree
  /\ Ring!WakeEmpty
  /\ localRead' = 0
  /\ reader' = [phase |-> "eof", need |-> 0]
  /\ UNCHANGED <<threadVars, record, got>>

\* The lengths the word w announces: one if it begins a record, else any.
LengthsOf(w) ==
  LET starts == {r \in {accepted[i] : i \in DOMAIN accepted} : r[1] = w}
  IN  IF starts # {} THEN {Len(r) : r \in starts}
      ELSE IF w = truncated.at THEN {truncated.n} ELSE RecordLengths

\* ReadFirstWord succeeds; a record of one word is complete.
FirstWord ==
  /\ reader.phase = "first" /\ taker.at = "idle" /\ Available > 0
  /\ LET w == localBuffer[localRead + 1]
     IN  \E n \in LengthsOf(w) :
           \/ /\ n = 1
              /\ got' = Append(got, <<w>>)
              /\ record' = << >> /\ reader' = AwaitFirst
           \/ /\ n > 1
              /\ record' = <<w>> /\ reader' = [phase |-> "rest", need |-> n - 1]
              /\ UNCHANGED got
           \/ /\ n = 0
              /\ reader' = [phase |-> "eof", need |-> 0]
              /\ UNCHANGED <<record, got>>
  /\ localRead' = localRead + 1
  /\ UNCHANGED <<ringVars, threadVars>>

\* One turn of Read's loop for ReadRestOfLongRecord.
MoreWords ==
  /\ reader.phase = "rest" /\ taker.at = "idle" /\ Available > 0
  /\ LET m    == Ring!Least(reader.need, Available)
         read == record \o SubSeq(localBuffer, localRead + 1, localRead + m)
     IN  /\ localRead' = localRead + m
         /\ IF m = reader.need
              THEN /\ got' = Append(got, read)
                   /\ record' = << >> /\ reader' = AwaitFirst
              ELSE /\ record' = read /\ reader' = [reader EXCEPT !.need = @ - m]
                   /\ UNCHANGED got
  /\ UNCHANGED <<ringVars, threadVars>>

ReaderNext ==
  RefillBegin \/ RefillWake \/ RefillEnd \/ RefillNone \/ FirstWord \/ MoreWords
-----------------------------------------------------------------------------
Init ==
  /\ Ring!Init
  /\ pc = "loop" /\ socketIsOK = TRUE
  /\ accepted = << >> /\ truncated = None
  /\ localRead = 0 /\ reader = AwaitFirst /\ record = << >> /\ got = << >>

Next == ThreadNext \/ ReaderNext

Spec == Init /\ [][Next]_vars

\* Sleeps end, and a lock that is free again and again is granted to the reader that
\* waits for it.  Nothing is assumed of the peer, nor of SocketReadoutThread, which may
\* keep the write lock for as long as it receives.
FairSpec == Spec /\ SF_vars(ReaderNext)
-----------------------------------------------------------------------------
TypeOK ==
  /\ Ring!TypeOK
  /\ pc \in {"loop", "receive", "discard", "exit", "done"} /\ socketIsOK \in BOOLEAN
  /\ accepted \in Seq(Seq(Nat)) /\ got \in Seq(Seq(Int)) /\ record \in Seq(Int)
  /\ truncated \in [at : Nat \cup {-1}, n : Nat]
  /\ localRead \in 0 .. Len(localBuffer) \/ taker.at # "idle"
  /\ reader \in [phase : {"first", "rest", "eof"}, need : Nat]

\* What ReadRecord returns is what a LossyRecordStream delivers: the records that
\* were stored whole, in order, once, intact, and all of them before it fails.
Stream == INSTANCE LossyRecordStream WITH
  Records <- {Words(at, n) : at \in 0 .. MaxWords, n \in RecordLengths \ {0}},
  kept <- accepted, closed <- ~isRunning, ended <- reader.phase = "eof"
ImplementsStream == Stream!Spec

\* And they are all delivered in the end, as is the end of the data, unless the peer
\* stops in the middle of a record and recv waits for the rest of it with the write lock
\* held: no pause of ReadFromCircularBuffer lasts for ever for another reason.
DeliversAll == []<>LockIsFree => Stream!Delivers
=============================================================================
