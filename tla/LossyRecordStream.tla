------------------------- MODULE LossyRecordStream -------------------------
(***************************************************************************)
(* What a reader of a socket may rely on.  Of the records the peer sends,  *)
(* some are kept and the others are lost as a whole; those kept reach the  *)
(* reader in order, each exactly once and unchanged; and the reader sees   *)
(* the end of the data only after the last of them.                        *)
(***************************************************************************)
EXTENDS Naturals, Sequences

CONSTANT Records    (* the records a peer may send *)

VARIABLES
  kept,             (* the records kept so far                             *)
  got,              (* the records the reader has been given               *)
  closed,           (* nothing more will be kept                           *)
  ended             (* the reader has been told that nothing more will come *)

vars == <<kept, got, closed, ended>>

Keep(r) ==
  /\ ~closed
  /\ kept' = Append(kept, r)
  /\ UNCHANGED <<got, closed, ended>>

CloseStream ==
  /\ ~closed
  /\ closed' = TRUE
  /\ UNCHANGED <<kept, got, ended>>

Deliver ==
  /\ Len(got) < Len(kept)
  /\ got' = Append(got, kept[Len(got) + 1])
  /\ UNCHANGED <<kept, closed, ended>>

End ==
  /\ closed /\ got = kept /\ ~ended
  /\ ended' = TRUE
  /\ UNCHANGED <<kept, got, closed>>

Init == kept = << >> /\ got = << >> /\ closed = FALSE /\ ended = FALSE
Next == (\E r \in Records : Keep(r)) \/ CloseStream \/ Deliver \/ End
Spec == Init /\ [][Next]_vars

\* Whatever is kept is delivered in the end, and the end is announced in the end.
Delivers == WF_vars(Deliver) /\ WF_vars(End)
=============================================================================
