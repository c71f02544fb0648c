--------------------------- MODULE MCForeignReaders ---------------------------
(***************************************************************************)
(* Igor and CVI files for TLC.  A byte has three values, so that small     *)
(* words have a first byte that is zero and one that is not.               *)
(***************************************************************************)
EXTENDS ForeignReaders
MCByte == 3
\* A bucket of no words, and one longer than any event.
MCUninitialized == {0, 7}
\* Buffers of the right length, one too short to be one, one that ends with the file.
Buffers == {<<2, 1>>, <<3, 1, 1>>, <<4, 1, 1, 0>>, <<4, 1, 0, 1>>, <<5, 1, 1, 1, 0>>, <<1>>}
Igor(bs, c) == [format |-> "igor", blocks |-> bs, head |-> 1, size |-> 0, cut |-> c, tail |-> <<>>]
Ended(n) == [i \in 1 .. n |-> IF i = n THEN kEventTrailer ELSE 1]
Buckets == {<<Ended(3)>>, <<Ended(3), Ended(5)>>, <<Ended(5), Ended(3), Ended(3)>>, <<Ended(2)>>, <<Ended(3), Ended(4), Ended(3)>>}
Cvi(bs, h, c, t) == [format |-> "cvi", blocks |-> bs, head |-> h, size |-> 3, cut |-> c, tail |-> t]
MCForeignLists ==
  {<<Igor(bs, c)>> : bs \in SeqOf(Buffers, 3) \ {<<>>}, c \in 0 .. 1} \cup
  {<<Cvi(bs, h, c, t)>> : bs \in SeqOf(Buckets, 2) \ {<<>>}, h \in {0, 1}, c \in {0, 1, 4}, t \in {<<>>, <<kEOF>>}}
\* Several files, as the usage of orcarootIgor allows.
Series == {<<Igor(<<<<4, 1, 1, 1>>>>, 0), Igor(<<<<4, 1, 1, 1>>>>, 0)>>, <<Igor(<<<<4, 1, 1, 1>>>>, 0)>>}
=============================================================================
