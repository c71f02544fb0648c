---------------------------- MODULE FileLists ----------------------------
(***************************************************************************)
(* Lists of files for TLC: a run, two runs or only a header, in either    *)
(* byte order, with a header of the old form or the new one, whole or cut, *)
(* and files that are not there.                                           *)
(***************************************************************************)
EXTENDS Integers, Sequences
Rec(kind, length, zero) == [kind |-> kind, length |-> length, zero |-> zero]
File(other, old, cut) ==
  [there |-> TRUE, other |-> other, old |-> old, cut |-> cut,
   records |-> <<Rec("header", 3, other /\ ~old), Rec("data", 2, FALSE), Rec("short", 1, FALSE),
                 Rec("stop", 2, FALSE)>>]
TwoRuns(other) == [File(other, FALSE, 0) EXCEPT !.records = @ \o <<Rec("header", 2, other), Rec("stop", 1, other)>>]
OldZero == [File(TRUE, TRUE, 0) EXCEPT !.records[2].zero = TRUE]
HeaderOnly(old) == [File(TRUE, old, 0) EXCEPT !.records = <<Rec("header", 2, FALSE)>>]
Missing == [File(FALSE, FALSE, 0) EXCEPT !.there = FALSE]
AllFiles == {File(o, FALSE, c) : o \in BOOLEAN, c \in 0 .. 3} \cup {File(TRUE, TRUE, c) : c \in {0, 6}}
         \cup {TwoRuns(FALSE), TwoRuns(TRUE), HeaderOnly(TRUE), HeaderOnly(FALSE), OldZero, Missing}
MCLists == {<<f>> : f \in AllFiles} \cup {<<f, g>> : f, g \in AllFiles} \cup
           {<<f, g, h>> : f, g, h \in AllFiles}
=============================================================================
