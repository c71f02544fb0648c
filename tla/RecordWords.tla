----------------------------- MODULE RecordWords -----------------------------
(***************************************************************************)
(* ORVDataDecoder: what every decoder knows of a record, an array of       *)
(* 32-bit words.  A value that a decoder takes from a record is the set of *)
(* the bits it is made of; the values themselves are not modelled.         *)
(*                                                                         *)
(* A record r has a card (whose decoder reads it), a length in words, and  *)
(* what its layout depends on: flags, and numbers n by their names.  A     *)
(* decoder gives its rows (GetNRows), and for each row the accessors of    *)
(* the class as a function from their names to bits.  An accessor that     *)
(* reads nothing (the number of the row, say) has no bits.                 *)
(*                                                                         *)
(* The columns of a tree are a function from the accessors its branches    *)
(* are filled from to the widths of the branches in bits.                  *)
(***************************************************************************)
EXTENDS Integers, Sequences, FiniteSets, TLC

\* The bits lo .. hi of the record's word w, which is read as a number of unit bytes: to be
\* read after a swap it must have been swapped in that unit.
In(w, lo, hi, unit) == {[word |-> w, lo |-> lo, hi |-> hi, unit |-> unit]}
Bits(w, lo, hi)     == In(w, lo, hi, 4)
Word(w)             == Bits(w, 0, 31)
\* A half-word, counted from the record's start, and its bits.
HalfBits(h, lo, hi) == In(h \div 2, 16 * (h % 2) + lo, 16 * (h % 2) + hi, 2)
\* A double that begins at word w, and the bytes of word w.
Double(w)           == In(w, 0, 31, 8) \cup In(w + 1, 0, 31, 8)
Chars(w)            == In(w, 0, 31, 1)
Derived             == {}
-----------------------------------------------------------------------------
IsShort(r)  == "short" \in r.flags
LengthOf(r) == r.length
Has(r, f)   == f \in r.flags

\* CrateOf and CardOf.
CrateOf(r) == Bits(IF IsShort(r) THEN 0 ELSE 1, 21, 24)
CardOf(r)  == Bits(IF IsShort(r) THEN 0 ELSE 1, 16, 20)
CrateCard(r) == [crate |-> CrateOf(r), card |-> CardOf(r)]

\* n rows, from words first on: Row(i) for the i-th.
Rows(n, Row(_)) == [i \in 1 .. n |-> Row(i - 1)]

\* The values of words lo .. hi as an accessor that gives a pointer to them reads them.
WordsOf(lo, hi) == UNION {Word(w) : w \in lo .. hi}

\* Branches of one leaf type: s, i or F, l or D; and those of GetPar, which gives a UInt_t.
Leaf(width, names) == [name \in names |-> width]
Ints(names)        == Leaf(32, names)
-----------------------------------------------------------------------------
(***************************************************************************)
(* Swap: which words are swapped, and in units of how many bytes.  Word 0  *)
(* is swapped by the reader.                                               *)
(***************************************************************************)
Swapped(words, unit) == {[word |-> w, unit |-> unit] : w \in words}

\* ORVDataDecoder::Swap.
SwapAll(r) == Swapped(1 .. LengthOf(r) - 1, 4)

\* Two words swapped and exchanged are a double swapped.
SwapDouble(w) == Swapped({w, w + 1}, 8)
=============================================================================
