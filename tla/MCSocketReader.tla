--------------------------- MODULE MCSocketReader ---------------------------
(***************************************************************************)
(* A circular buffer of 32 words (a local buffer of two) and records of 0, *)
(* 1 or 13 words: three of the longest do not fit, and the third wraps.    *)
(***************************************************************************)
EXTENDS SocketReader

MCRecordLengths == {0, 1, 13}
MCRequests      == 1 .. 13
MCCuts          == {0, 3}
=============================================================================
