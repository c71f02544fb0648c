-------------------------- MODULE MCCircularBuffer --------------------------
(***************************************************************************)
(* A circular buffer of 32 words, the shortest with a local buffer of two, *)
(* and records that can leave it exactly full or wrap it at any slot.      *)
(***************************************************************************)
EXTENDS CircularBuffer

MCRecordLengths == {0, 15, 16}
MCRequests      == {1, 16}
=============================================================================
