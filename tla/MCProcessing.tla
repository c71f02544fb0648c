----------------------------- MODULE MCProcessing -----------------------------
(***************************************************************************)
(* Small instances of the readers of files and of the processors for TLC.  *)
(***************************************************************************)
EXTENDS Processing, MCForeignReaders, FileLists, RequestOffers

\* Records in two runs: of two triggers and the clocks they share a tree with, or of a
\* trigger and its shapers.
MCSetups == {{"gtid", "clock", "otherClock", "subRun"}, {"trigger", "shaper", "subRun"}}
=============================================================================
