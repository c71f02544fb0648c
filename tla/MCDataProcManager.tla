-------------------------- MODULE MCDataProcManager --------------------------
(***************************************************************************)
(* Two processors: one for the data records, and one for the run records   *)
(* that ORRunDataProcessor has swapped.                                    *)
(***************************************************************************)
EXTENDS DataProcManager

MCDataIdOf == <<"adc", "run">>
=============================================================================
