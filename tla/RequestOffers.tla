------------------------------ MODULE RequestOffers -------------------------------
(***************************************************************************)
(* Requests for TLC: one for each handler and one that none takes, those   *)
(* that cannot be read from some part on, and those with an input of the   *)
(* wrong type, or none.                                                    *)
(***************************************************************************)
EXTENDS Integers, TLC
Ask(type, odd) == [type |-> type, readable |-> "all", odd |-> odd, formula |-> TRUE]
Debug == "ORDebugRequestProcessor"
Fit   == "OROrcaRequestFitProcessor"
FFT   == "OROrcaRequestFFTProcessor"
None  == [x \in {} |-> ""]
MCOffers ==
  {Ask(t, None) : t \in {Debug, Fit, FFT, "NoSuchProcessor"}}
  \cup {[Ask(Fit, None) EXCEPT !.formula = FALSE]}
  \cup {[Ask(Debug, None) EXCEPT !.readable = p] : p \in {"xml", "tag", "type", "inputs"}}
  \cup {Ask(Fit, "FitYValues" :> g) : g \in {"none", "ints", "real", "missing"}}
  \cup {Ask(Fit, "FitParameters" :> "none"), Ask(Fit, "FitFunction" :> "dict")}
  \cup {Ask(FFT, "Waveform" :> g) : g \in {"none", "real"}}
  \cup {Ask(Debug, "DebugIntArray" :> g) : g \in {"int", "reals", "none"}}
=============================================================================
