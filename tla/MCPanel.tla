------------------------------ MODULE MCPanel -------------------------------
(***************************************************************************)
(* Small instances of Panel for TLC.                                       *)
(***************************************************************************)
EXTENDS Panel, TLC

\* The first prompt alone is larger than the smallest max_tpm.
SmallEstimate == <<3, 1>>

Option(rps, tpm, workers) == [max_rps |-> rps, max_tpm |-> tpm, max_workers |-> workers]
SmallOptions == {Option(1, None, 2), Option(0, None, 2), Option(None, 2, 2),
                 Option(2, 4, 2), Option(None, None, 1)}
=============================================================================
