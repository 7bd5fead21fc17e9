--------------------------- MODULE MCWeightUpload ---------------------------
(***************************************************************************)
(* Instances of WeightUpload for TLC.                                      *)
(***************************************************************************)
EXTENDS WeightUpload
=============================================================================
