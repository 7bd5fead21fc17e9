--------------------------- MODULE MCTPWorkerPool ---------------------------
(***************************************************************************)
(* Instances of TPWorkerPool for TLC.                                      *)
(***************************************************************************)
EXTENDS TPWorkerPool

CONSTANTS w1, w2, w3

Two == {w1, w2}
Three == {w1, w2, w3}
=============================================================================
