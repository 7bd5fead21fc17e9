----------------------------- MODULE MCTPForward -----------------------------
(***************************************************************************)
(* Instances of TPForward for TLC.                                         *)
(***************************************************************************)
EXTENDS TPForward, TLC

CONSTANTS w1, w2, w3

Two == {w1, w2}
Three == {w1, w2, w3}

Symmetry == Permutations(Three)
=============================================================================
