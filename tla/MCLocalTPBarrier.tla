-------------------------- MODULE MCLocalTPBarrier --------------------------
(***************************************************************************)
(* Instances of LocalTPBarrier for TLC.                                    *)
(***************************************************************************)
EXTENDS LocalTPBarrierHistory

CONSTANTS d1, d2, d3

Three == {d1, d2, d3}

(* Every stage of the graph has a name of its own. *)
Distinct == [s \in 1..Stages |-> s]
=============================================================================
