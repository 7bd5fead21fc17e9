----------------------------- MODULE MCShmemSpin -----------------------------
(***************************************************************************)
(* Instances of ShmemSpin for TLC.                                         *)
(***************************************************************************)
EXTENDS ShmemSpin

(* The promise of an abort: pending calls of the rank do not go on, so     *)
(* that none of them returns true any more. Stated of the code's own       *)
(* abort(), whose marker a call in progress may overwrite.                 *)
AbortEndsPending ==
  [][\A r \in Ranks : aborter[r] = "marked" => done'[r] = done[r]]_shmemVars
=============================================================================
