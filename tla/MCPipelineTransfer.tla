------------------------- MODULE MCPipelineTransfer -------------------------
(***************************************************************************)
(* Instances of PipelineTransfer for TLC: three stages on every choice of  *)
(* two GPUs of one vendor, one of another, and the host.                   *)
(***************************************************************************)
EXTENDS PipelineTransfer, TLC

CONSTANTS c1, c2, r1

ThreeGPUs == {c1, c2, r1}
Vendors == (c1 :> "cuda") @@ (c2 :> "cuda") @@ (r1 :> "rocm")

OwnTensors ==
  [device : [1..3 -> ThreeGPUs \cup {Cpu}], context : {"flat", "hierarchical"},
   shared : {FALSE}]
SharedTensor ==
  [device : [1..3 -> ThreeGPUs \cup {Cpu}], context : {"flat"}, shared : {TRUE}]
Pipelines == OwnTensors \cup SharedTensor
NoFault == {}
DeviceFaults == {"allocate", "upload", "peer"}
Downloads == {"download"}
=============================================================================
