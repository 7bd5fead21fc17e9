-------------------------- MODULE PipelineTransfer --------------------------
(***************************************************************************)
(* Forward passes through the pipeline stages of one rank: a stage runs on *)
(* its device, the hidden state is transferred to the next stage's device  *)
(* and copied into that stage's working buffer (RankOrchestrator::         *)
(* forwardPP, LocalPPContext and HierarchicalPPContext::transfer,          *)
(* TransferEngine::copyActivation), or, in the graph over all stages, is   *)
(* transferred in place (LocalPPTransferStage). Every pass goes through    *)
(* the same tensors, which remember where the last pass, or its failure,   *)
(* left them.                                                              *)
(*                                                                         *)
(* An activation is named by the pass and the stage that computed it.      *)
(***************************************************************************)
EXTENDS TensorCoherence

CONSTANTS
  Setups,    \* pipelines: the stages' devices, the context, shared or own tensors
  MaxPasses  \* bound on the number of passes

VARIABLES
  setup,    \* the pipeline, fixed at start
  tensors,  \* working buffer of each stage (all use the first, if shared)
  arena,    \* what the arena of each buffer says of it
  pass, stage, at,  \* the pass, its stage and where in the stage it is
  written   \* history: the activation last written to each buffer

pipelineVars == <<setup, tensors, arena, pass, stage, at, written>>

Stages == DOMAIN setup.device
LastStage == Cardinality(Stages)
DeviceOf(s) == setup.device[s]
BufferOf(s) == IF setup.shared THEN 1 ELSE s

(* The working buffer of the stage that runs. *)
Here == BufferOf(stage)

ASSUME PipelineAssumption ==
  /\ MaxPasses \in Nat
  /\ \A p \in Setups : /\ p.context \in {"flat", "hierarchical"}
                       /\ p.shared \in BOOLEAN
                       /\ Cardinality(DOMAIN p.device) \in Nat \ {0}
                       /\ p.device \in [1..Cardinality(DOMAIN p.device) -> Devices]

PipelineInit ==
  /\ setup \in Setups
  /\ tensors = [s \in Stages |-> NewTensor]
  /\ arena = [s \in Stages |-> "uninitialized"]
  /\ written = [s \in Stages |-> Garbage]
  /\ pass = 0 /\ stage = 1 /\ at = "idle"

-----------------------------------------------------------------------------

(* The tensor of a buffer becomes one of the outcomes; a failure ends the  *)
(* pass.                                                                   *)
Becomes(b, outcomes, next) ==
  \E o \in outcomes :
    /\ tensors' = [tensors EXCEPT ![b] = o.tensor]
    /\ at' = IF o.ok THEN next ELSE "idle"

(* The result of a kernel on the device of the stage. *)
Computes(b, outcomes, activation, next) ==
  LET d == DeviceOf(stage)
      Marked(t) == Ok(MarkWritten(t, d))
  IN /\ \E o \in Then(Then(outcomes, LAMBDA t : KernelWrites(t, d, activation)), Marked) :
          /\ tensors' = [tensors EXCEPT ![b] = o.tensor]
          /\ at' = IF o.ok THEN next ELSE "idle"
          /\ arena' = IF o.ok THEN [arena EXCEPT ![b] = AuthorityOf(d)] ELSE arena
          /\ written' = IF o.ok THEN [written EXCEPT ![b] = activation] ELSE written

(* A pass begins by promoting the first stage's buffer again if it is not  *)
(* on the stage's device; the result is not looked at.                     *)
BeginPass ==
  /\ at = "idle" /\ pass < MaxPasses
  /\ pass' = pass + 1 /\ stage' = 1
  /\ IF tensors[1].gpu \notin {None, DeviceOf(1)} /\ ~setup.shared
       THEN \E o \in AllocateOnDevice(tensors[1], DeviceOf(1)) :
              tensors' = [tensors EXCEPT ![1] = o.tensor]
       ELSE UNCHANGED tensors
  /\ at' = "embed"
  /\ UNCHANGED <<setup, arena, written>>

(* The embedding only writes. *)
Embed ==
  /\ at = "embed"
  /\ Computes(1, PrepareForWrite(tensors[1], DeviceOf(1)), <<pass, 0>>, "layers")
  /\ UNCHANGED <<setup, pass, stage>>

(* The layers of a stage work in place: input and output coherence ...     *)
PrepareLayers ==
  /\ at = "layers"
  /\ Becomes(Here,
       Then(PrepareForRead(tensors[Here], arena[Here], DeviceOf(stage)),
            LAMBDA t : PrepareForWrite(t, DeviceOf(stage))),
       "run")
  /\ UNCHANGED <<setup, arena, pass, stage, written>>

(* ... and the kernels. *)
RunLayers ==
  /\ at = "run"
  /\ Computes(Here, Ok(tensors[Here]), <<pass, stage>>, "ran")
  /\ UNCHANGED <<setup, pass, stage>>

(* A snapshot or the gathering of logits reads the output on the host.     *)
ReadOutput ==
  /\ at = "ran"
  /\ Becomes(Here, Data(tensors[Here]), "ran")
  /\ UNCHANGED <<setup, arena, pass, stage, written>>

-----------------------------------------------------------------------------
(* From a stage to the next. *)

(* Both contexts bring the tensor to the source GPU first if it is not     *)
(* authoritative there.                                                    *)
AtSource(t, from) ==
  IF t.auth = from THEN Ok(t)
  ELSE Then(EnsureOnDevice(t, from), LAMBDA u : Ok(DeviceAuthoritative(u, from)))

UploadAs(t, to) ==
  Then(EnsureOnDevice(t, to), LAMBDA u : Ok(DeviceAuthoritative(u, to)))

(* LocalPPContext::transfer() *)
FlatTransfer(t, from, to) ==
  CASE from = to -> Ok(t)
    [] to = Cpu /\ from # Cpu -> Then(Data(t), LAMBDA u : Ok(InvalidateGpuData(u)))
    [] from = Cpu /\ to # Cpu -> UploadAs(t, to)
    [] OTHER ->
         Then(AtSource(t, from),
              LAMBDA u : IF VendorOf[from] = VendorOf[to] THEN TransferTo(u, to)
                         ELSE TransferActivation(u, to))

(* Mutant: the data is not taken to the host before the GPU's is dropped.  *)
HierarchicalTransferNoDownload(t, from, to) ==
  CASE from = to -> Ok(t)
    [] to = Cpu /\ from # Cpu -> Then(UploadAs(t, from), Data)
    [] from = Cpu /\ to # Cpu -> Then(Data(t), LAMBDA u : UploadAs(u, to))
    [] OTHER ->
         Then(AtSource(t, from),
              LAMBDA u : IF VendorOf[from] = VendorOf[to] THEN TransferTo(u, to)
                         ELSE UploadAs(InvalidateGpuData(u), to))

(* HierarchicalPPContext::transferSingleToSingle() *)
HierarchicalTransfer(t, from, to) ==
  CASE from = to -> Ok(t)
    [] to = Cpu /\ from # Cpu -> Then(UploadAs(t, from), Data)
    [] from = Cpu /\ to # Cpu -> Then(Data(t), LAMBDA u : UploadAs(u, to))
    [] OTHER ->
         Then(AtSource(t, from),
              LAMBDA u : IF VendorOf[from] = VendorOf[to] THEN TransferTo(u, to)
                         ELSE Then(Data(u), LAMBDA v : UploadAs(InvalidateGpuData(v), to)))

Transfer ==
  /\ at = "ran" /\ stage < LastStage
  /\ Becomes(Here,
       IF setup.context = "flat"
         THEN FlatTransfer(tensors[Here], DeviceOf(stage), DeviceOf(stage + 1))
         ELSE HierarchicalTransfer(tensors[Here], DeviceOf(stage), DeviceOf(stage + 1)),
       IF setup.shared THEN "layers" ELSE "handoff")
  /\ stage' = stage + 1
  /\ UNCHANGED <<setup, arena, pass, written>>

(* The next stage copies the hidden state into its working buffer.         *)
Handoff ==
  /\ at = "handoff"
  /\ \E o \in CopyActivation(tensors[stage - 1], tensors[stage], DeviceOf(stage)) :
       /\ tensors' = [tensors EXCEPT ![stage - 1] = o.src, ![stage] = o.dst]
       /\ at' = IF o.ok THEN "layers" ELSE "idle"
       /\ written' = IF o.ok THEN [written EXCEPT ![stage] = <<pass, stage - 1>>] ELSE written
  /\ UNCHANGED <<setup, arena, pass, stage>>

FinishPass ==
  /\ at = "ran" /\ stage = LastStage
  /\ at' = "idle"
  /\ UNCHANGED <<setup, tensors, arena, pass, stage, written>>

PipelineNext ==
  \/ BeginPass \/ Embed \/ PrepareLayers \/ RunLayers \/ ReadOutput
  \/ Transfer \/ Handoff \/ FinishPass

PipelineSpec == PipelineInit /\ [][PipelineNext]_pipelineVars

-----------------------------------------------------------------------------
(* Properties. *)

(* The kernels of a stage find, on their own device, exactly what the      *)
(* stage before computed in this pass, wherever the last pass, a host read *)
(* or a failure left the tensor.                                           *)
StageReadsItsInput ==
  at = "run" =>
    /\ DeviceOf(stage) # Cpu => tensors[Here].gpu = DeviceOf(stage)
    /\ KernelReads(tensors[Here], DeviceOf(stage)) = <<pass, stage - 1>>

(* A copy that the coherence state calls valid is the last one written: no *)
(* host access, upload or download of a tensor in use in this pass sees    *)
(* older data.                                                             *)
ValidCopiesAreCurrent ==
  at # "idle" =>
    \A b \in Stages :
      written[b][1] = pass =>
        /\ HostValid(tensors[b]) => tensors[b].host = written[b]
        /\ DeviceValid(tensors[b]) => tensors[b].data = written[b]

(* "If the arena says DEVICE is authoritative, the tensor MUST NOT be      *)
(* HOST_AUTHORITATIVE": asserted at the start of prepareForRead().         *)
ArenaAgrees ==
  at = "layers" => ~(arena[Here] = "device" /\ tensors[Here].state = "host")

=============================================================================
