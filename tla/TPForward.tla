------------------------------ MODULE TPForward ------------------------------
(***************************************************************************)
(* One tensor-parallel rank running forward passes: the worker pool        *)
(* (TPWorkerPool) whose work is a device's graph, the host barrier         *)
(* (LocalTPBarrier) the graph's collective stages meet in, and the abort   *)
(* flag of the LocalTPContext, which a failing worker sets and every       *)
(* worker tests before a stage. The flag is never reset.                   *)
(*                                                                         *)
(* DeviceGraphExecutor::runStages(): test of the flag, stage, and so on; a *)
(* stage here is a collective one with the compute stages before it.       *)
(***************************************************************************)
EXTENDS TPWorkerPool

CONSTANTS
  PerForward,    \* collective stages of a forward pass
  TimesOut,      \* BARRIER_TIMEOUT may expire
  StagingFails   \* a copy to or from host memory may fail

ASSUME ForwardAssumption ==
  /\ PerForward \in Nat \ {0}
  /\ {TimesOut, StagingFails} \subseteq BOOLEAN

VARIABLES
  barrier, call, tensor,  \* of LocalTPBarrier
  abortRequested,         \* LocalTPContext::abort_requested_
  running                 \* workers inside a stage

(* Collective stages are numbered on from pass to pass; their names are    *)
(* those of the graph's nodes, the same in every pass.                     *)
AllStages == MaxSteps * PerForward

Barrier == INSTANCE LocalTPBarrier
             WITH Participants <- Workers, Stages <- AllStages, Unnamed <- None,
                  NameOf <- [s \in 1..AllStages |-> s % PerForward]

barrierVars == <<barrier, call, tensor>>
forwardVars == <<poolVars, barrierVars, abortRequested, running>>

ForwardTypeOK ==
  /\ PoolTypeOK /\ Barrier!BarrierTypeOK
  /\ abortRequested \in BOOLEAN
  /\ running \subseteq Workers

ForwardInit ==
  /\ PoolInit /\ Barrier!BarrierInit
  /\ abortRequested = FALSE
  /\ running = {}

-----------------------------------------------------------------------------
(* The pool's steps that do not touch the graph or the collectives. *)

PoolOnly(step) == step /\ UNCHANGED <<barrierVars, abortRequested, running>>

PoolWorker(w) ==
  PoolOnly(Exit(w) \/ RecordFailure(w) \/ StoreResult(w) \/ CountCompleted(w)
           \/ NotifyCollector(w))

PoolCaller == PoolOnly(CallerStep)

(* forwardTP()'s failure callback. *)
RequestAbort(w) ==
  /\ InvokeFailureCallback(w)
  /\ abortRequested' = TRUE
  /\ UNCHANGED <<barrierVars, running>>

-----------------------------------------------------------------------------
(* One worker's forward pass. *)

(* A pass starts with the graph's first stage. *)
BeginForward(w) ==
  /\ TakeWork(w)
  /\ call' = [call EXCEPT ![w].pc = "out", ![w].stage = (generation - 1) * PerForward + 1]
  /\ UNCHANGED <<barrier, tensor, abortRequested, running>>

AtStage(w) ==
  /\ At(w, "work") /\ w \notin running /\ call[w].pc = "out"
  /\ call[w].stage <= worker[w].seen * PerForward

(* Mutant: the abort flag is not tested. *)
StartStageUnchecked(w) ==
  /\ AtStage(w)
  /\ running' = running \cup {w}
  /\ UNCHANGED <<poolVars, barrierVars, abortRequested>>

(* cancellationRequested() was false; the flag may be set right after. *)
StartStage(w) ==
  /\ AtStage(w) /\ ~abortRequested
  /\ running' = running \cup {w}
  /\ UNCHANGED <<poolVars, barrierVars, abortRequested>>

CancelForward(w) ==
  /\ AtStage(w) /\ abortRequested
  /\ Finish(w, FALSE)
  /\ UNCHANGED <<barrierVars, abortRequested, running>>

Collective(w) ==
  /\ At(w, "work") /\ w \in running
  /\ Barrier!BarrierStep(w)
  /\ running' = IF call'[w].pc = "out" THEN running \ {w} ELSE running
  /\ UNCHANGED <<poolVars, abortRequested>>

(* A stage returns false, and stage_failure_callback aborts; or it throws  *)
(* and nothing does before the pool's callback.                            *)
FailStage(w) ==
  /\ At(w, "work") /\ w \in running /\ ~Barrier!Waiting(w)
  /\ Finish(w, FALSE)
  /\ \/ abortRequested' = TRUE
     \/ call[w].pc = "out" /\ UNCHANGED abortRequested
  /\ running' = running \ {w}
  /\ UNCHANGED barrierVars

FinishForward(w) ==
  /\ At(w, "work") /\ w \notin running
  /\ call[w].stage = worker[w].seen * PerForward + 1
  /\ Finish(w, TRUE)
  /\ UNCHANGED <<barrierVars, abortRequested, running>>

ForwardStep(w) ==
  \/ PoolWorker(w) \/ RequestAbort(w) \/ BeginForward(w) \/ StartStage(w)
  \/ CancelForward(w) \/ Collective(w) \/ FailStage(w) \/ FinishForward(w)

ForwardNext ==
  \/ \E w \in Workers : ForwardStep(w)
  \/ PoolCaller \/ PoolOnly(SpuriousWakeup) \/ PoolOnly(Dispatch) \/ PoolOnly(Destroy)

ForwardSpec == ForwardInit /\ [][ForwardNext]_forwardVars

(* Threads are scheduled, stages return, waits with a timeout end. *)
FairForwardSpec ==
  /\ ForwardSpec
  /\ WF_forwardVars(PoolCaller)
  /\ \A w \in Workers : WF_forwardVars(ForwardStep(w))

-----------------------------------------------------------------------------
(* Properties. *)

Succeeded == Collected /\ \A w \in Workers : caller.got[w].done /\ caller.got[w].ok

(* A forward pass reported as a success has reduced every device's tensor  *)
(* in its last stage, whatever timeouts and stale barrier results its      *)
(* threads met on the way.                                                 *)
SuccessMeansReduced ==
  Succeeded => \A w \in Workers : tensor[w] = Workers \X {generation * PerForward}

(* Once an abort was requested no pass succeeds: the context is not usable *)
(* any more.                                                               *)
AbortIsFinal == Succeeded => ~abortRequested

(* Between two passes nobody is in the barrier or in a stage: no thread of *)
(* a failed pass meets one of the next.                                    *)
NobodyLeftInBarrier ==
  Collected => barrier.arrived = << >> /\ running = {}

(* "Wake any threads blocked on the barrier condition variable": a wait    *)
(* does not run into its timeout once an abort was requested.              *)
AbortReleasesWaiters ==
  [][abortRequested => \A w \in Workers : ~(w \in running /\ Barrier!GiveUp(w))]_forwardVars

=============================================================================
