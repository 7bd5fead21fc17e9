---------------------------- MODULE WeightUpload ----------------------------
(***************************************************************************)
(* The upload of a device's weights (WeightManager, LoadOrchestrator,      *)
(* DeviceLoadPipeline, WeightVRAMPool, PinnedRingBuffer). The host copies  *)
(* weight after weight into a ring of pinned slots; an upload stream per   *)
(* slot moves it to the staging slot of the same number on the device; one *)
(* repack stream turns the staging slot into the weight's place in the     *)
(* pool. Host and streams run on their own and meet only at events and     *)
(* stream synchronizations. Kernels are then registered over the pool, the *)
(* host's bytes dropped and the ring and the staging memory freed; a load  *)
(* that fails frees everything, whatever the streams still have to do.     *)
(*                                                                         *)
(* One weight is one job, both named by the job's number. A stream is the  *)
(* set of jobs that wait in it: jobs enter in the order of their numbers.  *)
(***************************************************************************)
EXTENDS Integers

CONSTANTS
  NumJobs,       \* weights planned for the device
  NumStreams,    \* repack_streams: upload streams, slots of both rings
  Raw,           \* jobs of floating-point weights, copied and not repacked
  Shared,        \* weights whose host bytes are kept (embedding, tied head)
  MayBeGone,     \* bound: weights whose host bytes may be gone before the load
  SyncSettings,  \* bound: values of the debug setting sync_after_kernel
  CallsFail      \* calls of the backend may fail

ASSUME UploadAssumption ==
  /\ NumJobs \in Nat \ {0} /\ NumStreams \in Nat \ {0}
  /\ SyncSettings \subseteq BOOLEAN /\ CallsFail \in BOOLEAN

Jobs == 1..NumJobs
Slots == 0..(NumStreams - 1)
Slot(i) == (i - 1) % NumStreams

(* What a piece of memory holds before a weight is written to it. *)
Nothing == 0

VARIABLES
  syncAfterJob,       \* the debug setting sync_after_kernel
  pc, job,            \* the host: where it is, the job or weight it is at
  pinned,             \* PinnedRingBuffer: the weight in each slot
  staging,            \* WeightVRAMPool: the weight in each staging slot
  pool,               \* WeightVRAMPool: what each weight's place holds
  copies,             \* jobs whose upload is in the stream of their slot
  repacks,            \* jobs in the repack stream
  fenced,             \* jobs whose upload the repack stream waits for
  marked,             \* repack_done_events_: the job each was recorded after
  host,               \* weights whose host bytes are there
  kernels,            \* weights with a registered kernel
  held                \* memory that is allocated

memoryVars == <<pinned, staging, pool>>
deviceVars == <<copies, repacks, fenced, marked>>
ownerVars  == <<host, kernels, held>>
uploadVars == <<syncAfterJob, pc, job, memoryVars, deviceVars, ownerVars>>

(* Where the host calls the backend for a job, and after the last. *)
Calls == {"wait", "upload", "fence", "repack", "copied", "mark", "settle",
          "drain", "drainUploads"}

Places == Calls \cup {"new", "stage", "register", "finalize", "finalizeRing",
                      "return", "done", "unwind", "unwindPool", "failed"}

UploadTypeOK ==
  /\ syncAfterJob \in BOOLEAN
  /\ pc \in Places
  /\ job \in 1..(NumJobs + 1)
  /\ pinned \in [Slots -> 0..NumJobs]
  /\ staging \in [Slots -> 0..NumJobs]
  /\ pool \in [Jobs -> 0..NumJobs]
  /\ copies \subseteq Jobs /\ repacks \subseteq Jobs /\ fenced \subseteq Jobs
  /\ marked \in [Slots -> 0..NumJobs]
  /\ host \subseteq Jobs /\ kernels \subseteq Jobs
  /\ held \subseteq {"pool", "staging", "pinned"}

UploadInit ==
  /\ syncAfterJob \in SyncSettings
  /\ pc = "new" /\ job = 1
  /\ pinned = [s \in Slots |-> Nothing]
  /\ staging = [s \in Slots |-> Nothing]
  /\ pool = [i \in Jobs |-> Nothing]
  /\ copies = {} /\ repacks = {} /\ fenced = {}
  /\ marked = [s \in Slots |-> Nothing]
  /\ \E gone \in SUBSET (MayBeGone \cap Jobs) : host = Jobs \ gone
  /\ kernels = {} /\ held = {}

-----------------------------------------------------------------------------
(* The device. *)

(* An event is reached when the stream has done all that came before it.   *)
RepackReached(i) == \A j \in repacks : j > i
UploadReached(i) == \A j \in copies : Slot(j) = Slot(i) => j > i

(* cudaMemcpyAsync of an upload stream, when its turn comes. *)
DeviceUpload(i) ==
  /\ i \in copies
  /\ \A j \in copies : Slot(j) = Slot(i) => j >= i
  /\ copies' = copies \ {i}
  /\ staging' = [staging EXCEPT ![Slot(i)] = pinned[Slot(i)]]
  /\ UNCHANGED <<pc, job, pinned, pool, repacks, fenced, marked, ownerVars>>

(* The repack kernel or the copy of a job, behind the wait for its upload. *)
DeviceRepack(i) ==
  /\ i \in repacks
  /\ \A j \in repacks : j >= i
  /\ i \in fenced => UploadReached(i)
  /\ repacks' = repacks \ {i}
  /\ pool' = [pool EXCEPT ![i] = staging[Slot(i)]]
  /\ UNCHANGED <<pc, job, pinned, staging, copies, fenced, marked, ownerVars>>

DeviceStep == \E i \in Jobs : DeviceUpload(i) \/ DeviceRepack(i)

-----------------------------------------------------------------------------
(* The host: allocate(), then processJobs(). *)

Goto(place) == pc' = place /\ UNCHANGED job

Allocate ==
  /\ pc = "new" /\ held' = {"pool", "staging", "pinned"} /\ Goto("wait")
  /\ UNCHANGED <<memoryVars, deviceVars, host, kernels>>

(* The pool frees what it got when the staging memory is refused; the ring *)
(* comes after the pool.                                                   *)
FailToAllocate ==
  /\ pc = "new" /\ CallsFail
  /\ held' \in {{}, {"pool", "staging"}} /\ Goto("unwind")
  /\ UNCHANGED <<memoryVars, deviceVars, host, kernels>>

(* Mutant: the job after the first round of the ring does not wait. *)
WaitForSlotLate ==
  /\ pc = "wait" /\ job \in host
  /\ job > NumStreams + 1 => RepackReached(marked[Slot(job)])
  /\ Goto("stage")
  /\ UNCHANGED <<memoryVars, deviceVars, ownerVars>>

(* The slot is free once the job that used it last is repacked. *)
WaitForSlot ==
  /\ pc = "wait" /\ job \in host
  /\ job > NumStreams => RepackReached(marked[Slot(job)])
  /\ Goto("stage")
  /\ UNCHANGED <<memoryVars, deviceVars, ownerVars>>

(* Mutant: a job without host bytes is tried again. *)
RefuseJobRetrying ==
  /\ pc = "wait" /\ job \notin host /\ Goto("wait")
  /\ UNCHANGED <<memoryVars, deviceVars, ownerVars>>

RefuseJob ==
  /\ pc = "wait" /\ job \notin host /\ Goto("unwind")
  /\ UNCHANGED <<memoryVars, deviceVars, ownerVars>>

Stage ==
  /\ pc = "stage" /\ Goto("upload")
  /\ pinned' = [pinned EXCEPT ![Slot(job)] = job]
  /\ UNCHANGED <<staging, pool, deviceVars, ownerVars>>

Upload ==
  /\ pc = "upload" /\ Goto("fence")
  /\ copies' = copies \cup {job}
  /\ UNCHANGED <<memoryVars, repacks, fenced, marked, ownerVars>>

(* Mutant: the repack stream does not wait for the upload. *)
FenceMissing ==
  /\ pc = "fence" /\ Goto("repack")
  /\ UNCHANGED <<memoryVars, deviceVars, ownerVars>>

(* h2d_done is recorded behind the upload; the repack stream waits for it. *)
Fence ==
  /\ pc = "fence" /\ Goto("repack")
  /\ fenced' = fenced \cup {job}
  /\ UNCHANGED <<memoryVars, copies, repacks, marked, ownerVars>>

Repack ==
  /\ pc = "repack" /\ Goto(IF job \in Raw THEN "copied" ELSE "mark")
  /\ repacks' = repacks \cup {job}
  /\ UNCHANGED <<memoryVars, copies, fenced, marked, ownerVars>>

(* deviceToDevice() synchronizes the stream it has copied on. *)
CopyReturns ==
  /\ pc = "copied" /\ repacks = {} /\ Goto("mark")
  /\ UNCHANGED <<memoryVars, deviceVars, ownerVars>>

NextJob ==
  IF job = NumJobs THEN Goto("drain") ELSE pc' = "wait" /\ job' = job + 1

Mark ==
  /\ pc = "mark"
  /\ marked' = [marked EXCEPT ![Slot(job)] = job]
  /\ IF syncAfterJob THEN Goto("settle") ELSE NextJob
  /\ UNCHANGED <<memoryVars, copies, repacks, fenced, ownerVars>>

Settle ==
  /\ pc = "settle" /\ repacks = {} /\ NextJob
  /\ UNCHANGED <<memoryVars, deviceVars, ownerVars>>

(* Mutant: only the upload streams are synchronized at the end. *)
DrainMissing ==
  /\ pc = "drain" /\ Goto("drainUploads")
  /\ UNCHANGED <<memoryVars, deviceVars, ownerVars>>

Drain ==
  /\ pc = "drain" /\ repacks = {} /\ Goto("drainUploads")
  /\ UNCHANGED <<memoryVars, deviceVars, ownerVars>>

DrainUploads ==
  /\ pc = "drainUploads" /\ copies = {}
  /\ pc' = "register" /\ job' = 1
  /\ UNCHANGED <<memoryVars, deviceVars, ownerVars>>

(* processJobs() returns false as it is, load() throws. *)
Fail ==
  /\ CallsFail /\ pc \in Calls /\ Goto("unwind")
  /\ UNCHANGED <<memoryVars, deviceVars, ownerVars>>

-----------------------------------------------------------------------------
(* The host: kernels over the pool, then finalize(). *)

AfterWeight ==
  /\ job' = job + 1
  /\ pc' = IF job = NumJobs THEN "finalize" ELSE pc

(* The kernel shares the orchestrator and by it the pool; the host's bytes *)
(* go at once.                                                             *)
Register ==
  /\ pc = "register"
  /\ kernels' = kernels \cup {job}
  /\ host' = IF job \in Shared THEN host ELSE host \ {job}
  /\ AfterWeight
  /\ UNCHANGED <<memoryVars, deviceVars, held>>

FailToRegister ==
  /\ pc = "register" /\ CallsFail /\ AfterWeight
  /\ UNCHANGED <<memoryVars, deviceVars, ownerVars>>

DeviceIdle == copies = {} /\ repacks = {}

(* releaseStaging(), behind a synchronization of the device. *)
FreeStaging ==
  /\ pc = "finalize" /\ DeviceIdle /\ Goto("finalizeRing")
  /\ held' = held \ {"staging"}
  /\ UNCHANGED <<memoryVars, deviceVars, host, kernels>>

(* Mutant: the ring is left to the last kernel. *)
FreeRingLater ==
  /\ pc = "finalizeRing" /\ Goto("return")
  /\ UNCHANGED <<memoryVars, deviceVars, ownerVars>>

FreeRing ==
  /\ pc = "finalizeRing" /\ DeviceIdle /\ Goto("return")
  /\ held' = held \ {"pinned"}
  /\ UNCHANGED <<memoryVars, deviceVars, host, kernels>>

(* Without a kernel nobody shares the orchestrator. *)
Return ==
  /\ pc = "return" /\ Goto("done")
  /\ held' = IF kernels = {} THEN {} ELSE held
  /\ UNCHANGED <<memoryVars, deviceVars, host, kernels>>

(* Mutant: the ring is freed without a synchronization of the device. *)
UnwindRingAtOnce ==
  /\ pc = "unwind"
  /\ held' = held \ {"pinned"} /\ Goto("unwindPool")
  /\ UNCHANGED <<memoryVars, deviceVars, host, kernels>>

(* The exception destroys the pipeline, whose streams go on, and then the  *)
(* orchestrator, which synchronizes before it frees.                       *)
UnwindRing ==
  /\ pc = "unwind" /\ ("pinned" \in held => DeviceIdle)
  /\ held' = held \ {"pinned"} /\ Goto("unwindPool")
  /\ UNCHANGED <<memoryVars, deviceVars, host, kernels>>

UnwindPool ==
  /\ pc = "unwindPool" /\ ("staging" \in held => DeviceIdle)
  /\ held' = {} /\ Goto("failed")
  /\ UNCHANGED <<memoryVars, deviceVars, host, kernels>>

HostStep ==
  \/ Allocate \/ WaitForSlot \/ RefuseJob \/ Stage \/ Upload \/ Fence
  \/ Repack \/ CopyReturns \/ Mark \/ Settle \/ Drain \/ DrainUploads
  \/ Register \/ FreeStaging \/ FreeRing \/ Return \/ UnwindRing \/ UnwindPool

UploadNext ==
  /\ HostStep \/ FailToAllocate \/ Fail \/ FailToRegister \/ DeviceStep
  /\ UNCHANGED syncAfterJob

UploadSpec == UploadInit /\ [][UploadNext]_uploadVars

(* The thread runs and the streams make progress; no call has to fail. *)
FairUploadSpec ==
  UploadSpec /\ WF_uploadVars(HostStep /\ UNCHANGED syncAfterJob)
             /\ WF_uploadVars(DeviceStep /\ UNCHANGED syncAfterJob)

-----------------------------------------------------------------------------
(* Whatever waits in a stream will read the weight it was issued for: no   *)
(* slot of the ring or of the staging memory is written again too early    *)
(* (the waits for repack_done and h2d_done in processJobs()).              *)
QueuedWorkReadsItsWeight ==
  /\ \A i \in copies : pinned[Slot(i)] = i
  /\ \A i \in repacks : i \in copies \/ staging[Slot(i)] = i

(* A kernel that was registered finds its own weight in the pool, and the  *)
(* pool is there as long as the kernel is.                                 *)
KernelsFindTheirWeight ==
  \A i \in kernels : pool[i] = i /\ "pool" \in held

(* No memory is freed while a stream still reads or writes it, also when a *)
(* load fails half-way with uploads and repacks on their way.              *)
NothingFreedInUse ==
  /\ copies # {} => {"pinned", "staging"} \subseteq held
  /\ repacks # {} => {"staging", "pool"} \subseteq held

(* Ring and staging memory never outlive the load, and the pool only lives *)
(* on if a kernel shares it.                                               *)
TemporariesAreFreed ==
  pc \in {"done", "failed"} => held = IF kernels = {} THEN {} ELSE {"pool"}

(* The bytes of a weight on the host are dropped only when the device has  *)
(* the weight and a kernel for it: a load that fails can be repeated.      *)
DroppedOnlyWhenInPlace ==
  [][\A i \in host \ host' : i \in kernels' /\ pool'[i] = i]_uploadVars

(* Every load comes to its end: no event that is waited for is missing.    *)
LoadEnds == <>(pc \in {"done", "failed"})
=============================================================================
