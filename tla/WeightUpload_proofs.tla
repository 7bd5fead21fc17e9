------------------------- MODULE WeightUpload_proofs -------------------------
(***************************************************************************)
(* Proofs about the upload of weights, for every number of weights and of  *)
(* streams, wherever a call fails. The invariant says which jobs of a slot *)
(* can still be in a stream: at most one, and none once the host has       *)
(* waited for the slot. That rests on two facts about the events: every    *)
(* job of a slot that the host is done with is covered by the slot's last  *)
(* repack_done, and a job that is in its upload stream is, but for the job *)
(* at hand, in the repack stream as well.                                  *)
(***************************************************************************)
EXTENDS WeightUpload, TLAPS

Loading   == Calls \cup {"stage"}
Loaded    == {"register", "finalize", "finalizeRing", "return", "done"}
Unwinding == {"unwind", "unwindPool", "failed"}
Everything == {"pool", "staging", "pinned"}

(* How far the host is with a job. *)
Begun(i)  == i < job \/ (i = job /\ pc \notin {"wait", "stage", "upload"})
Handed(i) == i < job \/ (i = job /\ pc \in {"copied", "mark", "settle", "drain", "drainUploads"})
Marked(i) == i < job \/ (i = job /\ pc \in {"settle", "drain", "drainUploads"})

InFlight == copies \cup repacks

OnePerSlot ==
  /\ \A i, j \in InFlight : Slot(i) = Slot(j) => i = j
  /\ repacks \subseteq fenced

(* While the jobs are processed. *)
Streams ==
  pc \in Loading =>
    /\ \A i \in copies : Begun(i)
    /\ \A i \in repacks : Handed(i)
    /\ \A i \in copies : i \in repacks \/ (i = job /\ pc \in {"fence", "repack"})
    /\ \A i \in Jobs : Handed(i) => i \in repacks \/ pool[i] = i
    /\ \A i \in Jobs : Marked(i) => i <= marked[Slot(i)]

AtJob ==
  pc \in Loading =>
    /\ job \in Jobs
    /\ pc \in {"stage", "upload", "fence", "repack"} =>
         \A i \in InFlight : i # job => Slot(i) # Slot(job)
    /\ pc \in {"stage", "upload"} => job \notin InFlight
    /\ pc = "upload" => pinned[Slot(job)] = job
    /\ pc \in {"fence", "repack"} => job \in copies \/ staging[Slot(job)] = job
    /\ pc = "repack" => job \in fenced
    /\ pc \in {"drain", "drainUploads"} => job = NumJobs
    /\ pc = "drainUploads" => repacks = {}
    /\ held = Everything /\ kernels = {}

(* Before the jobs, after them, and when one has failed. *)
Elsewhere ==
  /\ pc = "new" => DeviceIdle /\ job = 1 /\ kernels = {} /\ held = {}
  /\ pc \in Loaded =>
       /\ DeviceIdle
       /\ \A i \in Jobs : pool[i] = i
       /\ pc = "register" => job \in Jobs
       /\ pc \in {"register", "finalize"} => held = Everything
       /\ pc = "finalizeRing" => held = {"pool", "pinned"}
       /\ pc = "return" => held = {"pool"}
       /\ pc = "done" => held = IF kernels = {} THEN {} ELSE {"pool"}
  /\ pc \in Unwinding =>
       /\ kernels = {}
       /\ pc # "unwind" => DeviceIdle
       /\ ~DeviceIdle => held = Everything
       /\ pc = "failed" => held = {}

UploadIInv ==
  /\ UploadTypeOK
  /\ QueuedWorkReadsItsWeight
  /\ OnePerSlot
  /\ Streams
  /\ AtJob
  /\ Elsewhere

-----------------------------------------------------------------------------
LEMMA SlotFacts ==
  /\ \A i \in Jobs : i \in Int /\ Slot(i) \in Slots
  /\ \A i, j \in 1..NumStreams : Slot(i) = Slot(j) => i = j
<1>1. NumStreams \in Nat /\ NumStreams > 0
  BY UploadAssumption
<1>2. ASSUME NEW n \in Nat, n > 0, NEW k \in Int
      PROVE  k % n \in 0..(n - 1)
  BY <1>2
<1>3. ASSUME NEW n \in Nat, n > 0, NEW k \in 0..(n - 1)
      PROVE  k % n = k
  BY <1>3
<1>4. \A i \in Jobs : i \in Int /\ Slot(i) \in Slots
  BY <1>1, <1>2, UploadAssumption DEF Jobs, Slot, Slots
<1>5. ASSUME NEW i \in 1..NumStreams PROVE Slot(i) = i - 1
  BY <1>1, <1>3 DEF Slot
<1> QED
  BY <1>4, <1>5

LEMMA InitInvariant == UploadInit => UploadIInv
<1> SUFFICES ASSUME UploadInit PROVE UploadIInv
  OBVIOUS
<1> USE UploadAssumption DEF UploadInit, Places, Calls
<1>1. UploadTypeOK
  BY DEF UploadTypeOK, Jobs, Nothing
<1>2. QueuedWorkReadsItsWeight /\ OnePerSlot
  BY DEF QueuedWorkReadsItsWeight, OnePerSlot, InFlight
<1>3. Streams /\ AtJob
  BY DEF Streams, AtJob, Loading
<1>4. Elsewhere
  BY DEF Elsewhere, DeviceIdle, Loaded, Unwinding
<1> QED
  BY <1>1, <1>2, <1>3, <1>4 DEF UploadIInv

LEMMA JobNumbers ==
  ASSUME NEW i \in Jobs
  PROVE  i \in 0..NumJobs /\ i \in 1..(NumJobs + 1) /\ i + 1 \in 1..(NumJobs + 1)
BY UploadAssumption DEF Jobs

(* A job that records its event covers itself and what its slot had before. *)
LEMMA MarkCovers ==
  ASSUME NEW m \in [Slots -> 0..NumJobs], NEW j \in Jobs,
         \A k \in Jobs : k < j => k <= m[Slot(k)]
  PROVE  \A k \in Jobs : k < j \/ k = j => k <= [m EXCEPT ![Slot(j)] = j][Slot(k)]
<1> SUFFICES ASSUME NEW k \in Jobs, k < j \/ k = j
             PROVE  k <= [m EXCEPT ![Slot(j)] = j][Slot(k)]
  OBVIOUS
<1>1. k \in Int /\ j \in Int /\ Slot(k) \in Slots /\ Slot(j) \in Slots
  BY SlotFacts
<1>2. CASE Slot(k) = Slot(j)
  <2>1. [m EXCEPT ![Slot(j)] = j][Slot(k)] = j
    BY <1>1, <1>2
  <2>2. k <= j
    BY <1>1
  <2> QED
    BY <2>1, <2>2
<1>3. CASE Slot(k) # Slot(j)
  <2>1. [m EXCEPT ![Slot(j)] = j][Slot(k)] = m[Slot(k)]
    BY <1>1, <1>3
  <2>2. k < j
    BY <1>3
  <2> QED
    BY <2>1, <2>2
<1> QED
  BY <1>2, <1>3

LEMMA StepInvariant ==
  ASSUME UploadIInv, UploadNext
  PROVE  UploadIInv'
<1> USE UploadAssumption, SlotFacts
    DEF UploadIInv, UploadTypeOK, Goto, memoryVars, deviceVars, ownerVars, Jobs
<1>0. syncAfterJob' = syncAfterJob
  BY DEF UploadNext
<1>1. CASE Allocate
  <2>1. UploadTypeOK'
    BY <1>0, <1>1 DEF Allocate, AtJob, Elsewhere, Loading, Loaded, Places, Calls
  <2>2. QueuedWorkReadsItsWeight' /\ OnePerSlot'
    BY <1>1 DEF Allocate, QueuedWorkReadsItsWeight, OnePerSlot, InFlight, AtJob, Loading, Calls
  <2>3. Streams'
    BY <1>1 DEF Allocate, Streams, AtJob, Elsewhere, DeviceIdle, Loading, Calls, Begun, Handed, Marked
  <2>4. AtJob'
    BY <1>1 DEF Allocate, AtJob, InFlight, Streams, Elsewhere, DeviceIdle, Loading, Calls, Begun, Handed, Marked, Everything
  <2>5. Elsewhere'
    BY <1>1 DEF Allocate, Elsewhere, DeviceIdle, Loaded, Unwinding, Streams, AtJob, Loading, Calls, Begun, Handed, Everything
  <2> QED
    BY <2>1, <2>2, <2>3, <2>4, <2>5
<1>2. CASE WaitForSlot
  <2>1. UploadTypeOK'
    BY <1>0, <1>2 DEF WaitForSlot, RepackReached, AtJob, Elsewhere, Loading, Loaded, Places, Calls
  <2>2. QueuedWorkReadsItsWeight' /\ OnePerSlot'
    BY <1>2 DEF WaitForSlot, RepackReached, QueuedWorkReadsItsWeight, OnePerSlot, InFlight, AtJob, Loading, Calls
  <2>3. Streams'
    BY <1>2 DEF WaitForSlot, RepackReached, Streams, AtJob, Elsewhere, DeviceIdle, Loading, Calls, Begun, Handed, Marked
  <2>4. AtJob'
    BY <1>2 DEF WaitForSlot, RepackReached, AtJob, InFlight, Streams, Elsewhere, DeviceIdle, Loading, Calls, Begun, Handed, Marked, Everything
  <2>5. Elsewhere'
    BY <1>2 DEF WaitForSlot, RepackReached, Elsewhere, DeviceIdle, Loaded, Unwinding, Streams, AtJob, Loading, Calls, Begun, Handed, Everything
  <2> QED
    BY <2>1, <2>2, <2>3, <2>4, <2>5
<1>3. CASE RefuseJob
  <2>1. UploadTypeOK'
    BY <1>0, <1>3 DEF RefuseJob, AtJob, Elsewhere, Loading, Loaded, Places, Calls
  <2>2. QueuedWorkReadsItsWeight' /\ OnePerSlot'
    BY <1>3 DEF RefuseJob, QueuedWorkReadsItsWeight, OnePerSlot, InFlight, AtJob, Loading, Calls
  <2>3. Streams'
    BY <1>3 DEF RefuseJob, Streams, AtJob, Elsewhere, DeviceIdle, Loading, Calls, Begun, Handed, Marked
  <2>4. AtJob'
    BY <1>3 DEF RefuseJob, AtJob, InFlight, Streams, Elsewhere, DeviceIdle, Loading, Calls, Begun, Handed, Marked, Everything
  <2>5. Elsewhere'
    BY <1>3 DEF RefuseJob, Elsewhere, DeviceIdle, Loaded, Unwinding, Streams, AtJob, Loading, Calls, Begun, Handed, Everything
  <2> QED
    BY <2>1, <2>2, <2>3, <2>4, <2>5
<1>4. CASE Stage
  <2>1. UploadTypeOK'
    <3>1. job \in Jobs
      BY <1>4 DEF Stage, AtJob, Elsewhere, Loading, Loaded, Calls
    <3>2. job \in 0..NumJobs /\ job + 1 \in 1..(NumJobs + 1)
      BY <3>1, JobNumbers
    <3> QED
      BY <1>0, <1>4, <3>1, <3>2 DEF Stage, Places, Calls
  <2>2. QueuedWorkReadsItsWeight' /\ OnePerSlot'
    BY <1>4 DEF Stage, QueuedWorkReadsItsWeight, OnePerSlot, InFlight, AtJob, Loading, Calls
  <2>3. Streams'
    BY <1>4 DEF Stage, Streams, AtJob, Elsewhere, DeviceIdle, Loading, Calls, Begun, Handed, Marked
  <2>4. AtJob'
    BY <1>4 DEF Stage, AtJob, InFlight, Streams, Elsewhere, DeviceIdle, Loading, Calls, Begun, Handed, Marked, Everything
  <2>5. Elsewhere'
    BY <1>4 DEF Stage, Elsewhere, DeviceIdle, Loaded, Unwinding, Streams, AtJob, Loading, Calls, Begun, Handed, Everything
  <2> QED
    BY <2>1, <2>2, <2>3, <2>4, <2>5
<1>5. CASE Upload
  <2>1. UploadTypeOK'
    BY <1>0, <1>5 DEF Upload, AtJob, Elsewhere, Loading, Loaded, Places, Calls
  <2>2. QueuedWorkReadsItsWeight' /\ OnePerSlot'
    BY <1>5 DEF Upload, QueuedWorkReadsItsWeight, OnePerSlot, InFlight, AtJob, Loading, Calls
  <2>3. Streams'
    BY <1>5 DEF Upload, Streams, AtJob, Elsewhere, DeviceIdle, Loading, Calls, Begun, Handed, Marked
  <2>4. AtJob'
    BY <1>5 DEF Upload, AtJob, InFlight, Streams, Elsewhere, DeviceIdle, Loading, Calls, Begun, Handed, Marked, Everything
  <2>5. Elsewhere'
    BY <1>5 DEF Upload, Elsewhere, DeviceIdle, Loaded, Unwinding, Streams, AtJob, Loading, Calls, Begun, Handed, Everything
  <2> QED
    BY <2>1, <2>2, <2>3, <2>4, <2>5
<1>6. CASE Fence
  <2>1. UploadTypeOK'
    BY <1>0, <1>6 DEF Fence, AtJob, Elsewhere, Loading, Loaded, Places, Calls
  <2>2. QueuedWorkReadsItsWeight' /\ OnePerSlot'
    BY <1>6 DEF Fence, QueuedWorkReadsItsWeight, OnePerSlot, InFlight, AtJob, Loading, Calls
  <2>3. Streams'
    BY <1>6 DEF Fence, Streams, AtJob, Elsewhere, DeviceIdle, Loading, Calls, Begun, Handed, Marked
  <2>4. AtJob'
    BY <1>6 DEF Fence, AtJob, InFlight, Streams, Elsewhere, DeviceIdle, Loading, Calls, Begun, Handed, Marked, Everything
  <2>5. Elsewhere'
    BY <1>6 DEF Fence, Elsewhere, DeviceIdle, Loaded, Unwinding, Streams, AtJob, Loading, Calls, Begun, Handed, Everything
  <2> QED
    BY <2>1, <2>2, <2>3, <2>4, <2>5
<1>7. CASE Repack
  <2>1. UploadTypeOK'
    BY <1>0, <1>7 DEF Repack, AtJob, Elsewhere, Loading, Loaded, Places, Calls
  <2>2. QueuedWorkReadsItsWeight' /\ OnePerSlot'
    BY <1>7 DEF Repack, QueuedWorkReadsItsWeight, OnePerSlot, InFlight, AtJob, Loading, Calls
  <2>3. Streams'
    BY <1>7 DEF Repack, Streams, AtJob, Elsewhere, DeviceIdle, Loading, Calls, Begun, Handed, Marked
  <2>4. AtJob'
    BY <1>7 DEF Repack, AtJob, InFlight, Streams, Elsewhere, DeviceIdle, Loading, Calls, Begun, Handed, Marked, Everything
  <2>5. Elsewhere'
    BY <1>7 DEF Repack, Elsewhere, DeviceIdle, Loaded, Unwinding, Streams, AtJob, Loading, Calls, Begun, Handed, Everything
  <2> QED
    BY <2>1, <2>2, <2>3, <2>4, <2>5
<1>8. CASE CopyReturns
  <2>1. UploadTypeOK'
    BY <1>0, <1>8 DEF CopyReturns, AtJob, Elsewhere, Loading, Loaded, Places, Calls
  <2>2. QueuedWorkReadsItsWeight' /\ OnePerSlot'
    BY <1>8 DEF CopyReturns, QueuedWorkReadsItsWeight, OnePerSlot, InFlight, AtJob, Loading, Calls
  <2>3. Streams'
    BY <1>8 DEF CopyReturns, Streams, AtJob, Elsewhere, DeviceIdle, Loading, Calls, Begun, Handed, Marked
  <2>4. AtJob'
    BY <1>8 DEF CopyReturns, AtJob, InFlight, Streams, Elsewhere, DeviceIdle, Loading, Calls, Begun, Handed, Marked, Everything
  <2>5. Elsewhere'
    BY <1>8 DEF CopyReturns, Elsewhere, DeviceIdle, Loaded, Unwinding, Streams, AtJob, Loading, Calls, Begun, Handed, Everything
  <2> QED
    BY <2>1, <2>2, <2>3, <2>4, <2>5
<1>9. CASE Mark
  <2>1. UploadTypeOK'
    <3>1. job \in Jobs
      BY <1>9 DEF Mark, AtJob, Elsewhere, Loading, Loaded, Calls
    <3>2. job \in 0..NumJobs /\ job + 1 \in 1..(NumJobs + 1)
      BY <3>1, JobNumbers
    <3> QED
      BY <1>0, <1>9, <3>1, <3>2 DEF Mark, NextJob, Places, Calls
  <2>2. QueuedWorkReadsItsWeight' /\ OnePerSlot'
    BY <1>9 DEF Mark, NextJob, QueuedWorkReadsItsWeight, OnePerSlot, InFlight, AtJob, Loading, Calls
  <2>3. Streams'
    <3>1. pc = "mark" /\ job \in Jobs /\ job \in Int
      BY <1>9, SlotFacts DEF Mark, AtJob, Loading, Calls
    <3>2. /\ \A k \in copies : k < job \/ k = job
          /\ \A k \in repacks : k < job \/ k = job
          /\ copies \subseteq repacks
          /\ \A k \in Jobs : k < job \/ k = job => k \in repacks \/ pool[k] = k
          /\ \A k \in Jobs : k < job => k <= marked[Slot(k)]
      BY <3>1 DEF Streams, Loading, Calls, Begun, Handed, Marked
    <3>3. \A k \in Jobs : k < job \/ k = job => k <= marked'[Slot(k)]
      <4>1. marked \in [Slots -> 0..NumJobs] /\ marked' = [marked EXCEPT ![Slot(job)] = job]
        BY <1>9 DEF Mark
      <4>2. \A k \in Jobs : k < job \/ k = job
               => k <= [marked EXCEPT ![Slot(job)] = job][Slot(k)]
        BY ONLY <3>1, <3>2, <4>1, MarkCovers
      <4> QED
        BY ONLY <4>1, <4>2
    <3>4. CASE pc' \in {"settle", "drain"} /\ job' = job
      BY <1>9, <3>2, <3>3, <3>4 DEF Mark, Streams, Begun, Handed, Marked
    <3>5. CASE pc' = "wait" /\ job' = job + 1
      <4>1. \A k \in Jobs : k < job' => k < job \/ k = job
        BY <3>1, <3>5, SlotFacts
      <4>2. \A k \in Jobs : k < job \/ k = job => k < job'
        BY <3>1, <3>5, SlotFacts
      <4> QED
        BY <1>9, <3>2, <3>3, <3>5, <4>1, <4>2
        DEF Mark, Streams, Loading, Calls, Begun, Handed, Marked
    <3> QED
      BY <1>9, <3>4, <3>5 DEF Mark, NextJob
  <2>4. AtJob'
    <3>1. job \in Jobs /\ held = Everything /\ kernels = {}
      BY <1>9 DEF Mark, AtJob, Loading, Calls
    <3>2. CASE syncAfterJob
      BY <1>9, <3>1, <3>2 DEF Mark, AtJob
    <3>3. CASE ~syncAfterJob /\ job = NumJobs
      BY <1>9, <3>1, <3>3 DEF Mark, NextJob, AtJob
    <3>4. CASE ~syncAfterJob /\ job # NumJobs
      <4>1. job + 1 \in Jobs
        BY <3>1, <3>4
      <4> QED
        BY <1>9, <3>1, <3>4, <4>1 DEF Mark, NextJob, AtJob
    <3> QED
      BY <3>2, <3>3, <3>4
  <2>5. Elsewhere'
    BY <1>9 DEF Mark, NextJob, Elsewhere, DeviceIdle, Loaded, Unwinding, Streams, AtJob, Loading, Calls, Begun, Handed, Everything
  <2> QED
    BY <2>1, <2>2, <2>3, <2>4, <2>5
<1>10. CASE Settle
  <2>1. UploadTypeOK'
    <3>1. job \in Jobs
      BY <1>10 DEF Settle, AtJob, Elsewhere, Loading, Loaded, Calls
    <3>2. job \in 0..NumJobs /\ job + 1 \in 1..(NumJobs + 1)
      BY <3>1, JobNumbers
    <3> QED
      BY <1>0, <1>10, <3>1, <3>2 DEF Settle, NextJob, Places, Calls
  <2>2. QueuedWorkReadsItsWeight' /\ OnePerSlot'
    BY <1>10 DEF Settle, NextJob, QueuedWorkReadsItsWeight, OnePerSlot, InFlight, AtJob, Loading, Calls
  <2>3. Streams'
    BY <1>10 DEF Settle, NextJob, Streams, AtJob, Elsewhere, DeviceIdle, Loading, Calls, Begun, Handed, Marked
  <2>4. AtJob'
    <3>1. job \in Jobs /\ held = Everything /\ kernels = {}
      BY <1>10 DEF Settle, AtJob, Loading, Calls
    <3>2. CASE job = NumJobs
      BY <1>10, <3>1, <3>2 DEF Settle, NextJob, AtJob
    <3>3. CASE job # NumJobs
      <4>1. job + 1 \in Jobs
        BY <3>1, <3>3
      <4> QED
        BY <1>10, <3>1, <3>3, <4>1 DEF Settle, NextJob, AtJob
    <3> QED
      BY <3>2, <3>3
  <2>5. Elsewhere'
    BY <1>10 DEF Settle, NextJob, Elsewhere, DeviceIdle, Loaded, Unwinding, Streams, AtJob, Loading, Calls, Begun, Handed, Everything
  <2> QED
    BY <2>1, <2>2, <2>3, <2>4, <2>5
<1>11. CASE Drain
  <2>1. UploadTypeOK'
    BY <1>0, <1>11 DEF Drain, AtJob, Elsewhere, Loading, Loaded, Places, Calls
  <2>2. QueuedWorkReadsItsWeight' /\ OnePerSlot'
    BY <1>11 DEF Drain, QueuedWorkReadsItsWeight, OnePerSlot, InFlight, AtJob, Loading, Calls
  <2>3. Streams'
    BY <1>11 DEF Drain, Streams, AtJob, Elsewhere, DeviceIdle, Loading, Calls, Begun, Handed, Marked
  <2>4. AtJob'
    BY <1>11 DEF Drain, AtJob, InFlight, Streams, Elsewhere, DeviceIdle, Loading, Calls, Begun, Handed, Marked, Everything
  <2>5. Elsewhere'
    BY <1>11 DEF Drain, Elsewhere, DeviceIdle, Loaded, Unwinding, Streams, AtJob, Loading, Calls, Begun, Handed, Everything
  <2> QED
    BY <2>1, <2>2, <2>3, <2>4, <2>5
<1>12. CASE DrainUploads
  <2>1. UploadTypeOK'
    BY <1>0, <1>12 DEF DrainUploads, AtJob, Elsewhere, Loading, Loaded, Places, Calls
  <2>2. QueuedWorkReadsItsWeight' /\ OnePerSlot'
    BY <1>12 DEF DrainUploads, QueuedWorkReadsItsWeight, OnePerSlot, InFlight, AtJob, Loading, Calls
  <2>3. Streams'
    BY <1>12 DEF DrainUploads, Streams, AtJob, Elsewhere, DeviceIdle, Loading, Calls, Begun, Handed, Marked
  <2>4. AtJob'
    BY <1>12 DEF DrainUploads, AtJob, InFlight, Streams, Elsewhere, DeviceIdle, Loading, Calls, Begun, Handed, Marked, Everything
  <2>5. Elsewhere'
    BY <1>12 DEF DrainUploads, Elsewhere, DeviceIdle, Loaded, Unwinding, Streams, AtJob, Loading, Calls, Begun, Handed, Everything
  <2> QED
    BY <2>1, <2>2, <2>3, <2>4, <2>5
<1>13. CASE Register
  <2>1. UploadTypeOK'
    <3>1. job \in Jobs
      BY <1>13 DEF Register, AtJob, Elsewhere, Loading, Loaded, Calls
    <3>2. job \in 0..NumJobs /\ job + 1 \in 1..(NumJobs + 1)
      BY <3>1, JobNumbers
    <3> QED
      BY <1>0, <1>13, <3>1, <3>2 DEF Register, AfterWeight, Places, Calls
  <2>2. QueuedWorkReadsItsWeight' /\ OnePerSlot'
    BY <1>13 DEF Register, AfterWeight, QueuedWorkReadsItsWeight, OnePerSlot, InFlight, AtJob, Loading, Calls
  <2>3. Streams'
    BY <1>13 DEF Register, AfterWeight, Streams, AtJob, Elsewhere, DeviceIdle, Loading, Calls, Begun, Handed, Marked
  <2>4. AtJob'
    BY <1>13 DEF Register, AfterWeight, AtJob, InFlight, Streams, Elsewhere, DeviceIdle, Loading, Calls, Begun, Handed, Marked, Everything
  <2>5. Elsewhere'
    BY <1>13 DEF Register, AfterWeight, Elsewhere, DeviceIdle, Loaded, Unwinding, Streams, AtJob, Loading, Calls, Begun, Handed, Everything
  <2> QED
    BY <2>1, <2>2, <2>3, <2>4, <2>5
<1>14. CASE FreeStaging
  <2>1. UploadTypeOK'
    BY <1>0, <1>14 DEF FreeStaging, AtJob, Elsewhere, Loading, Loaded, Places, Calls
  <2>2. QueuedWorkReadsItsWeight' /\ OnePerSlot'
    BY <1>14 DEF FreeStaging, QueuedWorkReadsItsWeight, OnePerSlot, InFlight, AtJob, Loading, Calls
  <2>3. Streams'
    BY <1>14 DEF FreeStaging, Streams, AtJob, Elsewhere, DeviceIdle, Loading, Calls, Begun, Handed, Marked
  <2>4. AtJob'
    BY <1>14 DEF FreeStaging, AtJob, InFlight, Streams, Elsewhere, DeviceIdle, Loading, Calls, Begun, Handed, Marked, Everything
  <2>5. Elsewhere'
    BY <1>14 DEF FreeStaging, Elsewhere, DeviceIdle, Loaded, Unwinding, Streams, AtJob, Loading, Calls, Begun, Handed, Everything
  <2> QED
    BY <2>1, <2>2, <2>3, <2>4, <2>5
<1>15. CASE FreeRing
  <2>1. UploadTypeOK'
    BY <1>0, <1>15 DEF FreeRing, AtJob, Elsewhere, Loading, Loaded, Places, Calls
  <2>2. QueuedWorkReadsItsWeight' /\ OnePerSlot'
    BY <1>15 DEF FreeRing, QueuedWorkReadsItsWeight, OnePerSlot, InFlight, AtJob, Loading, Calls
  <2>3. Streams'
    BY <1>15 DEF FreeRing, Streams, AtJob, Elsewhere, DeviceIdle, Loading, Calls, Begun, Handed, Marked
  <2>4. AtJob'
    BY <1>15 DEF FreeRing, AtJob, InFlight, Streams, Elsewhere, DeviceIdle, Loading, Calls, Begun, Handed, Marked, Everything
  <2>5. Elsewhere'
    BY <1>15 DEF FreeRing, Elsewhere, DeviceIdle, Loaded, Unwinding, Streams, AtJob, Loading, Calls, Begun, Handed, Everything
  <2> QED
    BY <2>1, <2>2, <2>3, <2>4, <2>5
<1>16. CASE Return
  <2>1. UploadTypeOK'
    BY <1>0, <1>16 DEF Return, AtJob, Elsewhere, Loading, Loaded, Places, Calls
  <2>2. QueuedWorkReadsItsWeight' /\ OnePerSlot'
    BY <1>16 DEF Return, QueuedWorkReadsItsWeight, OnePerSlot, InFlight, AtJob, Loading, Calls
  <2>3. Streams'
    BY <1>16 DEF Return, Streams, AtJob, Elsewhere, DeviceIdle, Loading, Calls, Begun, Handed, Marked
  <2>4. AtJob'
    BY <1>16 DEF Return, AtJob, InFlight, Streams, Elsewhere, DeviceIdle, Loading, Calls, Begun, Handed, Marked, Everything
  <2>5. Elsewhere'
    BY <1>16 DEF Return, Elsewhere, DeviceIdle, Loaded, Unwinding, Streams, AtJob, Loading, Calls, Begun, Handed, Everything
  <2> QED
    BY <2>1, <2>2, <2>3, <2>4, <2>5
<1>17. CASE UnwindRing
  <2>1. UploadTypeOK'
    BY <1>0, <1>17 DEF UnwindRing, AtJob, Elsewhere, Loading, Loaded, Places, Calls
  <2>2. QueuedWorkReadsItsWeight' /\ OnePerSlot'
    BY <1>17 DEF UnwindRing, QueuedWorkReadsItsWeight, OnePerSlot, InFlight, AtJob, Loading, Calls
  <2>3. Streams'
    BY <1>17 DEF UnwindRing, Streams, AtJob, Elsewhere, DeviceIdle, Loading, Calls, Begun, Handed, Marked
  <2>4. AtJob'
    BY <1>17 DEF UnwindRing, AtJob, InFlight, Streams, Elsewhere, DeviceIdle, Loading, Calls, Begun, Handed, Marked, Everything
  <2>5. Elsewhere'
    BY <1>17 DEF UnwindRing, Elsewhere, DeviceIdle, Loaded, Unwinding, Streams, AtJob, Loading, Calls, Begun, Handed, Everything
  <2> QED
    BY <2>1, <2>2, <2>3, <2>4, <2>5
<1>18. CASE UnwindPool
  <2>1. UploadTypeOK'
    BY <1>0, <1>18 DEF UnwindPool, AtJob, Elsewhere, Loading, Loaded, Places, Calls
  <2>2. QueuedWorkReadsItsWeight' /\ OnePerSlot'
    BY <1>18 DEF UnwindPool, QueuedWorkReadsItsWeight, OnePerSlot, InFlight, AtJob, Loading, Calls
  <2>3. Streams'
    BY <1>18 DEF UnwindPool, Streams, AtJob, Elsewhere, DeviceIdle, Loading, Calls, Begun, Handed, Marked
  <2>4. AtJob'
    BY <1>18 DEF UnwindPool, AtJob, InFlight, Streams, Elsewhere, DeviceIdle, Loading, Calls, Begun, Handed, Marked, Everything
  <2>5. Elsewhere'
    BY <1>18 DEF UnwindPool, Elsewhere, DeviceIdle, Loaded, Unwinding, Streams, AtJob, Loading, Calls, Begun, Handed, Everything
  <2> QED
    BY <2>1, <2>2, <2>3, <2>4, <2>5
<1>19. CASE FailToAllocate
  <2>1. UploadTypeOK'
    BY <1>0, <1>19 DEF FailToAllocate, AtJob, Elsewhere, Loading, Loaded, Places, Calls
  <2>2. QueuedWorkReadsItsWeight' /\ OnePerSlot'
    BY <1>19 DEF FailToAllocate, QueuedWorkReadsItsWeight, OnePerSlot, InFlight, AtJob, Loading, Calls
  <2>3. Streams'
    BY <1>19 DEF FailToAllocate, Streams, AtJob, Elsewhere, DeviceIdle, Loading, Calls, Begun, Handed, Marked
  <2>4. AtJob'
    BY <1>19 DEF FailToAllocate, AtJob, InFlight, Streams, Elsewhere, DeviceIdle, Loading, Calls, Begun, Handed, Marked, Everything
  <2>5. Elsewhere'
    BY <1>19 DEF FailToAllocate, Elsewhere, DeviceIdle, Loaded, Unwinding, Streams, AtJob, Loading, Calls, Begun, Handed, Everything
  <2> QED
    BY <2>1, <2>2, <2>3, <2>4, <2>5
<1>20. CASE Fail
  <2>1. UploadTypeOK'
    BY <1>0, <1>20 DEF Fail, AtJob, Elsewhere, Loading, Loaded, Places, Calls
  <2>2. QueuedWorkReadsItsWeight' /\ OnePerSlot'
    BY <1>20 DEF Fail, QueuedWorkReadsItsWeight, OnePerSlot, InFlight, AtJob, Loading, Calls
  <2>3. Streams'
    BY <1>20 DEF Fail, Streams, AtJob, Elsewhere, DeviceIdle, Loading, Calls, Begun, Handed, Marked
  <2>4. AtJob'
    BY <1>20 DEF Fail, AtJob, InFlight, Streams, Elsewhere, DeviceIdle, Loading, Calls, Begun, Handed, Marked, Everything
  <2>5. Elsewhere'
    BY <1>20 DEF Fail, Elsewhere, DeviceIdle, Loaded, Unwinding, Streams, AtJob, Loading, Calls, Begun, Handed, Everything
  <2> QED
    BY <2>1, <2>2, <2>3, <2>4, <2>5
<1>21. CASE FailToRegister
  <2>1. UploadTypeOK'
    <3>1. job \in Jobs
      BY <1>21 DEF FailToRegister, AtJob, Elsewhere, Loading, Loaded, Calls
    <3>2. job \in 0..NumJobs /\ job + 1 \in 1..(NumJobs + 1)
      BY <3>1, JobNumbers
    <3> QED
      BY <1>0, <1>21, <3>1, <3>2 DEF FailToRegister, AfterWeight, Places, Calls
  <2>2. QueuedWorkReadsItsWeight' /\ OnePerSlot'
    BY <1>21 DEF FailToRegister, AfterWeight, QueuedWorkReadsItsWeight, OnePerSlot, InFlight, AtJob, Loading, Calls
  <2>3. Streams'
    BY <1>21 DEF FailToRegister, AfterWeight, Streams, AtJob, Elsewhere, DeviceIdle, Loading, Calls, Begun, Handed, Marked
  <2>4. AtJob'
    BY <1>21 DEF FailToRegister, AfterWeight, AtJob, InFlight, Streams, Elsewhere, DeviceIdle, Loading, Calls, Begun, Handed, Marked, Everything
  <2>5. Elsewhere'
    BY <1>21 DEF FailToRegister, AfterWeight, Elsewhere, DeviceIdle, Loaded, Unwinding, Streams, AtJob, Loading, Calls, Begun, Handed, Everything
  <2> QED
    BY <2>1, <2>2, <2>3, <2>4, <2>5
<1>30. ASSUME NEW i \in Jobs, DeviceUpload(i) PROVE UploadIInv'
  <2>1. UploadTypeOK'
    BY <1>0, <1>30 DEF DeviceUpload, AtJob, Elsewhere, Loading, Loaded, Places, Calls
  <2>2. QueuedWorkReadsItsWeight' /\ OnePerSlot'
    BY <1>30 DEF DeviceUpload, QueuedWorkReadsItsWeight, OnePerSlot, InFlight, AtJob, Loading, Calls
  <2>3. Streams'
    BY <1>30 DEF DeviceUpload, Streams, AtJob, Elsewhere, DeviceIdle, Loading, Calls, Begun, Handed, Marked
  <2>4. AtJob'
    <3>1. staging' = [staging EXCEPT ![Slot(i)] = i] /\ i \in InFlight
      BY <1>30 DEF DeviceUpload, QueuedWorkReadsItsWeight, InFlight
    <3>2. pc \in {"fence", "repack"} =>
            job \in copies' \/ staging'[Slot(job)] = job
      BY <1>30, <3>1 DEF DeviceUpload, AtJob, Loading, Calls
    <3> QED
      BY <1>30, <3>2 DEF DeviceUpload, AtJob, InFlight, Loading, Calls
  <2>5. Elsewhere'
    BY <1>30 DEF DeviceUpload, Elsewhere, DeviceIdle, Loaded, Unwinding, Streams, AtJob, Loading, Calls, Begun, Handed, Everything
  <2> QED
    BY <2>1, <2>2, <2>3, <2>4, <2>5
<1>31. ASSUME NEW i \in Jobs, DeviceRepack(i) PROVE UploadIInv'
  <2>1. UploadTypeOK'
    BY <1>0, <1>31 DEF DeviceRepack, UploadReached, OnePerSlot, AtJob, Elsewhere, Loading, Loaded, Places, Calls
  <2>2. QueuedWorkReadsItsWeight' /\ OnePerSlot'
    BY <1>31 DEF DeviceRepack, UploadReached, OnePerSlot, QueuedWorkReadsItsWeight, OnePerSlot, InFlight, AtJob, Loading, Calls
  <2>3. Streams'
    <3>1. i \notin copies /\ staging[Slot(i)] = i
      BY <1>31 DEF DeviceRepack, UploadReached, OnePerSlot, QueuedWorkReadsItsWeight
    <3>2. pool' = [pool EXCEPT ![i] = i]
      BY <1>31, <3>1 DEF DeviceRepack
    <3>3. pc \in Loading =>
            \A j \in Jobs : Handed(j)' => j \in repacks' \/ pool'[j] = j
      BY <1>31, <3>2 DEF DeviceRepack, Streams, Loading, Calls, Handed
    <3> QED
      BY <1>31, <3>1, <3>3 DEF DeviceRepack, Streams, Begun, Handed, Marked
  <2>4. AtJob'
    BY <1>31 DEF DeviceRepack, UploadReached, OnePerSlot, AtJob, InFlight, Streams, Elsewhere, DeviceIdle, Loading, Calls, Begun, Handed, Marked, Everything
  <2>5. Elsewhere'
    BY <1>31 DEF DeviceRepack, UploadReached, OnePerSlot, Elsewhere, DeviceIdle, Loaded, Unwinding, Streams, AtJob, Loading, Calls, Begun, Handed, Everything
  <2> QED
    BY <2>1, <2>2, <2>3, <2>4, <2>5
<1> QED
  BY <1>1, <1>2, <1>3, <1>4, <1>5, <1>6, <1>7, <1>8, <1>9, <1>10, <1>11, <1>12, <1>13, <1>14, <1>15, <1>16, <1>17, <1>18, <1>19, <1>20, <1>21, <1>30, <1>31 DEF UploadNext, HostStep, DeviceStep

LEMMA StutterInvariant == UploadIInv /\ UNCHANGED uploadVars => UploadIInv'
BY DEF uploadVars, memoryVars, deviceVars, ownerVars, UploadIInv, UploadTypeOK,
       QueuedWorkReadsItsWeight, OnePerSlot, InFlight, Streams, AtJob, Elsewhere,
       DeviceIdle, Begun, Handed, Marked

(* The inductive invariant. *)
THEOREM UploadCorrect == UploadSpec => []UploadIInv
<1>1. UploadIInv /\ [UploadNext]_uploadVars => UploadIInv'
  BY StepInvariant, StutterInvariant
<1> QED
  BY InitInvariant, <1>1, PTL DEF UploadSpec

(* Every variable keeps its type. *)
THEOREM UploadTypeCorrect == UploadSpec => []UploadTypeOK
<1>1. UploadIInv => UploadTypeOK
  BY DEF UploadIInv
<1> QED
  BY <1>1, UploadCorrect, PTL

(* No slot is written again while a stream has work with what is in it:    *)
(* the waits for the two events in processJobs().                          *)
THEOREM QueuedWorkReadsItsWeightHolds == UploadSpec => []QueuedWorkReadsItsWeight
<1>1. UploadIInv => QueuedWorkReadsItsWeight
  BY DEF UploadIInv
<1> QED
  BY <1>1, UploadCorrect, PTL

(* Kernels registered after load() find their weights in the pool.         *)
THEOREM KernelsFindTheirWeightHolds == UploadSpec => []KernelsFindTheirWeight
<1>1. ASSUME UploadIInv PROVE KernelsFindTheirWeight
  <2>1. CASE pc \in Loading \cup Unwinding \cup {"new"}
    BY <1>1, <2>1 DEF UploadIInv, AtJob, Elsewhere, KernelsFindTheirWeight
  <2>2. CASE pc \in Loaded
    BY <1>1, <2>2
    DEF UploadIInv, UploadTypeOK, Elsewhere, KernelsFindTheirWeight, Loaded, Everything
  <2> QED
    BY <1>1, <2>1, <2>2
    DEF UploadIInv, UploadTypeOK, Places, Loading, Loaded, Unwinding
<1> QED
  BY <1>1, UploadCorrect, PTL

(* Memory is freed behind a synchronization, whatever call failed before.  *)
THEOREM NothingFreedInUseHolds == UploadSpec => []NothingFreedInUse
<1>1. ASSUME UploadIInv PROVE NothingFreedInUse
  <2>1. ~DeviceIdle => held = Everything
    BY <1>1 DEF UploadIInv, UploadTypeOK, Places, AtJob, Elsewhere, Loading, Loaded, Unwinding
  <2> QED
    BY <2>1 DEF NothingFreedInUse, DeviceIdle, Everything
<1> QED
  BY <1>1, UploadCorrect, PTL

(* finalize() and the destructors leave nothing but a pool that is shared. *)
THEOREM TemporariesAreFreedHolds == UploadSpec => []TemporariesAreFreed
<1>1. UploadIInv => TemporariesAreFreed
  BY DEF UploadIInv, Elsewhere, TemporariesAreFreed, Loaded, Unwinding
<1> QED
  BY <1>1, UploadCorrect, PTL

(* Host bytes are released by Register only, after all streams have ended. *)
THEOREM DroppedOnlyWhenInPlaceHolds == UploadSpec => DroppedOnlyWhenInPlace
<1>1. ASSUME UploadIInv, UploadNext, NEW i \in host \ host'
      PROVE  i \in kernels' /\ pool'[i] = i
  <2>1. host' = host \/ Register
    BY <1>1 DEF UploadNext, HostStep, DeviceStep, DeviceUpload, DeviceRepack, ownerVars,
      Allocate, WaitForSlot, RefuseJob, Stage, Upload, Fence, Repack, CopyReturns, Mark,
      Settle, Drain, DrainUploads, FreeStaging, FreeRing, Return, UnwindRing, UnwindPool,
      FailToAllocate, Fail, FailToRegister
  <2> QED
    BY <1>1, <2>1
    DEF Register, UploadIInv, UploadTypeOK, Elsewhere, Loaded, memoryVars
<1>2. ASSUME UploadIInv, [UploadNext]_uploadVars
      PROVE  [\A i \in host \ host' : i \in kernels' /\ pool'[i] = i]_uploadVars
  BY <1>1, <1>2
<1> QED
  BY <1>2, UploadCorrect, PTL DEF UploadSpec, DroppedOnlyWhenInPlace
=============================================================================
