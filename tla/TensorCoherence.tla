--------------------------- MODULE TensorCoherence ---------------------------
(***************************************************************************)
(* What the operations of a TensorBase do to its copies: the coherence     *)
(* state machine (CoherenceState.h), the transfers between host and GPUs   *)
(* (TransferEngine, TensorBase) and the tracking of an arena buffer        *)
(* (CoherenceTracker). An operation is the set of its outcomes, a tensor   *)
(* and whether the call succeeded; the faults that may happen are a        *)
(* constant. Standard residency; mapped and GPU-only tensors, streams and  *)
(* completion events are not modelled.                                     *)
(***************************************************************************)
EXTENDS Naturals, FiniteSets

CONSTANTS
  GPUs,      \* devices with memory of their own
  VendorOf,  \* GPU -> its vendor: only GPUs of one vendor copy directly
  Cpu,       \* the host as a device
  None,      \* no device
  Faults     \* of {"allocate", "upload", "download", "peer"}

ASSUME CoherenceAssumption ==
  /\ Cpu \notin GPUs /\ None \notin GPUs /\ Cpu # None
  /\ GPUs \subseteq DOMAIN VendorOf
  /\ Faults \subseteq {"allocate", "upload", "download", "peer"}

Devices == GPUs \cup {Cpu}

(* What a buffer holds: nothing is allocated, nobody wrote it, or the      *)
(* activation that a stage computed in a pass.                             *)
NoBuffer == <<0, 0>>
Garbage  == <<0, 1>>

(* gpu and data: gpu_device_ and what gpu_data_ptr_ points at; parked:     *)
(* secondary_device_buffers_; auth: authoritative_device_.                 *)
NewTensor ==
  [state |-> "host_only", host |-> Garbage, gpu |-> None, data |-> NoBuffer,
   parked |-> [d \in GPUs |-> NoBuffer], auth |-> None]

HostValid(t)   == t.state # "device"
DeviceValid(t) == t.state \in {"device", "synced"}

Ok(t)     == {[tensor |-> t, ok |-> TRUE]}
Failed(t) == {[tensor |-> t, ok |-> FALSE]}
MayFail(fault, t) == IF fault \in Faults THEN Failed(t) ELSE {}

(* One call after another, up to the first that fails.                     *)
Then(outcomes, Op(_)) ==
  UNION {IF o.ok THEN Op(o.tensor) ELSE {o} : o \in outcomes}

-----------------------------------------------------------------------------
(* The transition table. An illegal operation leaves the state alone.      *)

Transition(state, op) ==
  CASE op = "upload"   -> "synced"
    [] op = "release"  -> "host_only"
    [] op = "download" -> IF state = "device" THEN "synced" ELSE state
    [] op = "mark_device_dirty" -> IF state = "host_only" THEN state ELSE "device"
    [] op = "mutable_host" ->
         IF state = "device" THEN "synced" ELSE IF state = "synced" THEN "host" ELSE state

Apply(t, op) == [t EXCEPT !.state = Transition(@, op)]

(* transitionTo() sets the state whatever it was. *)
DeviceAuthoritative(t, d) == [t EXCEPT !.state = "device", !.auth = d]
HostAuthoritative(t)      == [t EXCEPT !.state = "host", !.auth = None]

-----------------------------------------------------------------------------
(* Device buffers. *)

Content(t, d) == IF t.gpu = d THEN t.data ELSE t.parked[d]
Fill(t, d, content) ==
  IF t.gpu = d THEN [t EXCEPT !.data = content] ELSE [t EXCEPT !.parked[d] = content]

(* getOrAllocateDeviceBuffer() *)
BufferOn(t, d) ==
  IF Content(t, d) # NoBuffer
    THEN Ok(t)
    ELSE Ok([t EXCEPT !.parked[d] = Garbage]) \cup MayFail("allocate", t)

(* The primary buffer is kept, unless the device has another parked.       *)
Park(t) ==
  IF t.gpu # None /\ t.parked[t.gpu] = NoBuffer
    THEN [t EXCEPT !.parked[t.gpu] = t.data] ELSE t

Promote(t, d) ==
  [Park(t) EXCEPT !.gpu = d, !.data = t.parked[d], !.parked[d] = NoBuffer]

WithoutPrimary(t) == [t EXCEPT !.gpu = None, !.data = NoBuffer]

(* A fresh primary buffer: the host copy is declared to be the valid one.  *)
FreshPrimary(t, d) ==
  Ok([t EXCEPT !.gpu = d, !.data = Garbage, !.state = "host"]) \cup MayFail("allocate", t)

(* Mutant: an allocation that is there already is declared stale. *)
AllocateOnDeviceResets(t, d) ==
  CASE d = Cpu   -> Ok(t)
    [] t.gpu = d -> Ok([t EXCEPT !.state = "host"])
    [] OTHER     ->
         IF t.parked[d] # NoBuffer
           THEN Ok([Promote(t, d) EXCEPT !.state = "host"])
           ELSE FreshPrimary(IF t.gpu = None THEN t
                             ELSE Apply(WithoutPrimary(t), "release"), d)

(* allocateOnDevice(): a buffer to write to, its content does not matter.  *)
AllocateOnDevice(t, d) ==
  CASE d = Cpu \/ t.gpu = d -> Ok(t)
    [] OTHER ->
         IF t.parked[d] # NoBuffer
           THEN Ok([Promote(t, d) EXCEPT !.state = "host"])
           ELSE FreshPrimary(IF t.gpu = None THEN t
                             ELSE Apply(WithoutPrimary(t), "release"), d)

-----------------------------------------------------------------------------
(* Transfers between host and device. *)

(* uploadFull(), once the primary buffer is on the device. *)
UploadTo(t) ==
  IF DeviceValid(t)
    THEN Ok(t)
    ELSE Ok(Apply([t EXCEPT !.data = t.host], "upload"))
           \cup MayFail("upload", WithoutPrimary(t))

(* ensureOnDevice(). A tensor that is on another GPU is moved without its  *)
(* data: the host copy is declared to be the valid one.                    *)
EnsureOnDevice(t, d) ==
  CASE d = Cpu   -> Ok(t)
    [] t.gpu = d -> UploadTo(t)
    [] OTHER     ->
         IF t.gpu # None /\ t.parked[d] # NoBuffer
           THEN UploadTo([Promote(t, d) EXCEPT !.state = "host"])
           ELSE Then(FreshPrimary(IF t.gpu = None THEN t
                                  ELSE Apply(WithoutPrimary(Park(t)), "release"), d),
                     UploadTo)

(* ensureOnHost() *)
EnsureOnHost(t) ==
  CASE HostValid(t)  -> Ok(t)
    [] t.gpu = None  -> Ok(t)
    [] OTHER         -> Ok(Apply([t EXCEPT !.host = t.data, !.auth = None], "download"))
                          \cup MayFail("download", t)

(* data(): the host pointer, whether the download succeeded or not.        *)
Data(t) == {[o EXCEPT !.ok = TRUE] : o \in EnsureOnHost(t)}

InvalidateGpuData(t) == IF t.gpu = None THEN t ELSE Apply(t, "mutable_host")

(* Writing through mutable_data(). *)
WriteHost(t, content) ==
  {[o EXCEPT !.tensor = [InvalidateGpuData(@) EXCEPT !.host = content]] : o \in Data(t)}

-----------------------------------------------------------------------------
(* Transfers between devices. *)

(* transferTo() between GPUs of one vendor. *)
TransferTo(t, d) ==
  IF t.auth = d THEN Ok(t)
  ELSE IF t.auth \notin GPUs \/ t.gpu = None THEN Failed(t)
  ELSE Then(BufferOn(t, d),
            LAMBDA b : Ok(Apply([Promote(Fill(b, d, b.data), d) EXCEPT !.auth = d],
                                "mark_device_dirty"))
                         \cup MayFail("peer", b))

(* transferActivation() to a GPU: from a valid device copy, which is of     *)
(* another vendor, through the host; without one, from the host. The       *)
(* primary buffer stays where it was.                                      *)
TransferActivation(t, d) ==
  LET Arrived(b, content) ==
        Ok(Apply([Fill(b, d, content) EXCEPT !.host = content, !.auth = d],
                 "mark_device_dirty"))
      onGpu == t.gpu # None /\ DeviceValid(t)
  IN CASE onGpu /\ t.gpu = d -> Ok(t)
       [] onGpu /\ t.gpu # d ->
            Then(BufferOn(t, d),
                 LAMBDA b : Arrived(b, b.data)
                              \cup MayFail("download", b)
                              \cup MayFail("upload", [b EXCEPT !.host = b.data]))
       [] ~onGpu /\ HostValid(t) ->
            Then(BufferOn(t, d),
                 LAMBDA b : Arrived(b, b.host) \cup MayFail("upload", b))
       [] OTHER -> Failed(t)

(* Where copyActivation() finds the data: getAuthoritativeDevice(). *)
SourceDevice(src) == src.auth

(* GPUs of two vendors have no direct path, nor has the host.              *)
Direct(from, d) == from \in GPUs /\ VendorOf[from] = VendorOf[d]

(* The source of a copyActivation() to a GPU: what is read, and where the  *)
(* reading leaves the source tensor.                                       *)
Sourced(src, d) ==
  LET from == SourceDevice(src)
      Read(t, content) == {[tensor |-> t, content |-> content, ok |-> TRUE]}
      Lost(t) == {[tensor |-> t, content |-> Garbage, ok |-> FALSE]}
      Fails(fault, t) == IF fault \in Faults THEN Lost(t) ELSE {}
      FromBuffer(t) ==
        IF Direct(from, d)
          THEN Read(t, Content(t, from)) \cup (IF from = d THEN {} ELSE Fails("peer", t))
          ELSE Read([t EXCEPT !.host = Content(t, from)], Content(t, from))
                 \cup Fails("download", t)
  IN IF from \in GPUs
       THEN UNION {IF o.ok THEN FromBuffer(o.tensor) ELSE Lost(o.tensor) :
                     o \in BufferOn(src, from)}
       ELSE UNION {Read(o.tensor, o.tensor.host) : o \in Data(src)}

(* The destination of a copyActivation() to a GPU becomes primary there.   *)
Received(dst, d, content) ==
  LET filled == Fill(dst, d, content)
      parked == IF dst.gpu = None THEN filled
                ELSE [filled EXCEPT !.parked[dst.gpu] = dst.data]
  IN DeviceAuthoritative(
       IF dst.gpu = d THEN filled
       ELSE [parked EXCEPT !.gpu = d, !.data = content, !.parked[d] = NoBuffer], d)

Copied(src, dst, ok) == {[src |-> src, dst |-> dst, ok |-> ok]}

(* copyActivation() *)
CopyActivation(src, dst, d) ==
  IF d = Cpu
    THEN UNION {UNION {Copied(from.tensor, to.tensor, TRUE) :
                         to \in WriteHost(dst, from.tensor.host)} : from \in Data(src)}
    ELSE UNION {
           IF ~to.ok THEN Copied(src, to.tensor, FALSE)
           ELSE UNION {
                  (IF read.ok
                     THEN Copied(read.tensor, Received(to.tensor, d, read.content), TRUE)
                     ELSE {})
                  \cup (IF ~read.ok \/ (~Direct(SourceDevice(src), d) /\ "upload" \in Faults)
                          THEN Copied(read.tensor, to.tensor, FALSE) ELSE {})
                  : read \in Sourced(src, d)}
           : to \in BufferOn(dst, d)}

-----------------------------------------------------------------------------
(* The tracking of an arena buffer: authority is UNINITIALIZED, HOST or    *)
(* DEVICE.                                                                 *)

Authorities == {"uninitialized", "host", "device"}

AuthorityOf(d) == IF d = Cpu THEN "host" ELSE "device"

(* Which GPU a valid device copy is on is not looked at.                   *)
PrepareForRead(t, authority, d) ==
  IF authority = "uninitialized" THEN Ok(t)
  ELSE IF d = Cpu THEN (IF t.state = "device" THEN EnsureOnHost(t) ELSE Ok(t))
  ELSE (IF DeviceValid(t) THEN Ok(t) ELSE EnsureOnDevice(t, d))

PrepareForWrite(t, d) == AllocateOnDevice(t, d)

(* Mutant: only the arena learns of the write. *)
MarkWrittenArenaOnly(t, d) == t

(* markWritten(), markWrittenFlagsOnly() *)
MarkWritten(t, d) == IF d = Cpu THEN HostAuthoritative(t) ELSE DeviceAuthoritative(t, d)

(* A kernel writes to gpu_data_ptr(), or through mutable_data().           *)
KernelWrites(t, d, content) ==
  IF d = Cpu THEN WriteHost(t, content) ELSE Ok([t EXCEPT !.data = content])

(* What a kernel finds in the tensor. *)
KernelReads(t, d) == IF d = Cpu THEN t.host ELSE t.data

=============================================================================
