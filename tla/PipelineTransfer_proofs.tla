------------------------ MODULE PipelineTransfer_proofs ------------------------
(***************************************************************************)
(* What the stages of a pipeline read, for every number of stages, devices *)
(* and passes, for both contexts, and whatever allocation, upload or       *)
(* transfer between GPUs fails: all but downloads. A download that fails   *)
(* is not noticed (Data), and then nothing here holds.                     *)
(*                                                                         *)
(* The first part says what each operation of TensorCoherence does to a    *)
(* tensor whose valid copies are a given activation. The invariant of the  *)
(* second part says where in a pass the activation of the stage before is. *)
(***************************************************************************)
EXTENDS PipelineTransfer, TLAPS

Contents == Nat \X Nat
States == {"host_only", "host", "device", "synced"}

(* A device copy that is valid is on a device. *)
GoodTensors ==
  {t \in [state : States, host : Contents, gpu : GPUs \cup {None}, data : Contents,
          parked : [GPUs -> Contents], auth : GPUs \cup {None}] :
     DeviceValid(t) => t.gpu # None}

(* The copies that are called valid are. *)
Current(t, c) ==
  /\ HostValid(t) => t.host = c
  /\ DeviceValid(t) => t.data = c

(* What a kernel of device d has written. *)
WrittenOn(t, d, c) ==
  IF d = Cpu
    THEN t.state = "host" /\ t.auth = None /\ t.host = c
    ELSE /\ t.gpu = d /\ t.data = c
         /\ \/ t.state = "device" /\ t.auth = d
            \/ t.state = "synced" /\ t.auth = None /\ t.host = c

(* What is found on device d if it is made ready there. A transfer between *)
(* vendors leaves the primary buffer behind, and a copy wherever one may   *)
(* be looked for.                                                          *)
Reaches(t, d, c) ==
  /\ Current(t, c)
  /\ d # Cpu /\ DeviceValid(t) /\ t.gpu # d => t.parked[d] = c /\ t.host = c

(* The authoritative device has it. *)
Authoritative(t, c) == t.auth \in GPUs => Content(t, t.auth) = c

(* A tensor nothing has to be done to. *)
InPlace(t, d) == IF d = Cpu THEN HostValid(t) ELSE t.gpu = d /\ DeviceValid(t)
-----------------------------------------------------------------------------
(* One tensor. *)

LEMMA TensorFields ==
  ASSUME NEW t \in GoodTensors
  PROVE  /\ t.state \in States /\ t.host \in Contents /\ t.gpu \in GPUs \cup {None}
         /\ t.data \in Contents /\ t.parked \in [GPUs -> Contents]
         /\ t.auth \in GPUs \cup {None} /\ (DeviceValid(t) => t.gpu # None)
BY DEF GoodTensors

LEMMA ParkedElsewhere ==
  ASSUME NEW t \in GoodTensors, NEW d \in GPUs, NEW c \in Contents
  PROVE  /\ [t EXCEPT !.parked[d] = c] \in GoodTensors
         /\ [t EXCEPT !.parked[d] = c].state = t.state
         /\ [t EXCEPT !.parked[d] = c].host = t.host
         /\ [t EXCEPT !.parked[d] = c].gpu = t.gpu
         /\ [t EXCEPT !.parked[d] = c].data = t.data
         /\ [t EXCEPT !.parked[d] = c].auth = t.auth
         /\ [t EXCEPT !.parked[d] = c].parked = [t.parked EXCEPT ![d] = c]
<1>1. [t.parked EXCEPT ![d] = c] \in [GPUs -> Contents]
  BY TensorFields
<1>2. [t EXCEPT !.parked[d] = c] = [t EXCEPT !.parked = [t.parked EXCEPT ![d] = c]]
  OBVIOUS
<1> QED
  BY <1>1, <1>2, TensorFields DEF GoodTensors, DeviceValid

LEMMA ParkKeeps ==
  ASSUME NEW t \in GoodTensors
  PROVE  /\ Park(t) \in GoodTensors
         /\ Park(t).state = t.state /\ Park(t).host = t.host /\ Park(t).gpu = t.gpu
         /\ Park(t).data = t.data /\ Park(t).auth = t.auth
<1>1. CASE t.gpu # None /\ t.parked[t.gpu] = NoBuffer
  <2>1. t.gpu \in GPUs /\ t.data \in Contents
    BY <1>1, TensorFields
  <2> QED
    BY <1>1, <2>1, ParkedElsewhere DEF Park
<1>2. CASE ~(t.gpu # None /\ t.parked[t.gpu] = NoBuffer)
  BY <1>2 DEF Park
<1> QED
  BY <1>1, <1>2

LEMMA NoBufferIsContent == NoBuffer \in Contents /\ Garbage \in Contents
BY DEF NoBuffer, Garbage, Contents

(* The parked buffer of a device becomes the primary one. *)
LEMMA PromoteMoves ==
  ASSUME NEW t \in GoodTensors, NEW d \in GPUs
  PROVE  /\ Promote(t, d) \in GoodTensors
         /\ Promote(t, d).state = t.state /\ Promote(t, d).host = t.host
         /\ Promote(t, d).gpu = d /\ Promote(t, d).data = t.parked[d]
         /\ Promote(t, d).auth = t.auth
<1> DEFINE p == Park(t)
           u == [p EXCEPT !.gpu = d, !.data = t.parked[d]]
<1>1. /\ p \in GoodTensors /\ p.state = t.state /\ p.host = t.host /\ p.auth = t.auth
      /\ t.parked[d] \in Contents /\ d # None
  BY ParkKeeps, TensorFields, CoherenceAssumption
<1>2. Promote(t, d) = [u EXCEPT !.parked[d] = NoBuffer]
  BY DEF Promote
<1> HIDE DEF p
<1>3. /\ u \in GoodTensors /\ u.state = p.state /\ u.host = p.host /\ u.auth = p.auth
      /\ u.gpu = d /\ u.data = t.parked[d]
  BY <1>1 DEF GoodTensors, DeviceValid
<1> HIDE DEF u
<1> QED
  BY <1>1, <1>2, <1>3, ParkedElsewhere, NoBufferIsContent

LEMMA WithoutPrimaryKeeps ==
  ASSUME NEW t \in GoodTensors, ~DeviceValid(t)
  PROVE  /\ WithoutPrimary(t) \in GoodTensors
         /\ WithoutPrimary(t).state = t.state /\ WithoutPrimary(t).host = t.host
BY NoBufferIsContent DEF WithoutPrimary, GoodTensors, DeviceValid

LEMMA ReleaseKeeps ==
  ASSUME NEW t \in GoodTensors, NEW u, u = Apply(WithoutPrimary(t), "release")
  PROVE  u \in GoodTensors /\ u.host = t.host
BY NoBufferIsContent DEF Apply, Transition, WithoutPrimary, GoodTensors, DeviceValid, States

LEMMA DeclareHost ==
  ASSUME NEW t \in GoodTensors
  PROVE  /\ [t EXCEPT !.state = "host"] \in GoodTensors
         /\ [t EXCEPT !.state = "host"].state = "host"
         /\ [t EXCEPT !.state = "host"].host = t.host
         /\ [t EXCEPT !.state = "host"].gpu = t.gpu
         /\ [t EXCEPT !.state = "host"].data = t.data
         /\ [t EXCEPT !.state = "host"].parked = t.parked
BY DEF GoodTensors, DeviceValid, States

LEMMA FreshPrimaryMoves ==
  ASSUME NEW t \in GoodTensors, NEW d \in GPUs, NEW o \in FreshPrimary(t, d)
  PROVE  /\ o.tensor \in GoodTensors /\ o.ok \in BOOLEAN
         /\ o.tensor.host = t.host
         /\ o.ok => o.tensor.gpu = d /\ o.tensor.state = "host"
<1>1. CASE o = [tensor |-> t, ok |-> FALSE]
  BY <1>1
<1>2. CASE o = [tensor |-> [t EXCEPT !.gpu = d, !.data = Garbage, !.state = "host"], ok |-> TRUE]
  BY <1>2, NoBufferIsContent DEF GoodTensors, DeviceValid, States
<1> QED
  BY <1>1, <1>2 DEF FreshPrimary, MayFail, Ok, Failed

(* A buffer to write to. It keeps what is in place, and promotes a copy.   *)
LEMMA AllocateOnDeviceGives ==
  ASSUME NEW t \in GoodTensors, NEW d \in Devices, NEW o \in AllocateOnDevice(t, d)
  PROVE  /\ o.tensor \in GoodTensors /\ o.ok \in BOOLEAN
         /\ d = Cpu \/ t.gpu = d => o.ok /\ o.tensor = t
         /\ o.ok /\ d # Cpu => o.tensor.gpu = d
         /\ d # Cpu /\ t.gpu # d /\ t.parked[d] # NoBuffer =>
              /\ o.ok /\ o.tensor.state = "host"
              /\ o.tensor.host = t.host /\ o.tensor.data = t.parked[d]
<1>1. CASE d = Cpu \/ t.gpu = d
  <2>1. AllocateOnDevice(t, d) = Ok(t)
    BY <1>1 DEF AllocateOnDevice
  <2>2. o = [tensor |-> t, ok |-> TRUE]
    BY <2>1 DEF Ok
  <2> QED
    BY <1>1, <2>2
<1>2. CASE ~(d = Cpu \/ t.gpu = d) /\ t.parked[d] # NoBuffer
  <2>1. d \in GPUs
    BY <1>2 DEF Devices
  <2>2. o = [tensor |-> [Promote(t, d) EXCEPT !.state = "host"], ok |-> TRUE]
    BY <1>2 DEF AllocateOnDevice, Ok
  <2> DEFINE p == Promote(t, d)
             u == [p EXCEPT !.state = "host"]
  <2>3. /\ p \in GoodTensors /\ p.host = t.host /\ p.gpu = d /\ p.data = t.parked[d]
    BY <2>1, PromoteMoves
  <2>4. o.ok = TRUE /\ o.tensor = u
    BY <2>2
  <2> HIDE DEF p
  <2>5. /\ u \in GoodTensors /\ u.state = "host" /\ u.host = p.host
        /\ u.gpu = p.gpu /\ u.data = p.data
    BY <2>3, DeclareHost
  <2> HIDE DEF u
  <2> QED
    BY <1>2, <2>1, <2>3, <2>4, <2>5
<1>3. CASE ~(d = Cpu \/ t.gpu = d) /\ ~(t.parked[d] # NoBuffer)
  <2> DEFINE u == IF t.gpu = None THEN t ELSE Apply(WithoutPrimary(t), "release")
  <2>1. d \in GPUs
    BY <1>3 DEF Devices
  <2>2. u \in GoodTensors
    BY ReleaseKeeps
  <2>3. o \in FreshPrimary(u, d)
    BY <1>3 DEF AllocateOnDevice
  <2> QED
    BY <1>3, <2>1, <2>2, <2>3, FreshPrimaryMoves
<1> QED
  BY <1>1, <1>2, <1>3

-----------------------------------------------------------------------------
(* Between host and device. *)

LEMMA UploadToGives ==
  ASSUME NEW t \in GoodTensors, t.gpu # None, NEW o \in UploadTo(t)
  PROVE  /\ o.tensor \in GoodTensors /\ o.ok \in BOOLEAN
         /\ DeviceValid(t) => o.ok /\ o.tensor = t
         /\ o.ok => o.tensor.gpu = t.gpu /\ DeviceValid(o.tensor)
         /\ \A c : o.ok /\ Current(t, c) => o.tensor.data = c /\ Current(o.tensor, c)
<1>1. CASE DeviceValid(t)
  <2>1. o = [tensor |-> t, ok |-> TRUE]
    BY <1>1 DEF UploadTo, Ok
  <2> QED
    BY <1>1, <2>1 DEF Current
<1>2. CASE ~DeviceValid(t)
  <2>1. CASE o = [tensor |-> Apply([t EXCEPT !.data = t.host], "upload"), ok |-> TRUE]
    <3>1. /\ o.tensor \in GoodTensors /\ o.tensor.state = "synced"
          /\ o.tensor.gpu = t.gpu /\ o.tensor.data = t.host /\ o.tensor.host = t.host
      BY <2>1 DEF Apply, Transition, GoodTensors, DeviceValid, States
    <3> QED
      BY <1>2, <2>1, <3>1, TensorFields DEF DeviceValid, HostValid, Current
  <2>2. CASE o = [tensor |-> WithoutPrimary(t), ok |-> FALSE]
    BY <1>2, <2>2, WithoutPrimaryKeeps
  <2> QED
    BY <1>2, <2>1, <2>2 DEF UploadTo, Ok, MayFail, Failed
<1> QED
  BY <1>1, <1>2

(* The tensor is brought to a device, from the host if it is not there.    *)
LEMMA EnsureOnDeviceGives ==
  ASSUME NEW t \in GoodTensors, NEW d \in Devices, NEW o \in EnsureOnDevice(t, d)
  PROVE  /\ o.tensor \in GoodTensors /\ o.ok \in BOOLEAN
         /\ d = Cpu => o.ok /\ o.tensor = t
         /\ d # Cpu /\ t.gpu = d /\ DeviceValid(t) => o.ok /\ o.tensor = t
         /\ o.ok /\ d # Cpu => o.tensor.gpu = d /\ DeviceValid(o.tensor)
         /\ \A c : o.ok /\ d # Cpu /\ Current(t, c) /\ (t.gpu = d \/ t.host = c)
              => o.tensor.data = c /\ Current(o.tensor, c)
<1>1. CASE d = Cpu
  <2> t.gpu # d
    BY <1>1, TensorFields, CoherenceAssumption
  <2>1. EnsureOnDevice(t, d) = Ok(t)
    BY <1>1 DEF EnsureOnDevice
  <2>2. o = [tensor |-> t, ok |-> TRUE]
    BY <2>1 DEF Ok
  <2> QED
    BY <1>1, <2>2
<1>2. CASE d # Cpu /\ t.gpu = d
  <2>1. d \in GPUs /\ d # None /\ o \in UploadTo(t)
    BY <1>2, CoherenceAssumption DEF EnsureOnDevice, Devices
  <2> QED
    BY <1>2, <2>1, UploadToGives
<1>3. CASE d # Cpu /\ t.gpu # d
  <2>1. d \in GPUs /\ d # None
    BY <1>3, CoherenceAssumption DEF Devices
  <2>2. ASSUME NEW u \in GoodTensors, u.gpu = d, u.state = "host", u.host = t.host,
               o \in UploadTo(u)
        PROVE  /\ o.tensor \in GoodTensors /\ o.ok \in BOOLEAN
               /\ o.ok => o.tensor.gpu = d /\ DeviceValid(o.tensor)
               /\ \A c : o.ok /\ t.host = c => o.tensor.data = c /\ Current(o.tensor, c)
    <3>1. \A c : t.host = c => Current(u, c)
      BY <2>2 DEF Current, DeviceValid
    <3> QED
      BY <2>1, <2>2, <3>1, UploadToGives
  <2>3. CASE t.gpu # None /\ t.parked[d] # NoBuffer
    <3> DEFINE u == [Promote(t, d) EXCEPT !.state = "host"]
    <3>1. u \in GoodTensors /\ u.gpu = d /\ u.state = "host" /\ u.host = t.host
      BY <2>1, PromoteMoves, DeclareHost
    <3>2. o \in UploadTo(u)
      BY <1>3, <2>3 DEF EnsureOnDevice
    <3> HIDE DEF u
    <3> QED
      BY <1>3, <2>2, <3>1, <3>2
  <2>4. CASE ~(t.gpu # None /\ t.parked[d] # NoBuffer)
    <3> DEFINE r == IF t.gpu = None THEN t ELSE Apply(WithoutPrimary(Park(t)), "release")
    <3>1. r \in GoodTensors /\ r.host = t.host
      <4>1. Park(t) \in GoodTensors /\ Park(t).host = t.host
        BY ParkKeeps
      <4> QED
        BY <4>1, ReleaseKeeps
    <3>2. o \in Then(FreshPrimary(r, d), UploadTo)
      BY <1>3, <2>4 DEF EnsureOnDevice
    <3> HIDE DEF r
    <3>3. PICK f \in FreshPrimary(r, d) : IF f.ok THEN o \in UploadTo(f.tensor) ELSE o = f
      BY <3>2 DEF Then
    <3>4. /\ f.tensor \in GoodTensors /\ f.ok \in BOOLEAN /\ f.tensor.host = t.host
          /\ f.ok => f.tensor.gpu = d /\ f.tensor.state = "host"
      BY <2>1, <3>1, FreshPrimaryMoves
    <3>5. CASE f.ok
      BY <1>3, <2>2, <3>3, <3>4, <3>5
    <3>6. CASE ~f.ok
      BY <1>3, <3>3, <3>4, <3>6
    <3> QED
      BY <3>5, <3>6
  <2> QED
    BY <2>3, <2>4
<1> QED
  BY <1>1, <1>2, <1>3


(* Nothing fails on the way to the host, if downloads do not.              *)
LEMMA EnsureOnHostGives ==
  ASSUME NEW t \in GoodTensors, "download" \notin Faults, NEW o \in EnsureOnHost(t)
  PROVE  /\ o.tensor \in GoodTensors /\ o.ok = TRUE
         /\ HostValid(t) => o.tensor = t
         /\ ~HostValid(t) => /\ o.tensor.state = "synced" /\ o.tensor.auth = None
                             /\ o.tensor.host = t.data
         /\ o.tensor.gpu = t.gpu /\ o.tensor.data = t.data
<1>1. CASE HostValid(t)
  <2>1. EnsureOnHost(t) = Ok(t)
    <3>1. CASE t.gpu = None
      BY <1>1, <3>1 DEF EnsureOnHost
    <3>2. CASE t.gpu # None
      BY <1>1, <3>2 DEF EnsureOnHost
    <3> QED
      BY <3>1, <3>2
  <2>2. o = [tensor |-> t, ok |-> TRUE]
    BY <2>1 DEF Ok
  <2> QED
    BY <1>1, <2>2
<1>2. CASE ~HostValid(t)
  <2> DEFINE m == [t EXCEPT !.host = t.data, !.auth = None]
             u == Apply(m, "download")
  <2>1. t.state = "device" /\ DeviceValid(t) /\ t.gpu # None
    BY <1>2, TensorFields DEF HostValid, DeviceValid
  <2>2. EnsureOnHost(t) = Ok(u) \cup MayFail("download", t)
    BY <1>2, <2>1 DEF EnsureOnHost
  <2>3. o = [tensor |-> u, ok |-> TRUE]
    BY <2>2 DEF Ok, MayFail
  <2>4. /\ m.state = "device" /\ m.host = t.data /\ m.gpu = t.gpu /\ m.data = t.data
        /\ m.auth = None /\ m \in GoodTensors
    BY <2>1, TensorFields DEF GoodTensors, DeviceValid
  <2> HIDE DEF m
  <2>5. u = [m EXCEPT !.state = "synced"]
    BY <2>4 DEF Apply, Transition
  <2>6. /\ u \in GoodTensors /\ u.state = "synced" /\ u.auth = None /\ u.host = t.data
        /\ u.gpu = t.gpu /\ u.data = t.data
    BY <2>1, <2>4, <2>5 DEF GoodTensors, DeviceValid, States
  <2> HIDE DEF u
  <2> QED
    BY <1>2, <2>3, <2>6
<1> QED
  BY <1>1, <1>2

LEMMA DataGives ==
  ASSUME NEW t \in GoodTensors, "download" \notin Faults, NEW o \in Data(t)
  PROVE  /\ o.tensor \in GoodTensors /\ o.ok = TRUE
         /\ HostValid(t) => o.tensor = t
         /\ ~HostValid(t) => /\ o.tensor.state = "synced" /\ o.tensor.auth = None
                             /\ o.tensor.host = t.data
         /\ o.tensor.gpu = t.gpu /\ o.tensor.data = t.data
         /\ \A c : Current(t, c) => o.tensor.host = c /\ Current(o.tensor, c)
<1>1. PICK e \in EnsureOnHost(t) : o = [e EXCEPT !.ok = TRUE]
  BY DEF Data
<1>2. /\ e.tensor \in GoodTensors /\ e.ok = TRUE
      /\ HostValid(t) => e.tensor = t
      /\ ~HostValid(t) => /\ e.tensor.state = "synced" /\ e.tensor.auth = None
                          /\ e.tensor.host = t.data
      /\ e.tensor.gpu = t.gpu /\ e.tensor.data = t.data
  BY EnsureOnHostGives
<1>3. o.tensor = e.tensor /\ o.ok = TRUE
  <2>1. e = [tensor |-> e.tensor, ok |-> e.ok]
    BY DEF EnsureOnHost, Ok, MayFail, Failed
  <2> QED
    BY <1>1, <2>1
<1>4. ASSUME NEW c, Current(t, c)
      PROVE  e.tensor.host = c /\ Current(e.tensor, c)
  BY <1>2, <1>4, TensorFields DEF Current, HostValid, DeviceValid, States
<1> QED
  BY <1>2, <1>3, <1>4

LEMMA InvalidateGives ==
  ASSUME NEW t \in GoodTensors, HostValid(t), NEW u, u = InvalidateGpuData(t)
  PROVE  /\ u \in GoodTensors /\ HostValid(u) /\ ~DeviceValid(u)
         /\ u.host = t.host /\ u.gpu = t.gpu /\ u.data = t.data /\ u.auth = t.auth
<1>1. CASE t.gpu = None
  BY <1>1, TensorFields DEF InvalidateGpuData
<1>2. CASE t.gpu # None
  <2>1. u = [t EXCEPT !.state = IF t.state = "synced" THEN "host" ELSE t.state]
    BY <1>2 DEF InvalidateGpuData, Apply, Transition, HostValid
  <2> QED
    BY <2>1, TensorFields DEF GoodTensors, HostValid, DeviceValid, States
<1> QED
  BY <1>1, <1>2

LEMMA WriteHostGives ==
  ASSUME NEW t \in GoodTensors, "download" \notin Faults, NEW c \in Contents,
         NEW o \in WriteHost(t, c)
  PROVE  /\ o.tensor \in GoodTensors /\ o.ok = TRUE
         /\ HostValid(o.tensor) /\ ~DeviceValid(o.tensor) /\ o.tensor.host = c
<1>1. PICK e \in Data(t) : o = [e EXCEPT !.tensor = [InvalidateGpuData(@) EXCEPT !.host = c]]
  BY DEF WriteHost
<1>2. e.tensor \in GoodTensors /\ e.ok = TRUE /\ HostValid(e.tensor)
  BY DataGives DEF HostValid
<1>3. e = [tensor |-> e.tensor, ok |-> e.ok]
  BY DEF Data, EnsureOnHost, Ok, MayFail, Failed
<1> DEFINE u == InvalidateGpuData(e.tensor)
<1>4. u \in GoodTensors /\ HostValid(u) /\ ~DeviceValid(u)
  BY <1>2, InvalidateGives
<1>5. o.tensor = [u EXCEPT !.host = c] /\ o.ok = TRUE
  BY <1>1, <1>2, <1>3
<1> HIDE DEF u
<1> QED
  BY <1>4, <1>5 DEF GoodTensors, HostValid, DeviceValid

LEMMA DeclareDevice ==
  ASSUME NEW t \in GoodTensors, t.gpu # None, NEW d \in GPUs
  PROVE  /\ DeviceAuthoritative(t, d) \in GoodTensors
         /\ DeviceAuthoritative(t, d).state = "device"
         /\ DeviceAuthoritative(t, d).auth = d
         /\ DeviceAuthoritative(t, d).host = t.host
         /\ DeviceAuthoritative(t, d).gpu = t.gpu
         /\ DeviceAuthoritative(t, d).data = t.data
         /\ DeviceAuthoritative(t, d).parked = t.parked
BY DEF DeviceAuthoritative, GoodTensors, DeviceValid, States

LEMMA UploadAsGives ==
  ASSUME NEW t \in GoodTensors, NEW to \in GPUs, NEW o \in UploadAs(t, to)
  PROVE  /\ o.tensor \in GoodTensors /\ o.ok \in BOOLEAN
         /\ o.ok => o.tensor.gpu = to /\ o.tensor.state = "device" /\ o.tensor.auth = to
         /\ \A c : o.ok /\ Current(t, c) /\ (t.gpu = to \/ t.host = c) => o.tensor.data = c
<1>1. PICK e \in EnsureOnDevice(t, to) :
        IF e.ok THEN o = [tensor |-> DeviceAuthoritative(e.tensor, to), ok |-> TRUE] ELSE o = e
  BY DEF UploadAs, Then, Ok
<1>2. to \in Devices /\ to # Cpu /\ to # None
  BY CoherenceAssumption DEF Devices
<1>3. /\ e.tensor \in GoodTensors /\ e.ok \in BOOLEAN
      /\ e.ok => e.tensor.gpu = to
      /\ \A c : e.ok /\ Current(t, c) /\ (t.gpu = to \/ t.host = c) => e.tensor.data = c
  BY <1>2, EnsureOnDeviceGives
<1>4. CASE e.ok
  <2>1. o.tensor = DeviceAuthoritative(e.tensor, to) /\ o.ok = TRUE
    BY <1>1, <1>4
  <2>2. e.tensor.gpu # None
    BY <1>2, <1>3, <1>4
  <2>3. /\ o.tensor \in GoodTensors /\ o.tensor.state = "device" /\ o.tensor.auth = to
        /\ o.tensor.gpu = e.tensor.gpu /\ o.tensor.data = e.tensor.data
    BY <1>3, <2>1, <2>2, DeclareDevice
  <2> QED
    BY <1>3, <1>4, <2>1, <2>3
<1>5. CASE ~e.ok
  BY <1>1, <1>3, <1>5
<1> QED
  BY <1>4, <1>5


-----------------------------------------------------------------------------
(* Between devices. *)

LEMMA WrittenIsReached ==
  ASSUME NEW t \in GoodTensors, NEW d \in Devices, NEW c, WrittenOn(t, d, c)
  PROVE  Current(t, c) /\ Reaches(t, d, c) /\ Authoritative(t, c)
<1>1. CASE d = Cpu
  BY <1>1, CoherenceAssumption DEF WrittenOn, Current, Reaches, Authoritative, HostValid, DeviceValid
<1>2. CASE d # Cpu
  BY <1>2, CoherenceAssumption
     DEF WrittenOn, Current, Reaches, Authoritative, HostValid, DeviceValid, Content, Devices
<1> QED
  BY <1>1, <1>2

(* A host read changes nothing of that. *)
LEMMA DataKeepsWritten ==
  ASSUME NEW t \in GoodTensors, "download" \notin Faults, NEW d \in Devices, NEW c,
         WrittenOn(t, d, c), NEW o \in Data(t)
  PROVE  WrittenOn(o.tensor, d, c)
<1>1. CASE HostValid(t)
  BY <1>1, DataGives
<1>2. CASE ~HostValid(t)
  BY <1>2, DataGives DEF WrittenOn, HostValid
<1> QED
  BY <1>1, <1>2

LEMMA AtSourceGives ==
  ASSUME NEW t \in GoodTensors, NEW from \in GPUs, NEW c \in Contents, WrittenOn(t, from, c),
         NEW o \in AtSource(t, from)
  PROVE  /\ o.tensor \in GoodTensors /\ o.ok
         /\ o.tensor.gpu = from /\ o.tensor.data = c
         /\ o.tensor.state = "device" /\ o.tensor.auth = from
<1>1. /\ from # Cpu /\ from # None /\ from \in Devices
      /\ t.gpu = from /\ t.data = c /\ DeviceValid(t)
      /\ t.auth = from => t.state = "device"
  BY CoherenceAssumption DEF WrittenOn, DeviceValid, Devices
<1>2. CASE t.auth = from
  <2>1. o = [tensor |-> t, ok |-> TRUE]
    BY <1>2 DEF AtSource, Ok
  <2> QED
    BY <1>1, <1>2, <2>1
<1>3. CASE t.auth # from
  <2>1. PICK e \in EnsureOnDevice(t, from) :
          IF e.ok THEN o = [tensor |-> DeviceAuthoritative(e.tensor, from), ok |-> TRUE] ELSE o = e
    BY <1>3 DEF AtSource, Then, Ok
  <2>2. e.ok /\ e.tensor = t
    BY <1>1, EnsureOnDeviceGives
  <2>3. o.tensor = DeviceAuthoritative(t, from) /\ o.ok = TRUE
    BY <2>1, <2>2
  <2> QED
    BY <1>1, <2>3, DeclareDevice
<1> QED
  BY <1>2, <1>3

LEMMA BufferOnGives ==
  ASSUME NEW t \in GoodTensors, NEW d \in GPUs, NEW o \in BufferOn(t, d)
  PROVE  /\ o.tensor \in GoodTensors /\ o.ok \in BOOLEAN
         /\ o.tensor.state = t.state /\ o.tensor.host = t.host /\ o.tensor.gpu = t.gpu
         /\ o.tensor.data = t.data /\ o.tensor.auth = t.auth
         /\ Content(t, d) # NoBuffer => o.ok /\ o.tensor = t
<1>1. CASE o = [tensor |-> t, ok |-> TRUE]
  BY <1>1
<1>2. CASE Content(t, d) = NoBuffer /\ o = [tensor |-> [t EXCEPT !.parked[d] = Garbage], ok |-> TRUE]
  <2>1. o.tensor = [t EXCEPT !.parked[d] = Garbage] /\ o.ok = TRUE
    BY <1>2
  <2>2. Garbage \in Contents
    BY NoBufferIsContent
  <2>3. /\ o.tensor \in GoodTensors
        /\ o.tensor.state = t.state /\ o.tensor.host = t.host /\ o.tensor.gpu = t.gpu
        /\ o.tensor.data = t.data /\ o.tensor.auth = t.auth
    BY <2>1, <2>2, ParkedElsewhere
  <2> QED
    BY <1>2, <2>1, <2>3
<1>3. CASE Content(t, d) = NoBuffer /\ o = [tensor |-> t, ok |-> FALSE]
  BY <1>3
<1> QED
  BY <1>1, <1>2, <1>3 DEF BufferOn, Ok, MayFail, Failed

LEMMA FillGives ==
  ASSUME NEW t \in GoodTensors, NEW d \in GPUs, NEW c \in Contents, NEW u, u = Fill(t, d, c)
  PROVE  /\ u \in GoodTensors
         /\ u.state = t.state /\ u.host = t.host /\ u.gpu = t.gpu /\ u.auth = t.auth
         /\ Content(u, d) = c
         /\ t.gpu # d => u.data = t.data /\ u.parked[d] = c
<1>1. CASE t.gpu = d
  <2>1. u = [t EXCEPT !.data = c]
    BY <1>1 DEF Fill
  <2> QED
    BY <1>1, <2>1, TensorFields DEF GoodTensors, DeviceValid, Content
<1>2. CASE t.gpu # d
  <2>1. u = [t EXCEPT !.parked[d] = c]
    BY <1>2 DEF Fill
  <2>2. /\ u \in GoodTensors /\ u.state = t.state /\ u.host = t.host /\ u.gpu = t.gpu
        /\ u.data = t.data /\ u.auth = t.auth /\ u.parked = [t.parked EXCEPT ![d] = c]
    BY <2>1, ParkedElsewhere
  <2>3. u.parked[d] = c
    BY <2>2, TensorFields
  <2> QED
    BY <1>2, <2>2, <2>3 DEF Content
<1> QED
  BY <1>1, <1>2

(* Authority moves to a GPU whose copy was filled. *)
LEMMA Authorised ==
  ASSUME NEW t \in GoodTensors, DeviceValid(t), NEW d \in GPUs,
         NEW u, u = Apply([t EXCEPT !.auth = d], "mark_device_dirty")
  PROVE  /\ u \in GoodTensors /\ u.state = "device" /\ u.auth = d /\ u.host = t.host
         /\ u.gpu = t.gpu /\ u.data = t.data /\ u.parked = t.parked
<1> DEFINE m == [t EXCEPT !.auth = d]
<1>1. /\ m \in GoodTensors /\ m.state = t.state /\ m.host = t.host /\ m.auth = d
      /\ m.gpu = t.gpu /\ m.data = t.data /\ m.parked = t.parked
  BY DEF GoodTensors, DeviceValid
<1> HIDE DEF m
<1>2. u = [m EXCEPT !.state = "device"]
  <2>1. u = [m EXCEPT !.state = Transition(m.state, "mark_device_dirty")]
    BY DEF Apply, m
  <2> QED
    BY <1>1, <2>1 DEF Transition, DeviceValid
<1> QED
  BY <1>1, <1>2 DEF GoodTensors, DeviceValid, States

(* Between GPUs of one vendor the primary buffer moves ... *)
LEMMA TransferToGives ==
  ASSUME NEW t \in GoodTensors, NEW from \in GPUs, NEW to \in GPUs, from # to,
         NEW c \in Contents,
         t.gpu = from, t.data = c, t.state = "device", t.auth = from,
         NEW o \in TransferTo(t, to)
  PROVE  /\ o.tensor \in GoodTensors /\ o.ok \in BOOLEAN
         /\ o.ok => WrittenOn(o.tensor, to, c)
<1>1. /\ to # Cpu /\ to # None /\ from # None /\ DeviceValid(t)
  BY CoherenceAssumption DEF DeviceValid
<1>2. PICK b \in BufferOn(t, to) :
        IF b.ok
          THEN o \in Ok(Apply([Promote(Fill(b.tensor, to, b.tensor.data), to) EXCEPT !.auth = to],
                              "mark_device_dirty"))
                       \cup MayFail("peer", b.tensor)
          ELSE o = b
  BY <1>1 DEF TransferTo, Then
<1>3. /\ b.tensor \in GoodTensors /\ b.ok \in BOOLEAN /\ b.tensor.state = "device"
      /\ b.tensor.gpu = from /\ b.tensor.data = c
  BY BufferOnGives
<1>4. CASE ~b.ok
  BY <1>2, <1>3, <1>4
<1>5. CASE b.ok /\ o = [tensor |-> b.tensor, ok |-> FALSE]
  BY <1>3, <1>5
<1>6. CASE b.ok /\ o \in Ok(Apply([Promote(Fill(b.tensor, to, b.tensor.data), to) EXCEPT !.auth = to],
                                  "mark_device_dirty"))
  <2> DEFINE f == Fill(b.tensor, to, b.tensor.data)
             p == Promote(f, to)
             u == Apply([p EXCEPT !.auth = to], "mark_device_dirty")
  <2>1. o.tensor = u /\ o.ok = TRUE
    BY <1>6 DEF Ok
  <2>2. f \in GoodTensors /\ f.state = "device" /\ f.gpu = from /\ f.parked[to] = c
    BY <1>3, FillGives
  <2> HIDE DEF f
  <2>3. p \in GoodTensors /\ p.state = "device" /\ p.gpu = to /\ p.data = c /\ DeviceValid(p)
    BY <2>2, PromoteMoves DEF DeviceValid
  <2> HIDE DEF p
  <2>4. /\ u \in GoodTensors /\ u.state = "device" /\ u.auth = to
        /\ u.gpu = to /\ u.data = c
    BY <2>3, Authorised
  <2> HIDE DEF u
  <2> QED
    BY <1>1, <2>1, <2>4 DEF WrittenOn
<1> QED
  BY <1>2, <1>4, <1>5, <1>6 DEF Ok, MayFail, Failed

(* ... between two vendors it stays, and a copy goes through the host.     *)
LEMMA TransferActivationGives ==
  ASSUME NEW t \in GoodTensors, NEW from \in GPUs, NEW to \in GPUs, from # to,
         NEW c \in Contents,
         t.gpu = from, t.data = c, t.state = "device", t.auth = from,
         NEW o \in TransferActivation(t, to)
  PROVE  /\ o.tensor \in GoodTensors /\ o.ok \in BOOLEAN
         /\ o.ok => Reaches(o.tensor, to, c) /\ Authoritative(o.tensor, c)
<1>1. /\ to # Cpu /\ to # None /\ from # None
      /\ t.gpu # None /\ t.gpu # to /\ DeviceValid(t)
  BY CoherenceAssumption DEF DeviceValid
<1>2. PICK b \in BufferOn(t, to) :
        IF b.ok
          THEN o \in Ok(Apply([Fill(b.tensor, to, b.tensor.data) EXCEPT !.host = b.tensor.data,
                                                                        !.auth = to],
                              "mark_device_dirty"))
                       \cup MayFail("download", b.tensor)
                       \cup MayFail("upload", [b.tensor EXCEPT !.host = b.tensor.data])
          ELSE o = b
  BY <1>1 DEF TransferActivation, Then
<1>3. /\ b.tensor \in GoodTensors /\ b.ok \in BOOLEAN /\ b.tensor.state = "device"
      /\ b.tensor.gpu = from /\ b.tensor.data = c
  BY BufferOnGives
<1>4. CASE ~b.ok
  BY <1>2, <1>3, <1>4
<1>5. CASE b.ok /\ o = [tensor |-> b.tensor, ok |-> FALSE]
  BY <1>3, <1>5
<1>6. CASE b.ok /\ o = [tensor |-> [b.tensor EXCEPT !.host = b.tensor.data], ok |-> FALSE]
  BY <1>3, <1>6 DEF GoodTensors, DeviceValid
<1>7. CASE b.ok /\ o \in Ok(Apply([Fill(b.tensor, to, b.tensor.data) EXCEPT !.host = b.tensor.data,
                                                                            !.auth = to],
                                  "mark_device_dirty"))
  <2> DEFINE f == Fill(b.tensor, to, b.tensor.data)
             h == [f EXCEPT !.host = b.tensor.data]
             u == Apply([h EXCEPT !.auth = to], "mark_device_dirty")
  <2>1. o.tensor = Apply([f EXCEPT !.host = b.tensor.data, !.auth = to], "mark_device_dirty") /\ o.ok = TRUE
    BY <1>7 DEF Ok
  <2>2. /\ f \in GoodTensors /\ f.state = "device" /\ f.gpu = from /\ f.data = c
        /\ f.parked[to] = c
    BY <1>3, FillGives
  <2> HIDE DEF f
  <2>3. [f EXCEPT !.host = b.tensor.data, !.auth = to] = [h EXCEPT !.auth = to]
    BY <2>2 DEF GoodTensors
  <2>4. /\ h \in GoodTensors /\ h.state = "device" /\ h.gpu = from /\ h.data = c
        /\ h.parked[to] = c /\ h.host = c /\ DeviceValid(h)
    BY <1>3, <2>2 DEF GoodTensors, DeviceValid
  <2> HIDE DEF h
  <2>5. /\ u \in GoodTensors /\ u.state = "device" /\ u.auth = to
        /\ u.gpu = from /\ u.data = c /\ u.host = c /\ u.parked[to] = c
    BY <2>4, Authorised
  <2>6. o.tensor = u
    BY <2>1, <2>3
  <2> HIDE DEF u
  <2> QED
    BY <1>1, <2>1, <2>5, <2>6
       DEF Reaches, Current, Authoritative, Content, HostValid, DeviceValid
<1> QED
  BY <1>2, <1>4, <1>5, <1>6, <1>7 DEF Ok, MayFail, Failed


(* A transfer of what a stage has written leaves it within reach of the    *)
(* next one.                                                               *)
LEMMA FlatTransferGives ==
  ASSUME NEW t \in GoodTensors, "download" \notin Faults,
         NEW from \in Devices, NEW to \in Devices, NEW c \in Contents,
         WrittenOn(t, from, c), NEW o \in FlatTransfer(t, from, to)
  PROVE  /\ o.tensor \in GoodTensors /\ o.ok \in BOOLEAN
         /\ o.ok => Reaches(o.tensor, to, c) /\ Authoritative(o.tensor, c)
<1>1. CASE from = to
  <2>1. FlatTransfer(t, from, to) = Ok(t)
    BY <1>1 DEF FlatTransfer
  <2>2. o = [tensor |-> t, ok |-> TRUE]
    BY <2>1 DEF Ok
  <2> QED
    BY <1>1, <2>2, WrittenIsReached
<1>2. CASE from # to /\ to = Cpu
  <2>1. FlatTransfer(t, from, to) = Then(Data(t), LAMBDA u : Ok(InvalidateGpuData(u)))
    BY <1>2 DEF FlatTransfer
  <2>2. PICK e \in Data(t) :
          IF e.ok THEN o = [tensor |-> InvalidateGpuData(e.tensor), ok |-> TRUE] ELSE o = e
    BY <2>1 DEF Then, Ok
  <2>3. /\ e.tensor \in GoodTensors /\ e.ok = TRUE /\ HostValid(e.tensor)
        /\ e.tensor.host = c /\ e.tensor.auth = None
    BY <1>2, DataGives, WrittenIsReached DEF WrittenOn, HostValid
  <2> DEFINE u == InvalidateGpuData(e.tensor)
  <2>4. /\ u \in GoodTensors /\ HostValid(u) /\ ~DeviceValid(u)
        /\ u.host = c /\ u.auth = None
    BY <2>3, InvalidateGives
  <2>5. o.tensor = u /\ o.ok = TRUE
    BY <2>2, <2>3
  <2> HIDE DEF u
  <2> QED
    BY <1>2, <2>4, <2>5, CoherenceAssumption DEF Reaches, Current, Authoritative
<1>3. CASE from # to /\ from = Cpu
  <2>1. to \in GPUs /\ to # Cpu /\ to # None
    BY <1>3, CoherenceAssumption DEF Devices
  <2>2. o \in UploadAs(t, to)
    BY <1>3, <2>1 DEF FlatTransfer
  <2>3. t.host = c /\ Current(t, c)
    BY <1>3 DEF WrittenOn, Current, HostValid, DeviceValid
  <2>4. /\ o.tensor \in GoodTensors /\ o.ok \in BOOLEAN
        /\ o.ok => WrittenOn(o.tensor, to, c)
    BY <2>1, <2>2, <2>3, UploadAsGives DEF WrittenOn
  <2> QED
    BY <2>4, WrittenIsReached
<1>4. CASE from # to /\ from # Cpu /\ to # Cpu
  <2>1. from \in GPUs /\ to \in GPUs
    BY <1>4 DEF Devices
  <2>2. PICK e \in AtSource(t, from) :
          IF e.ok
            THEN o \in IF VendorOf[from] = VendorOf[to] THEN TransferTo(e.tensor, to)
                       ELSE TransferActivation(e.tensor, to)
            ELSE o = e
    BY <1>4 DEF FlatTransfer, Then
  <2>3. /\ e.tensor \in GoodTensors /\ e.ok
        /\ e.tensor.gpu = from /\ e.tensor.data = c
        /\ e.tensor.state = "device" /\ e.tensor.auth = from
    BY <2>1, AtSourceGives
  <2>4. CASE o \in TransferTo(e.tensor, to)
    <3>1. o.tensor \in GoodTensors /\ o.ok \in BOOLEAN /\ (o.ok => WrittenOn(o.tensor, to, c))
      BY <1>4, <2>1, <2>3, <2>4, TransferToGives
    <3> QED
      BY <3>1, WrittenIsReached
  <2>5. CASE o \in TransferActivation(e.tensor, to)
    BY <1>4, <2>1, <2>3, <2>5, TransferActivationGives
  <2> QED
    BY <2>2, <2>3, <2>4, <2>5
<1> QED
  BY <1>1, <1>2, <1>3, <1>4

LEMMA HierarchicalTransferGives ==
  ASSUME NEW t \in GoodTensors, "download" \notin Faults,
         NEW from \in Devices, NEW to \in Devices, NEW c \in Contents,
         WrittenOn(t, from, c), NEW o \in HierarchicalTransfer(t, from, to)
  PROVE  /\ o.tensor \in GoodTensors /\ o.ok \in BOOLEAN
         /\ o.ok => Reaches(o.tensor, to, c) /\ Authoritative(o.tensor, c)
<1>1. CASE from = to
  <2>1. HierarchicalTransfer(t, from, to) = Ok(t)
    BY <1>1 DEF HierarchicalTransfer
  <2>2. o = [tensor |-> t, ok |-> TRUE]
    BY <2>1 DEF Ok
  <2> QED
    BY <1>1, <2>2, WrittenIsReached
<1>2. CASE from # to /\ to = Cpu
  <2>1. from \in GPUs /\ from # Cpu
    BY <1>2 DEF Devices
  <2>2. PICK e \in UploadAs(t, from) : IF e.ok THEN o \in Data(e.tensor) ELSE o = e
    BY <1>2 DEF HierarchicalTransfer, Then
  <2>3. Current(t, c) /\ t.gpu = from
    BY <2>1, WrittenIsReached DEF WrittenOn
  <2>4. /\ e.tensor \in GoodTensors /\ e.ok \in BOOLEAN
        /\ e.ok => e.tensor.state = "device" /\ e.tensor.data = c
    BY <2>1, <2>3, UploadAsGives
  <2>5. CASE e.ok
    <3>1. ~HostValid(e.tensor)
      BY <2>4, <2>5 DEF HostValid
    <3>2. /\ o.tensor \in GoodTensors /\ o.ok = TRUE /\ o.tensor.state = "synced"
          /\ o.tensor.auth = None /\ o.tensor.host = c /\ o.tensor.data = c
      BY <2>2, <2>4, <2>5, <3>1, DataGives
    <3> QED
      BY <1>2, <3>2, CoherenceAssumption DEF Reaches, Current, Authoritative
  <2>6. CASE ~e.ok
    BY <2>2, <2>4, <2>6
  <2> QED
    BY <2>5, <2>6
<1>3. CASE from # to /\ from = Cpu
  <2>1. to \in GPUs /\ to # Cpu /\ to # None
    BY <1>3, CoherenceAssumption DEF Devices
  <2>2. PICK e \in Data(t) : IF e.ok THEN o \in UploadAs(e.tensor, to) ELSE o = e
    BY <1>3, <2>1 DEF HierarchicalTransfer, Then
  <2>3. t.host = c /\ Current(t, c)
    BY <1>3 DEF WrittenOn, Current, HostValid, DeviceValid
  <2>4. e.tensor \in GoodTensors /\ e.ok = TRUE /\ e.tensor.host = c /\ Current(e.tensor, c)
    BY <2>3, DataGives
  <2>5. /\ o.tensor \in GoodTensors /\ o.ok \in BOOLEAN
        /\ o.ok => WrittenOn(o.tensor, to, c)
    BY <2>1, <2>2, <2>4, UploadAsGives DEF WrittenOn
  <2> QED
    BY <2>5, WrittenIsReached
<1>4. CASE from # to /\ from # Cpu /\ to # Cpu
  <2>1. from \in GPUs /\ to \in GPUs /\ to # None
    BY <1>4, CoherenceAssumption DEF Devices
  <2>2. PICK e \in AtSource(t, from) :
          IF e.ok
            THEN o \in IF VendorOf[from] = VendorOf[to] THEN TransferTo(e.tensor, to)
                       ELSE Then(Data(e.tensor), LAMBDA v : UploadAs(InvalidateGpuData(v), to))
            ELSE o = e
    BY <1>4 DEF HierarchicalTransfer, Then
  <2>3. /\ e.tensor \in GoodTensors /\ e.ok
        /\ e.tensor.gpu = from /\ e.tensor.data = c
        /\ e.tensor.state = "device" /\ e.tensor.auth = from
    BY <2>1, AtSourceGives
  <2>4. ASSUME o \in TransferTo(e.tensor, to)
        PROVE  o.tensor \in GoodTensors /\ o.ok \in BOOLEAN /\ (o.ok => WrittenOn(o.tensor, to, c))
    BY <1>4, <2>1, <2>3, <2>4, TransferToGives
  <2>5. ASSUME o \in Then(Data(e.tensor), LAMBDA v : UploadAs(InvalidateGpuData(v), to))
        PROVE  o.tensor \in GoodTensors /\ o.ok \in BOOLEAN /\ (o.ok => WrittenOn(o.tensor, to, c))
    <3>1. PICK h \in Data(e.tensor) :
            IF h.ok THEN o \in UploadAs(InvalidateGpuData(h.tensor), to) ELSE o = h
      BY <2>5 DEF Then
    <3>2. h.tensor \in GoodTensors /\ h.ok = TRUE /\ HostValid(h.tensor) /\ h.tensor.host = c
      BY <2>3, DataGives DEF HostValid
    <3> DEFINE v == InvalidateGpuData(h.tensor)
    <3>3. v \in GoodTensors /\ v.host = c /\ Current(v, c)
      BY <3>2, InvalidateGives DEF Current
    <3>4. o \in UploadAs(v, to)
      BY <3>1, <3>2
    <3> HIDE DEF v
    <3>5. /\ o.tensor \in GoodTensors /\ o.ok \in BOOLEAN
          /\ o.ok => o.tensor.gpu = to /\ o.tensor.state = "device" /\ o.tensor.auth = to
          /\ o.ok => o.tensor.data = c
      BY <2>1, <3>3, <3>4, UploadAsGives
    <3> QED
      BY <1>4, <3>5 DEF WrittenOn
  <2>6. o.tensor \in GoodTensors /\ o.ok \in BOOLEAN /\ (o.ok => WrittenOn(o.tensor, to, c))
    BY <2>2, <2>3, <2>4, <2>5
  <2> QED
    BY <2>6, WrittenIsReached
<1> QED
  BY <1>1, <1>2, <1>3, <1>4


(* What a copyActivation() reads, if the tensor it reads from has it.      *)
LEMMA SourcedGives ==
  ASSUME NEW src \in GoodTensors, "download" \notin Faults, NEW d \in GPUs,
         NEW c \in Contents, c # NoBuffer, Current(src, c), Authoritative(src, c),
         NEW r \in Sourced(src, d)
  PROVE  /\ r.tensor \in GoodTensors /\ r.ok \in BOOLEAN
         /\ r.ok => r.content = c /\ Current(r.tensor, c)
<1>1. CASE src.auth \in GPUs
  <2> DEFINE from == src.auth
  <2>1. Content(src, from) = c
    BY <1>1 DEF Authoritative
  <2>2. PICK b \in BufferOn(src, from) :
          \/ ~b.ok /\ r = [tensor |-> b.tensor, content |-> Garbage, ok |-> FALSE]
          \/ b.ok /\ Direct(from, d)
             /\ \/ r = [tensor |-> b.tensor, content |-> Content(b.tensor, from), ok |-> TRUE]
                \/ r = [tensor |-> b.tensor, content |-> Garbage, ok |-> FALSE]
          \/ b.ok /\ ~Direct(from, d)
             /\ r = [tensor |-> [b.tensor EXCEPT !.host = Content(b.tensor, from)],
                     content |-> Content(b.tensor, from), ok |-> TRUE]
    BY <1>1 DEF Sourced, SourceDevice
  <2>3. b.ok /\ b.tensor = src
    BY <1>1, <2>1, BufferOnGives
  <2> HIDE DEF from
  <2>4. CASE r = [tensor |-> src, content |-> c, ok |-> TRUE]
    BY <2>4
  <2>5. CASE r = [tensor |-> src, content |-> Garbage, ok |-> FALSE]
    BY <2>5
  <2>6. CASE r = [tensor |-> [src EXCEPT !.host = c], content |-> c, ok |-> TRUE]
    <3> DEFINE u == [src EXCEPT !.host = c]
    <3>1. /\ u \in GoodTensors /\ u.state = src.state /\ u.host = c /\ u.data = src.data
      BY DEF GoodTensors, DeviceValid
    <3>2. r.tensor = u /\ r.content = c /\ r.ok
      BY <2>6
    <3> HIDE DEF u
    <3> QED
      BY <3>1, <3>2 DEF Current, HostValid, DeviceValid
  <2> QED
    BY <2>1, <2>2, <2>3, <2>4, <2>5, <2>6
<1>2. CASE src.auth \notin GPUs
  <2>1. PICK e \in Data(src) : r = [tensor |-> e.tensor, content |-> e.tensor.host, ok |-> TRUE]
    BY <1>2 DEF Sourced, SourceDevice
  <2>2. e.tensor \in GoodTensors /\ e.tensor.host = c /\ Current(e.tensor, c)
    BY DataGives
  <2> QED
    BY <2>1, <2>2
<1> QED
  BY <1>1, <1>2

LEMMA ReceivedGives ==
  ASSUME NEW dst \in GoodTensors, NEW d \in GPUs, NEW c \in Contents,
         NEW u, u = Received(dst, d, c)
  PROVE  /\ u \in GoodTensors /\ u.state = "device" /\ u.gpu = d /\ u.data = c
<1> DEFINE f == Fill(dst, d, c)
           p == IF dst.gpu = None THEN f ELSE [f EXCEPT !.parked[dst.gpu] = dst.data]
           m == [p EXCEPT !.gpu = d, !.data = c]
           q == [m EXCEPT !.parked[d] = NoBuffer]
<1>1. /\ f \in GoodTensors /\ f.gpu = dst.gpu /\ d # None
      /\ Content(f, d) = c
  BY FillGives, CoherenceAssumption
<1>2. CASE dst.gpu = d
  <2>1. u = DeviceAuthoritative(f, d)
    BY <1>2 DEF Received
  <2> HIDE DEF f
  <2>2. f.data = c
    BY <1>1, <1>2 DEF Content
  <2>3. /\ DeviceAuthoritative(f, d) \in GoodTensors
        /\ DeviceAuthoritative(f, d).state = "device"
        /\ DeviceAuthoritative(f, d).gpu = f.gpu
        /\ DeviceAuthoritative(f, d).data = f.data
    BY <1>1, <1>2, DeclareDevice
  <2> QED
    BY <1>1, <1>2, <2>1, <2>2, <2>3
<1>3. CASE dst.gpu # d
  <2>1. u = DeviceAuthoritative([p EXCEPT !.gpu = d, !.data = c, !.parked[d] = NoBuffer], d)
    BY <1>3 DEF Received
  <2>2. p \in GoodTensors
    <3>1. dst.gpu \in GPUs \cup {None} /\ dst.data \in Contents
      BY TensorFields
    <3> HIDE DEF f
    <3>2. CASE dst.gpu = None
      BY <1>1, <3>2
    <3>3. CASE dst.gpu \in GPUs
      <4>1. dst.gpu # None
        BY <3>3, CoherenceAssumption
      <4>2. [f EXCEPT !.parked[dst.gpu] = dst.data] \in GoodTensors
        BY <1>1, <3>1, <3>3, ParkedElsewhere
      <4> QED
        BY <4>1, <4>2
    <3> QED
      BY <3>1, <3>2, <3>3
  <2> HIDE DEF p
  <2>3. m \in GoodTensors /\ m.gpu = d /\ m.data = c
    BY <1>1, <2>2 DEF GoodTensors, DeviceValid
  <2>4. [p EXCEPT !.gpu = d, !.data = c, !.parked[d] = NoBuffer] = q
    BY <2>2 DEF GoodTensors
  <2> HIDE DEF m
  <2>5. q \in GoodTensors /\ q.gpu = d /\ q.data = c
    BY <2>3, ParkedElsewhere, NoBufferIsContent
  <2> HIDE DEF q
  <2>6. /\ DeviceAuthoritative(q, d) \in GoodTensors
        /\ DeviceAuthoritative(q, d).state = "device"
        /\ DeviceAuthoritative(q, d).gpu = q.gpu
        /\ DeviceAuthoritative(q, d).data = q.data
    BY <1>1, <2>5, DeclareDevice
  <2> QED
    BY <2>1, <2>4, <2>5, <2>6
<1> QED
  BY <1>2, <1>3

LEMMA CopyActivationGives ==
  ASSUME NEW src \in GoodTensors, NEW dst \in GoodTensors, "download" \notin Faults,
         NEW d \in Devices, NEW c \in Contents, c # NoBuffer,
         Current(src, c), Authoritative(src, c), NEW o \in CopyActivation(src, dst, d)
  PROVE  /\ o.src \in GoodTensors /\ o.dst \in GoodTensors /\ o.ok \in BOOLEAN
         /\ o.ok => Current(o.src, c) /\ Current(o.dst, c) /\ InPlace(o.dst, d)
<1>1. CASE d = Cpu
  <2>1. PICK from \in Data(src) : \E to \in WriteHost(dst, from.tensor.host) :
           o = [src |-> from.tensor, dst |-> to.tensor, ok |-> TRUE]
    BY <1>1 DEF CopyActivation, Copied
  <2>2. from.tensor \in GoodTensors /\ from.tensor.host = c /\ Current(from.tensor, c)
    BY DataGives
  <2>3. PICK to \in WriteHost(dst, c) : o = [src |-> from.tensor, dst |-> to.tensor, ok |-> TRUE]
    BY <2>1, <2>2
  <2>4. /\ to.tensor \in GoodTensors /\ HostValid(to.tensor) /\ ~DeviceValid(to.tensor)
        /\ to.tensor.host = c
    BY WriteHostGives
  <2> QED
    BY <1>1, <2>2, <2>3, <2>4 DEF Current, InPlace
<1>2. CASE d # Cpu
  <2>1. d \in GPUs
    BY <1>2 DEF Devices
  <2>2. PICK to \in BufferOn(dst, d) :
          IF ~to.ok THEN o = [src |-> src, dst |-> to.tensor, ok |-> FALSE]
          ELSE \E r \in Sourced(src, d) :
                 \/ r.ok /\ o = [src |-> r.tensor, dst |-> Received(to.tensor, d, r.content),
                                 ok |-> TRUE]
                 \/ o = [src |-> r.tensor, dst |-> to.tensor, ok |-> FALSE]
    BY <1>2 DEF CopyActivation, Copied
  <2>3. to.tensor \in GoodTensors /\ to.ok \in BOOLEAN
    BY <2>1, BufferOnGives
  <2>4. CASE ~to.ok
    <3>1. o = [src |-> src, dst |-> to.tensor, ok |-> FALSE]
      BY <2>2, <2>4
    <3>2. o.src = src /\ o.dst = to.tensor /\ ~o.ok /\ o.ok \in BOOLEAN
      BY <3>1
    <3> QED
      BY <2>3, <3>2
  <2>5. CASE to.ok
    <3>1. PICK r \in Sourced(src, d) :
             \/ r.ok /\ o = [src |-> r.tensor, dst |-> Received(to.tensor, d, r.content),
                             ok |-> TRUE]
             \/ o = [src |-> r.tensor, dst |-> to.tensor, ok |-> FALSE]
      BY <2>2, <2>5
    <3>2. /\ r.tensor \in GoodTensors /\ r.ok \in BOOLEAN
          /\ r.ok => r.content = c /\ Current(r.tensor, c)
      BY <2>1, SourcedGives
    <3>3. CASE o = [src |-> r.tensor, dst |-> to.tensor, ok |-> FALSE]
      BY <2>3, <3>2, <3>3
    <3>4. CASE r.ok /\ o = [src |-> r.tensor, dst |-> Received(to.tensor, d, r.content), ok |-> TRUE]
      <4> DEFINE u == Received(to.tensor, d, c)
      <4>1. o.src = r.tensor /\ o.dst = u /\ o.ok
        BY <3>2, <3>4
      <4>2. u \in GoodTensors /\ u.state = "device" /\ u.gpu = d /\ u.data = c
        BY <2>1, <2>3, ReceivedGives
      <4> HIDE DEF u
      <4> QED
        BY <1>2, <3>2, <3>4, <4>1, <4>2 DEF Current, InPlace, HostValid, DeviceValid
    <3> QED
      BY <3>1, <3>3, <3>4
  <2> QED
    BY <2>3, <2>4, <2>5
<1> QED
  BY <1>1, <1>2


-----------------------------------------------------------------------------
(* A stage and its buffer. *)

(* Coherence for the layers, which work in place. A stage that finds its   *)
(* activation within reach gets it on its device. Reading alone is not     *)
(* enough: a valid copy on another GPU is left there, and it is the buffer *)
(* to write to that promotes the copy parked here.                         *)
LEMMA PrepareGives ==
  ASSUME NEW t \in GoodTensors, "download" \notin Faults, NEW d \in Devices,
         NEW c \in Contents, c # NoBuffer, Reaches(t, d, c), NEW authority \in Authorities,
         authority = "uninitialized" => InPlace(t, d),
         NEW o \in Then(PrepareForRead(t, authority, d), LAMBDA u : PrepareForWrite(u, d))
  PROVE  /\ o.tensor \in GoodTensors /\ o.ok \in BOOLEAN
         /\ o.ok => /\ Current(o.tensor, c) /\ KernelReads(o.tensor, d) = c
                    /\ d # Cpu => o.tensor.gpu = d
<1>1. PICK e \in PrepareForRead(t, authority, d) :
        IF e.ok THEN o \in AllocateOnDevice(e.tensor, d) ELSE o = e
  BY DEF Then, PrepareForWrite
<1>2. Current(t, c)
  BY DEF Reaches
<1>3. CASE d = Cpu
  <2>1. /\ e.tensor \in GoodTensors /\ e.ok /\ Current(e.tensor, c) /\ e.tensor.host = c
    <3>1. CASE e = [tensor |-> t, ok |-> TRUE] /\ HostValid(t)
      <4>1. e.tensor = t /\ e.ok
        BY <3>1
      <4> QED
        BY <1>2, <3>1, <4>1 DEF Current
    <3>2. CASE e \in EnsureOnHost(t)
      <4>1. /\ e.tensor \in GoodTensors /\ e.ok
            /\ HostValid(t) => e.tensor = t
            /\ ~HostValid(t) => e.tensor.state = "synced" /\ e.tensor.host = t.data
            /\ e.tensor.data = t.data
        BY <3>2, EnsureOnHostGives
      <4> QED
        BY <1>2, <4>1, TensorFields DEF Current, HostValid, DeviceValid, States
    <3> QED
      BY <1>1, <1>3, <3>1, <3>2 DEF PrepareForRead, InPlace, HostValid, Ok
  <2>2. o.ok /\ o.tensor = e.tensor
    BY <1>1, <1>3, <2>1, AllocateOnDeviceGives
  <2> QED
    BY <1>3, <2>1, <2>2 DEF KernelReads
<1>4. CASE d # Cpu
  <2>1. d \in GPUs /\ d # None
    BY <1>4, CoherenceAssumption DEF Devices
  <2>2. CASE e \in EnsureOnDevice(t, d) /\ ~DeviceValid(t)
    <3>1. t.host = c
      BY <1>2, <2>2, TensorFields DEF Current, HostValid, DeviceValid, States
    <3>2. /\ e.tensor \in GoodTensors /\ e.ok \in BOOLEAN
          /\ e.ok => e.tensor.gpu = d
          /\ e.ok => e.tensor.data = c /\ Current(e.tensor, c)
      BY <1>2, <1>4, <2>2, <3>1, EnsureOnDeviceGives
    <3>3. CASE e.ok
      <4>1. o.ok /\ o.tensor = e.tensor
        BY <1>1, <3>2, <3>3, AllocateOnDeviceGives
      <4> QED
        BY <1>4, <3>2, <3>3, <4>1 DEF KernelReads
    <3>4. CASE ~e.ok
      BY <1>1, <3>2, <3>4
    <3> QED
      BY <3>3, <3>4
  <2>3. CASE e = [tensor |-> t, ok |-> TRUE] /\ DeviceValid(t)
    <3>1. o \in AllocateOnDevice(t, d)
      BY <1>1, <2>3
    <3>2. CASE t.gpu = d
      <4>1. o.ok /\ o.tensor = t
        BY <3>1, <3>2, AllocateOnDeviceGives
      <4> QED
        BY <1>2, <1>4, <2>3, <3>2, <4>1 DEF Current, KernelReads
    <3>3. CASE t.gpu # d
      <4>1. t.parked[d] = c /\ t.host = c
        BY <1>4, <2>3, <3>3 DEF Reaches
      <4>2. /\ o.tensor \in GoodTensors /\ o.ok /\ o.tensor.state = "host"
            /\ o.tensor.host = c /\ o.tensor.data = c
        BY <1>4, <3>1, <3>3, <4>1, AllocateOnDeviceGives
      <4>3. o.tensor.gpu = d
        BY <1>4, <3>1, <4>2, AllocateOnDeviceGives
      <4> QED
        BY <1>4, <4>2, <4>3 DEF Current, KernelReads, DeviceValid
    <3> QED
      BY <3>2, <3>3
  <2>4. \/ e \in EnsureOnDevice(t, d) /\ ~DeviceValid(t)
        \/ e = [tensor |-> t, ok |-> TRUE] /\ DeviceValid(t)
    BY <1>4 DEF PrepareForRead, InPlace, Ok
  <2> QED
    BY <2>2, <2>3, <2>4
<1> QED
  BY <1>3, <1>4

(* The kernels write to the buffer, and the stage says so. *)
LEMMA ComputesGives ==
  ASSUME NEW t \in GoodTensors, "download" \notin Faults, NEW d \in Devices,
         NEW c \in Contents, d # Cpu => t.gpu = d,
         NEW o \in Then(KernelWrites(t, d, c), LAMBDA u : Ok(MarkWritten(u, d)))
  PROVE  o.tensor \in GoodTensors /\ o.ok /\ WrittenOn(o.tensor, d, c)
<1>1. PICK e \in KernelWrites(t, d, c) :
        IF e.ok THEN o = [tensor |-> MarkWritten(e.tensor, d), ok |-> TRUE] ELSE o = e
  BY DEF Then, Ok
<1>2. CASE d = Cpu
  <2>1. /\ e.tensor \in GoodTensors /\ e.ok /\ e.tensor.host = c
    BY <1>1, <1>2, WriteHostGives DEF KernelWrites
  <2> DEFINE u == HostAuthoritative(e.tensor)
  <2>2. u \in GoodTensors /\ u.state = "host" /\ u.auth = None /\ u.host = c
    BY <2>1 DEF HostAuthoritative, GoodTensors, DeviceValid, States
  <2>3. o.tensor = u /\ o.ok
    BY <1>1, <1>2, <2>1 DEF MarkWritten
  <2> HIDE DEF u
  <2> QED
    BY <1>2, <2>2, <2>3 DEF WrittenOn
<1>3. CASE d # Cpu
  <2>1. d \in GPUs /\ d # None /\ t.gpu = d
    BY <1>3, CoherenceAssumption DEF Devices
  <2> DEFINE m == [t EXCEPT !.data = c]
             u == DeviceAuthoritative(m, d)
  <2>2. m \in GoodTensors /\ m.gpu = d /\ m.data = c
    BY <2>1, TensorFields DEF GoodTensors, DeviceValid
  <2>3. e = [tensor |-> m, ok |-> TRUE]
    BY <1>1, <1>3 DEF KernelWrites, Ok
  <2>4. o.tensor = u /\ o.ok
    BY <1>1, <1>3, <2>3 DEF MarkWritten
  <2> HIDE DEF m
  <2>5. u \in GoodTensors /\ u.state = "device" /\ u.auth = d /\ u.gpu = m.gpu /\ u.data = m.data
    BY <2>1, <2>2, DeclareDevice
  <2> HIDE DEF u
  <2> QED
    BY <1>3, <2>2, <2>4, <2>5 DEF WrittenOn
<1> QED
  BY <1>2, <1>3


-----------------------------------------------------------------------------
(* The invariant. *)

PipelineTypes ==
  /\ setup \in Setups /\ pass \in Nat /\ stage \in Stages
  /\ at \in {"idle", "embed", "layers", "run", "ran", "handoff"}
  /\ tensors \in [Stages -> GoodTensors]
  /\ arena \in [Stages -> Authorities]
  /\ written \in [Stages -> Contents]

(* Whatever is called valid in a pass is what the pass wrote last. *)
Kept ==
  /\ \A b \in Stages : written[b][1] <= pass
  /\ at # "idle" =>
       pass > 0 /\ \A b \in Stages : written[b][1] = pass => Current(tensors[b], written[b])

(* Where a pass is, and where the activation of the stage before is then.  *)
AtEmbed == at = "embed" => stage = 1 /\ \A b \in Stages : written[b][1] < pass

AtLayers ==
  at = "layers" =>
    /\ written[Here] = <<pass, stage - 1>>
    /\ Reaches(tensors[Here], DeviceOf(stage), <<pass, stage - 1>>)
    /\ arena[Here] = "uninitialized" => InPlace(tensors[Here], DeviceOf(stage))

AtRun ==
  at = "run" =>
    /\ written[Here] = <<pass, stage - 1>>
    /\ DeviceOf(stage) # Cpu => tensors[Here].gpu = DeviceOf(stage)
    /\ KernelReads(tensors[Here], DeviceOf(stage)) = <<pass, stage - 1>>

AtRan ==
  at = "ran" =>
    /\ written[Here] = <<pass, stage>>
    /\ WrittenOn(tensors[Here], DeviceOf(stage), <<pass, stage>>)

AtHandoff ==
  at = "handoff" =>
    /\ ~setup.shared /\ stage - 1 \in Stages
    /\ written[stage - 1] = <<pass, stage - 1>>
    /\ Reaches(tensors[stage - 1], DeviceOf(stage), <<pass, stage - 1>>)
    /\ Authoritative(tensors[stage - 1], <<pass, stage - 1>>)

(* The arena knows of a buffer that all stages share since the embedding.  *)
SharedIsTracked ==
  setup.shared /\ at \notin {"idle", "embed"} => arena[1] # "uninitialized"

PipelineIInv ==
  /\ PipelineTypes /\ Kept
  /\ AtEmbed /\ AtLayers /\ AtRun /\ AtRan /\ AtHandoff /\ SharedIsTracked

-----------------------------------------------------------------------------
(* Its steps. *)

LEMMA StagesAre ==
  ASSUME PipelineTypes
  PROVE  /\ LastStage \in Nat \ {0} /\ Stages = 1..LastStage
         /\ \A s \in Stages : DeviceOf(s) \in Devices /\ BufferOf(s) \in Stages
         /\ stage \in Nat /\ stage > 0 /\ stage <= LastStage
         /\ Here \in Stages /\ 1 \in Stages
         /\ setup.shared \in BOOLEAN /\ setup.context \in {"flat", "hierarchical"}
<1>1. /\ setup \in Setups /\ stage \in Stages
      /\ setup.context \in {"flat", "hierarchical"} /\ setup.shared \in BOOLEAN
      /\ LastStage \in Nat \ {0} /\ setup.device \in [1..LastStage -> Devices]
  BY PipelineAssumption DEF PipelineTypes, LastStage, Stages
<1>2. Stages = 1..LastStage
  BY <1>1 DEF Stages
<1>3. \A s \in Stages : DeviceOf(s) \in Devices /\ BufferOf(s) \in Stages
  BY <1>1, <1>2 DEF DeviceOf, BufferOf
<1> QED
  BY <1>1, <1>2, <1>3 DEF Here

(* The parts that depend on the pipeline only. *)
LEMMA SamePipeline ==
  ASSUME setup' = setup
  PROVE  /\ Stages' = Stages /\ LastStage' = LastStage
         /\ \A s : setup'.device[s] = DeviceOf(s)
         /\ Here' = BufferOf(stage')
         /\ DeviceOf(stage)' = DeviceOf(stage')
BY DEF Stages, LastStage, DeviceOf, BufferOf, Here

LEMMA Activations ==
  ASSUME PipelineTypes, pass > 0, NEW s \in Nat
  PROVE  <<pass, s>> \in Contents /\ <<pass, s>> # NoBuffer /\ <<pass, s>>[1] = pass
BY DEF PipelineTypes, Contents, NoBuffer

(* A pass that ends, or fails, has nothing to keep but the types. *)
LEMMA PassEnds ==
  ASSUME PipelineIInv, setup' = setup, pass' = pass, stage' \in Stages, at' = "idle",
         tensors' \in [Stages -> GoodTensors], arena' = arena, written' = written
  PROVE  PipelineIInv'
<1>1. Stages' = Stages
  BY SamePipeline
<1>2. PipelineTypes'
  BY <1>1 DEF PipelineIInv, PipelineTypes
<1>3. Kept'
  BY <1>1 DEF PipelineIInv, Kept
<1>4. AtEmbed' /\ AtLayers' /\ AtRun' /\ AtRan' /\ AtHandoff' /\ SharedIsTracked'
  BY DEF AtEmbed, AtLayers, AtRun, AtRan, AtHandoff, SharedIsTracked
<1> QED
  BY <1>2, <1>3, <1>4 DEF PipelineIInv

(* A pass that goes on has changed one buffer. *)
LEMMA PassGoesOn ==
  ASSUME PipelineIInv, at # "idle", setup' = setup, pass' = pass, stage' \in Stages,
         at' \in {"layers", "run", "ran", "handoff"},
         NEW b \in Stages, NEW u \in GoodTensors, NEW c \in Contents, c[1] = pass,
         Current(u, c), tensors' = [tensors EXCEPT ![b] = u],
         written' = [written EXCEPT ![b] = c],
         arena' \in [Stages -> Authorities]
  PROVE  PipelineTypes' /\ Kept' /\ AtEmbed'
<1>1. Stages' = Stages
  BY SamePipeline
<1>2. /\ tensors \in [Stages -> GoodTensors] /\ written \in [Stages -> Contents]
      /\ pass \in Nat /\ pass > 0
      /\ \A x \in Stages : written[x][1] <= pass
      /\ \A x \in Stages : written[x][1] = pass => Current(tensors[x], written[x])
  BY DEF PipelineIInv, PipelineTypes, Kept
<1>3. PipelineTypes'
  BY <1>1, <1>2 DEF PipelineIInv, PipelineTypes
<1>4. \A x \in Stages : /\ written'[x] = (IF x = b THEN c ELSE written[x])
                        /\ tensors'[x] = (IF x = b THEN u ELSE tensors[x])
  BY <1>2
<1>5. ASSUME NEW x \in Stages
      PROVE  written'[x][1] <= pass /\ (written'[x][1] = pass => Current(tensors'[x], written'[x]))
  BY <1>2, <1>4
<1>6. Kept'
  BY <1>1, <1>2, <1>5 DEF Kept
<1> QED
  BY <1>3, <1>6 DEF AtEmbed


LEMMA BeginPassKeeps ==
  ASSUME PipelineIInv, BeginPass
  PROVE  PipelineIInv'
<1>1. /\ PipelineTypes /\ Kept /\ setup' = setup /\ pass' = pass + 1 /\ stage' = 1
      /\ at' = "embed" /\ arena' = arena /\ written' = written
  BY DEF BeginPass, PipelineIInv
<1>2. Stages' = Stages /\ 1 \in Stages /\ DeviceOf(1) \in Devices
  BY <1>1, SamePipeline, StagesAre
<1>3. /\ tensors \in [Stages -> GoodTensors] /\ written \in [Stages -> Contents]
      /\ pass \in Nat /\ \A b \in Stages : written[b][1] <= pass
  BY <1>1 DEF PipelineTypes, Kept
<1>4. tensors' \in [Stages -> GoodTensors]
  <2>1. CASE UNCHANGED tensors
    BY <1>3, <2>1
  <2>2. ASSUME NEW o \in AllocateOnDevice(tensors[1], DeviceOf(1)),
               tensors' = [tensors EXCEPT ![1] = o.tensor]
        PROVE  tensors' \in [Stages -> GoodTensors]
    <3>1. tensors[1] \in GoodTensors
      BY <1>2, <1>3
    <3>2. o.tensor \in GoodTensors
      BY <1>2, <3>1, AllocateOnDeviceGives
    <3> QED
      BY <1>3, <2>2, <3>2
  <2> QED
    BY <2>1, <2>2 DEF BeginPass
<1>5. \A b \in Stages : written[b][1] < pass + 1 /\ written[b][1] <= pass + 1
                        /\ written[b][1] # pass + 1
  <2> TAKE b \in Stages
  <2>1. written[b][1] \in Nat /\ written[b][1] <= pass
    BY <1>3 DEF Contents
  <2> QED
    BY <1>3, <2>1
<1>6. PipelineTypes'
  BY <1>1, <1>2, <1>3, <1>4 DEF PipelineTypes
<1>7. Kept' /\ AtEmbed'
  BY <1>1, <1>2, <1>3, <1>5 DEF Kept, AtEmbed
<1>8. AtLayers' /\ AtRun' /\ AtRan' /\ AtHandoff' /\ SharedIsTracked'
  BY <1>1 DEF AtLayers, AtRun, AtRan, AtHandoff, SharedIsTracked
<1> QED
  BY <1>6, <1>7, <1>8 DEF PipelineIInv

(* A kernel that writes leaves its activation where the stage runs.        *)
LEMMA ComputesKeeps ==
  ASSUME PipelineIInv, "download" \notin Faults, at # "idle",
         setup' = setup, pass' = pass, stage' = stage,
         NEW b \in Stages, NEW c \in Contents, c[1] = pass, NEW next \in {"layers", "ran"},
         NEW outcomes,
         \A o \in outcomes : /\ o.tensor \in GoodTensors /\ o.ok \in BOOLEAN
                             /\ o.ok /\ DeviceOf(stage) # Cpu => o.tensor.gpu = DeviceOf(stage),
         Computes(b, outcomes, c, next)
  PROVE  \/ PipelineIInv'
         \/ /\ PipelineTypes' /\ Kept' /\ AtEmbed' /\ at' = next
            /\ written'[b] = c /\ WrittenOn(tensors'[b], DeviceOf(stage), c)
            /\ arena'[b] # "uninitialized"
<1> DEFINE d == DeviceOf(stage)
           K(t) == KernelWrites(t, d, c)
           M(t) == Ok(MarkWritten(t, d))
<1>1. /\ PipelineTypes /\ stage \in Stages /\ d \in Devices
      /\ tensors \in [Stages -> GoodTensors] /\ written \in [Stages -> Contents]
      /\ arena \in [Stages -> Authorities]
  BY StagesAre DEF PipelineIInv, PipelineTypes
<1>2. PICK o \in Then(Then(outcomes, K), M) :
        /\ tensors' = [tensors EXCEPT ![b] = o.tensor]
        /\ at' = IF o.ok THEN next ELSE "idle"
        /\ arena' = IF o.ok THEN [arena EXCEPT ![b] = AuthorityOf(d)] ELSE arena
        /\ written' = IF o.ok THEN [written EXCEPT ![b] = c] ELSE written
  BY DEF Computes
<1>3. PICK e \in outcomes : IF e.ok THEN o \in Then(K(e.tensor), M) ELSE o = e
  <2>1. PICK k \in Then(outcomes, K) : IF k.ok THEN o \in M(k.tensor) ELSE o = k
    BY DEF Then
  <2>2. PICK e \in outcomes : IF e.ok THEN k \in K(e.tensor) ELSE k = e
    BY DEF Then
  <2>3. CASE e.ok
    <3>1. k \in K(e.tensor)
      BY <2>2, <2>3
    <3>2. o \in Then(K(e.tensor), M)
      BY <2>1, <3>1 DEF Then
    <3> QED
      BY <2>3, <3>2
  <2>4. CASE ~e.ok
    <3>1. k = e
      BY <2>2, <2>4
    <3>2. o = e
      BY <2>1, <2>4, <3>1
    <3> QED
      BY <2>4, <3>2
  <2> QED
    BY <2>3, <2>4
<1>4. CASE ~e.ok
  <2>1. o = e /\ o.tensor \in GoodTensors /\ ~o.ok
    BY <1>3, <1>4
  <2>2. /\ tensors' \in [Stages -> GoodTensors] /\ at' = "idle"
        /\ arena' = arena /\ written' = written
    BY <1>1, <1>2, <2>1
  <2> QED
    BY <1>1, <2>2, PassEnds
<1>5. CASE e.ok
  <2>1. o.tensor \in GoodTensors /\ o.ok /\ WrittenOn(o.tensor, d, c)
    <3>1. e.tensor \in GoodTensors /\ (d # Cpu => e.tensor.gpu = d)
      BY <1>5
    <3>2. o \in Then(KernelWrites(e.tensor, d, c), LAMBDA u : Ok(MarkWritten(u, d)))
      BY <1>3, <1>5
    <3> HIDE DEF d
    <3> QED
      BY <1>1, <3>1, <3>2, ComputesGives
  <2>2. Current(o.tensor, c)
    BY <1>1, <2>1, WrittenIsReached
  <2>3. /\ at' = next /\ tensors' = [tensors EXCEPT ![b] = o.tensor]
        /\ written' = [written EXCEPT ![b] = c] /\ arena' = [arena EXCEPT ![b] = AuthorityOf(d)]
    BY <1>2, <2>1
  <2>4. AuthorityOf(d) \in Authorities /\ AuthorityOf(d) # "uninitialized"
    BY DEF AuthorityOf, Authorities
  <2>5. arena' \in [Stages -> Authorities] /\ arena'[b] # "uninitialized"
    BY <1>1, <2>3, <2>4
  <2>6. written'[b] = c /\ tensors'[b] = o.tensor
    BY <1>1, <2>3
  <2>7. PipelineTypes' /\ Kept' /\ AtEmbed'
    BY <1>1, <2>1, <2>2, <2>3, <2>5, PassGoesOn
  <2> QED
    BY <2>1, <2>3, <2>5, <2>6, <2>7
<1>6. e.ok \in BOOLEAN
  OBVIOUS
<1> QED
  BY <1>4, <1>5, <1>6

LEMMA EmbedKeeps ==
  ASSUME PipelineIInv, "download" \notin Faults, Embed
  PROVE  PipelineIInv'
<1> DEFINE outcomes == PrepareForWrite(tensors[1], DeviceOf(1))
           c == <<pass, 0>>
<1>1. /\ PipelineTypes /\ Kept /\ at = "embed" /\ stage = 1 /\ pass > 0 /\ pass \in Nat
      /\ setup' = setup /\ pass' = pass /\ stage' = stage
      /\ Computes(1, outcomes, c, "layers")
  BY DEF Embed, PipelineIInv, AtEmbed, Kept, PipelineTypes
<1>2. c \in Contents /\ c[1] = pass
  BY <1>1, Activations
<1>3. /\ 1 \in Stages /\ stage \in Stages /\ DeviceOf(stage) \in Devices /\ Here = 1
      /\ tensors[1] \in GoodTensors
  BY <1>1, StagesAre DEF PipelineTypes, Here, BufferOf
<1>4. \A o \in outcomes : /\ o.tensor \in GoodTensors /\ o.ok \in BOOLEAN
                          /\ o.ok /\ DeviceOf(stage) # Cpu => o.tensor.gpu = DeviceOf(stage)
  BY <1>1, <1>3, AllocateOnDeviceGives DEF PrepareForWrite
<1> HIDE DEF outcomes, c
<1>5. \/ PipelineIInv'
      \/ /\ PipelineTypes' /\ Kept' /\ AtEmbed' /\ at' = "layers"
         /\ written'[1] = c /\ WrittenOn(tensors'[1], DeviceOf(stage), c)
         /\ arena'[1] # "uninitialized"
  BY <1>1, <1>2, <1>3, <1>4, ComputesKeeps
<1>6. ASSUME PipelineTypes', Kept', AtEmbed', at' = "layers",
             written'[1] = c, WrittenOn(tensors'[1], DeviceOf(stage), c),
             arena'[1] # "uninitialized"
      PROVE  PipelineIInv'
  <2>1. Here' = 1 /\ DeviceOf(stage)' = DeviceOf(stage) /\ Stages' = Stages
    BY <1>1, <1>3, SamePipeline DEF Here
  <2>2. tensors'[1] \in GoodTensors
    BY <1>3, <1>6, <2>1 DEF PipelineTypes
  <2>3. Reaches(tensors'[1], DeviceOf(stage), c)
    BY <1>3, <1>6, <2>2, WrittenIsReached
  <2>4. c = <<pass', stage' - 1>>
    BY <1>1 DEF c
  <2>5. AtLayers'
    BY <1>6, <2>1, <2>3, <2>4 DEF AtLayers
  <2>6. AtRun' /\ AtRan' /\ AtHandoff' /\ SharedIsTracked'
    BY <1>6 DEF AtRun, AtRan, AtHandoff, SharedIsTracked
  <2> QED
    BY <1>6, <2>5, <2>6 DEF PipelineIInv
<1> QED
  BY <1>5, <1>6

(* A tensor is made ready, moved or read; what was written stays.          *)
LEMMA BecomesKeeps ==
  ASSUME PipelineIInv, at # "idle",
         setup' = setup, pass' = pass, stage' \in Stages, arena' = arena, written' = written,
         NEW b \in Stages, written[b][1] = pass,
         NEW next \in {"layers", "run", "ran", "handoff"}, NEW outcomes,
         \A o \in outcomes : /\ o.tensor \in GoodTensors /\ o.ok \in BOOLEAN
                             /\ o.ok => Current(o.tensor, written[b]),
         Becomes(b, outcomes, next)
  PROVE  \/ PipelineIInv'
         \/ /\ PipelineTypes' /\ Kept' /\ AtEmbed' /\ at' = next
            /\ \E o \in outcomes : o.ok /\ tensors'[b] = o.tensor
<1>1. /\ tensors \in [Stages -> GoodTensors] /\ written \in [Stages -> Contents]
      /\ arena \in [Stages -> Authorities]
  BY DEF PipelineIInv, PipelineTypes
<1>2. PICK o \in outcomes : /\ tensors' = [tensors EXCEPT ![b] = o.tensor]
                            /\ at' = IF o.ok THEN next ELSE "idle"
  BY DEF Becomes
<1>3. /\ o.tensor \in GoodTensors /\ o.ok \in BOOLEAN
      /\ o.ok => Current(o.tensor, written[b])
  OBVIOUS
<1>4. CASE ~o.ok
  <2>1. tensors' \in [Stages -> GoodTensors] /\ at' = "idle"
    BY <1>1, <1>2, <1>3, <1>4
  <2> QED
    BY <1>1, <2>1, PassEnds
<1>5. CASE o.ok
  <2>1. at' = next /\ written' = [written EXCEPT ![b] = written[b]] /\ written[b] \in Contents
    BY <1>1, <1>2, <1>5
  <2>2. tensors'[b] = o.tensor
    BY <1>1, <1>2
  <2>3. PipelineTypes' /\ Kept' /\ AtEmbed'
    BY <1>1, <1>2, <1>3, <1>5, <2>1, PassGoesOn
  <2> QED
    BY <1>5, <2>1, <2>2, <2>3
<1> QED
  BY <1>3, <1>4, <1>5

LEMMA PrepareLayersKeeps ==
  ASSUME PipelineIInv, "download" \notin Faults, PrepareLayers
  PROVE  PipelineIInv'
<1> DEFINE d == DeviceOf(stage)
           c == <<pass, stage - 1>>
           outcomes == Then(PrepareForRead(tensors[Here], arena[Here], d),
                            LAMBDA t : PrepareForWrite(t, d))
<1>1. /\ PipelineTypes /\ Kept /\ SharedIsTracked /\ at = "layers" /\ pass > 0 /\ pass \in Nat
      /\ written[Here] = c /\ Reaches(tensors[Here], d, c)
      /\ arena[Here] = "uninitialized" => InPlace(tensors[Here], d)
      /\ setup' = setup /\ pass' = pass /\ stage' = stage /\ arena' = arena /\ written' = written
      /\ Becomes(Here, outcomes, "run")
  BY DEF PrepareLayers, PipelineIInv, AtLayers, Kept, PipelineTypes
<1>2. /\ Here \in Stages /\ stage \in Stages /\ d \in Devices /\ stage - 1 \in Nat
      /\ tensors[Here] \in GoodTensors /\ arena[Here] \in Authorities
  BY <1>1, StagesAre DEF PipelineTypes
<1>3. c \in Contents /\ c # NoBuffer /\ c[1] = pass
  BY <1>1, <1>2, Activations
<1> HIDE DEF c, d
<1>4. \A o \in outcomes :
        /\ o.tensor \in GoodTensors /\ o.ok \in BOOLEAN
        /\ o.ok => /\ Current(o.tensor, c) /\ KernelReads(o.tensor, d) = c
                   /\ d # Cpu => o.tensor.gpu = d
  BY <1>1, <1>2, <1>3, PrepareGives
<1> HIDE DEF outcomes
<1>5. \/ PipelineIInv'
      \/ /\ PipelineTypes' /\ Kept' /\ AtEmbed' /\ at' = "run"
         /\ \E o \in outcomes : o.ok /\ tensors'[Here] = o.tensor
  BY <1>1, <1>2, <1>3, <1>4, BecomesKeeps
<1>6. ASSUME PipelineTypes', Kept', AtEmbed', at' = "run",
             NEW o \in outcomes, o.ok, tensors'[Here] = o.tensor
      PROVE  PipelineIInv'
  <2>1. Here' = Here /\ DeviceOf(stage)' = d /\ c = <<pass', stage' - 1>> /\ 1 \in Stages
    BY <1>1, SamePipeline, StagesAre DEF Here, c, d
  <2>2. AtRun'
    BY <1>1, <1>4, <1>6, <2>1 DEF AtRun
  <2>3. AtLayers' /\ AtRan' /\ AtHandoff'
    BY <1>6 DEF AtLayers, AtRan, AtHandoff
  <2>4. SharedIsTracked'
    BY <1>1 DEF SharedIsTracked
  <2> QED
    BY <1>6, <2>2, <2>3, <2>4 DEF PipelineIInv
<1> QED
  BY <1>5, <1>6

LEMMA RunLayersKeeps ==
  ASSUME PipelineIInv, "download" \notin Faults, RunLayers
  PROVE  PipelineIInv'
<1> DEFINE outcomes == Ok(tensors[Here])
           c == <<pass, stage>>
<1>1. /\ PipelineTypes /\ Kept /\ at = "run" /\ pass > 0 /\ pass \in Nat
      /\ DeviceOf(stage) # Cpu => tensors[Here].gpu = DeviceOf(stage)
      /\ setup' = setup /\ pass' = pass /\ stage' = stage
      /\ Computes(Here, outcomes, c, "ran")
  BY DEF RunLayers, PipelineIInv, AtRun, Kept, PipelineTypes
<1>2. /\ Here \in Stages /\ stage \in Nat /\ DeviceOf(stage) \in Devices
      /\ tensors[Here] \in GoodTensors
  BY <1>1, StagesAre DEF PipelineTypes
<1>3. c \in Contents /\ c[1] = pass
  BY <1>1, <1>2, Activations
<1>4. \A o \in outcomes : /\ o.tensor \in GoodTensors /\ o.ok \in BOOLEAN
                          /\ o.ok /\ DeviceOf(stage) # Cpu => o.tensor.gpu = DeviceOf(stage)
  <2> TAKE o \in outcomes
  <2>1. o = [tensor |-> tensors[Here], ok |-> TRUE]
    BY DEF Ok
  <2>2. o.tensor = tensors[Here] /\ o.ok \in BOOLEAN
    BY <2>1
  <2> QED
    BY <1>1, <1>2, <2>2
<1> HIDE DEF outcomes, c
<1>5. \/ PipelineIInv'
      \/ /\ PipelineTypes' /\ Kept' /\ AtEmbed' /\ at' = "ran"
         /\ written'[Here] = c /\ WrittenOn(tensors'[Here], DeviceOf(stage), c)
         /\ arena'[Here] # "uninitialized"
  BY <1>1, <1>2, <1>3, <1>4, ComputesKeeps
<1>6. ASSUME PipelineTypes', Kept', AtEmbed', at' = "ran",
             written'[Here] = c, WrittenOn(tensors'[Here], DeviceOf(stage), c),
             arena'[Here] # "uninitialized"
      PROVE  PipelineIInv'
  <2>1. Here' = Here /\ DeviceOf(stage)' = DeviceOf(stage) /\ c = <<pass', stage'>>
    BY <1>1, SamePipeline DEF Here, c
  <2>2. AtRan'
    BY <1>6, <2>1 DEF AtRan
  <2>3. AtLayers' /\ AtRun' /\ AtHandoff'
    BY <1>6 DEF AtLayers, AtRun, AtHandoff
  <2>4. SharedIsTracked'
    BY <1>1, <1>6 DEF SharedIsTracked, Here, BufferOf
  <2> QED
    BY <1>6, <2>2, <2>3, <2>4 DEF PipelineIInv
<1> QED
  BY <1>5, <1>6

LEMMA ReadOutputKeeps ==
  ASSUME PipelineIInv, "download" \notin Faults, ReadOutput
  PROVE  PipelineIInv'
<1> DEFINE c == <<pass, stage>>
<1>1. /\ PipelineTypes /\ Kept /\ SharedIsTracked /\ at = "ran" /\ pass > 0 /\ pass \in Nat
      /\ written[Here] = c /\ WrittenOn(tensors[Here], DeviceOf(stage), c)
      /\ setup' = setup /\ pass' = pass /\ stage' = stage /\ arena' = arena /\ written' = written
      /\ Becomes(Here, Data(tensors[Here]), "ran")
  BY DEF ReadOutput, PipelineIInv, AtRan, Kept, PipelineTypes
<1>2. /\ Here \in Stages /\ stage \in Stages /\ stage \in Nat /\ DeviceOf(stage) \in Devices
      /\ tensors[Here] \in GoodTensors
  BY <1>1, StagesAre DEF PipelineTypes
<1>3. c \in Contents /\ c # NoBuffer /\ c[1] = pass
  BY <1>1, <1>2, Activations
<1> HIDE DEF c
<1>4. \A o \in Data(tensors[Here]) :
        /\ o.tensor \in GoodTensors /\ o.ok \in BOOLEAN
        /\ WrittenOn(o.tensor, DeviceOf(stage), c) /\ Current(o.tensor, c)
  <2> TAKE o \in Data(tensors[Here])
  <2>1. o.tensor \in GoodTensors /\ o.ok = TRUE
    BY <1>2, DataGives
  <2>2. WrittenOn(o.tensor, DeviceOf(stage), c)
    BY <1>1, <1>2, DataKeepsWritten
  <2> QED
    BY <1>2, <2>1, <2>2, WrittenIsReached
<1>5. \/ PipelineIInv'
      \/ /\ PipelineTypes' /\ Kept' /\ AtEmbed' /\ at' = "ran"
         /\ \E o \in Data(tensors[Here]) : o.ok /\ tensors'[Here] = o.tensor
  BY <1>1, <1>2, <1>3, <1>4, BecomesKeeps
<1>6. ASSUME PipelineTypes', Kept', AtEmbed', at' = "ran",
             NEW o \in Data(tensors[Here]), tensors'[Here] = o.tensor
      PROVE  PipelineIInv'
  <2>1. Here' = Here /\ DeviceOf(stage)' = DeviceOf(stage) /\ c = <<pass', stage'>>
    BY <1>1, SamePipeline DEF Here, c
  <2>2. AtRan'
    BY <1>1, <1>4, <1>6, <2>1 DEF AtRan
  <2>3. AtLayers' /\ AtRun' /\ AtHandoff'
    BY <1>6 DEF AtLayers, AtRun, AtHandoff
  <2>4. SharedIsTracked'
    BY <1>1 DEF SharedIsTracked
  <2> QED
    BY <1>6, <2>2, <2>3, <2>4 DEF PipelineIInv
<1> QED
  BY <1>5, <1>6

LEMMA TransferKeeps ==
  ASSUME PipelineIInv, "download" \notin Faults, Transfer
  PROVE  PipelineIInv'
<1> DEFINE c == <<pass, stage>>
           t == tensors[Here]
           from == DeviceOf(stage)
           to == DeviceOf(stage + 1)
           outcomes == IF setup.context = "flat" THEN FlatTransfer(t, from, to)
                       ELSE HierarchicalTransfer(t, from, to)
           next == IF setup.shared THEN "layers" ELSE "handoff"
<1>1. /\ PipelineTypes /\ Kept /\ SharedIsTracked /\ at = "ran" /\ pass > 0 /\ pass \in Nat
      /\ stage < LastStage /\ written[Here] = c /\ WrittenOn(t, from, c)
      /\ setup' = setup /\ pass' = pass /\ stage' = stage + 1
      /\ arena' = arena /\ written' = written
      /\ Becomes(Here, outcomes, next)
  BY DEF Transfer, PipelineIInv, AtRan, Kept, PipelineTypes
<1>2. /\ Here \in Stages /\ stage \in Stages /\ stage \in Nat /\ stage + 1 \in Stages
      /\ from \in Devices /\ to \in Devices /\ t \in GoodTensors
      /\ arena \in [Stages -> Authorities] /\ setup.shared \in BOOLEAN
  BY <1>1, StagesAre DEF PipelineTypes
<1>3. c \in Contents /\ c # NoBuffer /\ c[1] = pass
  BY <1>1, <1>2, Activations
<1>4. next \in {"layers", "handoff"} /\ at # "idle"
  BY <1>1
<1> HIDE DEF c, t, from, to
<1>5. \A o \in outcomes :
        /\ o.tensor \in GoodTensors /\ o.ok \in BOOLEAN
        /\ o.ok => Reaches(o.tensor, to, c) /\ Authoritative(o.tensor, c) /\ Current(o.tensor, c)
  <2> TAKE o \in outcomes
  <2>1. CASE setup.context = "flat"
    BY <1>1, <1>2, <1>3, <2>1, FlatTransferGives DEF Reaches
  <2>2. CASE setup.context # "flat"
    BY <1>1, <1>2, <1>3, <2>2, HierarchicalTransferGives DEF Reaches
  <2> QED
    BY <2>1, <2>2
<1> HIDE DEF outcomes
<1>6. \/ PipelineIInv'
      \/ /\ PipelineTypes' /\ Kept' /\ AtEmbed' /\ at' = next
         /\ \E o \in outcomes : o.ok /\ tensors'[Here] = o.tensor
  <2> HIDE DEF next
  <2> QED
    BY <1>1, <1>2, <1>3, <1>4, <1>5, BecomesKeeps
<1>7. ASSUME PipelineTypes', Kept', AtEmbed', at' = next,
             NEW o \in outcomes, o.ok, tensors'[Here] = o.tensor
      PROVE  PipelineIInv'
  <2>1. /\ Stages' = Stages /\ DeviceOf(stage)' = to /\ c = <<pass', stage' - 1>>
        /\ Here' = BufferOf(stage + 1)
    BY <1>1, <1>2, SamePipeline DEF DeviceOf, c, to
  <2>2. Reaches(tensors'[Here], to, c) /\ Authoritative(tensors'[Here], c) /\ written'[Here] = c
    BY <1>1, <1>5, <1>7
  <2>3. SharedIsTracked'
    BY <1>1 DEF SharedIsTracked
  <2>4. AtRun' /\ AtRan'
    BY <1>4, <1>7 DEF AtRun, AtRan
  <2>5. CASE setup.shared
    <3>1. Here' = Here /\ Here = 1 /\ at' = "layers" /\ arena'[Here] # "uninitialized"
      BY <1>1, <1>7, <2>1, <2>5 DEF Here, BufferOf, SharedIsTracked
    <3>2. AtLayers'
      BY <2>1, <2>2, <3>1 DEF AtLayers
    <3>3. AtHandoff'
      BY <3>1 DEF AtHandoff
    <3> QED
      BY <1>7, <2>3, <2>4, <3>2, <3>3 DEF PipelineIInv
  <2>6. CASE ~setup.shared
    <3>1. Here = stage /\ stage' - 1 = stage /\ at' = "handoff" /\ ~setup'.shared
      BY <1>1, <1>2, <1>7, <2>6 DEF Here, BufferOf
    <3>2. AtHandoff'
      BY <1>2, <2>1, <2>2, <3>1 DEF AtHandoff
    <3>3. AtLayers'
      BY <3>1 DEF AtLayers
    <3> QED
      BY <1>7, <2>3, <2>4, <3>2, <3>3 DEF PipelineIInv
  <2> QED
    BY <2>5, <2>6
<1> QED
  BY <1>6, <1>7

LEMMA HandoffKeeps ==
  ASSUME PipelineIInv, "download" \notin Faults, Handoff
  PROVE  PipelineIInv'
<1> DEFINE b == stage - 1
           d == DeviceOf(stage)
           c == <<pass, b>>
<1>1. /\ PipelineTypes /\ Kept /\ at = "handoff" /\ pass > 0 /\ pass \in Nat
      /\ ~setup.shared /\ b \in Stages /\ written[b] = c
      /\ Reaches(tensors[b], d, c) /\ Authoritative(tensors[b], c)
      /\ setup' = setup /\ pass' = pass /\ stage' = stage /\ arena' = arena
  BY DEF Handoff, PipelineIInv, AtHandoff, Kept, PipelineTypes
<1>2. /\ stage \in Stages /\ d \in Devices /\ b \in Nat /\ stage # b
      /\ tensors \in [Stages -> GoodTensors] /\ written \in [Stages -> Contents]
      /\ arena \in [Stages -> Authorities] /\ Here = stage
      /\ \A s \in Stages : written[s][1] <= pass
      /\ \A s \in Stages : written[s][1] = pass => Current(tensors[s], written[s])
  <2>1. stage \in Stages /\ d \in Devices /\ stage \in Nat /\ stage > 0
    BY <1>1, StagesAre DEF PipelineTypes
  <2> QED
    BY <1>1, <2>1 DEF PipelineTypes, Kept, Here, BufferOf
<1>3. c \in Contents /\ c # NoBuffer /\ c[1] = pass
  BY <1>1, <1>2, Activations
<1>4. PICK o \in CopyActivation(tensors[b], tensors[stage], d) :
        /\ tensors' = [tensors EXCEPT ![b] = o.src, ![stage] = o.dst]
        /\ at' = IF o.ok THEN "layers" ELSE "idle"
        /\ written' = IF o.ok THEN [written EXCEPT ![stage] = c] ELSE written
  BY DEF Handoff
<1>5. Stages' = Stages /\ Here' = Here /\ DeviceOf(stage)' = d /\ c = <<pass', stage' - 1>>
  BY <1>1, SamePipeline DEF Here
<1> HIDE DEF b, c, d
<1>6. /\ o.src \in GoodTensors /\ o.dst \in GoodTensors /\ o.ok \in BOOLEAN
      /\ o.ok => Current(o.src, c) /\ Current(o.dst, c) /\ InPlace(o.dst, d)
  <2>1. tensors[b] \in GoodTensors /\ tensors[stage] \in GoodTensors /\ Current(tensors[b], c)
    BY <1>1, <1>2 DEF Reaches
  <2> QED
    BY <1>1, <1>2, <1>3, <2>1, CopyActivationGives
<1>7. tensors' \in [Stages -> GoodTensors]
  BY <1>2, <1>4, <1>6
<1>8. CASE ~o.ok
  <2>1. at' = "idle" /\ written' = written
    BY <1>4, <1>8
  <2> QED
    BY <1>1, <1>2, <1>7, <2>1, PassEnds
<1>9. CASE o.ok
  <2>1. at' = "layers" /\ written' = [written EXCEPT ![stage] = c]
    BY <1>4, <1>9
  <2>2. \A s \in Stages : /\ written'[s] = (IF s = stage THEN c ELSE written[s])
                          /\ tensors'[s] = (IF s = stage THEN o.dst ELSE
                                            IF s = b THEN o.src ELSE tensors[s])
    BY <1>1, <1>2, <1>4, <2>1
  <2>3. PipelineTypes'
    BY <1>1, <1>2, <1>3, <1>5, <1>7, <2>1 DEF PipelineTypes
  <2>4. ASSUME NEW s \in Stages
        PROVE  written'[s][1] <= pass /\ (written'[s][1] = pass => Current(tensors'[s], written'[s]))
    <3>1. CASE s = stage
      BY <1>1, <1>3, <1>6, <1>9, <2>2, <3>1
    <3>2. CASE s = b
      BY <1>1, <1>2, <1>3, <1>6, <1>9, <2>2, <3>2
    <3>3. CASE s # stage /\ s # b
      BY <1>2, <2>2, <3>3
    <3> QED
      BY <3>1, <3>2, <3>3
  <2>5. Kept'
    BY <1>1, <1>5, <2>1, <2>4 DEF Kept
  <2>6. written'[stage] = c /\ tensors'[stage] = o.dst
    BY <1>2, <2>2
  <2>7. Reaches(o.dst, d, c)
    BY <1>6, <1>9 DEF Reaches, InPlace
  <2>8. AtLayers'
    BY <1>2, <1>5, <1>6, <1>9, <2>6, <2>7 DEF AtLayers
  <2>9. AtEmbed' /\ AtRun' /\ AtRan' /\ AtHandoff'
    BY <2>1 DEF AtEmbed, AtRun, AtRan, AtHandoff
  <2>10. SharedIsTracked'
    BY <1>1 DEF SharedIsTracked
  <2> QED
    BY <2>3, <2>5, <2>8, <2>9, <2>10 DEF PipelineIInv
<1> QED
  BY <1>6, <1>8, <1>9

LEMMA FinishPassKeeps ==
  ASSUME PipelineIInv, FinishPass
  PROVE  PipelineIInv'
<1>1. /\ setup' = setup /\ pass' = pass /\ stage' \in Stages /\ at' = "idle"
      /\ tensors' \in [Stages -> GoodTensors] /\ arena' = arena /\ written' = written
  BY DEF FinishPass, PipelineIInv, PipelineTypes
<1> QED
  BY <1>1, PassEnds

LEMMA PipelineStarts ==
  ASSUME PipelineInit
  PROVE  PipelineIInv
<1>1. /\ setup \in Setups /\ pass = 0 /\ stage = 1 /\ at = "idle"
      /\ tensors = [s \in Stages |-> NewTensor] /\ arena = [s \in Stages |-> "uninitialized"]
      /\ written = [s \in Stages |-> Garbage]
  BY DEF PipelineInit
<1>2. 1 \in Stages
  BY <1>1, PipelineAssumption DEF Stages
<1>3. NewTensor \in GoodTensors
  BY NoBufferIsContent DEF NewTensor, GoodTensors, DeviceValid, States
<1>4. PipelineTypes
  BY <1>1, <1>2, <1>3, NoBufferIsContent DEF PipelineTypes, Authorities
<1>5. Kept
  BY <1>1 DEF Kept, Garbage
<1> QED
  BY <1>1, <1>4, <1>5
     DEF PipelineIInv, AtEmbed, AtLayers, AtRun, AtRan, AtHandoff, SharedIsTracked

-----------------------------------------------------------------------------
(* What the passes promise. *)

LEMMA PipelineAlways ==
  ASSUME "download" \notin Faults
  PROVE  PipelineSpec => []PipelineIInv
<1>1. PipelineIInv /\ [PipelineNext]_pipelineVars => PipelineIInv'
  <2> SUFFICES ASSUME PipelineIInv, [PipelineNext]_pipelineVars
               PROVE  PipelineIInv'
    OBVIOUS
  <2>1. CASE UNCHANGED pipelineVars
    BY <2>1 DEF pipelineVars, PipelineIInv, PipelineTypes, Kept, AtEmbed, AtLayers, AtRun,
       AtRan, AtHandoff, SharedIsTracked, Stages, Here, BufferOf, DeviceOf
  <2>2. CASE BeginPass
    BY <2>2, BeginPassKeeps
  <2>3. CASE Embed
    BY <2>3, EmbedKeeps
  <2>4. CASE PrepareLayers
    BY <2>4, PrepareLayersKeeps
  <2>5. CASE RunLayers
    BY <2>5, RunLayersKeeps
  <2>6. CASE ReadOutput
    BY <2>6, ReadOutputKeeps
  <2>7. CASE Transfer
    BY <2>7, TransferKeeps
  <2>8. CASE Handoff
    BY <2>8, HandoffKeeps
  <2>9. CASE FinishPass
    BY <2>9, FinishPassKeeps
  <2> QED
    BY <2>1, <2>2, <2>3, <2>4, <2>5, <2>6, <2>7, <2>8, <2>9 DEF PipelineNext
<1> QED
  BY <1>1, PipelineStarts, PTL DEF PipelineSpec

(* The kernels of a stage read what the stage before computed in the same  *)
(* pass, on the device they run on, however the pass before ended and      *)
(* wherever it left the tensors (StageReadsItsInput): for every pipeline   *)
(* over any GPUs and the host, through both contexts, and with any failure *)
(* of an allocation, an upload or a copy between GPUs. A download that     *)
(* fails is excluded: data() does not report it.                           *)
THEOREM StageReadsItsInputHolds ==
  ASSUME "download" \notin Faults
  PROVE  PipelineSpec => []StageReadsItsInput
<1>1. PipelineIInv => StageReadsItsInput
  BY DEF PipelineIInv, AtRun, StageReadsItsInput
<1> QED
  BY <1>1, PipelineAlways, PTL

(* In a pass, a copy whose coherence state says it is valid is what the    *)
(* pass wrote last (ValidCopiesAreCurrent), under the same assumption.     *)
THEOREM ValidCopiesAreCurrentHolds ==
  ASSUME "download" \notin Faults
  PROVE  PipelineSpec => []ValidCopiesAreCurrent
<1>1. PipelineIInv => ValidCopiesAreCurrent
  BY DEF PipelineIInv, Kept, Current, ValidCopiesAreCurrent
<1> QED
  BY <1>1, PipelineAlways, PTL
================================================================================
