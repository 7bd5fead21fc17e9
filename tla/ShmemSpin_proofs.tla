--------------------------- MODULE ShmemSpin_proofs ---------------------------
(***************************************************************************)
(* Proofs about the shared-memory allreduce, for every number of ranks and *)
(* of calls, with aborts and timeouts anywhere. The invariant follows      *)
(* my_epoch_ of every rank, of which the published epoch is a copy or the  *)
(* abort marker: no two ranks are ever two steps apart, and a rank that    *)
(* has passed a peer knows that the peer has come as far as it has.        *)
(***************************************************************************)
EXTENDS ShmemSpin, TLAPS

(* Where a rank is in its calls decides its epoch, until its first failure; *)
(* from then on it takes no step in allreduce() any more.                   *)
Phases ==
  \A r \in Ranks :
    /\ epoch[r] = mine[r] \/ epoch[r] = AbortEpoch
    /\ done[r] <= call[r]
    /\ failed[r] = 0 =>
         /\ pc[r] = "out"      => mine[r] = 2 * call[r] /\ done[r] = call[r]
         /\ pc[r] # "out"      => done[r] + 1 = call[r]
         /\ pc[r] = "staging"  => mine[r] + 2 = 2 * call[r]
         /\ pc[r] = "entering" => mine[r] + 1 = 2 * call[r]
         /\ pc[r] = "reducing" => mine[r] + 1 = 2 * call[r]
         /\ pc[r] = "leaving"  => mine[r] = 2 * call[r]
         /\ pc[r] # "dying"
    /\ failed[r] > 0 =>
         /\ pc[r] \in {"out", "dying"} /\ abortRequested[r]
         /\ mine[r] <= 2 * failed[r] /\ done[r] < failed[r] /\ failed[r] <= call[r]

(* What a rank knows of its peers. *)
InStep ==
  \A r, p \in Ranks :
    /\ mine[r] <= mine[p] + 1
    /\ 2 * done[r] <= mine[p]
    /\ pc[r] \in {"staging", "reducing"} => mine[r] <= mine[p]
    /\ pc[r] \in {"entering", "leaving"} /\ p < peer[r] => mine[r] <= mine[p]

Staged ==
  \A r \in Ranks :
    pc[r] # "staging" => mine[r] <= 2 * buffer[r] /\ 2 * buffer[r] <= mine[r] + 1

Summed ==
  \A r, p \in Ranks :
    \/ pc[r] = "reducing" /\ p < peer[r]
    \/ pc[r] = "leaving"
    \/ pc[r] = "out" /\ failed[r] = 0 /\ call[r] > 0
    => sum[r][p] = call[r]

ShmemIInv == ShmemTypeOK /\ Phases /\ InStep /\ Staged /\ Summed

LEMMA Numbers ==
  /\ NumRanks \in Nat /\ NumRanks > 0 /\ MaxCalls \in Nat
  /\ AbortEpoch \in Nat /\ AbortEpoch > 2 * MaxCalls
  /\ Torn \in Nat /\ Torn > MaxCalls
  /\ \A r \in Ranks : r \in Nat /\ r < NumRanks
  /\ \A i \in Nat : i < NumRanks => i \in Ranks
BY ShmemAssumption DEF AbortEpoch, Torn, Ranks

LEMMA Types ==
  ASSUME ShmemTypeOK
  PROVE  /\ epoch \in [Ranks -> Nat] /\ buffer \in [Ranks -> Nat]
         /\ call \in [Ranks -> Nat] /\ peer \in [Ranks -> Nat]
         /\ mine \in [Ranks -> Nat] /\ sum \in [Ranks -> [Ranks -> Nat]]
         /\ done \in [Ranks -> Nat] /\ failed \in [Ranks -> Nat]
         /\ pc \in [Ranks -> Places] /\ abortRequested \in [Ranks -> BOOLEAN]
BY Numbers DEF ShmemTypeOK

LEMMA InitInvariant == ShmemInit => ShmemIInv
<1> SUFFICES ASSUME ShmemInit PROVE ShmemIInv
  OBVIOUS
<1> USE DEF ShmemInit
<1>1. ShmemTypeOK
  <2>1. /\ 0 \in 0..AbortEpoch /\ 0 \in 0..Torn /\ 0 \in 0..MaxCalls
        /\ 0 \in 0..NumRanks /\ 0 \in 0..(2 * MaxCalls)
    BY Numbers
  <2>2. [p \in Ranks |-> 0] \in [Ranks -> 0..Torn]
    BY <2>1
  <2>3. sum \in [Ranks -> [Ranks -> 0..Torn]]
    BY <2>2
  <2> QED
    BY <2>1, <2>3 DEF ShmemTypeOK, Places
<1>2. Phases /\ InStep /\ Staged /\ Summed
  BY Numbers DEF Phases, InStep, Staged, Summed
<1> QED
  BY <1>1, <1>2 DEF ShmemIInv

LEMMA CallInvariant ==
  ASSUME ShmemIInv, NEW r \in Ranks, Call(r) PROVE ShmemIInv'
<1> USE DEF ShmemIInv, Call, historyVars
<1>1. failed[r] = 0
  BY Numbers, Types DEF Phases
<1>2. ShmemTypeOK'
  BY Numbers DEF ShmemTypeOK, Places
<1>3. Phases'
  BY <1>1, Numbers, Types DEF Phases
<1>4. InStep'
  BY <1>1, Numbers, Types DEF InStep, Phases
<1>5. Staged' /\ Summed'
  BY <1>1, Numbers, Types DEF Staged, Summed
<1> QED
  BY <1>2, <1>3, <1>4, <1>5

LEMMA RejectCallInvariant ==
  ASSUME ShmemIInv, NEW r \in Ranks, RejectCall(r) PROVE ShmemIInv'
<1> USE DEF ShmemIInv, RejectCall, FirstFailure, arenaVars
<1>1. ShmemTypeOK'
  BY Numbers DEF ShmemTypeOK
<1>2. Phases'
  BY Numbers, Types DEF Phases
<1>3. InStep' /\ Staged' /\ Summed'
  BY Numbers, Types DEF InStep, Staged, Summed
<1> QED
  BY <1>1, <1>2, <1>3

LEMMA SignalStagedInvariant ==
  ASSUME ShmemIInv, NEW r \in Ranks, SignalStaged(r) PROVE ShmemIInv'
<1> USE DEF ShmemIInv, SignalStaged, RaiseEpoch, historyVars
<1>1. failed[r] = 0 /\ mine[r] + 2 = 2 * call[r]
  BY Numbers, Types DEF Phases
<1>2. ShmemTypeOK'
  BY <1>1, Numbers DEF ShmemTypeOK, Places
<1>3. Phases'
  BY <1>1, Numbers, Types DEF Phases
<1>4. InStep'
  BY <1>1, Numbers, Types DEF InStep
<1>5. Staged'
  BY <1>1, Numbers, Types DEF Staged
<1>6. Summed'
  BY <1>1, Numbers, Types DEF Summed
<1> QED
  BY <1>2, <1>3, <1>4, <1>5, <1>6

LEMMA StartReducingInvariant ==
  ASSUME ShmemIInv, NEW r \in Ranks, StartReducing(r) PROVE ShmemIInv'
<1> USE DEF ShmemIInv, StartReducing, arenaVars, historyVars
<1>1. failed[r] = 0
  BY Numbers, Types DEF Phases
<1>2. ShmemTypeOK'
  BY Numbers DEF ShmemTypeOK, Places
<1>3. Phases'
  BY <1>1, Numbers, Types DEF Phases
<1>4. InStep'
  BY Numbers, Types DEF InStep
<1>5. Staged' /\ Summed'
  BY Numbers, Types DEF Staged, Summed
<1> QED
  BY <1>2, <1>3, <1>4, <1>5

(* Nobody stages while a rank reduces: a rank that has begun a later call  *)
(* knows that this one has finished reading.                               *)
LEMMA NobodyStages ==
  ASSUME ShmemIInv, NEW r \in Ranks, NEW p \in Ranks, pc[r] = "reducing"
  PROVE  pc[p] # "staging"
<1> USE DEF ShmemIInv
<1>1. /\ mine[r] \in Nat /\ mine[p] \in Nat /\ call[r] \in Nat /\ call[p] \in Nat
      /\ failed[r] \in Nat /\ failed[p] \in Nat
  BY Types
<1>2. mine[r] + 1 = 2 * call[r]
  BY <1>1 DEF Phases
<1>3. mine[r] <= mine[p]
  BY DEF InStep
<1> SUFFICES ASSUME pc[p] = "staging" PROVE FALSE
  OBVIOUS
<1>4. mine[p] + 2 = 2 * call[p]
  BY <1>1 DEF Phases
<1>5. mine[p] <= mine[r]
  BY DEF InStep
<1> QED
  BY <1>1, <1>2, <1>3, <1>4, <1>5

(* So what it reads is what was staged for its own call. *)
LEMMA ReadsThisCall ==
  ASSUME ShmemIInv, NEW r \in Ranks, NEW p \in Ranks, pc[r] = "reducing"
  PROVE  buffer[p] = call[r]
<1> USE DEF ShmemIInv
<1>1. /\ mine[r] \in Nat /\ mine[p] \in Nat /\ call[r] \in Nat
      /\ buffer[p] \in Nat /\ failed[r] \in Nat
  BY Types
<1>2. mine[r] + 1 = 2 * call[r]
  BY <1>1 DEF Phases
<1>3. mine[r] <= mine[p] /\ mine[p] <= mine[r] + 1
  BY DEF InStep
<1>4. mine[p] <= 2 * buffer[p] /\ 2 * buffer[p] <= mine[p] + 1
  BY NobodyStages DEF Staged
<1> QED
  BY <1>1, <1>2, <1>3, <1>4

LEMMA ReduceInvariant ==
  ASSUME ShmemIInv, NEW r \in Ranks, Reduce(r) PROVE ShmemIInv'
<1> USE DEF ShmemIInv, Reduce, arenaVars, historyVars
<1>1. peer[r] \in Ranks /\ buffer[peer[r]] = call[r]
  BY ReadsThisCall, Numbers, Types
<1>2. ShmemTypeOK'
  BY <1>1, Numbers DEF ShmemTypeOK
<1>3. Phases' /\ InStep'
  BY Numbers, Types DEF Phases, InStep
<1>4. Staged'
  BY DEF Staged
<1>5. Summed'
  <2> SUFFICES ASSUME NEW q \in Ranks, NEW p \in Ranks,
                      \/ pc[q] = "reducing" /\ p < peer'[q]
                      \/ pc[q] = "leaving"
                      \/ pc[q] = "out" /\ failed[q] = 0 /\ call[q] > 0
               PROVE  sum'[q][p] = call[q]
    BY DEF Summed
  <2>1. CASE q = r
    <3>1. p \in Nat /\ peer[r] \in Nat /\ peer'[r] = peer[r] + 1
      BY Numbers, Types
    <3>2. sum'[r] = [sum[r] EXCEPT ![peer[r]] = buffer[peer[r]]] /\ sum[r] \in [Ranks -> Nat]
      BY Types
    <3>3. p < peer[r] + 1
      BY <2>1, <3>1
    <3>4. CASE p = peer[r]
      BY <1>1, <2>1, <3>2, <3>4
    <3>5. CASE p < peer[r]
      <4>1. p # peer[r]
        BY <3>1, <3>5
      <4> QED
        BY <2>1, <3>2, <3>5, <4>1 DEF Summed
    <3> QED
      BY <3>1, <3>3, <3>4, <3>5
  <2>2. CASE q # r
    BY <2>2, Types DEF Summed
  <2> QED
    BY <2>1, <2>2
<1> QED
  BY <1>2, <1>3, <1>4, <1>5

LEMMA SignalReadInvariant ==
  ASSUME ShmemIInv, NEW r \in Ranks, SignalRead(r) PROVE ShmemIInv'
<1> USE DEF ShmemIInv, SignalRead, RaiseEpoch, historyVars
<1>1. failed[r] = 0 /\ mine[r] + 1 = 2 * call[r]
  BY Numbers, Types DEF Phases
<1>2. ShmemTypeOK'
  BY <1>1, Numbers DEF ShmemTypeOK, Places
<1>3. Phases'
  BY <1>1, Numbers, Types DEF Phases
<1>4. InStep'
  BY <1>1, Numbers, Types DEF InStep
<1>5. Staged'
  BY <1>1, Numbers, Types DEF Staged
<1>6. Summed'
  BY <1>1, Numbers, Types DEF Summed
<1> QED
  BY <1>2, <1>3, <1>4, <1>5, <1>6

LEMMA ReturnInvariant ==
  ASSUME ShmemIInv, NEW r \in Ranks, Return(r) PROVE ShmemIInv'
<1> USE DEF ShmemIInv, Return, arenaVars
<1>1. failed[r] = 0 /\ mine[r] = 2 * call[r]
  BY Numbers, Types DEF Phases
<1>2. ShmemTypeOK'
  BY Numbers DEF ShmemTypeOK, Places
<1>3. Phases'
  BY <1>1, Numbers, Types DEF Phases
<1>4. InStep'
  BY <1>1, Numbers, Types DEF InStep
<1>5. Staged' /\ Summed'
  BY Numbers, Types DEF Staged, Summed
<1> QED
  BY <1>2, <1>3, <1>4, <1>5

(* Passing a peer is learning how far it has come. *)
LEMMA PassPeerInvariant ==
  ASSUME ShmemIInv, NEW r \in Ranks, PassPeer(r) PROVE ShmemIInv'
<1> USE DEF ShmemIInv, PassPeer, AtPeer, HasArrived, arenaVars, historyVars
<1>1. peer[r] \in Ranks /\ mine[r] <= mine[peer[r]]
  <2>1. peer[r] \in Ranks /\ mine[r] \in Nat
    BY Numbers, Types
  <2>2. CASE HasArrived(r, peer[r])
    BY <2>1, <2>2 DEF Phases
  <2> QED
    BY <2>1, <2>2
<1>2. ShmemTypeOK'
  BY <1>1, Numbers DEF ShmemTypeOK
<1>3. Phases'
  BY Numbers, Types DEF Phases
<1>4. InStep'
  <2> SUFFICES ASSUME NEW q \in Ranks, NEW p \in Ranks,
                      pc[q] \in {"entering", "leaving"}, p < peer'[q]
               PROVE  mine[q] <= mine[p]
    BY DEF InStep
  <2>1. CASE q = r
    <3>1. p \in Nat /\ peer[r] \in Nat /\ p < peer[r] + 1
      BY <2>1, Numbers, Types
    <3>2. CASE p = peer[r]
      BY <1>1, <2>1, <3>2
    <3>3. CASE p < peer[r]
      BY <2>1, <3>3 DEF InStep
    <3> QED
      BY <3>1, <3>2, <3>3
  <2>2. CASE q # r
    BY <2>2, Types DEF InStep
  <2> QED
    BY <2>1, <2>2
<1>5. Staged' /\ Summed'
  BY Numbers, Types DEF Staged, Summed
<1> QED
  BY <1>2, <1>3, <1>4, <1>5

LEMMA GiveUpInvariant ==
  ASSUME ShmemIInv, NEW r \in Ranks, AtPeer(r), NEW next \in {"out", "dying"},
         GiveUp(r, next)
  PROVE  ShmemIInv'
<1> USE DEF ShmemIInv, GiveUp, FirstFailure, AtPeer
<1>1. failed[r] = 0 /\ mine[r] <= 2 * call[r] /\ done[r] + 1 = call[r]
  BY Numbers, Types DEF Phases
<1>2. ShmemTypeOK'
  BY <1>1, Numbers DEF ShmemTypeOK, Places
<1>3. Phases'
  BY <1>1, Numbers, Types DEF Phases
<1>4. InStep'
  BY Numbers, Types DEF InStep
<1>5. Staged'
  BY Types DEF Staged
<1>6. Summed'
  BY <1>1, Numbers, Types DEF Summed
<1> QED
  BY <1>2, <1>3, <1>4, <1>5, <1>6

LEMMA AbortInvariant ==
  ASSUME ShmemIInv, NEW r \in Ranks, RequestAbort(r) \/ InAbort(r)
  PROVE  ShmemIInv'
<1> USE DEF ShmemIInv, arenaVars, callVars, historyVars
<1>1. CASE RequestAbort(r)
  <2> USE <1>1 DEF RequestAbort
  <2>1. ShmemTypeOK'
    BY DEF ShmemTypeOK
  <2>2. Phases'
    BY Types DEF Phases
  <2> QED
    BY <2>1, <2>2 DEF InStep, Staged, Summed
<1>2. CASE MarkAborted(r)
  <2> USE <1>2 DEF MarkAborted
  <2>1. ShmemTypeOK'
    BY Numbers DEF ShmemTypeOK
  <2>2. Phases'
    BY Types DEF Phases
  <2> QED
    BY <2>1, <2>2 DEF InStep, Staged, Summed
<1>3. CASE KillJob(r)
  BY <1>3 DEF KillJob, ShmemTypeOK, Phases, InStep, Staged, Summed
<1> QED
  BY <1>1, <1>2, <1>3 DEF InAbort

LEMMA StepInvariant == ShmemIInv /\ [ShmemNext]_shmemVars => ShmemIInv'
<1> SUFFICES ASSUME ShmemIInv, [ShmemNext]_shmemVars PROVE ShmemIInv'
  OBVIOUS
<1>1. ASSUME NEW r \in Ranks,
             Call(r) \/ RejectCall(r) \/ InAllreduce(r) \/ RequestAbort(r) \/ InAbort(r)
      PROVE  ShmemIInv'
  <2>1. CASE SeePeerAborted(r) \/ SeeAbortRequested(r) \/ TimeOut(r)
    BY <2>1, GiveUpInvariant DEF SeePeerAborted, SeeAbortRequested, TimeOut, StillWaiting
  <2> QED
    BY <1>1, <2>1, CallInvariant, RejectCallInvariant, SignalStagedInvariant,
       StartReducingInvariant, ReduceInvariant, SignalReadInvariant, ReturnInvariant,
       PassPeerInvariant, AbortInvariant
       DEF InAllreduce
<1>2. CASE UNCHANGED shmemVars
  BY <1>2 DEF ShmemIInv, ShmemTypeOK, Phases, InStep, Staged, Summed, shmemVars,
              arenaVars, callVars, historyVars
<1> QED
  BY <1>1, <1>2 DEF ShmemNext

LEMMA InvariantHolds == ShmemSpec => []ShmemIInv
<1> QED
  BY InitInvariant, StepInvariant, PTL DEF ShmemSpec

-----------------------------------------------------------------------------

(* Epochs stay below the abort marker and everything else in its range.    *)
THEOREM ShmemTypeCorrect == ShmemSpec => []ShmemTypeOK
<1>1. ShmemIInv => ShmemTypeOK
  BY DEF ShmemIInv
<1> QED
  BY <1>1, InvariantHolds, PTL

(* Whatever aborts or times out, true means: every rank's data of this     *)
(* very call is in the sum.                                                *)
THEOREM ReturnsWholeSumHolds == ShmemSpec => []ReturnsWholeSum
<1>1. ShmemIInv => ReturnsWholeSum
  <2> SUFFICES ASSUME ShmemIInv, NEW r \in Ranks, pc[r] = "out",
                      done[r] = call[r], done[r] > 0, NEW p \in Ranks
               PROVE  sum[r][p] = done[r]
    BY DEF ReturnsWholeSum
  <2>1. failed[r] = 0
    BY Numbers, Types DEF ShmemIInv, Phases
  <2> QED
    BY <2>1 DEF ShmemIInv, Summed
<1> QED
  BY <1>1, InvariantHolds, PTL

(* The second epoch does what it is for: a buffer is never written while a *)
(* peer still reduces.                                                     *)
THEOREM NoOverwriteWhileReadHolds == ShmemSpec => []NoOverwriteWhileRead
<1>1. ShmemIInv => NoOverwriteWhileRead
  BY NobodyStages DEF NoOverwriteWhileRead
<1> QED
  BY <1>1, InvariantHolds, PTL

(* After a rank's first failed call no rank completes a later one.         *)
THEOREM FailureStopsAllHolds == ShmemSpec => []FailureStopsAll
<1>1. ShmemIInv => FailureStopsAll
  <2> SUFFICES ASSUME ShmemIInv, NEW r \in Ranks, NEW p \in Ranks, failed[p] > 0
               PROVE  done[r] <= failed[p]
    BY DEF FailureStopsAll
  <2>1. 2 * done[r] <= mine[p] /\ mine[p] <= 2 * failed[p]
    BY DEF ShmemIInv, Phases, InStep
  <2> QED
    BY <2>1, Numbers, Types DEF ShmemIInv
<1> QED
  BY <1>1, InvariantHolds, PTL

=============================================================================
