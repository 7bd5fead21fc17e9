------------------------------ MODULE ShmemSpin ------------------------------
(***************************************************************************)
(* The allreduce of the ranks of one node over a shared arena              *)
(* (ShmemSpinBackend): every rank has a buffer and an epoch in the arena,  *)
(* stages its data, raises its epoch, waits for the epochs of its peers    *)
(* one after the other, reduces all buffers, raises its epoch again and    *)
(* waits again before it may stage the next call's data. An abort puts a   *)
(* marker in the place of the epoch; whoever aborts, or gives up after a   *)
(* timeout, ends the MPI job next.                                         *)
(*                                                                         *)
(* Only the fast path: calls that go to the fallback backend touch neither *)
(* buffers nor epochs. What a rank contributes is named by the call.       *)
(***************************************************************************)
EXTENDS Naturals

CONSTANTS
  NumRanks,
  MaxCalls,  \* bound on the calls of a rank
  Aborters,  \* bound: ranks of which another thread may abort
  TimesOut   \* the wait for a peer has a deadline

ASSUME ShmemAssumption ==
  /\ NumRanks \in Nat \ {0} /\ MaxCalls \in Nat
  /\ TimesOut \in BOOLEAN

Ranks == 0..(NumRanks - 1)

(* kAbortEpoch is larger than any epoch. *)
AbortEpoch == 2 * MaxCalls + 1

(* In the middle of a memcpy a buffer holds nothing of use. *)
Torn == MaxCalls + 1

VARIABLES
  epoch, buffer,      \* the arena: what each rank published and staged
  pc, call, peer,     \* each rank's allreduce(), its number, the peer it is at
  mine,               \* my_epoch_
  sum,                \* the contributions in the caller's buffer
  abortRequested,     \* abort_requested_
  aborter,            \* another thread of the rank in abort()
  done, failed,       \* history: last call that returned true, first that did not
  killed              \* MPI_Abort() ended the job

arenaVars   == <<epoch, buffer>>
callVars    == <<pc, call, peer, mine, sum>>
historyVars == <<done, failed>>
shmemVars == <<arenaVars, callVars, abortRequested, aborter, historyVars, killed>>

Places == {"out", "staging", "entering", "reducing", "leaving", "dying"}

ShmemTypeOK ==
  /\ epoch \in [Ranks -> 0..AbortEpoch]
  /\ buffer \in [Ranks -> 0..Torn]
  /\ pc \in [Ranks -> Places]
  /\ call \in [Ranks -> 0..MaxCalls]
  /\ peer \in [Ranks -> 0..NumRanks]
  /\ mine \in [Ranks -> 0..(2 * MaxCalls)]
  /\ sum \in [Ranks -> [Ranks -> 0..Torn]]
  /\ abortRequested \in [Ranks -> BOOLEAN]
  /\ aborter \in [Ranks -> {"none", "flagged", "marked"}]
  /\ done \in [Ranks -> 0..MaxCalls]
  /\ failed \in [Ranks -> 0..MaxCalls]
  /\ killed \in BOOLEAN

(* The arena is zeroed before anyone uses it. *)
ShmemInit ==
  /\ epoch = [r \in Ranks |-> 0]
  /\ buffer = [r \in Ranks |-> 0]
  /\ pc = [r \in Ranks |-> "out"]
  /\ call = [r \in Ranks |-> 0]
  /\ peer = [r \in Ranks |-> 0]
  /\ mine = [r \in Ranks |-> 0]
  /\ sum = [r \in Ranks |-> [p \in Ranks |-> 0]]
  /\ abortRequested = [r \in Ranks |-> FALSE]
  /\ aborter = [r \in Ranks |-> "none"]
  /\ done = [r \in Ranks |-> 0]
  /\ failed = [r \in Ranks |-> 0]
  /\ killed = FALSE

-----------------------------------------------------------------------------
(* allreduce(). *)

(* Mutant: a call does not look at the abort flag. *)
CallUnchecked(r) ==
  /\ pc[r] = "out" /\ call[r] < MaxCalls
  /\ pc' = [pc EXCEPT ![r] = "staging"]
  /\ call' = [call EXCEPT ![r] = @ + 1]
  /\ buffer' = [buffer EXCEPT ![r] = Torn]
  /\ UNCHANGED <<epoch, peer, mine, sum, abortRequested, aborter, historyVars, killed>>

(* The copy to the arena begins ... *)
Call(r) ==
  /\ pc[r] = "out" /\ call[r] < MaxCalls /\ ~abortRequested[r]
  /\ pc' = [pc EXCEPT ![r] = "staging"]
  /\ call' = [call EXCEPT ![r] = @ + 1]
  /\ buffer' = [buffer EXCEPT ![r] = Torn]
  /\ UNCHANGED <<epoch, peer, mine, sum, abortRequested, aborter, historyVars, killed>>

FirstFailure(r, number) ==
  failed' = IF failed[r] = 0 THEN [failed EXCEPT ![r] = number] ELSE failed

RejectCall(r) ==
  /\ pc[r] = "out" /\ call[r] < MaxCalls /\ abortRequested[r]
  /\ call' = [call EXCEPT ![r] = @ + 1]
  /\ FirstFailure(r, call[r] + 1)
  /\ UNCHANGED <<arenaVars, pc, peer, mine, sum, abortRequested, aborter, done, killed>>

(* my_epoch_ is raised and published, over an abort marker if there is one. *)
RaiseEpoch(r) ==
  /\ mine' = [mine EXCEPT ![r] = @ + 1]
  /\ epoch' = [epoch EXCEPT ![r] = mine[r] + 1]

(* ... and ends. *)
SignalStaged(r) ==
  /\ pc[r] = "staging"
  /\ buffer' = [buffer EXCEPT ![r] = call[r]]
  /\ RaiseEpoch(r)
  /\ pc' = [pc EXCEPT ![r] = "entering"]
  /\ peer' = [peer EXCEPT ![r] = 0]
  /\ UNCHANGED <<call, sum, abortRequested, aborter, historyVars, killed>>

StartReducing(r) ==
  /\ pc[r] = "entering" /\ peer[r] = NumRanks
  /\ pc' = [pc EXCEPT ![r] = "reducing"]
  /\ peer' = [peer EXCEPT ![r] = 0]
  /\ UNCHANGED <<arenaVars, call, mine, sum, abortRequested, aborter, historyVars, killed>>

(* The buffers are read one after the other, the rank's own among them.    *)
Reduce(r) ==
  /\ pc[r] = "reducing" /\ peer[r] < NumRanks
  /\ sum' = [sum EXCEPT ![r][peer[r]] = buffer[peer[r]]]
  /\ peer' = [peer EXCEPT ![r] = @ + 1]
  /\ UNCHANGED <<arenaVars, pc, call, mine, abortRequested, aborter, historyVars, killed>>

(* Mutant: a rank is ready for its next call when it has read. *)
SignalReadAndReturn(r) ==
  /\ pc[r] = "reducing" /\ peer[r] = NumRanks
  /\ RaiseEpoch(r)
  /\ pc' = [pc EXCEPT ![r] = "out"]
  /\ done' = [done EXCEPT ![r] = call[r]]
  /\ UNCHANGED <<buffer, peer, call, sum, abortRequested, aborter, failed, killed>>

SignalRead(r) ==
  /\ pc[r] = "reducing" /\ peer[r] = NumRanks
  /\ RaiseEpoch(r)
  /\ pc' = [pc EXCEPT ![r] = "leaving"]
  /\ peer' = [peer EXCEPT ![r] = 0]
  /\ UNCHANGED <<buffer, call, sum, abortRequested, aborter, historyVars, killed>>

Return(r) ==
  /\ pc[r] = "leaving" /\ peer[r] = NumRanks
  /\ pc' = [pc EXCEPT ![r] = "out"]
  /\ done' = [done EXCEPT ![r] = call[r]]
  /\ UNCHANGED <<arenaVars, call, peer, mine, sum, abortRequested, aborter, failed, killed>>

-----------------------------------------------------------------------------
(* waitForPeerEpoch(): what a look at the peer's epoch leads to.           *)

AtPeer(r) == pc[r] \in {"entering", "leaving"} /\ peer[r] < NumRanks

(* Mutant: the marker counts as an epoch, which it exceeds. *)
HasArrivedOrAborted(r, p) == epoch[p] >= mine[r]

HasArrived(r, p) == epoch[p] # AbortEpoch /\ epoch[p] >= mine[r]

PassPeer(r) ==
  /\ AtPeer(r)
  /\ peer[r] = r \/ HasArrived(r, peer[r])
  /\ peer' = [peer EXCEPT ![r] = @ + 1]
  /\ UNCHANGED <<arenaVars, pc, call, mine, sum, abortRequested, aborter, historyVars, killed>>

(* abort() of the waiting thread itself; the call returns false.           *)
GiveUp(r, next) ==
  /\ abortRequested' = [abortRequested EXCEPT ![r] = TRUE]
  /\ epoch' = [epoch EXCEPT ![r] = AbortEpoch]
  /\ pc' = [pc EXCEPT ![r] = next]
  /\ FirstFailure(r, call[r])
  /\ UNCHANGED <<buffer, call, peer, mine, sum, aborter, done, killed>>

StillWaiting(r) == AtPeer(r) /\ peer[r] # r /\ epoch[peer[r]] < mine[r]

SeePeerAborted(r) ==
  /\ AtPeer(r) /\ peer[r] # r /\ epoch[peer[r]] = AbortEpoch
  /\ GiveUp(r, "out")

SeeAbortRequested(r) ==
  /\ StillWaiting(r) /\ abortRequested[r]
  /\ GiveUp(r, "out")

(* Mutant: only the second wait has a deadline. *)
TimeOutLeaving(r) ==
  /\ StillWaiting(r) /\ ~abortRequested[r] /\ TimesOut
  /\ pc[r] = "leaving"
  /\ GiveUp(r, "dying")

(* The deadline: abort(), and then MPI_Abort(). *)
TimeOut(r) ==
  /\ StillWaiting(r) /\ ~abortRequested[r] /\ TimesOut
  /\ GiveUp(r, "dying")

-----------------------------------------------------------------------------
(* GlobalTPContext::requestAbort(), at any time: abort() of the backend by *)
(* another thread, in its two stores, and MPI_Abort().                     *)

RequestAbort(r) ==
  /\ r \in Aborters /\ aborter[r] = "none"
  /\ aborter' = [aborter EXCEPT ![r] = "flagged"]
  /\ abortRequested' = [abortRequested EXCEPT ![r] = TRUE]
  /\ UNCHANGED <<arenaVars, callVars, historyVars, killed>>

MarkAborted(r) ==
  /\ aborter[r] = "flagged"
  /\ aborter' = [aborter EXCEPT ![r] = "marked"]
  /\ epoch' = [epoch EXCEPT ![r] = AbortEpoch]
  /\ UNCHANGED <<buffer, callVars, abortRequested, historyVars, killed>>

KillJob(r) ==
  /\ aborter[r] = "marked" \/ pc[r] = "dying"
  /\ killed' = TRUE
  /\ UNCHANGED <<arenaVars, callVars, abortRequested, aborter, historyVars>>

-----------------------------------------------------------------------------

InAllreduce(r) ==
  \/ SignalStaged(r) \/ StartReducing(r) \/ Reduce(r) \/ SignalRead(r) \/ Return(r)
  \/ PassPeer(r) \/ SeePeerAborted(r) \/ SeeAbortRequested(r) \/ TimeOut(r)

InAbort(r) == MarkAborted(r) \/ KillJob(r)

ShmemNext ==
  /\ ~killed
  /\ \E r \in Ranks : \/ Call(r) \/ RejectCall(r) \/ InAllreduce(r)
                      \/ RequestAbort(r) \/ InAbort(r)

ShmemSpec == ShmemInit /\ [][ShmemNext]_shmemVars

(* A rank spins until its deadline; it need not call at all.               *)
FairShmemSpec ==
  /\ ShmemSpec
  /\ \A r \in Ranks : WF_shmemVars(~killed /\ (InAllreduce(r) \/ InAbort(r)))

-----------------------------------------------------------------------------
(* Properties. *)

(* An allreduce that returned true summed exactly what every rank staged   *)
(* for this same call: nothing half-copied, of the call before or after.   *)
ReturnsWholeSum ==
  \A r \in Ranks :
    pc[r] = "out" /\ done[r] = call[r] /\ done[r] > 0
      => \A p \in Ranks : sum[r][p] = done[r]

(* No rank writes its buffer while a peer reduces: the second epoch.       *)
NoOverwriteWhileRead ==
  \A r, p \in Ranks : pc[r] = "staging" => pc[p] # "reducing"

(* Ranks are not desynchronized by a failure: once a rank has failed a     *)
(* call, no rank succeeds with a later one, even if the abort marker was   *)
(* overwritten by the epoch of the call it was to abort.                   *)
FailureStopsAll ==
  \A r, p \in Ranks : failed[p] > 0 => done[r] <= failed[p]

(* No rank spins for ever for a peer that does not come.                   *)
CallsEnd == \A r \in Ranks : pc[r] # "out" ~> pc[r] = "out" \/ killed

=============================================================================
