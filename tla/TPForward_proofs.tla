-------------------------- MODULE TPForward_proofs --------------------------
(***************************************************************************)
(* Proofs about TPWorkerPool, and about the forward pass with abort that   *)
(* is composed of it, for any number of devices, stages and steps, without *)
(* a collect timeout; the barrier's waits may time out and its copies may  *)
(* fail.                                                                   *)
(*                                                                         *)
(* The pool alone: its argument is about the workers that have counted     *)
(* themselves. They are as many as completed_count_ says, so a collector   *)
(* that passes its test has all of them, with all results of this step in  *)
(* results_.                                                               *)
(*                                                                         *)
(* Every step of TPForward is a step of the pool or leaves its state       *)
(* alone, so that what is shown of the pool holds in the composition as    *)
(* well. The abort flag and the barrier need two facts of their own: an    *)
(* abort that was requested has either a failed worker in this very step,  *)
(* or has stopped everyone before their first stage; and who is in the     *)
(* barrier is inside a stage, and so at work.                              *)
(*                                                                         *)
(* What a success says of the tensors needs the barrier only as long as    *)
(* nothing has failed: the threads are in lockstep until then, and no pass *)
(* succeeds afterwards.                                                    *)
(***************************************************************************)
EXTENDS Sequences, TPForward, FiniteSetTheorems, TLAPS

-----------------------------------------------------------------------------
(* The pool alone. *)

(* Workers that have taken part in the current step and left it. *)
Counted ==
  {w \in Workers : worker[w].seen = generation
                   /\ worker[w].pc \in {"wait", "notify", "gone"}}

Collecting == {"test", "blocking", "blocked"}
Over == {"idle", "join", "end"}

(* Nobody is ahead of the step, and who is behind is out of workerLoop's   *)
(* body.                                                                   *)
Follow ==
  \A w \in Workers :
    /\ worker[w].seen <= generation
    /\ worker[w].seen < generation \/ generation = 0 =>
         worker[w].pc \in {"wait", "notify", "gone"}

(* A result stays in results_ until the next step. *)
Stored ==
  \A w \in Workers :
    generation > 0 /\ worker[w].seen = generation
      /\ worker[w].pc \in {"count", "wait", "notify", "gone"}
    => results[w] = ResultOf(w)

CountIsRight == generation > 0 => completed = Cardinality(Counted)

Complete ==
  generation > 0 /\ caller.pc \in Over \cup {"copy"} => Counted = Workers

Phases ==
  /\ caller.pc \in Collecting \cup Over \cup {"copy"}
  /\ generation = 0 => caller.pc \in Over
  /\ shutdown => caller.pc \in {"join", "end"}
  /\ \A w \in Workers : worker[w].pc = "gone" => shutdown

Returned ==
  generation > 0 /\ caller.pc \in Over => caller.got = results

(* The first failure of a step aborts, or is about to. *)
FirstFails ==
  generation > 0 =>
    /\ \A w \in Workers :
         worker[w].seen = generation /\ ~worker[w].ok
           /\ worker[w].pc \notin {"work", "failed"}
         => firstFailure # None
    /\ firstFailure # None =>
         \/ generation \in aborts
         \/ worker[firstFailure].pc = "abort"

PoolIInv ==
  /\ PoolTypeOK /\ Follow /\ Stored /\ CountIsRight /\ Complete /\ Phases
  /\ Returned /\ FirstFails

LEMMA SizeIsNat == Size \in Nat /\ Size > 0
BY PoolAssumption, FS_CardinalityType, FS_EmptySet DEF Size

(* As long as nobody counts itself or changes step the count stays right.  *)
LEMMA CountedSubset ==
  /\ Counted \subseteq Workers /\ IsFiniteSet(Counted)
  /\ Cardinality(Counted) \in 0..Size
  /\ Cardinality(Counted) = Size => Counted = Workers
<1>1. Counted \subseteq Workers
  BY DEF Counted
<1> QED
  BY <1>1, PoolAssumption, FS_Subset, FS_CardinalityType DEF Size

LEMMA BusyIsCurrent ==
  ASSUME PoolTypeOK, Follow, NEW w \in Workers,
         worker[w].pc \in {"work", "failed", "abort", "store", "count"}
  PROVE  worker[w].seen = generation /\ generation > 0
<1>1. /\ worker[w].seen \in Nat /\ generation \in Nat /\ worker[w].seen <= generation
      /\ ~(worker[w].seen < generation) /\ generation # 0
  BY PoolAssumption DEF PoolTypeOK, Follow
<1> QED
  BY <1>1

LEMMA ResultFields ==
  ASSUME NEW w \in Workers
  PROVE  /\ ResultOf(w).step = worker[w].seen
         /\ ResultOf(w).done = TRUE
         /\ ResultOf(w).ok = worker[w].ok
BY DEF ResultOf

LEMMA InitPool == PoolInit => PoolIInv
<1> SUFFICES ASSUME PoolInit PROVE PoolIInv
  OBVIOUS
<1>1. /\ Blank \in [step : 0..MaxSteps, done : BOOLEAN, ok : BOOLEAN]
      /\ 0 \in 0..MaxSteps /\ 0 \in 0..Size
  BY SizeIsNat, PoolAssumption DEF Blank
<1>2. PoolTypeOK
  BY <1>1 DEF PoolInit, PoolTypeOK
<1> QED
  BY <1>2 DEF PoolInit, PoolIInv, Follow, Stored, CountIsRight, Complete, Phases, Returned,
          FirstFails, Collecting, Over, Blank

LEMMA TakeWorkPool ==
  ASSUME PoolIInv, NEW w \in Workers, TakeWork(w) PROVE PoolIInv'
<1> USE PoolAssumption DEF PoolIInv, TakeWork
<1>1. PoolTypeOK'
  BY DEF PoolTypeOK
<1>2. /\ generation > 0 /\ worker'[w].seen = generation /\ worker'[w].pc = "work"
      /\ \A v \in Workers \ {w} : worker'[v] = worker[v]
  BY DEF PoolTypeOK, At
<1>8. Follow'
  BY <1>2 DEF Follow, PoolTypeOK
<1>3. Stored'
  BY DEF Stored, PoolTypeOK, ResultOf
<1>4. Counted' = Counted
  BY DEF Counted, PoolTypeOK
<1>5. CountIsRight' /\ Complete' /\ Returned'
  BY <1>4 DEF CountIsRight, Complete, Returned
<1>6. Phases'
  BY DEF Phases, PoolTypeOK
<1>7. FirstFails'
  BY DEF FirstFails, PoolTypeOK, At
<1> QED
  BY <1>1, <1>3, <1>5, <1>6, <1>7, <1>8

LEMMA ExitPool ==
  ASSUME PoolIInv, NEW w \in Workers, Exit(w) PROVE PoolIInv'
<1> USE PoolAssumption DEF PoolIInv, Exit, Goto, At
<1>1. PoolTypeOK'
  BY DEF PoolTypeOK
<1>2. Follow' /\ Stored'
  BY DEF Follow, Stored, PoolTypeOK, ResultOf
<1>4. Counted' = Counted
  BY DEF Counted, PoolTypeOK
<1>5. CountIsRight' /\ Complete' /\ Returned'
  BY <1>4 DEF CountIsRight, Complete, Returned
<1>6. Phases'
  BY DEF Phases, PoolTypeOK
<1>7. FirstFails'
  BY DEF FirstFails, PoolTypeOK
<1> QED
  BY <1>1, <1>2, <1>5, <1>6, <1>7

LEMMA FinishType ==
  ASSUME PoolTypeOK, NEW w \in Workers, NEW pc \in {"store", "failed"}, NEW ok \in BOOLEAN,
         worker' = [worker EXCEPT ![w].pc = pc, ![w].ok = ok],
         UNCHANGED <<generation, shutdown, results, completed, firstFailure, aborts, caller>>
  PROVE  /\ PoolTypeOK'
         /\ worker'[w].seen = worker[w].seen
         /\ worker'[w].pc = pc /\ worker'[w].ok = ok
         /\ \A v \in Workers \ {w} : worker'[v] = worker[v]
BY DEF PoolTypeOK

LEMMA FinishPool ==
  ASSUME PoolIInv, NEW w \in Workers, NEW ok \in BOOLEAN, Finish(w, ok) PROVE PoolIInv'
<1>1. /\ worker[w].pc = "work"
      /\ UNCHANGED <<generation, shutdown, results, completed, firstFailure, aborts, caller>>
  BY DEF Finish, At
<1>2. /\ PoolTypeOK' /\ worker'[w].seen = worker[w].seen
      /\ \A v \in Workers \ {w} : worker'[v] = worker[v]
      /\ worker'[w].pc \in {"store", "failed"}
      /\ worker'[w].pc = "store" => worker'[w].ok
  <2>1. CASE ok = TRUE
    <3>1. worker' = [worker EXCEPT ![w].pc = "store", ![w].ok = TRUE]
      BY <2>1, Zenon DEF Finish
    <3> QED
      BY <1>1, <3>1, FinishType DEF PoolIInv
  <2>2. CASE ok = FALSE
    <3>1. worker' = [worker EXCEPT ![w].pc = "failed", ![w].ok = FALSE]
      BY <2>2, Zenon DEF Finish
    <3> QED
      BY <1>1, <3>1, FinishType DEF PoolIInv
  <2> QED
    BY <2>1, <2>2
<1>3. Follow' /\ Phases' /\ Stored'
  BY <1>1, <1>2 DEF PoolIInv, Follow, Phases, Stored, ResultOf
<1>4. Counted' = Counted
  BY <1>1, <1>2 DEF Counted
<1>5. CountIsRight' /\ Complete' /\ Returned'
  BY <1>1, <1>4 DEF PoolIInv, CountIsRight, Complete, Returned
<1>6. FirstFails'
  BY <1>1, <1>2 DEF PoolIInv, FirstFails, PoolTypeOK
<1> QED
  BY <1>2, <1>3, <1>5, <1>6 DEF PoolIInv

LEMMA RecordFailurePool ==
  ASSUME PoolIInv, NEW w \in Workers, RecordFailure(w) PROVE PoolIInv'
<1>1. PICK pc \in {"abort", "store"} :
        /\ worker' = [worker EXCEPT ![w].pc = pc]
        /\ pc = "abort" => firstFailure = None /\ firstFailure' = w
        /\ pc = "store" => firstFailure # None /\ firstFailure' = firstFailure
  BY Zenon DEF RecordFailure, Goto
<1>2. /\ worker[w].pc = "failed"
      /\ UNCHANGED <<generation, shutdown, results, completed, aborts, caller>>
  BY DEF RecordFailure, At
<1>3. /\ worker'[w].seen = worker[w].seen /\ worker'[w].ok = worker[w].ok
      /\ worker'[w].pc = pc
      /\ \A v \in Workers \ {w} : worker'[v] = worker[v]
      /\ worker' \in [Workers ->
           [pc : {"wait", "work", "failed", "abort", "store", "count", "notify", "gone"},
            seen : 0..MaxSteps, ok : BOOLEAN]]
  BY <1>1 DEF PoolIInv, PoolTypeOK
<1>4. PoolTypeOK'
  BY <1>1, <1>2, <1>3 DEF PoolIInv, PoolTypeOK
<1>5. Follow'
  BY <1>2, <1>3 DEF PoolIInv, Follow
<1>6. Stored'
  <2>1. \A v \in Workers : ResultOf(v)' = ResultOf(v)
    BY <1>3 DEF ResultOf
  <2> QED
    BY <1>2, <1>3, <2>1 DEF PoolIInv, Stored
<1>7. Counted' = Counted
  BY <1>2, <1>3 DEF Counted
<1>8. CountIsRight' /\ Complete' /\ Returned'
  BY <1>2, <1>7 DEF PoolIInv, CountIsRight, Complete, Returned
<1>9. Phases'
  BY <1>2, <1>3 DEF PoolIInv, Phases
<1>10. FirstFails'
  <2>1. firstFailure' # None
    BY <1>1, PoolAssumption
  <2>2. CASE pc = "abort"
    BY <1>1, <1>3, <2>1, <2>2 DEF FirstFails
  <2>3. CASE pc = "store"
    BY <1>1, <1>2, <1>3, <2>1, <2>3 DEF PoolIInv, PoolTypeOK, FirstFails
  <2> QED
    BY <2>2, <2>3
<1> QED
  BY <1>4, <1>5, <1>6, <1>8, <1>9, <1>10 DEF PoolIInv

LEMMA InvokeFailureCallbackPool ==
  ASSUME PoolIInv, NEW w \in Workers, InvokeFailureCallback(w) PROVE PoolIInv'
<1> USE PoolAssumption DEF PoolIInv, InvokeFailureCallback, Goto, At
<1>1. worker[w].seen = generation /\ generation > 0
  BY BusyIsCurrent
<1>2. PoolTypeOK'
  BY <1>1 DEF PoolTypeOK
<1>3. Follow' /\ Stored'
  BY DEF Follow, Stored, PoolTypeOK, ResultOf
<1>4. Counted' = Counted
  BY DEF Counted, PoolTypeOK
<1>5. CountIsRight' /\ Complete' /\ Returned'
  BY <1>4 DEF CountIsRight, Complete, Returned
<1>6. Phases'
  BY DEF Phases, PoolTypeOK
<1>7. FirstFails'
  BY <1>1 DEF FirstFails, PoolTypeOK
<1> QED
  BY <1>2, <1>3, <1>5, <1>6, <1>7

LEMMA StoreResultPool ==
  ASSUME PoolIInv, NEW w \in Workers, StoreResult(w) PROVE PoolIInv'
<1> USE PoolAssumption DEF PoolIInv, StoreResult, Goto, At
<1>1. worker[w].seen = generation /\ generation > 0
  BY BusyIsCurrent
<1>2. ResultOf(w) \in [step : 0..MaxSteps, done : BOOLEAN, ok : BOOLEAN]
  BY DEF ResultOf, PoolTypeOK
<1>3. PoolTypeOK'
  BY <1>2 DEF PoolTypeOK
<1>4. /\ worker'[w].seen = worker[w].seen /\ worker'[w].ok = worker[w].ok
      /\ worker'[w].pc = "count" /\ results'[w] = ResultOf(w)
      /\ \A v \in Workers \ {w} : worker'[v] = worker[v] /\ results'[v] = results[v]
  BY DEF PoolTypeOK
<1>5. Follow' /\ Phases'
  BY <1>1, <1>4 DEF Follow, Phases, PoolTypeOK
<1>9. Stored'
  <2>1. \A v \in Workers : ResultOf(v)' = ResultOf(v)
    BY <1>4 DEF ResultOf
  <2> QED
    BY <1>1, <1>4, <2>1 DEF Stored
<1>6. Counted' = Counted /\ w \notin Counted
  BY <1>4 DEF Counted
<1>7. CountIsRight' /\ Complete' /\ Returned'
  BY <1>1, <1>6 DEF CountIsRight, Complete, Returned
<1>8. FirstFails'
  BY <1>1, <1>4 DEF FirstFails, PoolTypeOK
<1> QED
  BY <1>3, <1>5, <1>7, <1>8, <1>9

LEMMA CountCompletedPool ==
  ASSUME PoolIInv, NEW w \in Workers, CountCompleted(w) PROVE PoolIInv'
<1> USE PoolAssumption DEF PoolIInv, CountCompleted, Goto, At
<1>1. worker[w].seen = generation /\ generation > 0
  BY BusyIsCurrent
<1>2. /\ worker'[w].seen = worker[w].seen /\ worker'[w].ok = worker[w].ok
      /\ worker'[w].pc \in {"wait", "notify"}
      /\ \A v \in Workers \ {w} : worker'[v] = worker[v]
      /\ worker' \in [Workers ->
           [pc : {"wait", "work", "failed", "abort", "store", "count", "notify", "gone"},
            seen : 0..MaxSteps, ok : BOOLEAN]]
  BY DEF PoolTypeOK
<1>3. Counted' = Counted \cup {w} /\ w \notin Counted
  BY <1>1, <1>2 DEF Counted
<1>4. completed' = Cardinality(Counted') /\ completed' \in 0..Size
  <2>1. Cardinality(Counted \cup {w}) = Cardinality(Counted) + 1
    BY <1>3, CountedSubset, FS_AddElement
  <2>2. Cardinality(Counted) # Size
    BY <1>3, CountedSubset
  <2> QED
    BY <1>1, <1>3, <2>1, <2>2, CountedSubset, SizeIsNat DEF CountIsRight
<1>5. PoolTypeOK'
  BY <1>2, <1>4 DEF PoolTypeOK
<1>6. Follow' /\ Stored' /\ Phases'
  BY <1>1, <1>2 DEF Follow, Stored, Phases, ResultOf, PoolTypeOK
<1>7. CountIsRight' /\ Complete' /\ Returned'
  BY <1>1, <1>3, <1>4 DEF CountIsRight, Complete, Returned
<1>8. FirstFails'
  BY <1>1, <1>2 DEF FirstFails, PoolTypeOK
<1> QED
  BY <1>5, <1>6, <1>7, <1>8

LEMMA NotifyCollectorPool ==
  ASSUME PoolIInv, NEW w \in Workers, NotifyCollector(w) PROVE PoolIInv'
<1> USE PoolAssumption DEF PoolIInv, NotifyCollector, Goto, At
<1>1. /\ worker'[w].seen = worker[w].seen /\ worker'[w].ok = worker[w].ok
      /\ worker'[w].pc = "wait"
      /\ \A v \in Workers \ {w} : worker'[v] = worker[v]
      /\ worker' \in [Workers ->
           [pc : {"wait", "work", "failed", "abort", "store", "count", "notify", "gone"},
            seen : 0..MaxSteps, ok : BOOLEAN]]
  BY DEF PoolTypeOK
<1>2. /\ caller'.got = caller.got
      /\ \/ caller'.pc = caller.pc
         \/ caller.pc = "blocked" /\ caller'.pc = "test"
  BY DEF PoolTypeOK
<1>3. PoolTypeOK'
  <2>1. caller' \in
       [pc : {"idle", "test", "blocking", "blocked", "copy", "aborted", "join", "end"},
        got : [Workers -> [step : 0..MaxSteps, done : BOOLEAN, ok : BOOLEAN]],
        expired : BOOLEAN]
    BY DEF PoolTypeOK
  <2> QED
    BY <1>1, <2>1 DEF PoolTypeOK
<1>4. Follow' /\ Stored'
  BY <1>1 DEF Follow, Stored, ResultOf, PoolTypeOK
<1>5. Phases'
  BY <1>1, <1>2 DEF Phases, Collecting, Over
<1>6. Counted' = Counted
  BY <1>1 DEF Counted
<1>7. CountIsRight' /\ Complete' /\ Returned'
  BY <1>2, <1>6 DEF CountIsRight, Complete, Returned, Over
<1>8. FirstFails'
  BY <1>1 DEF FirstFails, PoolTypeOK
<1> QED
  BY <1>3, <1>4, <1>5, <1>7, <1>8

LEMMA DispatchPool ==
  ASSUME PoolIInv, Dispatch PROVE PoolIInv'
<1> USE PoolAssumption DEF PoolIInv, Dispatch
<1>1. generation' = generation + 1 /\ generation' \in 1..MaxSteps /\ generation \in Nat
  BY DEF PoolTypeOK
<1>2. /\ Blank \in [step : 0..MaxSteps, done : BOOLEAN, ok : BOOLEAN]
      /\ 0 \in 0..Size
  BY SizeIsNat DEF Blank
<1>4. /\ caller.pc = "idle" /\ caller'.pc = "test"
      /\ caller' \in
           [pc : {"idle", "test", "blocking", "blocked", "copy", "aborted", "join", "end"},
            got : [Workers -> [step : 0..MaxSteps, done : BOOLEAN, ok : BOOLEAN]],
            expired : BOOLEAN]
  BY DEF PoolTypeOK
<1>3. PoolTypeOK'
  BY <1>1, <1>2, <1>4 DEF PoolTypeOK
<1>5. \A w \in Workers : worker[w].seen \in Nat /\ worker[w].seen <= generation
  BY DEF Follow, PoolTypeOK
<1>6. \A w \in Workers : worker[w].pc \in {"wait", "notify", "gone"}
  <2>1. CASE generation = 0
    BY <2>1 DEF Follow
  <2>2. CASE generation > 0
    BY <1>4, <2>2 DEF Complete, Over, Counted
  <2> QED
    BY <1>1, <2>1, <2>2
<1>7. Follow' /\ Stored' /\ FirstFails'
  BY <1>1, <1>5, <1>6 DEF Follow, Stored, FirstFails
<1>8. Phases'
  BY <1>1, <1>4 DEF Phases, Collecting, Over
<1>9. Counted' = {}
  BY <1>1, <1>5 DEF Counted
<1>10. CountIsRight' /\ Complete' /\ Returned'
  BY <1>4, <1>9, FS_EmptySet DEF CountIsRight, Complete, Returned, Over
<1> QED
  BY <1>3, <1>7, <1>8, <1>10

(* The steps of the caller that only move it on. *)
LEMMA MovePool ==
  ASSUME PoolIInv, NEW pc \in Collecting \cup Over \cup {"copy"}, Continue(pc),
         UNCHANGED <<generation, results, completed, firstFailure, aborts, worker>>,
         shutdown' \in BOOLEAN,
         shutdown => shutdown',
         shutdown' => pc \in {"join", "end"},
         caller.pc \in Over <=> pc \in Over,
         generation > 0 /\ pc = "copy" => Counted = Workers
  PROVE  PoolIInv'
<1> USE PoolAssumption DEF PoolIInv, Continue
<1>1. PoolTypeOK' /\ caller'.pc = pc /\ caller'.got = caller.got
  BY DEF PoolTypeOK, Collecting, Over
<1>2. Follow' /\ Stored' /\ FirstFails'
  BY DEF Follow, Stored, FirstFails, ResultOf
<1>3. Counted' = Counted
  BY DEF Counted
<1>4. CountIsRight' /\ Complete' /\ Returned' 
  BY <1>1, <1>3 DEF CountIsRight, Complete, Returned
<1>5. Phases'
  BY <1>1 DEF Phases
<1> QED
  BY <1>1, <1>2, <1>4, <1>5

LEMMA TestCompletedPool ==
  ASSUME PoolIInv, TestCompleted PROVE PoolIInv'
<1>1. /\ caller.pc \notin Over /\ generation > 0 /\ ~shutdown
      /\ UNCHANGED <<generation, shutdown, results, completed, firstFailure, aborts, worker>>
  BY PoolAssumption DEF TestCompleted, PoolIInv, Phases, Over, PoolTypeOK
<1>2. shutdown \in BOOLEAN
  BY DEF PoolIInv, PoolTypeOK
<1>3. CASE completed >= Size
  <2>1. Continue("copy")
    BY <1>3 DEF TestCompleted
  <2>2. Counted = Workers
    BY <1>1, <1>3, CountedSubset, SizeIsNat DEF PoolIInv, CountIsRight
  <2> QED
    BY <1>1, <1>2, <2>1, <2>2, MovePool DEF Over
<1>4. CASE ~(completed >= Size)
  <2>1. Continue("blocking")
    BY <1>4 DEF TestCompleted
  <2> QED
    BY <1>1, <1>2, <2>1, MovePool DEF Over, Collecting
<1> QED
  BY <1>3, <1>4

LEMMA WaitingPool ==
  ASSUME PoolIInv, Block \/ SpuriousWakeup PROVE PoolIInv'
<1>1. /\ caller.pc \notin Over /\ ~shutdown /\ shutdown \in BOOLEAN
      /\ UNCHANGED <<generation, shutdown, results, completed, firstFailure, aborts, worker>>
      /\ Continue("blocked") \/ Continue("test")
  BY DEF Block, SpuriousWakeup, PoolIInv, Phases, Over, PoolTypeOK
<1> QED
  BY <1>1, MovePool DEF Over, Collecting

LEMMA LeavingPool ==
  ASSUME PoolIInv, Destroy \/ Join PROVE PoolIInv'
<1>1. /\ caller.pc \in Over /\ shutdown' \in BOOLEAN /\ (shutdown => shutdown')
      /\ UNCHANGED <<generation, results, completed, firstFailure, aborts, worker>>
      /\ Continue("join") \/ Continue("end")
  BY DEF Destroy, Join, PoolIInv, Over, PoolTypeOK
<1>2. CASE Continue("join")
  BY <1>1, <1>2, MovePool DEF Over
<1>3. CASE Continue("end")
  BY <1>1, <1>3, MovePool DEF Over
<1> QED
  BY <1>1, <1>2, <1>3

(* Without a timeout the copy reads the results of workers that counted    *)
(* themselves, and these are complete.                                     *)
LEMMA CopyIsComplete ==
  ASSUME PoolIInv, CollectTimeout = FALSE, CopyResults
  PROVE  /\ caller.pc = "copy" /\ generation > 0 /\ ~shutdown /\ Counted = Workers
         /\ caller' = [caller EXCEPT !.got = results, !.pc = "idle"]
         /\ UNCHANGED <<generation, shutdown, results, completed, firstFailure, aborts, worker>>
<1>1. caller.pc = "copy" /\ generation > 0 /\ ~shutdown
  BY PoolAssumption DEF CopyResults, PoolIInv, Phases, Over, PoolTypeOK
<1>2. Counted = Workers
  BY <1>1 DEF PoolIInv, Complete
<1>3. \A w \in Workers : MayRead(w) = {results[w]} /\ results[w].done = TRUE
  <2> SUFFICES ASSUME NEW w \in Workers
               PROVE  MayRead(w) = {results[w]} /\ results[w].done = TRUE
    OBVIOUS
  <2>1. worker[w].seen = generation /\ worker[w].pc \in {"wait", "notify", "gone"}
    BY <1>2 DEF Counted
  <2>2. results[w] = ResultOf(w)
    BY <1>1, <2>1 DEF PoolIInv, Stored
  <2>3. worker[w].pc # "store"
    BY <2>1
  <2> QED
    BY <2>2, <2>3, ResultFields DEF MayRead
<1>4. PICK got \in [Workers -> UNION {MayRead(w) : w \in Workers}] :
       /\ \A w \in Workers : got[w] \in MayRead(w)
       /\ LET partial == \E w \in Workers : ~got[w].done
          IN /\ caller' = [caller EXCEPT
                  !.got = got,
                  !.pc = IF partial /\ CollectTimeout THEN "aborted" ELSE "idle"]
             /\ aborts' = IF partial THEN aborts \cup {generation} ELSE aborts
  BY DEF CopyResults
<1>5. got = results
  BY <1>3, <1>4 DEF PoolIInv, PoolTypeOK
<1>6. ~\E w \in Workers : ~got[w].done
  BY <1>3, <1>5
<1>7. /\ caller' = [caller EXCEPT !.got = results, !.pc = "idle"]
      /\ aborts' = aborts
      /\ UNCHANGED <<generation, shutdown, results, completed, firstFailure, worker>>
  BY <1>4, <1>5, <1>6 DEF CopyResults
<1> QED
  BY <1>1, <1>2, <1>7

LEMMA CopyResultsPool ==
  ASSUME PoolIInv, CollectTimeout = FALSE, CopyResults PROVE PoolIInv'
<1>1. /\ caller.pc = "copy" /\ generation > 0 /\ ~shutdown /\ Counted = Workers
      /\ caller' = [caller EXCEPT !.got = results, !.pc = "idle"]
      /\ UNCHANGED <<generation, shutdown, results, completed, firstFailure, aborts, worker>>
  BY CopyIsComplete
<1>2. PoolTypeOK' /\ caller'.pc = "idle" /\ caller'.got = results
  BY <1>1 DEF PoolIInv, PoolTypeOK
<1>3. Follow' /\ Stored' /\ FirstFails'
  BY <1>1 DEF PoolIInv, Follow, Stored, FirstFails, ResultOf
<1>4. Counted' = Counted
  BY <1>1 DEF Counted
<1>5. CountIsRight' /\ Complete' /\ Returned'
  BY <1>1, <1>2, <1>4 DEF PoolIInv, CountIsRight, Complete, Returned
<1>6. Phases'
  BY <1>1, <1>2 DEF PoolIInv, Phases, Over
<1> QED
  BY <1>2, <1>3, <1>5, <1>6 DEF PoolIInv

LEMMA StutterPool == PoolIInv /\ UNCHANGED poolVars => PoolIInv'
<1> SUFFICES ASSUME PoolIInv, UNCHANGED poolVars PROVE PoolIInv'
  OBVIOUS
<1>1. Counted' = Counted
  BY DEF poolVars, Counted
<1> QED
  BY <1>1 DEF poolVars, PoolIInv, PoolTypeOK, Follow, Stored, ResultOf, CountIsRight,
          Complete, Phases, Returned, FirstFails

LEMMA StepPool ==
  ASSUME PoolIInv, CollectTimeout = FALSE, [PoolNext]_poolVars PROVE PoolIInv'
<1>1. CASE \E w \in Workers : WorkerStep(w) \/ \E ok \in BOOLEAN : Finish(w, ok)
  <2>1. PICK w \in Workers : WorkerStep(w) \/ \E ok \in BOOLEAN : Finish(w, ok)
    BY <1>1
  <2> QED
    BY <2>1, TakeWorkPool, ExitPool, FinishPool, RecordFailurePool, InvokeFailureCallbackPool,
       StoreResultPool, CountCompletedPool, NotifyCollectorPool DEF WorkerStep
<1>2. CASE CallerStep
  BY <1>2, TestCompletedPool, WaitingPool, CopyResultsPool, LeavingPool
     DEF CallerStep, Expire
<1>3. CASE SpuriousWakeup \/ Dispatch \/ Destroy
  BY <1>3, WaitingPool, DispatchPool, LeavingPool
<1> QED
  BY <1>1, <1>2, <1>3, StutterPool DEF PoolNext

LEMMA PoolIInvImplies ==
  PoolIInv => PoolTypeOK /\ CollectsAll /\ SuccessMeansAllSucceeded /\ FailureAborts
<1> SUFFICES ASSUME PoolIInv
             PROVE  PoolTypeOK /\ CollectsAll /\ SuccessMeansAllSucceeded /\ FailureAborts
  OBVIOUS
<1>1. PoolTypeOK
  BY DEF PoolIInv
<1>2. SUFFICES ASSUME Collected
               PROVE  CollectsAll /\ SuccessMeansAllSucceeded /\ FailureAborts
  BY <1>1 DEF CollectsAll, SuccessMeansAllSucceeded, FailureAborts
<1>3. /\ generation > 0 /\ Counted = Workers /\ caller.got = results
  BY <1>2 DEF Collected, PoolIInv, Complete, Returned, Over
<1>4. \A w \in Workers :
        /\ worker[w].seen = generation /\ worker[w].pc \in {"wait", "notify", "gone"}
        /\ results[w] = ResultOf(w)
  BY <1>3 DEF PoolIInv, Counted, Stored
<1>7. \A w \in Workers :
        /\ caller.got[w].step = generation
        /\ caller.got[w].done = TRUE
        /\ caller.got[w].ok = worker[w].ok
  BY <1>3, <1>4, ResultFields
<1>5. CollectsAll /\ SuccessMeansAllSucceeded
  BY <1>4, <1>7 DEF CollectsAll, SuccessMeansAllSucceeded
<1>6. FailureAborts
  <2> SUFFICES ASSUME NEW w \in Workers, ~caller.got[w].ok PROVE generation \in aborts
    BY DEF FailureAborts
  <2>1. firstFailure # None
    <3>1. ~worker[w].ok /\ worker[w].pc \notin {"work", "failed"}
      BY <1>4, <1>7
    <3> QED
      BY <1>3, <1>4, <3>1 DEF PoolIInv, FirstFails
  <2>2. worker[firstFailure].pc # "abort"
    BY <1>4, <2>1 DEF PoolIInv, PoolTypeOK
  <2> QED
    BY <1>3, <2>1, <2>2 DEF PoolIInv, FirstFails
<1> QED
  BY <1>1, <1>5, <1>6

(* Without a collect timeout the invariant holds in every reachable state  *)
(* of the pool, for any number of workers and steps.                       *)
THEOREM PoolCorrect == CollectTimeout = FALSE /\ PoolSpec => []PoolIInv
<1>1. SUFFICES ASSUME CollectTimeout = FALSE PROVE PoolSpec => []PoolIInv
  OBVIOUS
<1>2. PoolIInv /\ [PoolNext]_poolVars => PoolIInv'
  BY <1>1, StepPool
<1> QED
  BY <1>2, InitPool, PTL DEF PoolSpec

-----------------------------------------------------------------------------
(* The composition. *)

LEMMA ForwardStepIsPoolStep == [ForwardNext]_forwardVars => [PoolNext]_poolVars
<1> SUFFICES ASSUME [ForwardNext]_forwardVars PROVE [PoolNext]_poolVars
  OBVIOUS
<1>1. ASSUME NEW w \in Workers, ForwardStep(w) PROVE [PoolNext]_poolVars
  <2>1. CASE PoolWorker(w)
    BY <2>1 DEF PoolWorker, PoolOnly, PoolNext, WorkerStep
  <2>2. CASE RequestAbort(w)
    BY <2>2 DEF RequestAbort, PoolNext, WorkerStep
  <2>3. CASE BeginForward(w)
    BY <2>3 DEF BeginForward, PoolNext, WorkerStep
  <2>4. CASE StartStage(w) \/ Collective(w)
    BY <2>4 DEF StartStage, Collective
  <2>5. CASE CancelForward(w) \/ FailStage(w)
    <3>1. Finish(w, FALSE)
      BY <2>5 DEF CancelForward, FailStage
    <3> QED
      BY <3>1 DEF PoolNext
  <2>6. CASE FinishForward(w)
    <3>1. Finish(w, TRUE)
      BY <2>6 DEF FinishForward
    <3> QED
      BY <3>1 DEF PoolNext
  <2> QED
    BY <1>1, <2>1, <2>2, <2>3, <2>4, <2>5, <2>6 DEF ForwardStep
<1>2. CASE PoolCaller \/ PoolOnly(SpuriousWakeup) \/ PoolOnly(Dispatch) \/ PoolOnly(Destroy)
  BY <1>2 DEF PoolCaller, PoolOnly, PoolNext
<1>3. CASE UNCHANGED forwardVars
  BY <1>3 DEF forwardVars
<1> QED
  BY <1>1, <1>2, <1>3 DEF ForwardNext

(* TPForward is a pool whose workers do something. *)
THEOREM ForwardImplementsPool == ForwardSpec => PoolSpec
<1>1. ForwardInit => PoolInit
  BY DEF ForwardInit
<1> QED
  BY <1>1, ForwardStepIsPoolStep, PTL DEF ForwardSpec, PoolSpec

(* A forward pass reported as a success was run by every worker, as this   *)
(* very step, and every worker's part succeeded.                           *)
THEOREM SuccessMeansAllSucceededHolds ==
  CollectTimeout = FALSE /\ ForwardSpec => []SuccessMeansAllSucceeded
BY ForwardImplementsPool, PoolCorrect, PoolIInvImplies, PTL

(* forwardTP() gets the results of the step it dispatched, all of them.    *)
THEOREM CollectsAllHolds ==
  CollectTimeout = FALSE /\ ForwardSpec => []CollectsAll
BY ForwardImplementsPool, PoolCorrect, PoolIInvImplies, PTL

(* A failed step has aborted the collectives before it is collected.       *)
THEOREM FailureAbortsHolds ==
  CollectTimeout = FALSE /\ ForwardSpec => []FailureAborts
BY ForwardImplementsPool, PoolCorrect, PoolIInvImplies, PTL

-----------------------------------------------------------------------------
(* The abort flag and the barrier. *)

CallType == [pc : {"out", "waiting", "failed"}, stage : Nat, generation : Nat]
SlotsType == [arrived : Seq(Workers), generation : Nat, stage : Nat, result : BOOLEAN]

(* A slot belongs to a thread that waits in this round, and a thread that  *)
(* waits is inside a stage.                                                *)
Inside ==
  /\ call \in [Workers -> CallType]
  /\ barrier \in SlotsType
  /\ \A w \in running : worker[w].pc = "work"
  /\ running \subseteq Workers
  /\ \A w \in Workers : call[w].pc = "waiting" => w \in running
  /\ \A i \in DOMAIN barrier.arrived :
       /\ call[barrier.arrived[i]].pc = "waiting"
       /\ call[barrier.arrived[i]].generation = barrier.generation

HasFailed(w) ==
  worker[w].seen = generation /\ ~worker[w].ok /\ worker[w].pc # "work"

BeforeFirstStage(w) ==
  /\ worker[w].pc = "work" /\ w \notin running
  /\ call[w].stage = (generation - 1) * PerForward + 1

(* What is left of an abort: someone who failed in this step, or nobody    *)
(* who has got anywhere in it.                                             *)
AbortHasCause ==
  /\ \A w \in Workers : worker[w].pc \in {"failed", "abort"} => ~worker[w].ok
  /\ abortRequested =>
       /\ generation > 0
       /\ \/ \E w \in Workers : HasFailed(w)
          \/ \A w \in Workers : worker[w].seen = generation => BeforeFirstStage(w)

ForwardIInv == PoolIInv /\ Inside /\ AbortHasCause

(* The first stage of a pass and the stage after its last are two.         *)
LEMMA PassHasStages ==
  ASSUME NEW g \in Nat, g > 0
  PROVE  /\ (g - 1) * PerForward + 1 \in Nat
         /\ (g - 1) * PerForward + 1 # g * PerForward + 1
<1>1. PerForward \in Nat /\ PerForward > 0
  BY ForwardAssumption
<1>2. g - 1 \in Nat /\ g * PerForward = (g - 1) * PerForward + PerForward
  BY <1>1
<1>3. (g - 1) * PerForward \in Nat
  BY <1>1, <1>2
<1> QED
  BY <1>1, <1>2, <1>3

LEMMA InitForward == ForwardInit => ForwardIInv
<1> SUFFICES ASSUME ForwardInit PROVE ForwardIInv
  OBVIOUS
<1>1. PoolIInv
  BY InitPool DEF ForwardInit
<1>2. Inside
  BY DEF ForwardInit, Inside, Barrier!BarrierInit, CallType, SlotsType
<1>3. AbortHasCause
  BY DEF ForwardInit, PoolInit, AbortHasCause
<1> QED
  BY <1>1, <1>2, <1>3 DEF ForwardIInv

(* What the pool does after a worker's function returned. *)
LEMMA PoolWorkerMoves ==
  ASSUME ForwardIInv, NEW w \in Workers, PoolWorker(w)
  PROVE  /\ UNCHANGED <<barrier, call, tensor, abortRequested, running, generation, aborts>>
         /\ worker[w].pc \notin {"work", "abort"}
         /\ worker[w].pc = "failed" \/ worker'[w].pc \notin {"work", "failed", "abort"}
         /\ worker'[w].pc # "work" /\ worker'[w].pc # "failed"
         /\ worker'[w].seen = worker[w].seen /\ worker'[w].ok = worker[w].ok
         /\ \A v \in Workers \ {w} : worker'[v] = worker[v]
BY DEF PoolWorker, PoolOnly, barrierVars, Exit, RecordFailure, StoreResult, CountCompleted,
       NotifyCollector, At, Goto, ForwardIInv, PoolIInv, PoolTypeOK

LEMMA PoolWorkerForward ==
  ASSUME ForwardIInv, NEW w \in Workers, PoolWorker(w)
  PROVE  Inside' /\ AbortHasCause'
<1>1. /\ UNCHANGED <<barrier, call, tensor, abortRequested, running, generation>>
      /\ worker[w].pc \notin {"work", "abort"}
      /\ worker[w].pc = "failed" \/ worker'[w].pc \notin {"work", "failed", "abort"}
      /\ worker'[w].pc # "work" /\ worker'[w].pc # "failed"
      /\ worker'[w].seen = worker[w].seen /\ worker'[w].ok = worker[w].ok
      /\ \A v \in Workers \ {w} : worker'[v] = worker[v]
  BY PoolWorkerMoves
<1>2. Inside'
  BY <1>1 DEF ForwardIInv, Inside
<1>3. \A v \in Workers : HasFailed(v) => HasFailed(v)'
  BY <1>1 DEF HasFailed
<1>4. \A v \in Workers :
        (worker[v].seen = generation => BeforeFirstStage(v))
        => (worker'[v].seen = generation' => BeforeFirstStage(v)')
  BY <1>1 DEF BeforeFirstStage
<1>5. \A v \in Workers : worker'[v].pc \in {"failed", "abort"} => ~worker'[v].ok
  BY <1>1 DEF ForwardIInv, AbortHasCause
<1>6. AbortHasCause'
  BY <1>1, <1>3, <1>4, <1>5 DEF ForwardIInv, AbortHasCause
<1> QED
  BY <1>2, <1>6

LEMMA RequestAbortForward ==
  ASSUME ForwardIInv, NEW w \in Workers, RequestAbort(w)
  PROVE  Inside' /\ AbortHasCause'
<1>1. /\ UNCHANGED <<barrier, call, tensor, running, generation>>
      /\ worker[w].pc = "abort" /\ worker'[w].pc = "store"
      /\ worker'[w].seen = worker[w].seen /\ worker'[w].ok = worker[w].ok
      /\ \A v \in Workers \ {w} : worker'[v] = worker[v]
  BY DEF RequestAbort, InvokeFailureCallback, barrierVars, At, Goto, ForwardIInv, PoolIInv,
         PoolTypeOK
<1>2. Inside'
  BY <1>1 DEF ForwardIInv, Inside
<1>3. worker[w].seen = generation /\ generation > 0
  BY <1>1, BusyIsCurrent DEF ForwardIInv, PoolIInv
<1>4. ~worker'[w].ok
  BY <1>1 DEF ForwardIInv, AbortHasCause
<1>5. HasFailed(w)'
  BY <1>1, <1>3, <1>4 DEF HasFailed
<1>6. \A v \in Workers : worker'[v].pc \in {"failed", "abort"} => ~worker'[v].ok
  BY <1>1 DEF ForwardIInv, AbortHasCause
<1> QED
  BY <1>1, <1>2, <1>3, <1>5, <1>6 DEF AbortHasCause

LEMMA BeginsForward ==
  ASSUME ForwardIInv, NEW w \in Workers, BeginForward(w)
  PROVE  /\ UNCHANGED <<barrier, tensor, abortRequested, running, generation, aborts>>
         /\ worker[w].pc = "wait" /\ worker'[w].pc = "work"
         /\ generation \in Nat /\ generation > 0
         /\ worker[w].seen < generation /\ worker'[w].seen = generation
         /\ \A v \in Workers \ {w} : worker'[v] = worker[v]
         /\ call' \in [Workers -> CallType]
         /\ call'[w].pc = "out" /\ call'[w].stage = (generation - 1) * PerForward + 1
         /\ \A v \in Workers \ {w} : call'[v] = call[v]
<1>1. /\ UNCHANGED <<barrier, tensor, abortRequested, running, generation, aborts>>
      /\ worker[w].pc = "wait" /\ worker'[w].pc = "work"
      /\ generation \in Nat /\ generation > 0
      /\ worker[w].seen < generation /\ worker'[w].seen = generation
      /\ \A v \in Workers \ {w} : worker'[v] = worker[v]
  BY PoolAssumption
     DEF BeginForward, TakeWork, At, ForwardIInv, PoolIInv, PoolTypeOK
<1> DEFINE s == (generation - 1) * PerForward + 1
<1>2. call' = [call EXCEPT ![w].pc = "out", ![w].stage = s]
  BY DEF BeginForward
<1>3. call \in [Workers -> CallType] /\ s \in Nat
  BY <1>1, PassHasStages DEF ForwardIInv, Inside
<1> HIDE DEF s
<1>4. /\ call' \in [Workers -> CallType]
      /\ call'[w].pc = "out" /\ call'[w].stage = s
      /\ \A v \in Workers \ {w} : call'[v] = call[v]
  BY <1>2, <1>3 DEF CallType
<1> QED
  BY <1>1, <1>4 DEF s

LEMMA BeginForwardForward ==
  ASSUME ForwardIInv, NEW w \in Workers, BeginForward(w)
  PROVE  Inside' /\ AbortHasCause'
<1>1. /\ UNCHANGED <<barrier, tensor, abortRequested, running, generation>>
      /\ worker[w].pc = "wait" /\ worker'[w].pc = "work"
      /\ generation \in Nat /\ generation > 0
      /\ worker[w].seen # generation
      /\ \A v \in Workers \ {w} : worker'[v] = worker[v]
  BY BeginsForward, PoolAssumption DEF ForwardIInv, PoolIInv, PoolTypeOK
<1>2. /\ call' \in [Workers -> CallType]
      /\ call'[w].pc = "out" /\ call'[w].stage = (generation - 1) * PerForward + 1
      /\ \A v \in Workers \ {w} : call'[v] = call[v]
  BY BeginsForward
<1>3. w \notin running /\ call[w].pc # "waiting"
  BY <1>1 DEF ForwardIInv, Inside
<1>4. \A i \in DOMAIN barrier.arrived : barrier.arrived[i] \in Workers \ {w}
  <2> SUFFICES ASSUME NEW i \in DOMAIN barrier.arrived
               PROVE  barrier.arrived[i] \in Workers \ {w}
    OBVIOUS
  <2>1. barrier.arrived \in Seq(Workers)
    BY DEF ForwardIInv, Inside, SlotsType
  <2>2. barrier.arrived[i] \in Workers
    BY <2>1
  <2>3. call[barrier.arrived[i]].pc = "waiting"
    BY DEF ForwardIInv, Inside
  <2> QED
    BY <1>3, <2>2, <2>3
<1>5. Inside'
  BY <1>1, <1>2, <1>3, <1>4 DEF ForwardIInv, Inside
<1>6. \A v \in Workers : worker'[v].pc \in {"failed", "abort"} => ~worker'[v].ok
  BY <1>1 DEF ForwardIInv, AbortHasCause
<1>7. \A v \in Workers : HasFailed(v) => HasFailed(v)'
  BY <1>1 DEF HasFailed
<1>8. BeforeFirstStage(w)'
  BY <1>1, <1>2, <1>3 DEF BeforeFirstStage
<1>9. \A v \in Workers \ {w} :
        (worker[v].seen = generation => BeforeFirstStage(v))
        => (worker'[v].seen = generation' => BeforeFirstStage(v)')
  BY <1>1, <1>2 DEF BeforeFirstStage
<1> QED
  BY <1>1, <1>5, <1>6, <1>7, <1>8, <1>9 DEF ForwardIInv, AbortHasCause

LEMMA StartStageForward ==
  ASSUME ForwardIInv, NEW w \in Workers, StartStage(w)
  PROVE  Inside' /\ AbortHasCause'
<1>1. /\ UNCHANGED <<barrier, call, tensor, abortRequested, worker, generation>>
      /\ ~abortRequested /\ worker[w].pc = "work" /\ running' = running \cup {w}
  BY DEF StartStage, AtStage, At, barrierVars, poolVars
<1>2. Inside'
  BY <1>1 DEF ForwardIInv, Inside
<1> QED
  BY <1>1, <1>2 DEF ForwardIInv, AbortHasCause

(* A worker's function returns false. *)
LEMMA FailsForward ==
  ASSUME ForwardIInv, NEW w \in Workers, Finish(w, FALSE),
         UNCHANGED <<barrier, call>>,
         running' = running \ {w}, call[w].pc # "waiting"
  PROVE  Inside' /\ AbortHasCause'
<1>1. /\ worker' = [worker EXCEPT ![w].pc = "failed", ![w].ok = FALSE]
      /\ worker[w].pc = "work" /\ generation' = generation
  BY Zenon DEF Finish, At
<1>2. /\ worker'[w].pc = "failed" /\ worker'[w].ok = FALSE
      /\ worker'[w].seen = worker[w].seen
      /\ \A v \in Workers \ {w} : worker'[v] = worker[v]
  BY <1>1 DEF ForwardIInv, PoolIInv, PoolTypeOK
<1>3. worker[w].seen = generation /\ generation > 0
  BY <1>1, BusyIsCurrent DEF ForwardIInv, PoolIInv
<1>4. Inside'
  BY <1>1, <1>2 DEF ForwardIInv, Inside
<1>5. HasFailed(w)'
  BY <1>1, <1>2, <1>3 DEF HasFailed
<1>6. \A v \in Workers : worker'[v].pc \in {"failed", "abort"} => ~worker'[v].ok
  BY <1>2 DEF ForwardIInv, AbortHasCause
<1> QED
  BY <1>1, <1>3, <1>4, <1>5, <1>6 DEF AbortHasCause

LEMMA CancelForwardForward ==
  ASSUME ForwardIInv, NEW w \in Workers, CancelForward(w)
  PROVE  Inside' /\ AbortHasCause'
<1>1. /\ Finish(w, FALSE) /\ UNCHANGED <<barrier, call>>
      /\ running' = running \ {w} /\ call[w].pc # "waiting"
  BY DEF CancelForward, AtStage, barrierVars
<1> QED
  BY <1>1, FailsForward

LEMMA FailStageForward ==
  ASSUME ForwardIInv, NEW w \in Workers, FailStage(w)
  PROVE  Inside' /\ AbortHasCause'
<1>1. /\ Finish(w, FALSE) /\ UNCHANGED <<barrier, call>>
      /\ running' = running \ {w} /\ call[w].pc # "waiting"
  BY DEF FailStage, Barrier!Waiting, barrierVars
<1> QED
  BY <1>1, FailsForward

(* After an abort nobody gets to the end of a pass: whoever could has not  *)
(* passed its first stage.                                                 *)
LEMMA FinishForwardForward ==
  ASSUME ForwardIInv, NEW w \in Workers, FinishForward(w)
  PROVE  Inside' /\ AbortHasCause'
<1>1. /\ Finish(w, TRUE) /\ UNCHANGED <<barrier, call, abortRequested, running>>
      /\ call[w].stage = worker[w].seen * PerForward + 1
      /\ w \notin running
  BY DEF FinishForward, barrierVars
<1>2. /\ worker' = [worker EXCEPT ![w].pc = "store", ![w].ok = TRUE]
      /\ worker[w].pc = "work" /\ generation' = generation
  BY <1>1, Zenon DEF Finish, At
<1>3. /\ worker'[w].pc = "store"
      /\ \A v \in Workers \ {w} : worker'[v] = worker[v]
  BY <1>2 DEF ForwardIInv, PoolIInv, PoolTypeOK
<1>4. worker[w].seen = generation /\ generation > 0 /\ generation \in Nat
  BY <1>2, BusyIsCurrent DEF ForwardIInv, PoolIInv, PoolTypeOK
<1>5. Inside'
  BY <1>1, <1>2, <1>3 DEF ForwardIInv, Inside
<1>6. \A v \in Workers : worker'[v].pc \in {"failed", "abort"} => ~worker'[v].ok
  BY <1>3 DEF ForwardIInv, AbortHasCause
<1>7. ~BeforeFirstStage(w)
  BY <1>1, <1>4, PassHasStages DEF BeforeFirstStage
<1>8. \A v \in Workers : HasFailed(v) => HasFailed(v)'
  BY <1>2, <1>3 DEF HasFailed
<1>9. AbortHasCause'
  BY <1>1, <1>2, <1>4, <1>6, <1>7, <1>8 DEF ForwardIInv, AbortHasCause
<1> QED
  BY <1>5, <1>9

LEMMA ReturnsForward ==
  ASSUME call \in [Workers -> CallType], NEW w \in Workers, NEW ok \in BOOLEAN,
         Barrier!Returns(w, ok)
  PROVE  /\ call' \in [Workers -> CallType]
         /\ call'[w].pc # "waiting"
         /\ \A v \in Workers \ {w} : call'[v] = call[v]
<1>1. call[w] \in CallType /\ call[w].stage + 1 \in Nat
  BY DEF CallType
<1>2. Barrier!ReturnsTo(call[w], ok) \in CallType /\ Barrier!ReturnsTo(call[w], ok).pc # "waiting"
  <2>1. CASE ok
    BY <1>1, <2>1 DEF Barrier!ReturnsTo, CallType
  <2>2. CASE ~ok
    BY <1>1, <2>2 DEF Barrier!ReturnsTo, CallType
  <2> QED
    BY <2>1, <2>2
<1> QED
  BY <1>2 DEF Barrier!Returns

LEMMA NextRoundForward ==
  ASSUME NEW b \in SlotsType
  PROVE  Barrier!NextRound(b) \in SlotsType /\ Barrier!NextRound(b).arrived = << >>
<1>1. << >> \in Seq(Workers) /\ b.generation + 1 \in Nat /\ b.result \in BOOLEAN
  BY DEF SlotsType
<1> QED
  BY <1>1 DEF Barrier!NextRound, SlotsType

(* A call that ends the round, or that leaves the wait of an earlier one.  *)
LEMMA LeavesForward ==
  ASSUME Inside, NEW w \in running, NEW ok \in BOOLEAN, Barrier!Returns(w, ok),
         UNCHANGED worker, running' \in {running, running \ {w}},
         \/ barrier' \in SlotsType /\ barrier'.arrived = << >>
         \/ barrier' = barrier /\ barrier.generation # call[w].generation
  PROVE  Inside'
<1>1. /\ w \in Workers
      /\ call' \in [Workers -> CallType]
      /\ call'[w].pc # "waiting"
      /\ \A v \in Workers \ {w} : call'[v] = call[v]
  BY ReturnsForward DEF Inside
<1>2. /\ \A v \in running' : worker'[v].pc = "work"
      /\ running' \subseteq Workers
      /\ \A v \in Workers : call'[v].pc = "waiting" => v \in running'
  BY <1>1 DEF Inside
<1>3. CASE barrier' \in SlotsType /\ barrier'.arrived = << >>
  BY <1>1, <1>2, <1>3 DEF Inside
<1>4. CASE barrier' = barrier /\ barrier.generation # call[w].generation
  <2>1. \A i \in DOMAIN barrier.arrived : barrier.arrived[i] \in Workers \ {w}
    BY <1>4 DEF Inside, SlotsType
  <2> QED
    BY <1>1, <1>2, <1>4, <2>1 DEF Inside
<1> QED
  BY <1>3, <1>4

LEMMA ArriveAndWaitForward ==
  ASSUME Inside, NEW w \in running, Barrier!ArriveAndWait(w), UNCHANGED worker,
         running' = IF call'[w].pc = "out" THEN running \ {w} ELSE running
  PROVE  Inside'
<1> DEFINE s == Barrier!RoundStage(w)
<1>1. /\ w \in Workers /\ call[w].pc = "out" /\ s \in Nat
      /\ barrier' = [barrier EXCEPT !.arrived = Append(@, w), !.stage = s]
      /\ call' = [call EXCEPT ![w].pc = "waiting", ![w].generation = barrier.generation]
      /\ call \in [Workers -> CallType] /\ barrier \in SlotsType
  BY DEF Inside, Barrier!ArriveAndWait, Barrier!RoundStage, CallType, SlotsType
<1>2. /\ call' \in [Workers -> CallType]
      /\ call'[w].pc = "waiting" /\ call'[w].generation = barrier.generation
      /\ \A v \in Workers \ {w} : call'[v] = call[v]
  BY <1>1 DEF CallType, SlotsType
<1>3. /\ barrier' \in SlotsType
      /\ barrier'.generation = barrier.generation
      /\ barrier'.arrived = Append(barrier.arrived, w)
  <2> HIDE DEF s
  <2>1. Append(barrier.arrived, w) \in Seq(Workers)
    BY <1>1 DEF SlotsType
  <2> QED
    BY <1>1, <2>1 DEF SlotsType
<1>4. running' = running
  BY <1>2
<1>5. ASSUME NEW i \in DOMAIN barrier'.arrived
      PROVE  /\ call'[barrier'.arrived[i]].pc = "waiting"
             /\ call'[barrier'.arrived[i]].generation = barrier'.generation
  <2>1. barrier.arrived \in Seq(Workers)
    BY <1>1 DEF SlotsType
  <2>2. CASE i = Len(barrier.arrived) + 1
    BY <1>2, <1>3, <2>1, <2>2
  <2>3. CASE i # Len(barrier.arrived) + 1
    <3>1. i \in DOMAIN barrier.arrived /\ barrier'.arrived[i] = barrier.arrived[i]
      BY <1>3, <2>1, <2>3
    <3>2. barrier.arrived[i] \in Workers
      BY <2>1, <3>1
    <3>3. /\ call[barrier.arrived[i]].pc = "waiting"
          /\ call[barrier.arrived[i]].generation = barrier.generation
      BY <3>1 DEF Inside
    <3> QED
      BY <1>1, <1>2, <1>3, <3>1, <3>2, <3>3
  <2> QED
    BY <2>2, <2>3
<1> QED
  BY <1>2, <1>3, <1>4, <1>5 DEF Inside

LEMMA CollectiveForward ==
  ASSUME ForwardIInv, NEW w \in Workers, Collective(w)
  PROVE  Inside' /\ AbortHasCause'
<1>1. /\ w \in running /\ worker[w].pc = "work"
      /\ Barrier!BarrierStep(w)
      /\ running' = IF call'[w].pc = "out" THEN running \ {w} ELSE running
      /\ UNCHANGED <<worker, generation, abortRequested>>
  BY DEF Collective, poolVars, At
<1>2. Inside
  BY DEF ForwardIInv
<1>3. barrier \in SlotsType /\ running' \in {running, running \ {w}}
  BY <1>1, <1>2 DEF Inside
<1>4. Inside'
  <2>1. CASE Barrier!ArriveMismatched(w)
    <3>1. Barrier!Returns(w, FALSE) /\ barrier' = Barrier!NextRound(barrier)
      BY <2>1 DEF Barrier!ArriveMismatched
    <3> QED
      BY <1>1, <1>2, <1>3, <3>1, LeavesForward, NextRoundForward
  <2>2. CASE Barrier!ArriveAndWait(w)
    BY <1>1, <1>2, <2>2, ArriveAndWaitForward
  <2>3. CASE Barrier!ArriveLast(w)
    <3>1. \E ok \in BOOLEAN :
            Barrier!Returns(w, ok) /\ barrier' = [Barrier!NextRound(barrier) EXCEPT !.result = ok]
      BY <2>3 DEF Barrier!ArriveLast
    <3>2. PICK ok \in BOOLEAN :
            Barrier!Returns(w, ok) /\ barrier' = [Barrier!NextRound(barrier) EXCEPT !.result = ok]
      BY <3>1
    <3>3. barrier' \in SlotsType /\ barrier'.arrived = << >>
      BY <1>3, <3>2, NextRoundForward DEF SlotsType
    <3> QED
      BY <1>1, <1>2, <1>3, <3>2, <3>3, LeavesForward
  <2>4. CASE Barrier!WakeUp(w)
    <3>1. Barrier!Returns(w, barrier.result) /\ barrier.result \in BOOLEAN
      BY <1>3, <2>4 DEF Barrier!WakeUp, SlotsType
    <3>2. barrier' = barrier /\ barrier.generation # call[w].generation
      BY <1>2, <1>3, <2>4 DEF Barrier!WakeUp, SlotsType, Inside, CallType
    <3> QED
      BY <1>1, <1>2, <1>3, <3>1, <3>2, LeavesForward
  <2>5. CASE Barrier!GiveUp(w)
    <3>1. Barrier!Returns(w, FALSE) /\ barrier' = Barrier!NextRound(barrier)
      BY <2>5 DEF Barrier!GiveUp
    <3> QED
      BY <1>1, <1>2, <1>3, <3>1, LeavesForward, NextRoundForward
  <2> QED
    BY <1>1, <2>1, <2>2, <2>3, <2>4, <2>5 DEF Barrier!BarrierStep
<1>5. worker[w].seen = generation /\ ~BeforeFirstStage(w)
  BY <1>1, BusyIsCurrent DEF ForwardIInv, PoolIInv, BeforeFirstStage
<1>6. AbortHasCause'
  BY <1>1, <1>5 DEF ForwardIInv, AbortHasCause, HasFailed
<1> QED
  BY <1>4, <1>6

(* The caller's steps; a new step is one nobody has begun.                 *)
LEMMA CallerForward ==
  ASSUME ForwardIInv,
         PoolCaller \/ PoolOnly(SpuriousWakeup) \/ PoolOnly(Dispatch) \/ PoolOnly(Destroy)
  PROVE  Inside' /\ AbortHasCause'
<1>1. UNCHANGED <<barrier, call, tensor, abortRequested, running, worker>>
  BY DEF PoolCaller, PoolOnly, barrierVars, CallerStep, TestCompleted, Block, Expire,
         CopyResults, Join, SpuriousWakeup, Dispatch, Destroy
<1>2. Inside'
  BY <1>1 DEF ForwardIInv, Inside
<1>3. CASE generation' = generation
  BY <1>1, <1>2, <1>3 DEF ForwardIInv, AbortHasCause, HasFailed, BeforeFirstStage
<1>4. CASE generation' # generation
  <2>1. generation' = generation + 1 /\ generation \in Nat
    <3>1. PoolOnly(Dispatch)
      BY <1>4 DEF PoolCaller, PoolOnly, CallerStep, TestCompleted, Block, Expire, CopyResults,
           Join, SpuriousWakeup, Destroy
    <3> QED
      BY <3>1, PoolAssumption DEF PoolOnly, Dispatch, ForwardIInv, PoolIInv, PoolTypeOK
  <2>2. \A w \in Workers : worker'[w].seen # generation'
    BY <1>1, <2>1 DEF ForwardIInv, PoolIInv, PoolTypeOK, Follow
  <2> QED
    BY <1>1, <1>2, <2>1, <2>2 DEF ForwardIInv, AbortHasCause
<1> QED
  BY <1>3, <1>4

LEMMA StepForward ==
  ASSUME ForwardIInv, CollectTimeout = FALSE, [ForwardNext]_forwardVars
  PROVE  ForwardIInv'
<1>1. PoolIInv'
  BY ForwardStepIsPoolStep, StepPool DEF ForwardIInv
<1>2. ASSUME NEW w \in Workers, ForwardStep(w) PROVE Inside' /\ AbortHasCause'
  BY <1>2, PoolWorkerForward, RequestAbortForward, BeginForwardForward, StartStageForward,
     CancelForwardForward, CollectiveForward, FailStageForward, FinishForwardForward
     DEF ForwardStep
<1>3. CASE UNCHANGED forwardVars
  <2>1. Inside' /\ AbortHasCause'
    BY <1>3 DEF forwardVars, poolVars, barrierVars, ForwardIInv, Inside, AbortHasCause,
            HasFailed, BeforeFirstStage
  <2> QED
    BY <1>1, <2>1 DEF ForwardIInv
<1> QED
  BY <1>1, <1>2, <1>3, CallerForward DEF ForwardNext, ForwardIInv

LEMMA ForwardInvariant == CollectTimeout = FALSE /\ ForwardSpec => []ForwardIInv
<1>1. SUFFICES ASSUME CollectTimeout = FALSE PROVE ForwardSpec => []ForwardIInv
  OBVIOUS
<1>2. ForwardIInv /\ [ForwardNext]_forwardVars => ForwardIInv'
  BY <1>1, StepForward
<1> QED
  BY <1>2, InitForward, PTL DEF ForwardSpec

LEMMA ForwardIInvImplies == ForwardIInv => AbortIsFinal /\ NobodyLeftInBarrier
<1> SUFFICES ASSUME ForwardIInv, Collected
             PROVE  (Succeeded => ~abortRequested) /\ barrier.arrived = << >> /\ running = {}
  BY DEF AbortIsFinal, NobodyLeftInBarrier, Succeeded
<1>1. generation > 0 /\ Counted = Workers
  BY DEF Collected, ForwardIInv, PoolIInv, Complete, Over
<1>2. \A w \in Workers :
        worker[w].seen = generation /\ worker[w].pc \in {"wait", "notify", "gone"}
  BY <1>1 DEF Counted
<1>3. running = {}
  BY <1>2 DEF ForwardIInv, Inside
<1>4. barrier.arrived = << >>
  <2>1. barrier.arrived \in Seq(Workers)
    BY DEF ForwardIInv, Inside, SlotsType
  <2>2. Len(barrier.arrived) = 0
    <3> SUFFICES ASSUME Len(barrier.arrived) # 0 PROVE FALSE
      OBVIOUS
    <3>1. 1 \in DOMAIN barrier.arrived /\ barrier.arrived[1] \in Workers
      BY <2>1
    <3> QED
      BY <1>3, <3>1 DEF ForwardIInv, Inside
  <2> QED
    BY <2>1, <2>2
<1>5. ASSUME Succeeded PROVE ~abortRequested
  <2>1. \A w \in Workers : worker[w].ok
    BY <1>5, PoolIInvImplies DEF ForwardIInv, Succeeded, SuccessMeansAllSucceeded
  <2>2. PICK w \in Workers : TRUE
    BY PoolAssumption
  <2>3. ~BeforeFirstStage(w)
    BY <1>2 DEF BeforeFirstStage
  <2> QED
    BY <1>2, <2>1, <2>3 DEF ForwardIInv, AbortHasCause, HasFailed
<1> QED
  BY <1>3, <1>4, <1>5

(* Once an abort was requested no pass succeeds.                           *)
THEOREM AbortIsFinalHolds ==
  CollectTimeout = FALSE /\ ForwardSpec => []AbortIsFinal
BY ForwardInvariant, ForwardIInvImplies, PTL

(* Between two passes no thread is in the barrier or in a stage.           *)
THEOREM NobodyLeftInBarrierHolds ==
  CollectTimeout = FALSE /\ ForwardSpec => []NobodyLeftInBarrier
BY ForwardInvariant, ForwardIInvImplies, PTL
-----------------------------------------------------------------------------
(* What a success says of the tensors. A failure anywhere makes its pass   *)
(* fail, and with it all later ones: it is enough to know the barrier as   *)
(* long as nothing has failed. Then the threads run in lockstep, and stage *)
(* numbers go on from pass to pass with the barrier's generations.         *)

Failing(w) == w \in running /\ call[w].pc = "failed"

Troubled ==
  \/ abortRequested
  \/ \E w \in Workers : (generation > 0 /\ HasFailed(w)) \/ Failing(w)

(* Trouble is not forgotten: a failed call is one of this pass, and a pass *)
(* that failed has aborted.                                                *)
Aftermath ==
  /\ aborts # {} => abortRequested
  /\ \A w \in Workers : call[w].pc = "failed" => Troubled
  /\ \A w \in Workers : generation <= worker[w].seen + 1

SumOf(s) == Workers \X {s}

(* A thread is before the stage of the round that fills, or waits in it    *)
(* with its contribution, or has not woken up from the round before, which *)
(* has reduced its tensor.                                                 *)
InStep(w) ==
  \/ /\ call[w].pc = "out" /\ call[w].stage = barrier.generation + 1
     /\ barrier.generation > 0 => tensor[w] = SumOf(barrier.generation)
  \/ /\ call[w].pc = "waiting" /\ call[w].generation = barrier.generation
     /\ call[w].stage = barrier.generation + 1
     /\ tensor[w] = {<<w, barrier.generation + 1>>}
  \/ /\ call[w].pc = "waiting" /\ call[w].generation + 1 = barrier.generation
     /\ call[w].stage = barrier.generation
     /\ tensor[w] = SumOf(barrier.generation)

RoundIsNext ==
  /\ barrier.generation > 0 => barrier.result
  /\ barrier.arrived # << >> => barrier.stage = barrier.generation + 1
  /\ \A i, j \in DOMAIN barrier.arrived :
       barrier.arrived[i] = barrier.arrived[j] => i = j

PassIsOver(w) == call[w].pc = "out" /\ call[w].stage = worker[w].seen * PerForward + 1

Together ==
  /\ DOMAIN tensor = Workers
  /\ \A w \in Workers : InStep(w)
  /\ RoundIsNext
  /\ \A w \in Workers : worker[w].pc # "work" => PassIsOver(w)

PassIInv == ForwardIInv /\ Aftermath /\ (Troubled \/ Together)

(* What every step does. *)
StaysTogether ==
  Aftermath' /\ (Troubled => Troubled') /\ (Together => Troubled' \/ Together')

(* A step that leaves the barrier and its calls alone. *)
LEMMA BarrierAlone ==
  ASSUME Together, UNCHANGED <<barrier, call, tensor>>,
         \A w \in Workers : worker'[w].pc # "work" => PassIsOver(w)'
  PROVE  Together'
<1>1. \A w \in Workers : InStep(w)'
  BY DEF Together, InStep, SumOf
<1>2. RoundIsNext'
  BY DEF Together, RoundIsNext
<1> QED
  BY <1>1, <1>2 DEF Together

(* Whoever gets into trouble leaves nothing else to show. *)
LEMMA TroubleIsEnough ==
  ASSUME Troubled', aborts' # {} => abortRequested',
         \A w \in Workers : generation' <= worker'[w].seen + 1
  PROVE  StaysTogether
BY DEF StaysTogether, Aftermath

LEMMA PoolWorkerTogether ==
  ASSUME ForwardIInv, Aftermath, NEW w \in Workers, PoolWorker(w)
  PROVE  StaysTogether
<1>1. /\ UNCHANGED <<barrier, call, tensor, abortRequested, running, generation, aborts>>
      /\ worker[w].pc # "work" /\ worker'[w].pc # "work"
      /\ worker'[w].seen = worker[w].seen /\ worker'[w].ok = worker[w].ok
      /\ \A v \in Workers \ {w} : worker'[v] = worker[v]
  BY PoolWorkerMoves
<1>2. Troubled => Troubled'
  BY <1>1 DEF Troubled, HasFailed, Failing
<1>3. Aftermath'
  BY <1>1, <1>2 DEF Aftermath
<1>4. ASSUME Together PROVE Together'
  <2>1. \A v \in Workers : worker'[v].pc # "work" => PassIsOver(v)'
    BY <1>1, <1>4 DEF Together, PassIsOver
  <2> QED
    BY <1>1, <1>4, <2>1, BarrierAlone
<1> QED
  BY <1>2, <1>3, <1>4 DEF StaysTogether

LEMMA RequestAbortTogether ==
  ASSUME ForwardIInv, Aftermath, NEW w \in Workers, RequestAbort(w)
  PROVE  StaysTogether
<1>1. /\ abortRequested' = TRUE /\ generation' = generation
      /\ \A v \in Workers : worker'[v].seen = worker[v].seen
  BY DEF RequestAbort, InvokeFailureCallback, At, Goto, ForwardIInv, PoolIInv, PoolTypeOK
<1> QED
  BY <1>1, TroubleIsEnough DEF Troubled, Aftermath

(* A pass begins at the stage the one before has stopped at. *)
LEMMA BeginForwardTogether ==
  ASSUME ForwardIInv, Aftermath, NEW w \in Workers, BeginForward(w)
  PROVE  StaysTogether
<1>1. /\ UNCHANGED <<barrier, tensor, abortRequested, running, generation, aborts>>
      /\ worker[w].pc = "wait" /\ worker'[w].pc = "work"
      /\ generation \in Nat /\ generation > 0
      /\ worker[w].seen < generation /\ worker'[w].seen = generation
      /\ \A v \in Workers \ {w} : worker'[v] = worker[v]
      /\ call'[w].pc = "out" /\ call'[w].stage = (generation - 1) * PerForward + 1
      /\ \A v \in Workers \ {w} : call'[v] = call[v]
  BY BeginsForward
<1>2. worker[w].seen = generation - 1
  <2>1. worker[w].seen \in Nat /\ generation <= worker[w].seen + 1
    BY PoolAssumption DEF Aftermath, ForwardIInv, PoolIInv, PoolTypeOK
  <2> QED
    BY <1>1, <2>1
<1>3. w \notin running
  BY <1>1 DEF ForwardIInv, Inside
<1>4. Troubled => Troubled'
  BY <1>1, <1>3 DEF Troubled, HasFailed, Failing
<1>5. Aftermath'
  BY <1>1, <1>4 DEF Aftermath
<1>6. ASSUME Together PROVE Together'
  <2>1. call[w].pc = "out" /\ call'[w].stage = call[w].stage
    BY <1>1, <1>2, <1>6 DEF Together, PassIsOver
  <2>2. InStep(w)'
    BY <1>1, <1>6, <2>1 DEF Together, InStep, SumOf
  <2>3. \A v \in Workers \ {w} : InStep(v)'
    BY <1>1, <1>6 DEF Together, InStep, SumOf
  <2>4. RoundIsNext'
    BY <1>1, <1>6 DEF Together, RoundIsNext
  <2>5. \A v \in Workers : worker'[v].pc # "work" => PassIsOver(v)'
    BY <1>1, <1>6 DEF Together, PassIsOver
  <2> QED
    BY <1>1, <1>6, <2>2, <2>3, <2>4, <2>5 DEF Together
<1> QED
  BY <1>4, <1>5, <1>6 DEF StaysTogether

LEMMA StartStageTogether ==
  ASSUME ForwardIInv, Aftermath, NEW w \in Workers, StartStage(w)
  PROVE  StaysTogether
<1>1. /\ UNCHANGED <<barrier, call, tensor, abortRequested, worker, generation, aborts>>
      /\ running' = running \cup {w}
  BY DEF StartStage, barrierVars, poolVars
<1>2. Troubled => Troubled'
  BY <1>1 DEF Troubled, HasFailed, Failing
<1>3. Aftermath'
  BY <1>1, <1>2 DEF Aftermath
<1>4. ASSUME Together PROVE Together'
  BY <1>1, <1>4, BarrierAlone DEF Together, PassIsOver
<1> QED
  BY <1>2, <1>3, <1>4 DEF StaysTogether

(* What fails now has failed. *)
LEMMA FailsTogether ==
  ASSUME ForwardIInv, Aftermath, NEW w \in Workers, Finish(w, FALSE),
         abortRequested => abortRequested'
  PROVE  StaysTogether
<1>1. /\ worker' = [worker EXCEPT ![w].pc = "failed", ![w].ok = FALSE]
      /\ worker[w].pc = "work" /\ generation' = generation /\ aborts' = aborts
  BY Zenon DEF Finish, At
<1>2. /\ worker'[w].pc = "failed" /\ worker'[w].ok = FALSE
      /\ worker'[w].seen = worker[w].seen
      /\ \A v \in Workers \ {w} : worker'[v] = worker[v]
  BY <1>1 DEF ForwardIInv, PoolIInv, PoolTypeOK
<1>3. worker[w].seen = generation /\ generation > 0
  BY <1>1, BusyIsCurrent DEF ForwardIInv, PoolIInv
<1>4. Troubled'
  BY <1>1, <1>2, <1>3 DEF Troubled, HasFailed
<1> QED
  BY <1>1, <1>2, <1>4, TroubleIsEnough DEF Aftermath

LEMMA CancelForwardTogether ==
  ASSUME ForwardIInv, Aftermath, NEW w \in Workers, CancelForward(w)
  PROVE  StaysTogether
BY FailsTogether DEF CancelForward

LEMMA FailStageTogether ==
  ASSUME ForwardIInv, Aftermath, NEW w \in Workers, FailStage(w)
  PROVE  StaysTogether
<1>1. Finish(w, FALSE)
  BY DEF FailStage
<1>2. abortRequested => abortRequested'
  BY DEF FailStage
<1> QED
  BY <1>1, <1>2, FailsTogether

(* A pass that succeeds ends outside the barrier, after its last stage.    *)
LEMMA FinishForwardTogether ==
  ASSUME ForwardIInv, Aftermath, NEW w \in Workers, FinishForward(w)
  PROVE  StaysTogether
<1>1. /\ Finish(w, TRUE) /\ UNCHANGED <<barrier, call, tensor, abortRequested, running>>
      /\ call[w].stage = worker[w].seen * PerForward + 1
      /\ w \notin running
  BY DEF FinishForward, barrierVars
<1>2. /\ worker' = [worker EXCEPT ![w].pc = "store", ![w].ok = TRUE]
      /\ worker[w].pc = "work" /\ generation' = generation /\ aborts' = aborts
  BY <1>1, Zenon DEF Finish, At
<1>3. /\ worker'[w].seen = worker[w].seen
      /\ \A v \in Workers \ {w} : worker'[v] = worker[v]
  BY <1>2 DEF ForwardIInv, PoolIInv, PoolTypeOK
<1>4. Troubled => Troubled'
  BY <1>1, <1>2, <1>3 DEF Troubled, HasFailed, Failing
<1>5. Aftermath'
  BY <1>1, <1>2, <1>3, <1>4 DEF Aftermath
<1>6. ASSUME Together PROVE Together'
  <2>1. call[w].pc = "out"
    BY <1>1, <1>6 DEF Together, InStep, ForwardIInv, Inside
  <2>2. \A v \in Workers : worker'[v].pc # "work" => PassIsOver(v)'
    BY <1>1, <1>3, <1>6, <2>1 DEF Together, PassIsOver
  <2> QED
    BY <1>1, <1>6, <2>2, BarrierAlone
<1> QED
  BY <1>4, <1>5, <1>6 DEF StaysTogether

(* A step that failed has aborted when the next is dispatched. *)
LEMMA TroubleAborts ==
  ASSUME ForwardIInv, Aftermath, Troubled, Dispatch
  PROVE  abortRequested
<1> SUFFICES ASSUME ~abortRequested PROVE FALSE
  OBVIOUS
<1>1. generation > 0 => Counted = Workers
  BY DEF Dispatch, ForwardIInv, PoolIInv, Complete, Over
<1>2. PICK w \in Workers : (generation > 0 /\ HasFailed(w)) \/ Failing(w)
  BY DEF Troubled
<1>3. generation > 0
  <2>1. CASE Failing(w)
    <3>1. worker[w].pc = "work"
      BY <2>1 DEF Failing, ForwardIInv, Inside
    <3> QED
      BY <3>1, BusyIsCurrent DEF ForwardIInv, PoolIInv
  <2> QED
    BY <1>2, <2>1
<1>4. \A v \in Workers :
        worker[v].seen = generation /\ worker[v].pc \in {"wait", "notify", "gone"}
  BY <1>1, <1>3 DEF Counted
<1>5. ~Failing(w)
  BY <1>4 DEF Failing, ForwardIInv, Inside
<1>6. firstFailure # None
  BY <1>2, <1>3, <1>4, <1>5 DEF HasFailed, ForwardIInv, PoolIInv, FirstFails
<1>7. worker[firstFailure].pc # "abort"
  BY <1>4, <1>6 DEF ForwardIInv, PoolIInv, PoolTypeOK
<1>8. generation \in aborts
  BY <1>3, <1>6, <1>7 DEF ForwardIInv, PoolIInv, FirstFails
<1> QED
  BY <1>8 DEF Aftermath

LEMMA CallerTogether ==
  ASSUME ForwardIInv, Aftermath, CollectTimeout = FALSE,
         PoolCaller \/ PoolOnly(SpuriousWakeup) \/ PoolOnly(Dispatch) \/ PoolOnly(Destroy)
  PROVE  StaysTogether
<1>1. UNCHANGED <<barrier, call, tensor, abortRequested, running, worker>>
  BY DEF PoolCaller, PoolOnly, barrierVars, CallerStep, TestCompleted, Block, Expire,
         CopyResults, Join, SpuriousWakeup, Dispatch, Destroy
<1>2. aborts' = aborts
  BY CopyIsComplete DEF PoolCaller, PoolOnly, CallerStep, TestCompleted, Block, Expire, Join,
     SpuriousWakeup, Dispatch, Destroy, ForwardIInv
<1>3. Together => Together'
  BY <1>1, BarrierAlone DEF Together, PassIsOver
<1>4. CASE Dispatch
  <2>1. Troubled => Troubled'
    BY <1>1, <1>4, TroubleAborts DEF Troubled
  <2>2. \A w \in Workers : generation' <= worker'[w].seen + 1
    <3>1. generation > 0 => Counted = Workers
      BY <1>4 DEF Dispatch, ForwardIInv, PoolIInv, Complete, Over
    <3>2. /\ generation' = generation + 1 /\ generation \in Nat
          /\ \A w \in Workers : worker[w].seen \in Nat
      BY <1>4, PoolAssumption DEF Dispatch, ForwardIInv, PoolIInv, PoolTypeOK
    <3> QED
      BY <1>1, <3>1, <3>2 DEF Counted
  <2>3. Aftermath'
    BY <1>1, <1>2, <2>1, <2>2 DEF Aftermath
  <2> QED
    BY <1>3, <2>1, <2>3 DEF StaysTogether
<1>5. CASE ~Dispatch
  <2>1. generation' = generation
    BY <1>5 DEF PoolCaller, PoolOnly, CallerStep, TestCompleted, Block, Expire, CopyResults,
       Join, SpuriousWakeup, Destroy
  <2>2. Troubled => Troubled'
    BY <1>1, <2>1 DEF Troubled, HasFailed, Failing
  <2>3. Aftermath'
    BY <1>1, <1>2, <2>1, <2>2 DEF Aftermath
  <2> QED
    BY <1>3, <2>2, <2>3 DEF StaysTogether
<1> QED
  BY <1>4, <1>5

(* A call that fails is trouble. *)
LEMMA FailedCallTogether ==
  ASSUME Inside, NEW w \in Workers, Barrier!Returns(w, FALSE), w \in running'
  PROVE  Troubled'
<1>1. call' = [call EXCEPT ![w] = Barrier!ReturnsTo(@, FALSE)]
  BY DEF Barrier!Returns
<1>2. call[w] \in CallType /\ call'[w] = [call[w] EXCEPT !.pc = "failed"]
  BY <1>1 DEF Inside, Barrier!ReturnsTo
<1>3. call'[w].pc = "failed"
  BY <1>2 DEF CallType
<1> QED
  BY <1>3 DEF Troubled, Failing

(* A call that succeeds goes on to the next stage. *)
LEMMA SucceedingCall ==
  ASSUME Inside, NEW w \in Workers, Barrier!Returns(w, TRUE)
  PROVE  /\ call'[w].pc = "out" /\ call'[w].stage = call[w].stage + 1
         /\ \A v \in Workers \ {w} : call'[v] = call[v]
<1>1. call' = [call EXCEPT ![w] = Barrier!ReturnsTo(@, TRUE)]
  BY DEF Barrier!Returns
<1>2. /\ call[w] \in CallType
      /\ call'[w] = [call[w] EXCEPT !.pc = "out", !.stage = @ + 1]
      /\ \A v \in Workers \ {w} : call'[v] = call[v]
  BY <1>1 DEF Inside, Barrier!ReturnsTo
<1> QED
  BY <1>2 DEF CallType

(* In lockstep no two stages meet. *)
LEMMA NoMismatch ==
  ASSUME Together, NEW w \in Workers, call[w].pc = "out"
  PROVE  ~Barrier!Mismatch(w)
BY DEF Together, InStep, RoundIsNext, Barrier!Mismatch

(* A full list of slots has every worker in it. *)
LEMMA FullSlots ==
  ASSUME NEW slots \in Seq(Workers), Len(slots) = Size,
         \A i, j \in DOMAIN slots : slots[i] = slots[j] => i = j
  PROVE  \A v \in Workers : \E i \in DOMAIN slots : slots[i] = v
<1> DEFINE I == 1..Size
           f == [i \in I |-> slots[i]]
<1>1. DOMAIN slots = I /\ \A i \in I : slots[i] \in Workers
  OBVIOUS
<1>2. f \in Injection(I, Workers)
  BY <1>1 DEF Injection, IsInjective
<1>3. IsFiniteSet(I) /\ Cardinality(I) = Size
  BY SizeIsNat, FS_Interval
<1>4. f \in Surjection(I, Workers)
  BY <1>2, <1>3, PoolAssumption, FS_Injection, FS_CardinalityType DEF Size
<1> QED
  BY <1>1, <1>4 DEF Surjection

LEMMA DegreeIsSize == Barrier!Degree = Size
BY DEF Barrier!Degree, Size, Barrier!Cardinality, Cardinality

(* The slots of an arrival: those of the others, who wait, and its own. *)
LEMMA ArrivalSlots ==
  ASSUME Inside, Together, NEW w \in Workers, call[w].pc = "out",
         NEW slots, slots = Append(barrier.arrived, w)
  PROVE  /\ slots \in Seq(Workers)
         /\ \A i, j \in DOMAIN slots : slots[i] = slots[j] => i = j
         /\ \A i \in DOMAIN slots : slots[i] # w =>
              /\ call[slots[i]].pc = "waiting"
              /\ call[slots[i]].generation = barrier.generation
<1> DEFINE k == Len(barrier.arrived)
<1>1. /\ barrier.arrived \in Seq(Workers) /\ k \in Nat /\ DOMAIN barrier.arrived = 1..k
  BY DEF Inside, SlotsType
<1>2. /\ slots \in Seq(Workers) /\ DOMAIN slots = 1..(k + 1)
      /\ slots[k + 1] = w
      /\ \A i \in 1..k : slots[i] = barrier.arrived[i]
  BY <1>1
<1>3. \A i \in 1..k : /\ call[slots[i]].pc = "waiting"
                      /\ call[slots[i]].generation = barrier.generation
  BY <1>1, <1>2 DEF Inside
<1>4. \A i \in 1..k : slots[i] # w
  BY <1>3
<1>5. \A i, j \in 1..k : slots[i] = slots[j] => i = j
  BY <1>1, <1>2 DEF Together, RoundIsNext
<1>6. \A i \in DOMAIN slots : i \in 1..k \/ i = k + 1
  BY <1>1, <1>2
<1>7. \A i, j \in DOMAIN slots : slots[i] = slots[j] => i = j
  BY <1>2, <1>4, <1>5, <1>6
<1>8. \A i \in DOMAIN slots : slots[i] # w => i \in 1..k
  BY <1>2, <1>6
<1> QED
  BY <1>2, <1>3, <1>7, <1>8

LEMMA ArriveAndWaitTogether ==
  ASSUME Inside, Together, NEW w \in running, UNCHANGED worker,
         Barrier!ArriveAndWait(w), worker[w].pc = "work"
  PROVE  Together'
<1> DEFINE s == call[w].stage
<1>1. /\ w \in Workers /\ call[w].pc = "out" /\ s = barrier.generation + 1
      /\ barrier.generation \in Nat
      /\ barrier \in SlotsType /\ call \in [Workers -> CallType]
      /\ DOMAIN tensor = Workers
  BY DEF Inside, Together, InStep, Barrier!ArriveAndWait, SlotsType
<1>2. /\ barrier' = [barrier EXCEPT !.arrived = Append(@, w), !.stage = s]
      /\ tensor' = [tensor EXCEPT ![w] = {<<w, s>>}]
      /\ call' = [call EXCEPT ![w].pc = "waiting", ![w].generation = barrier.generation]
  <2>1. Barrier!RoundStage(w) = s
    BY <1>1 DEF Together, RoundIsNext, Barrier!RoundStage
  <2> QED
    BY <2>1 DEF Barrier!ArriveAndWait, Barrier!Own
<1>3. /\ barrier'.arrived = Append(barrier.arrived, w) /\ barrier'.stage = s
      /\ barrier'.generation = barrier.generation /\ barrier'.result = barrier.result
  BY <1>1, <1>2 DEF SlotsType
<1>4. /\ call'[w].pc = "waiting" /\ call'[w].generation = barrier.generation
      /\ call'[w].stage = s /\ tensor'[w] = {<<w, s>>}
      /\ \A v \in Workers \ {w} : call'[v] = call[v] /\ tensor'[v] = tensor[v]
      /\ DOMAIN tensor' = Workers
  BY <1>1, <1>2 DEF CallType
<1> HIDE DEF s
<1>5. \A v \in Workers : InStep(v)'
  BY <1>1, <1>3, <1>4 DEF Together, InStep, SumOf
<1>6. \A i, j \in DOMAIN barrier'.arrived :
        barrier'.arrived[i] = barrier'.arrived[j] => i = j
  BY <1>1, <1>3, ArrivalSlots
<1>7. RoundIsNext'
  BY <1>1, <1>3, <1>6 DEF Together, RoundIsNext
<1>8. \A v \in Workers : worker'[v].pc # "work" => PassIsOver(v)'
  BY <1>4 DEF Together, PassIsOver
<1> QED
  BY <1>4, <1>5, <1>7, <1>8 DEF Together

(* The last arrival finds all others waiting, and sums one stage. *)
LEMMA ArriveLastTogether ==
  ASSUME Inside, Together, NEW w \in running, UNCHANGED worker,
         Barrier!ArriveLast(w), worker[w].pc = "work", w \in running' \/ call'[w].pc = "out"
  PROVE  Troubled' \/ Together'
<1> DEFINE n       == barrier.generation + 1
           slots   == Append(barrier.arrived, w)
           given   == [tensor EXCEPT ![w] = Barrier!Own(w)]
           sum     == UNION {given[slots[i]] : i \in DOMAIN slots}
           Written(m) == [v \in Workers |->
                            IF \E i \in 1..m : slots[i] = v THEN sum ELSE given[v]]
<1>1. /\ w \in Workers /\ call[w].pc = "out" /\ call[w].stage = n
      /\ barrier.generation \in Nat
      /\ barrier \in SlotsType /\ call \in [Workers -> CallType]
      /\ DOMAIN tensor = Workers
  BY DEF Inside, Together, InStep, Barrier!ArriveLast, SlotsType
<1>2. /\ slots \in Seq(Workers) /\ Len(slots) = Size
      /\ \A i, j \in DOMAIN slots : slots[i] = slots[j] => i = j
      /\ \A i \in DOMAIN slots : slots[i] # w =>
           /\ call[slots[i]].pc = "waiting"
           /\ call[slots[i]].generation = barrier.generation
  <2>1. Len(slots) = Size
    BY DegreeIsSize DEF Barrier!ArriveLast
  <2> HIDE DEF slots
  <2>2. slots = Append(barrier.arrived, w)
    BY DEF slots
  <2> QED
    BY <1>1, <2>1, <2>2, ArrivalSlots
<1>3. /\ DOMAIN slots = 1..Size
      /\ \A i \in DOMAIN slots : slots[i] \in Workers
      /\ \A v \in Workers : \E i \in DOMAIN slots : slots[i] = v
  <2> HIDE DEF slots
  <2> QED
    BY <1>2, FullSlots
<1>4. \A v \in Workers \ {w} :
        /\ call[v].pc = "waiting" /\ call[v].generation = barrier.generation
        /\ call[v].stage = n /\ tensor[v] = {<<v, n>>}
  <2> SUFFICES ASSUME NEW v \in Workers \ {w}
               PROVE  /\ call[v].pc = "waiting" /\ call[v].generation = barrier.generation
                      /\ call[v].stage = n /\ tensor[v] = {<<v, n>>}
    OBVIOUS
  <2>1. call[v].pc = "waiting" /\ call[v].generation = barrier.generation
    BY <1>2, <1>3
  <2>2. InStep(v)
    BY DEF Together
  <2> QED
    BY <1>1, <2>1, <2>2 DEF InStep
<1>5. \A v \in Workers : given[v] = {<<v, n>>}
  BY <1>1, <1>4 DEF Barrier!Own
<1>6. sum = SumOf(n)
  <2> HIDE DEF slots, given, n
  <2>1. ASSUME NEW c \in sum PROVE c \in Workers \X {n}
    <3>1. PICK i \in DOMAIN slots : c \in given[slots[i]]
      OBVIOUS
    <3> QED
      BY <1>3, <1>5, <3>1
  <2>2. ASSUME NEW c \in Workers \X {n} PROVE c \in sum
    <3>1. PICK v \in Workers : c = <<v, n>>
      OBVIOUS
    <3>2. PICK i \in DOMAIN slots : slots[i] = v
      BY <1>3
    <3>3. c \in given[slots[i]]
      BY <1>5, <3>1, <3>2
    <3> QED
      BY <3>3
  <2> QED
    BY <2>1, <2>2 DEF SumOf
<1>7. \/ /\ Barrier!Returns(w, TRUE)
         /\ barrier' = [Barrier!NextRound(barrier) EXCEPT !.result = TRUE]
         /\ tensor' = Written(Size)
      \/ Barrier!Returns(w, FALSE)
  <2>1. \/ /\ Barrier!Returns(w, TRUE)
           /\ barrier' = [Barrier!NextRound(barrier) EXCEPT !.result = TRUE]
           /\ tensor' = Written(Barrier!Degree)
        \/ Barrier!Returns(w, FALSE)
    BY Zenon DEF Barrier!ArriveLast
  <2> QED
    BY <2>1, DegreeIsSize
<1>8. CASE Barrier!Returns(w, FALSE)
  <2>1. w \in running'
    BY <1>1, <1>8 DEF Barrier!Returns, Barrier!ReturnsTo, CallType
  <2> QED
    BY <1>1, <1>8, <2>1, FailedCallTogether
<1>9. CASE ~Barrier!Returns(w, FALSE)
  <2>1. /\ Barrier!Returns(w, TRUE)
        /\ barrier' = [Barrier!NextRound(barrier) EXCEPT !.result = TRUE]
        /\ tensor' = Written(Size)
    BY <1>7, <1>9
  <2>2. /\ barrier'.generation = n /\ barrier'.result = TRUE /\ barrier'.arrived = << >>
    BY <1>1, <2>1 DEF Barrier!NextRound, SlotsType
  <2>3. /\ call'[w].pc = "out" /\ call'[w].stage = n + 1
        /\ \A v \in Workers \ {w} : call'[v] = call[v]
    BY <1>1, <2>1, SucceedingCall
  <2>4. DOMAIN tensor' = Workers /\ \A v \in Workers : tensor'[v] = SumOf(n)
    BY <1>3, <1>6, <2>1
  <2>5. \A v \in Workers : InStep(v)'
    <3>1. InStep(w)'
      BY <1>1, <2>2, <2>3, <2>4 DEF InStep, SumOf
    <3>2. \A v \in Workers \ {w} : InStep(v)'
      BY <1>1, <1>4, <2>2, <2>3, <2>4 DEF InStep, SumOf
    <3> QED
      BY <3>1, <3>2
  <2>6. RoundIsNext'
    BY <2>2 DEF RoundIsNext
  <2>7. \A v \in Workers : worker'[v].pc # "work" => PassIsOver(v)'
    BY <1>1, <2>3 DEF Together, PassIsOver
  <2> QED
    BY <2>4, <2>5, <2>6, <2>7 DEF Together
<1> QED
  BY <1>8, <1>9

(* Who wakes up late has been reduced. *)
LEMMA WakeUpTogether ==
  ASSUME Inside, Together, NEW w \in running, UNCHANGED worker,
         Barrier!WakeUp(w), worker[w].pc = "work", w \in running' \/ call'[w].pc = "out"
  PROVE  Troubled' \/ Together'
<1>1. /\ w \in Workers /\ call[w].pc = "waiting"
      /\ barrier.generation > call[w].generation
      /\ barrier \in SlotsType /\ barrier.generation \in Nat /\ call[w].generation \in Nat
      /\ Barrier!Returns(w, barrier.result) /\ UNCHANGED <<barrier, tensor>>
  BY DEF Inside, Barrier!WakeUp, Barrier!Waiting, SlotsType, CallType
<1>2. barrier.generation > 0 /\ barrier.result = TRUE
  BY <1>1 DEF Together, RoundIsNext, SlotsType
<1>3. call[w].stage = barrier.generation /\ tensor[w] = SumOf(barrier.generation)
  BY <1>1 DEF Together, InStep
<1>4. /\ call'[w].pc = "out" /\ call'[w].stage = call[w].stage + 1
      /\ \A v \in Workers \ {w} : call'[v] = call[v]
  BY <1>1, <1>2, SucceedingCall
<1>5. \A v \in Workers : InStep(v)'
  BY <1>1, <1>3, <1>4 DEF Together, InStep, SumOf
<1>6. RoundIsNext'
  BY <1>1 DEF Together, RoundIsNext
<1>7. \A v \in Workers : worker'[v].pc # "work" => PassIsOver(v)'
  BY <1>1, <1>4 DEF Together, PassIsOver
<1> QED
  BY <1>1, <1>5, <1>6, <1>7 DEF Together

LEMMA CollectiveTogether ==
  ASSUME ForwardIInv, Aftermath, NEW w \in Workers, Collective(w)
  PROVE  StaysTogether
<1>1. /\ w \in running /\ worker[w].pc = "work"
      /\ Barrier!BarrierStep(w)
      /\ running' = IF call'[w].pc = "out" THEN running \ {w} ELSE running
      /\ UNCHANGED <<worker, generation, aborts, abortRequested>>
  BY DEF Collective, poolVars, At
<1>2. Inside /\ call \in [Workers -> CallType]
  BY DEF ForwardIInv, Inside
<1>3. call[w].pc # "failed" /\ \A v \in Workers \ {w} : call'[v] = call[v]
  BY <1>1, <1>2 DEF Barrier!BarrierStep, Barrier!ArriveMismatched, Barrier!ArriveAndWait,
     Barrier!ArriveLast, Barrier!WakeUp, Barrier!GiveUp, Barrier!Waiting, Barrier!Returns
<1>4. \A v \in Workers : Failing(v) => Failing(v)'
  BY <1>1, <1>3 DEF Failing
<1>5. Troubled => Troubled'
  BY <1>1, <1>4 DEF Troubled, HasFailed
<1>6. ASSUME NEW v \in Workers, call'[v].pc = "failed" PROVE Troubled'
  <2>1. CASE v = w
    BY <1>1, <1>6, <2>1 DEF Troubled, Failing
  <2>2. CASE v # w
    BY <1>3, <1>5, <1>6, <2>2 DEF Aftermath
  <2> QED
    BY <2>1, <2>2
<1>7. Aftermath'
  BY <1>1, <1>6 DEF Aftermath
<1>8. w \in running' \/ call'[w].pc = "out"
  BY <1>1
<1>9. ASSUME Together PROVE Troubled' \/ Together'
  <2>1. CASE Barrier!ArriveMismatched(w)
    BY <1>9, <2>1, NoMismatch DEF Barrier!ArriveMismatched
  <2>2. CASE Barrier!ArriveAndWait(w)
    BY <1>1, <1>2, <1>9, <2>2, ArriveAndWaitTogether
  <2>3. CASE Barrier!ArriveLast(w)
    BY <1>1, <1>2, <1>8, <1>9, <2>3, ArriveLastTogether
  <2>4. CASE Barrier!WakeUp(w)
    BY <1>1, <1>2, <1>8, <1>9, <2>4, WakeUpTogether
  <2>5. CASE Barrier!GiveUp(w)
    <3>1. Barrier!Returns(w, FALSE)
      BY <2>5 DEF Barrier!GiveUp
    <3>2. w \in running'
      BY <1>2, <1>8, <3>1 DEF Barrier!Returns, Barrier!ReturnsTo, CallType
    <3> QED
      BY <1>2, <3>1, <3>2, FailedCallTogether
  <2> QED
    BY <1>1, <2>1, <2>2, <2>3, <2>4, <2>5 DEF Barrier!BarrierStep
<1> QED
  BY <1>5, <1>7, <1>9 DEF StaysTogether

LEMMA InitTogether == ForwardInit => PassIInv
<1> SUFFICES ASSUME ForwardInit PROVE PassIInv
  OBVIOUS
<1>1. ForwardIInv
  BY InitForward
<1>2. Aftermath
  BY DEF ForwardInit, PoolInit, Barrier!BarrierInit, Aftermath
<1>3. Together
  BY ForwardAssumption
     DEF ForwardInit, PoolInit, Barrier!BarrierInit, Together, InStep, RoundIsNext, PassIsOver
<1> QED
  BY <1>1, <1>2, <1>3 DEF PassIInv

LEMMA StepTogether ==
  ASSUME PassIInv, CollectTimeout = FALSE, [ForwardNext]_forwardVars
  PROVE  PassIInv'
<1>1. ForwardIInv /\ Aftermath /\ (Troubled \/ Together) /\ ForwardIInv'
  BY StepForward DEF PassIInv
<1>2. ASSUME NEW w \in Workers, ForwardStep(w) PROVE StaysTogether
  BY <1>1, <1>2, PoolWorkerTogether, RequestAbortTogether, BeginForwardTogether,
     StartStageTogether, CancelForwardTogether, CollectiveTogether, FailStageTogether,
     FinishForwardTogether DEF ForwardStep
<1>3. CASE UNCHANGED forwardVars
  <2>1. /\ UNCHANGED <<barrier, call, tensor, abortRequested, running>>
        /\ UNCHANGED <<worker, generation, aborts>>
    BY <1>3 DEF forwardVars, poolVars, barrierVars
  <2>2. Troubled <=> Troubled'
    BY <2>1 DEF Troubled, HasFailed, Failing
  <2>3. Aftermath'
    BY <1>1, <2>1, <2>2 DEF Aftermath
  <2>4. Together => Together'
    BY <2>1, BarrierAlone DEF Together, PassIsOver
  <2> QED
    BY <1>1, <2>2, <2>3, <2>4 DEF PassIInv
<1>4. CASE ForwardNext
  <2>1. StaysTogether
    BY <1>1, <1>2, <1>4, CallerTogether DEF ForwardNext
  <2> QED
    BY <1>1, <2>1 DEF PassIInv, StaysTogether
<1> QED
  BY <1>3, <1>4

LEMMA PassInvariant == CollectTimeout = FALSE /\ ForwardSpec => []PassIInv
<1>1. SUFFICES ASSUME CollectTimeout = FALSE PROVE ForwardSpec => []PassIInv
  OBVIOUS
<1>2. PassIInv /\ [ForwardNext]_forwardVars => PassIInv'
  BY <1>1, StepTogether
<1> QED
  BY <1>2, InitTogether, PTL DEF ForwardSpec

(* Where a pass has succeeded nothing has failed, and everyone stands      *)
(* behind its last stage.                                                  *)
LEMMA PassIInvImplies == PassIInv => SuccessMeansReduced
<1> SUFFICES ASSUME PassIInv, Succeeded, NEW w \in Workers
             PROVE  tensor[w] = Workers \X {generation * PerForward}
  BY DEF SuccessMeansReduced
<1>1. Collected /\ ForwardIInv /\ PoolIInv
  BY DEF Succeeded, PassIInv, ForwardIInv
<1>2. ~abortRequested /\ running = {}
  BY <1>1, ForwardIInvImplies DEF AbortIsFinal, NobodyLeftInBarrier
<1>3. generation \in Nat /\ generation > 0 /\ Counted = Workers
  BY <1>1, PoolAssumption DEF Collected, PoolIInv, PoolTypeOK, Complete, Over
<1>4. \A v \in Workers : /\ worker[v].seen = generation /\ worker[v].pc # "work"
                         /\ worker[v].ok
  BY <1>1, <1>3, PoolIInvImplies DEF Counted, Succeeded, SuccessMeansAllSucceeded
<1>5. Together
  BY <1>2, <1>4 DEF PassIInv, Troubled, HasFailed, Failing
<1>6. call[w].pc = "out" /\ call[w].stage = generation * PerForward + 1
  BY <1>4, <1>5 DEF Together, PassIsOver
<1>7. generation * PerForward \in Nat /\ generation * PerForward > 0
  <2>1. PerForward \in Nat /\ PerForward > 0
    BY ForwardAssumption
  <2> QED
    BY <1>3, <2>1
<1>8. InStep(w) /\ barrier.generation \in Nat
  BY <1>1, <1>5 DEF Together, ForwardIInv, Inside, SlotsType
<1>9. barrier.generation = generation * PerForward /\ tensor[w] = SumOf(barrier.generation)
  BY <1>6, <1>7, <1>8 DEF InStep
<1> QED
  BY <1>9 DEF SumOf

(* A forward pass reported as a success has reduced every device's tensor  *)
(* in its last stage: for any number of devices, stages and passes, with   *)
(* waits that time out and copies that fail.                               *)
THEOREM SuccessMeansReducedHolds ==
  CollectTimeout = FALSE /\ ForwardSpec => []SuccessMeansReduced
BY PassInvariant, PassIInvImplies, PTL
=============================================================================
