---------------------------- MODULE TPWorkerPool ----------------------------
(***************************************************************************)
(* TPWorkerPool: the persistent threads that run one forward pass per      *)
(* tensor-parallel device, and the caller that dispatches a step to all of *)
(* them and collects their results (RankOrchestrator::forwardTP).          *)
(*                                                                         *)
(* generation_, shutdown_ and the reset of the results change, and are     *)
(* tested by the workers, under mutex_, and are always followed by         *)
(* notify_all(): a worker's wait is its predicate. The collector's side is *)
(* not like that: completed_count_ changes outside collect_mutex_, so the  *)
(* test of the predicate and the blocking that follows are two steps, and  *)
(* a notification between them is lost.                                    *)
(***************************************************************************)
EXTENDS Naturals, FiniteSets

CONSTANTS
  Workers,         \* worker threads
  MaxSteps,        \* bound on the steps dispatched
  CollectTimeout,  \* tp_collect_timeout_ms > 0
  None

ASSUME PoolAssumption ==
  /\ IsFiniteSet(Workers) /\ Workers # {}
  /\ None \notin Workers
  /\ MaxSteps \in Nat
  /\ CollectTimeout \in BOOLEAN

VARIABLES
  generation,    \* steps dispatched so far
  shutdown,      \* the destructor has run
  results,       \* worker -> results_[worker], with the step it is for
  completed,     \* completed_count_
  firstFailure,  \* first_failure_index_
  aborts,        \* steps in which the failure callback ran
  worker,        \* worker -> program counter, last_gen, and what fn returned
  caller         \* program counter, the results it got, whether it timed out

poolVars == <<generation, shutdown, results, completed, firstFailure, aborts,
              worker, caller>>

Size == Cardinality(Workers)
Blank == [step |-> 0, done |-> FALSE, ok |-> FALSE]

PoolTypeOK ==
  /\ generation \in 0..MaxSteps /\ shutdown \in BOOLEAN
  /\ results \in [Workers -> [step : 0..MaxSteps, done : BOOLEAN, ok : BOOLEAN]]
  /\ completed \in 0..Size
  /\ firstFailure \in Workers \cup {None}
  /\ aborts \subseteq 1..MaxSteps
  /\ worker \in [Workers ->
       [pc : {"wait", "work", "failed", "abort", "store", "count", "notify", "gone"},
        seen : 0..MaxSteps, ok : BOOLEAN]]
  /\ caller \in
       [pc : {"idle", "test", "blocking", "blocked", "copy", "aborted", "join", "end"},
        got : [Workers -> [step : 0..MaxSteps, done : BOOLEAN, ok : BOOLEAN]],
        expired : BOOLEAN]

PoolInit ==
  /\ generation = 0 /\ shutdown = FALSE
  /\ results = [w \in Workers |-> Blank]
  /\ completed = 0 /\ firstFailure = None /\ aborts = {}
  /\ worker = [w \in Workers |-> [pc |-> "wait", seen |-> 0, ok |-> FALSE]]
  /\ caller = [pc |-> "idle", got |-> [w \in Workers |-> Blank], expired |-> FALSE]

-----------------------------------------------------------------------------
(* workerLoop() *)

Alive == caller.pc # "aborted"
At(w, pc) == Alive /\ worker[w].pc = pc
Goto(w, pc) == worker' = [worker EXCEPT ![w].pc = pc]

TakeWork(w) ==
  /\ At(w, "wait") /\ ~shutdown /\ generation > worker[w].seen
  /\ worker' = [worker EXCEPT ![w].pc = "work", ![w].seen = generation, ![w].ok = FALSE]
  /\ UNCHANGED <<generation, shutdown, results, completed, firstFailure, aborts, caller>>

(* Mutant: a worker leaves only when it has new work. *)
ExitAfterWork(w) ==
  /\ At(w, "wait") /\ shutdown /\ generation > worker[w].seen
  /\ Goto(w, "gone")
  /\ UNCHANGED <<generation, shutdown, results, completed, firstFailure, aborts, caller>>

Exit(w) ==
  /\ At(w, "wait") /\ shutdown
  /\ Goto(w, "gone")
  /\ UNCHANGED <<generation, shutdown, results, completed, firstFailure, aborts, caller>>

(* fn(index) returned ok, returned false, or threw. *)
Finish(w, ok) ==
  /\ At(w, "work")
  /\ worker' = [worker EXCEPT ![w].pc = IF ok THEN "store" ELSE "failed", ![w].ok = ok]
  /\ UNCHANGED <<generation, shutdown, results, completed, firstFailure, aborts, caller>>

(* Only the first failure of a step calls the failure callback. *)
RecordFailure(w) ==
  /\ At(w, "failed")
  /\ firstFailure' = IF firstFailure = None THEN w ELSE firstFailure
  /\ Goto(w, IF firstFailure = None THEN "abort" ELSE "store")
  /\ UNCHANGED <<generation, shutdown, results, completed, aborts, caller>>

InvokeFailureCallback(w) ==
  /\ At(w, "abort")
  /\ aborts' = aborts \cup {worker[w].seen}
  /\ Goto(w, "store")
  /\ UNCHANGED <<generation, shutdown, results, completed, firstFailure, caller>>

ResultOf(w) == [step |-> worker[w].seen, done |-> TRUE, ok |-> worker[w].ok]

StoreResult(w) ==
  /\ At(w, "store")
  /\ results' = [results EXCEPT ![w] = ResultOf(w)]
  /\ Goto(w, "count")
  /\ UNCHANGED <<generation, shutdown, completed, firstFailure, aborts, caller>>

CountCompleted(w) ==
  /\ At(w, "count")
  /\ completed' = completed + 1
  /\ Goto(w, IF completed + 1 >= Size THEN "notify" ELSE "wait")
  /\ UNCHANGED <<generation, shutdown, results, firstFailure, aborts, caller>>

(* notify_one() wakes a collector that is blocked, and only such a one. *)
NotifyCollector(w) ==
  /\ At(w, "notify")
  /\ caller' = [caller EXCEPT !.pc = IF @ = "blocked" THEN "test" ELSE @]
  /\ Goto(w, "wait")
  /\ UNCHANGED <<generation, shutdown, results, completed, firstFailure, aborts>>

WorkerStep(w) ==
  \/ TakeWork(w) \/ Exit(w) \/ RecordFailure(w) \/ InvokeFailureCallback(w)
  \/ StoreResult(w) \/ CountCompleted(w) \/ NotifyCollector(w)

-----------------------------------------------------------------------------
(* The caller: dispatch(), then collectAll(), then the results. *)

Continue(pc) == caller' = [caller EXCEPT !.pc = pc]

(* Mutant: nothing but first_failure_index_ is reset. *)
DispatchWithoutReset ==
  /\ caller.pc = "idle" /\ generation < MaxSteps
  /\ generation' = generation + 1
  /\ firstFailure' = None
  /\ caller' = [caller EXCEPT !.pc = "test", !.expired = FALSE]
  /\ UNCHANGED <<shutdown, results, completed, aborts, worker>>

(* Mutant: first_failure_index_ is not reset. *)
DispatchKeepsFailure ==
  /\ caller.pc = "idle" /\ generation < MaxSteps
  /\ generation' = generation + 1
  /\ results' = [w \in Workers |-> Blank]
  /\ completed' = 0
  /\ caller' = [caller EXCEPT !.pc = "test", !.expired = FALSE]
  /\ UNCHANGED <<shutdown, firstFailure, aborts, worker>>

Dispatch ==
  /\ caller.pc = "idle" /\ generation < MaxSteps
  /\ generation' = generation + 1
  /\ results' = [w \in Workers |-> Blank]
  /\ completed' = 0 /\ firstFailure' = None
  /\ caller' = [caller EXCEPT !.pc = "test", !.expired = FALSE]
  /\ UNCHANGED <<shutdown, aborts, worker>>

TestCompleted ==
  /\ caller.pc = "test"
  /\ Continue(IF completed >= Size THEN "copy" ELSE "blocking")
  /\ UNCHANGED <<generation, shutdown, results, completed, firstFailure, aborts, worker>>

Block ==
  /\ caller.pc = "blocking"
  /\ Continue("blocked")
  /\ UNCHANGED <<generation, shutdown, results, completed, firstFailure, aborts, worker>>

SpuriousWakeup ==
  /\ caller.pc = "blocked"
  /\ Continue("test")
  /\ UNCHANGED <<generation, shutdown, results, completed, firstFailure, aborts, worker>>

(* Mutant: a collector that blocks has no timeout. *)
ExpireBeforeBlocking ==
  /\ CollectTimeout
  /\ caller.pc = "blocking"
  /\ caller' = [caller EXCEPT !.pc = "copy", !.expired = TRUE]
  /\ UNCHANGED <<generation, shutdown, results, completed, firstFailure, aborts, worker>>

(* wait_for() gives up; it returns to the copy whatever the count is.      *)
Expire ==
  /\ CollectTimeout
  /\ caller.pc \in {"blocking", "blocked"}
  /\ caller' = [caller EXCEPT !.pc = "copy", !.expired = TRUE]
  /\ UNCHANGED <<generation, shutdown, results, completed, firstFailure, aborts, worker>>

(* What the copy of results_[w] may read. After a timeout a worker may be  *)
(* writing it: the old value, the new one, or its fields mixed.            *)
MayRead(w) ==
  IF worker[w].pc = "store"
    THEN {results[w], ResultOf(w)} \cup
         [step : {worker[w].seen}, done : {results[w].done, TRUE},
          ok : {results[w].ok, worker[w].ok}]
    ELSE {results[w]}

(* A worker that is not done after a timeout ends the process; without     *)
(* one it makes the step fail.                                             *)
CopyResults ==
  /\ caller.pc = "copy"
  /\ \E got \in [Workers -> UNION {MayRead(w) : w \in Workers}] :
       /\ \A w \in Workers : got[w] \in MayRead(w)
       /\ LET partial == \E w \in Workers : ~got[w].done
          IN /\ caller' = [caller EXCEPT
                  !.got = got,
                  !.pc = IF partial /\ CollectTimeout THEN "aborted" ELSE "idle"]
             /\ aborts' = IF partial THEN aborts \cup {generation} ELSE aborts
  /\ UNCHANGED <<generation, shutdown, results, completed, firstFailure, worker>>

Destroy ==
  /\ caller.pc = "idle"
  /\ shutdown' = TRUE
  /\ Continue("join")
  /\ UNCHANGED <<generation, results, completed, firstFailure, aborts, worker>>

Join ==
  /\ caller.pc = "join" /\ \A w \in Workers : worker[w].pc = "gone"
  /\ Continue("end")
  /\ UNCHANGED <<generation, shutdown, results, completed, firstFailure, aborts, worker>>

CallerStep == TestCompleted \/ Block \/ Expire \/ CopyResults \/ Join

PoolNext ==
  \/ \E w \in Workers : WorkerStep(w) \/ \E ok \in BOOLEAN : Finish(w, ok)
  \/ CallerStep \/ SpuriousWakeup \/ Dispatch \/ Destroy

PoolSpec == PoolInit /\ [][PoolNext]_poolVars

(* Threads are scheduled, forward passes return, waits with a timeout end. *)
FairPoolSpec ==
  /\ PoolSpec
  /\ WF_poolVars(CallerStep)
  /\ \A w \in Workers :
       WF_poolVars(WorkerStep(w) \/ \E ok \in BOOLEAN : Finish(w, ok))

-----------------------------------------------------------------------------
(* Properties. *)

Collected == caller.pc = "idle" /\ generation > 0

(* The step is reported a success only if every worker has run this very   *)
(* step and its forward returned true: nothing is left over from the step  *)
(* before, and nobody is missing. (RankOrchestrator::forwardTP reads the   *)
(* vector collectAll() returns and nothing else.)                          *)
SuccessMeansAllSucceeded ==
  Collected /\ (\A w \in Workers : caller.got[w].done /\ caller.got[w].ok) =>
    \A w \in Workers : worker[w].seen = generation /\ worker[w].ok

(* collectAll() without a timeout returns complete results only. *)
CollectsAll ==
  Collected => \A w \in Workers : caller.got[w].done /\ caller.got[w].step = generation

(* A failed step has aborted the collectives before it is collected, so    *)
(* that no worker stays behind in one.                                     *)
FailureAborts ==
  Collected /\ (\E w \in Workers : ~caller.got[w].ok) => generation \in aborts

(* A step that was dispatched is collected. *)
StepsReturn == caller.pc = "test" ~> caller.pc \in {"idle", "aborted", "join", "end"}

(* The destructor joins its threads. *)
DestructorReturns == caller.pc = "join" ~> caller.pc = "end"

(* "If timeout expires with incomplete workers, returns partial results":  *)
(* the process is not aborted before the time is over.                     *)
PartialOnlyAfterTimeout == caller.pc = "aborted" => caller.expired

=============================================================================
