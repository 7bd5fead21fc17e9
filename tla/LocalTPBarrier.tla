--------------------------- MODULE LocalTPBarrier ---------------------------
(***************************************************************************)
(* The allreduce of host-memory tensor parallelism:                        *)
(* LocalTPContext::allreduceCpuBarrier(). Each device thread arrives with  *)
(* its tensor; the last to arrive sums the tensors and writes the sum back *)
(* into all of them; the others wait, with a timeout, for the generation   *)
(* to advance.                                                             *)
(*                                                                         *)
(* Everything happens under barrier_mutex_, so an arrival is one step and  *)
(* so is a return from the wait. barrier_count_ and barrier_tensors_ are   *)
(* one sequence, in arrival order. A tensor is the set of contributions    *)
(* summed in it, each named by its thread and stage: a thread arrives with *)
(* its own partial result alone in the tensor.                             *)
(*                                                                         *)
(* Every thread calls it for the stages 1..Stages in order. Stages of      *)
(* successive forward passes are numbered on; the barrier compares their   *)
(* names, and calls without one match all. A call that returns false       *)
(* leaves nothing behind in the context: the next call is like any other,  *)
(* for the next stage, while the other threads are wherever they are.      *)
(***************************************************************************)
EXTENDS Naturals, Sequences, FiniteSets

CONSTANTS
  Participants,  \* device threads
  Stages,        \* collective stages, over all forward passes
  NameOf,        \* stage -> stage_name
  Unnamed,       \* the empty name
  TimesOut,      \* BARRIER_TIMEOUT may expire
  StagingFails   \* a copy to or from host memory may fail

ASSUME BarrierAssumption ==
  /\ IsFiniteSet(Participants) /\ Cardinality(Participants) > 1
  /\ Stages \in Nat
  /\ 1..Stages \subseteq DOMAIN NameOf
  /\ {TimesOut, StagingFails} \subseteq BOOLEAN

VARIABLES
  barrier,  \* the barrier_ fields of the context
  call,     \* thread -> where it is, and the generation it waits for
  tensor    \* thread -> what is summed in its tensor

barrierVars == <<barrier, call, tensor>>

Degree == Cardinality(Participants)
Own(p) == {<<p, call[p].stage>>}
Waiting(p) == call[p].pc = "waiting"

BarrierTypeOK ==
  /\ barrier \in [arrived : Seq(Participants), generation : Nat,
                  stage : 0..Stages, result : BOOLEAN]
  /\ call \in [Participants ->
                 [pc : {"out", "waiting", "failed"}, stage : 1..(Stages + 1),
                  generation : Nat]]
  /\ tensor \in [Participants -> SUBSET (Participants \X (1..Stages))]

BarrierInit ==
  /\ barrier = [arrived |-> << >>, generation |-> 0, stage |-> 0, result |-> FALSE]
  /\ call = [p \in Participants |-> [pc |-> "out", stage |-> 1, generation |-> 0]]
  /\ tensor = [p \in Participants |-> {}]

-----------------------------------------------------------------------------

(* Opening the next generation: what every way out of a round does. *)
NextRound(b) ==
  [b EXCEPT !.arrived = << >>, !.generation = @ + 1, !.stage = 0]

ReturnsTo(c, ok) ==
  IF ok THEN [c EXCEPT !.pc = "out", !.stage = @ + 1]
        ELSE [c EXCEPT !.pc = "failed"]

Returns(p, ok) == call' = [call EXCEPT ![p] = ReturnsTo(@, ok)]

(* Mutant: stage names are not compared. *)
NoMismatch(p) == FALSE

(* Two stages would meet in one round. *)
Mismatch(p) ==
  LET name == NameOf[call[p].stage]
  IN /\ barrier.arrived # << >>
     /\ Unnamed \notin {NameOf[barrier.stage], name}
     /\ NameOf[barrier.stage] # name

(* The round is abandoned; its result is left as it was. *)
ArriveMismatched(p) ==
  /\ call[p].pc = "out" /\ call[p].stage <= Stages
  /\ Mismatch(p)
  /\ barrier' = NextRound(barrier)
  /\ tensor' = [tensor EXCEPT ![p] = Own(p)]
  /\ Returns(p, FALSE)

(* The first to arrive names the round. *)
RoundStage(p) == IF barrier.arrived = << >> THEN call[p].stage ELSE barrier.stage

(* The first arrivals take a slot and wait. *)
ArriveAndWait(p) ==
  /\ call[p].pc = "out" /\ call[p].stage <= Stages
  /\ ~Mismatch(p)
  /\ Len(barrier.arrived) + 1 < Degree
  /\ barrier' = [barrier EXCEPT !.arrived = Append(@, p), !.stage = RoundStage(p)]
  /\ tensor' = [tensor EXCEPT ![p] = Own(p)]
  /\ call' = [call EXCEPT ![p].pc = "waiting", ![p].generation = barrier.generation]

(* The last arrival reduces: all tensors are staged and summed, then       *)
(* written back in slot order. A copy may fail on the way, with the first  *)
(* written slots holding the sum already.                                  *)
ArriveLast(p) ==
  LET slots   == Append(barrier.arrived, p)
      SlotOf(q) == CHOOSE i \in DOMAIN slots : slots[i] = q
      given   == [tensor EXCEPT ![p] = Own(p)]
      sum     == UNION {given[slots[i]] : i \in DOMAIN slots}
      Written(n) == [q \in Participants |->
                       IF \E i \in 1..n : slots[i] = q THEN sum ELSE given[q]]
  IN /\ call[p].pc = "out" /\ call[p].stage <= Stages
     /\ ~Mismatch(p)
     /\ Len(slots) = Degree
     /\ \/ /\ barrier' = [NextRound(barrier) EXCEPT !.result = TRUE]
           /\ tensor' = Written(Degree)
           /\ Returns(p, TRUE)
        \/ /\ StagingFails
           /\ barrier' = [NextRound(barrier) EXCEPT !.result = FALSE]
           /\ \E written \in 0..(Degree - 1) : tensor' = Written(written)
           /\ Returns(p, FALSE)

(* Mutant: whoever is woken returns true. *)
WakeUpTrue(p) ==
  /\ Waiting(p) /\ barrier.generation > call[p].generation
  /\ Returns(p, TRUE)
  /\ UNCHANGED <<barrier, tensor>>

(* Mutant: a waiter is woken by the next generation only. *)
WakeUpNextOnly(p) ==
  /\ Waiting(p) /\ barrier.generation = call[p].generation + 1
  /\ Returns(p, barrier.result)
  /\ UNCHANGED <<barrier, tensor>>

(* wait_for() found the generation advanced: barrier_result_ is returned.  *)
WakeUp(p) ==
  /\ Waiting(p) /\ barrier.generation > call[p].generation
  /\ Returns(p, barrier.result)
  /\ UNCHANGED <<barrier, tensor>>

(* Mutant: who times out leaves its slot behind. *)
GiveUpAlone(p) ==
  /\ TimesOut
  /\ Waiting(p) /\ barrier.generation = call[p].generation
  /\ Returns(p, FALSE)
  /\ UNCHANGED <<barrier, tensor>>

(* Mutant: who times out returns the last result. *)
GiveUpReturnsResult(p) ==
  /\ TimesOut
  /\ Waiting(p) /\ barrier.generation = call[p].generation
  /\ barrier' = NextRound(barrier)
  /\ Returns(p, barrier.result)
  /\ UNCHANGED tensor

(* wait_for() expired: the round is abandoned for all who wait in it.      *)
GiveUp(p) ==
  /\ TimesOut
  /\ Waiting(p) /\ barrier.generation = call[p].generation
  /\ barrier' = NextRound(barrier)
  /\ Returns(p, FALSE)
  /\ UNCHANGED tensor

BarrierStep(p) ==
  \/ ArriveMismatched(p) \/ ArriveAndWait(p) \/ ArriveLast(p)
  \/ WakeUp(p) \/ GiveUp(p)

(* The caller of a failed allreduce goes on with its next stage.           *)
GoOn(p) ==
  /\ call[p].pc = "failed" /\ call[p].stage <= Stages
  /\ call' = [call EXCEPT ![p].pc = "out", ![p].stage = @ + 1]
  /\ UNCHANGED <<barrier, tensor>>

BarrierNext == \E p \in Participants : BarrierStep(p) \/ GoOn(p)

BarrierSpec == BarrierInit /\ [][BarrierNext]_barrierVars

-----------------------------------------------------------------------------
(* Properties. *)

(* barrier_tensors_ holds raw pointers into the threads' tensors: whoever  *)
(* is in it, once, still waits in that round's call, so the last arrival   *)
(* never touches the tensor of a thread that has returned.                 *)
SlotsAreWaiting ==
  /\ \A p \in Participants :
       (\E i \in DOMAIN barrier.arrived : barrier.arrived[i] = p)
         <=> Waiting(p) /\ call[p].generation = barrier.generation
  /\ \A i, j \in DOMAIN barrier.arrived :
       barrier.arrived[i] = barrier.arrived[j] => i = j
  /\ Len(barrier.arrived) < Degree

(* A sum has exactly one contribution of every thread, all of one stage:   *)
(* a thread that runs ahead or behind is never summed with the others.     *)
SumsOneStage ==
  \A p \in Participants :
    Cardinality(tensor[p]) > 1 =>
      \E s \in 1..Stages : tensor[p] = Participants \X {s}

(* An allreduce that returns true has reduced the caller's tensor.         *)
TrueMeansReduced ==
  [][\A p \in Participants :
       call[p].pc # "failed" /\ call'[p].stage > call[p].stage =>
         tensor'[p] = Participants \X {call[p].stage}]_barrierVars

(* A thread that waits does not wait for ever, whatever the others do.     *)
WaitsEnd == \A p \in Participants : Waiting(p) ~> ~Waiting(p)

=============================================================================
