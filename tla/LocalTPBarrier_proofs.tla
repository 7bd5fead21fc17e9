----------------------- MODULE LocalTPBarrier_proofs -----------------------
(***************************************************************************)
(* Proofs about LocalTPBarrier for every set of threads and every number   *)
(* of stages, with timeouts and failing copies or without: its types, that *)
(* the raw pointers in barrier_tensors_ belong to threads that are still   *)
(* inside the call, what is summed, and what a result means.               *)
(*                                                                         *)
(* SlotsAreWaiting is not inductive alone: a thread could be waiting for a *)
(* generation that is yet to come, and be joined by that round later. The  *)
(* strengthening says that nobody does, and that who waits, waits in one   *)
(* of the stages.                                                          *)
(***************************************************************************)
EXTENDS LocalTPBarrierHistory, FiniteSetTheorems, TLAPS

WaitsForThePast ==
  \A p \in Participants :
    Waiting(p) => /\ call[p].generation <= barrier.generation
                  /\ call[p].stage <= Stages

BarrierIInv == BarrierTypeOK /\ WaitsForThePast /\ SlotsAreWaiting

BarrierType == [arrived : Seq(Participants), generation : Nat,
                stage : 0..Stages, result : BOOLEAN]

CallType == [pc : {"out", "waiting", "failed"}, stage : 1..(Stages + 1),
             generation : Nat]

(* More than one thread. *)
LEMMA DegreeType == Degree \in Nat /\ Degree > 1
BY BarrierAssumption, FS_CardinalityType DEF Degree

-----------------------------------------------------------------------------
(* Types. *)

LEMMA NextRoundType ==
  ASSUME BarrierTypeOK
  PROVE  /\ NextRound(barrier) \in BarrierType
         /\ NextRound(barrier).arrived = << >>
         /\ NextRound(barrier).generation = barrier.generation + 1
         /\ NextRound(barrier).result = barrier.result
<1>1. << >> \in Seq(Participants) /\ 0 \in 0..Stages
  BY BarrierAssumption
<1>2. /\ barrier.generation + 1 \in Nat
      /\ barrier.result \in BOOLEAN
      /\ barrier \in BarrierType
  BY DEF BarrierTypeOK, BarrierType
<1> QED
  BY <1>1, <1>2 DEF NextRound, BarrierType

(* A thread that returns has a stage to return from. *)
LEMMA ReturnsType ==
  ASSUME BarrierTypeOK, NEW p \in Participants, call[p].stage <= Stages,
         NEW ok \in BOOLEAN, Returns(p, ok)
  PROVE  /\ call' \in [Participants -> CallType]
         /\ call'[p].pc # "waiting"
         /\ \A q \in Participants \ {p} : call'[q] = call[q]
<1>1. call[p] \in CallType /\ call \in [Participants -> CallType]
  BY DEF BarrierTypeOK, CallType
<1>2. ReturnsTo(call[p], ok) \in CallType
  <2>1. call[p].stage + 1 \in 1..(Stages + 1)
    BY <1>1, BarrierAssumption DEF CallType
  <2>2. CASE ok
    BY <1>1, <2>1, <2>2 DEF ReturnsTo, CallType
  <2>3. CASE ~ok
    BY <1>1, <2>3 DEF ReturnsTo, CallType
  <2> QED
    BY <2>2, <2>3
<1>3. ReturnsTo(call[p], ok).pc # "waiting"
  BY <1>1 DEF ReturnsTo, CallType
<1> QED
  BY <1>1, <1>2, <1>3 DEF Returns

LEMMA InitInvariant == BarrierInit => BarrierIInv
<1> SUFFICES ASSUME BarrierInit PROVE BarrierIInv
  OBVIOUS
<1>1. BarrierTypeOK
  BY BarrierAssumption DEF BarrierInit, BarrierTypeOK
<1>2. WaitsForThePast
  BY DEF BarrierInit, WaitsForThePast, Waiting
<1>3. SlotsAreWaiting
  BY DegreeType DEF BarrierInit, SlotsAreWaiting, Waiting
<1> QED
  BY <1>1, <1>2, <1>3 DEF BarrierIInv

(* Contributions stay contributions of the threads and stages. *)
LEMMA OwnType ==
  ASSUME BarrierTypeOK, NEW p \in Participants, call[p].stage <= Stages
  PROVE  Own(p) \in SUBSET (Participants \X (1..Stages))
<1>1. call[p].stage \in 1..Stages
  BY BarrierAssumption DEF BarrierTypeOK
<1> QED
  BY <1>1 DEF Own

-----------------------------------------------------------------------------
(* A round. *)

(* Whoever opens the next generation and returns leaves an empty slot list *)
(* and nobody who waits for the new round.                                 *)
LEMMA OpensNextRound ==
  ASSUME BarrierIInv, NEW p \in Participants, call[p].stage <= Stages,
         NEW ok \in BOOLEAN, Returns(p, ok),
         barrier'.arrived = << >>,
         barrier'.generation = barrier.generation + 1
  PROVE  WaitsForThePast' /\ SlotsAreWaiting'
<1>1. BarrierTypeOK /\ barrier.generation \in Nat
  BY DEF BarrierIInv, BarrierTypeOK
<1>2. /\ call'[p].pc # "waiting"
      /\ \A q \in Participants \ {p} : call'[q] = call[q]
  BY <1>1, ReturnsType
<1>3. \A q \in Participants : Waiting(q)' =>
        /\ q # p /\ Waiting(q)
        /\ call'[q].generation \in Nat
        /\ call'[q].generation <= barrier.generation
        /\ call'[q].stage <= Stages
  BY <1>1, <1>2 DEF BarrierIInv, BarrierTypeOK, WaitsForThePast, Waiting
<1>4. WaitsForThePast'
  BY <1>1, <1>3 DEF WaitsForThePast
<1>5. SlotsAreWaiting'
  <2>1. \A q \in Participants :
          ~(Waiting(q)' /\ call'[q].generation = barrier'.generation)
    BY <1>1, <1>3
  <2>2. DOMAIN barrier'.arrived = {} /\ Len(barrier'.arrived) = 0
    OBVIOUS
  <2>3. Degree' \in Nat /\ Degree' > 0
    BY DegreeType DEF Degree
  <2> QED
    BY <2>1, <2>2, <2>3 DEF SlotsAreWaiting
<1> QED
  BY <1>4, <1>5

LEMMA MismatchedKeepsInvariant ==
  ASSUME BarrierIInv, NEW p \in Participants, ArriveMismatched(p)
  PROVE  BarrierIInv'
<1>1. BarrierTypeOK /\ call[p].stage <= Stages /\ Returns(p, FALSE)
  BY DEF BarrierIInv, ArriveMismatched
<1>2. /\ barrier' \in BarrierType /\ barrier'.arrived = << >>
      /\ barrier'.generation = barrier.generation + 1
  BY <1>1, NextRoundType DEF ArriveMismatched
<1>3. call' \in [Participants -> CallType]
  BY <1>1, ReturnsType
<1>4. tensor' \in [Participants -> SUBSET (Participants \X (1..Stages))]
  BY <1>1, OwnType DEF ArriveMismatched, BarrierTypeOK
<1>5. WaitsForThePast' /\ SlotsAreWaiting'
  BY <1>1, <1>2, OpensNextRound
<1> QED
  BY <1>2, <1>3, <1>4, <1>5 DEF BarrierIInv, BarrierTypeOK, BarrierType, CallType

LEMMA GiveUpKeepsInvariant ==
  ASSUME BarrierIInv, NEW p \in Participants, GiveUp(p)
  PROVE  BarrierIInv'
<1>1. BarrierTypeOK /\ call[p].stage <= Stages /\ Returns(p, FALSE)
  BY DEF BarrierIInv, GiveUp, WaitsForThePast
<1>2. /\ barrier' \in BarrierType /\ barrier'.arrived = << >>
      /\ barrier'.generation = barrier.generation + 1
  BY <1>1, NextRoundType DEF GiveUp
<1>3. call' \in [Participants -> CallType]
  BY <1>1, ReturnsType
<1>4. tensor' \in [Participants -> SUBSET (Participants \X (1..Stages))]
  BY <1>1 DEF GiveUp, BarrierTypeOK
<1>5. WaitsForThePast' /\ SlotsAreWaiting'
  BY <1>1, <1>2, OpensNextRound
<1> QED
  BY <1>2, <1>3, <1>4, <1>5 DEF BarrierIInv, BarrierTypeOK, BarrierType, CallType

(* A thread that wakes up has no slot in the round that is filling.        *)
LEMMA WakeUpKeepsInvariant ==
  ASSUME BarrierIInv, NEW p \in Participants, WakeUp(p)
  PROVE  BarrierIInv'
<1>1. /\ BarrierTypeOK /\ call[p].stage <= Stages
      /\ barrier.result \in BOOLEAN /\ Returns(p, barrier.result)
      /\ UNCHANGED <<barrier, tensor>>
  BY DEF BarrierIInv, WakeUp, WaitsForThePast, BarrierTypeOK
<1>2. /\ call' \in [Participants -> CallType]
      /\ call'[p].pc # "waiting"
      /\ \A q \in Participants \ {p} : call'[q] = call[q]
  BY <1>1, ReturnsType
<1>3. WaitsForThePast'
  BY <1>1, <1>2 DEF BarrierIInv, WaitsForThePast, Waiting
<1>4. SlotsAreWaiting'
  <2>0. call[p].generation # barrier.generation
    BY <1>1 DEF WakeUp, BarrierTypeOK
  <2>1. ~(\E i \in DOMAIN barrier.arrived : barrier.arrived[i] = p)
    BY <2>0 DEF BarrierIInv, SlotsAreWaiting
  <2>2. \A q \in Participants :
          (\E i \in DOMAIN barrier'.arrived : barrier'.arrived[i] = q)
            <=> Waiting(q)' /\ call'[q].generation = barrier'.generation
    BY <1>1, <1>2, <2>1 DEF BarrierIInv, SlotsAreWaiting, Waiting
  <2> QED
    BY <1>1, <2>2 DEF BarrierIInv, SlotsAreWaiting, Degree
<1> QED
  BY <1>1, <1>2, <1>3, <1>4 DEF BarrierIInv, BarrierTypeOK, CallType

(* An arrival that waits takes a slot of its own. *)
LEMMA ArriveAndWaitKeepsInvariant ==
  ASSUME BarrierIInv, NEW p \in Participants, ArriveAndWait(p)
  PROVE  BarrierIInv'
<1>1. /\ barrier \in BarrierType /\ call \in [Participants -> CallType]
      /\ call[p].pc = "out" /\ call[p].stage <= Stages
      /\ BarrierTypeOK
  BY DEF BarrierIInv, ArriveAndWait, BarrierTypeOK, BarrierType, CallType
<1>2. /\ barrier.arrived \in Seq(Participants)
      /\ barrier.generation \in Nat /\ RoundStage(p) \in 0..Stages
  BY <1>1, BarrierAssumption DEF BarrierType, CallType, RoundStage
<1>3. /\ barrier' \in BarrierType
      /\ barrier'.arrived = Append(barrier.arrived, p)
      /\ barrier'.generation = barrier.generation
  <2>1. Append(barrier.arrived, p) \in Seq(Participants)
    BY <1>2
  <2> QED
    BY <1>1, <1>2, <2>1 DEF ArriveAndWait, BarrierType
<1>4. /\ call' \in [Participants -> CallType]
      /\ call'[p].pc = "waiting" /\ call'[p].generation = barrier.generation
      /\ call'[p].stage = call[p].stage
      /\ \A q \in Participants \ {p} : call'[q] = call[q]
  BY <1>1, <1>2 DEF ArriveAndWait, CallType
<1>5. tensor' \in [Participants -> SUBSET (Participants \X (1..Stages))]
  BY <1>1, OwnType DEF ArriveAndWait, BarrierTypeOK
<1>6. WaitsForThePast'
  BY <1>1, <1>2, <1>3, <1>4 DEF BarrierIInv, WaitsForThePast, Waiting
<1>7. SlotsAreWaiting'
  <2> DEFINE n == Len(barrier.arrived)
  <2>1. n \in Nat /\ DOMAIN barrier.arrived = 1..n
    BY <1>2
  <2>2. /\ DOMAIN barrier'.arrived = 1..(n + 1)
        /\ barrier'.arrived[n + 1] = p
        /\ \A i \in 1..n : barrier'.arrived[i] = barrier.arrived[i]
        /\ Len(barrier'.arrived) = n + 1
    BY <1>2, <1>3
  <2>3. \A i \in 1..n : barrier.arrived[i] # p
    BY <1>1, <2>1 DEF BarrierIInv, SlotsAreWaiting, Waiting
  <2>4. \A q \in Participants :
          (\E i \in DOMAIN barrier'.arrived : barrier'.arrived[i] = q)
            <=> Waiting(q)' /\ call'[q].generation = barrier'.generation
    <3> SUFFICES ASSUME NEW q \in Participants
                 PROVE  (\E i \in DOMAIN barrier'.arrived : barrier'.arrived[i] = q)
                          <=> Waiting(q)' /\ call'[q].generation = barrier'.generation
      OBVIOUS
    <3>1. CASE q = p
      BY <1>3, <1>4, <2>1, <2>2, <3>1 DEF Waiting
    <3>2. CASE q # p
      <4>1. (\E i \in DOMAIN barrier'.arrived : barrier'.arrived[i] = q)
              <=> (\E i \in 1..n : barrier.arrived[i] = q)
        <5>1. ASSUME NEW i \in DOMAIN barrier'.arrived, barrier'.arrived[i] = q
              PROVE  \E k \in 1..n : barrier.arrived[k] = q
          <6>1. i \in 1..n
            BY <2>1, <2>2, <3>2, <5>1
          <6> QED
            BY <2>2, <5>1, <6>1
        <5>2. ASSUME NEW i \in 1..n, barrier.arrived[i] = q
              PROVE  \E k \in DOMAIN barrier'.arrived : barrier'.arrived[k] = q
          <6>1. i \in DOMAIN barrier'.arrived /\ barrier'.arrived[i] = q
            BY <2>1, <2>2, <5>2
          <6> QED
            BY <6>1
        <5> QED
          BY <5>1, <5>2
      <4> QED
        BY <1>3, <1>4, <2>1, <3>2, <4>1 DEF BarrierIInv, SlotsAreWaiting, Waiting
    <3> QED
      BY <3>1, <3>2
  <2>5. \A i, j \in DOMAIN barrier'.arrived :
          barrier'.arrived[i] = barrier'.arrived[j] => i = j
    BY <2>1, <2>2, <2>3 DEF BarrierIInv, SlotsAreWaiting
  <2>6. Len(barrier'.arrived) < Degree'
    BY <2>2 DEF ArriveAndWait, Degree
  <2> QED
    BY <2>4, <2>5, <2>6 DEF SlotsAreWaiting
<1> QED
  BY <1>3, <1>4, <1>5, <1>6, <1>7 DEF BarrierIInv, BarrierTypeOK, BarrierType, CallType

(* The last arrival empties the round, whether its copies succeed or not.  *)
LEMMA ArriveLastKeepsInvariant ==
  ASSUME BarrierIInv, NEW p \in Participants, ArriveLast(p)
  PROVE  BarrierIInv'
<1> DEFINE Sums    == SUBSET (Participants \X (1..Stages))
           slots   == Append(barrier.arrived, p)
           given   == [tensor EXCEPT ![p] = Own(p)]
           sum     == UNION {given[slots[i]] : i \in DOMAIN slots}
           Written(n) == [q \in Participants |->
                            IF \E i \in 1..n : slots[i] = q THEN sum ELSE given[q]]
<1>1. /\ BarrierTypeOK /\ call[p].stage <= Stages
      /\ barrier.arrived \in Seq(Participants)
      /\ tensor \in [Participants -> Sums]
  BY DEF BarrierIInv, ArriveLast, BarrierTypeOK
<1>2. /\ NextRound(barrier) \in BarrierType
      /\ NextRound(barrier).arrived = << >>
      /\ NextRound(barrier).generation = barrier.generation + 1
  BY <1>1, NextRoundType
<1>3. given \in [Participants -> Sums]
  BY <1>1, OwnType
<1>4. sum \in Sums
  <2>1. slots \in Seq(Participants)
    BY <1>1
  <2>2. \A i \in DOMAIN slots : slots[i] \in Participants
    BY <2>1
  <2>3. \A i \in DOMAIN slots : given[slots[i]] \in Sums
    BY <1>3, <2>2
  <2> QED
    BY <2>3
<1>5. \A n \in Nat : Written(n) \in [Participants -> Sums]
  BY <1>3, <1>4
<1>6. PICK ok \in BOOLEAN, n \in Nat :
        /\ barrier' = [NextRound(barrier) EXCEPT !.result = ok]
        /\ tensor' = Written(n)
        /\ Returns(p, ok)
  <2>1. Degree \in Nat /\ 0..(Degree - 1) \subseteq Nat
    BY DegreeType
  <2> HIDE DEF Sums
  <2> QED
    BY <2>1 DEF ArriveLast
<1>7. /\ barrier' \in BarrierType /\ barrier'.arrived = << >>
      /\ barrier'.generation = barrier.generation + 1
  BY <1>2, <1>6 DEF BarrierType
<1>8. call' \in [Participants -> CallType]
  BY <1>1, <1>6, ReturnsType
<1>9. tensor' \in [Participants -> Sums]
  BY <1>5, <1>6
<1>10. WaitsForThePast' /\ SlotsAreWaiting'
  BY <1>1, <1>6, <1>7, OpensNextRound
<1> QED
  BY <1>7, <1>8, <1>9, <1>10 DEF BarrierIInv, BarrierTypeOK, BarrierType, CallType

(* A caller that goes on is outside the barrier before and after. *)
LEMMA GoesOn ==
  ASSUME BarrierTypeOK, NEW p \in Participants, GoOn(p)
  PROVE  /\ call' \in [Participants -> CallType]
         /\ call[p].pc = "failed" /\ call'[p].pc = "out"
         /\ call'[p].stage = call[p].stage + 1
         /\ \A q \in Participants \ {p} : call'[q] = call[q]
         /\ UNCHANGED <<barrier, tensor>>
<1>1. call \in [Participants -> CallType] /\ call[p] \in CallType
  BY DEF BarrierTypeOK, CallType
<1>2. call[p].stage + 1 \in 1..(Stages + 1)
  BY <1>1, BarrierAssumption DEF GoOn, CallType
<1> QED
  BY <1>1, <1>2 DEF GoOn, CallType

LEMMA GoOnKeepsInvariant ==
  ASSUME BarrierIInv, NEW p \in Participants, GoOn(p)
  PROVE  BarrierIInv'
<1>1. BarrierTypeOK /\ SlotsAreWaiting
  BY DEF BarrierIInv
<1>2. /\ call' \in [Participants -> CallType]
      /\ call[p].pc = "failed" /\ call'[p].pc = "out"
      /\ \A q \in Participants \ {p} : call'[q] = call[q]
      /\ barrier' = barrier /\ tensor' = tensor
  BY <1>1, GoesOn
<1>3. \A q \in Participants : /\ Waiting(q)' <=> Waiting(q)
                             /\ Waiting(q) => call'[q] = call[q]
  BY <1>2 DEF Waiting
<1>4. WaitsForThePast'
  BY <1>2, <1>3 DEF BarrierIInv, WaitsForThePast, Waiting
<1>5. SlotsAreWaiting'
  <2>1. ASSUME NEW q \in Participants
        PROVE  (Waiting(q)' /\ call'[q].generation = barrier'.generation)
                 <=> (Waiting(q) /\ call[q].generation = barrier.generation)
    BY <1>2, <1>3 DEF Waiting
  <2>2. \A q \in Participants :
          (\E i \in DOMAIN barrier'.arrived : barrier'.arrived[i] = q)
            <=> (Waiting(q)' /\ call'[q].generation = barrier'.generation)
    <3> SUFFICES ASSUME NEW q \in Participants
                 PROVE  (\E i \in DOMAIN barrier'.arrived : barrier'.arrived[i] = q)
                          <=> (Waiting(q)' /\ call'[q].generation = barrier'.generation)
      OBVIOUS
    <3>1. (\E i \in DOMAIN barrier.arrived : barrier.arrived[i] = q)
            <=> (Waiting(q) /\ call[q].generation = barrier.generation)
      BY <1>1 DEF SlotsAreWaiting
    <3> QED
      BY <1>2, <2>1, <3>1
  <2>3. /\ \A i, j \in DOMAIN barrier'.arrived :
             barrier'.arrived[i] = barrier'.arrived[j] => i = j
        /\ Len(barrier'.arrived) < Degree'
    BY <1>1, <1>2 DEF SlotsAreWaiting, Degree
  <2> QED
    BY <2>2, <2>3 DEF SlotsAreWaiting
<1>6. BarrierTypeOK'
  BY <1>1, <1>2 DEF BarrierTypeOK, CallType
<1> QED
  BY <1>4, <1>5, <1>6 DEF BarrierIInv

LEMMA StutterKeepsInvariant ==
  ASSUME BarrierIInv, UNCHANGED barrierVars
  PROVE  BarrierIInv'
BY DEF barrierVars, BarrierIInv, BarrierTypeOK, WaitsForThePast, SlotsAreWaiting,
       Waiting, Degree

-----------------------------------------------------------------------------
(* The results. *)

LEMMA NextKeepsInvariant == BarrierIInv /\ [BarrierNext]_barrierVars => BarrierIInv'
<1> SUFFICES ASSUME BarrierIInv, [BarrierNext]_barrierVars PROVE BarrierIInv'
  OBVIOUS
<1>1. CASE UNCHANGED barrierVars
  BY <1>1, StutterKeepsInvariant
<1>2. ASSUME NEW p \in Participants, BarrierStep(p) PROVE BarrierIInv'
  <2>1. CASE ArriveMismatched(p)
    BY <2>1, MismatchedKeepsInvariant
  <2>2. CASE ArriveAndWait(p)
    BY <2>2, ArriveAndWaitKeepsInvariant
  <2>3. CASE ArriveLast(p)
    BY <2>3, ArriveLastKeepsInvariant
  <2>4. CASE WakeUp(p)
    BY <2>4, WakeUpKeepsInvariant
  <2>5. CASE GiveUp(p)
    BY <2>5, GiveUpKeepsInvariant
  <2> QED
    BY <1>2, <2>1, <2>2, <2>3, <2>4, <2>5 DEF BarrierStep
<1> QED
  BY <1>1, <1>2, GoOnKeepsInvariant DEF BarrierNext

THEOREM BarrierInvariant == BarrierSpec => []BarrierIInv
<1>1. BarrierInit => BarrierIInv
  BY InitInvariant
<1>2. BarrierIInv /\ [BarrierNext]_barrierVars => BarrierIInv'
  BY NextKeepsInvariant
<1> QED
  BY <1>1, <1>2, PTL DEF BarrierSpec

(* The barrier's state is always well typed: in particular a thread that   *)
(* returns true is never sent past the last stage.                         *)
THEOREM BarrierTypeCorrect == BarrierSpec => []BarrierTypeOK
<1>1. BarrierIInv => BarrierTypeOK
  BY DEF BarrierIInv
<1> QED
  BY <1>1, BarrierInvariant, PTL

(* Every pointer in barrier_tensors_ belongs to exactly one thread, which  *)
(* is still inside allreduceCpuBarrier() waiting for this very round, and  *)
(* there is always room for one more: for any number of threads, with      *)
(* timeouts, stage mismatches and failing copies.                          *)
THEOREM SlotsAreWaitingHolds == BarrierSpec => []SlotsAreWaiting
<1>1. BarrierIInv => SlotsAreWaiting
  BY DEF BarrierIInv
<1> QED
  BY <1>1, BarrierInvariant, PTL

-----------------------------------------------------------------------------
(* What is summed. Stages with names of their own never meet in a round:   *)
(* the threads of a round wait in the stage it was opened for, each with   *)
(* its own contribution alone in its tensor.                               *)

NamesDiffer ==
  /\ \A s \in 1..Stages : NameOf[s] # Unnamed
  /\ \A s, t \in 1..Stages : NameOf[s] = NameOf[t] => s = t

RoundOfOneStage ==
  \A p \in Participants :
    Waiting(p) /\ call[p].generation = barrier.generation =>
      call[p].stage = barrier.stage /\ tensor[p] = Own(p)

SumIInv == BarrierIInv /\ RoundOfOneStage /\ SumsOneStage

(* One contribution is not a sum. *)
LEMMA OwnIsNoSum == ASSUME NEW p PROVE Cardinality(Own(p)) = 1
BY FS_Singleton DEF Own

(* A full list of slots has every thread in it. *)
LEMMA FullRoundHasAll ==
  ASSUME NEW slots \in Seq(Participants), Len(slots) = Degree,
         \A i, j \in DOMAIN slots : slots[i] = slots[j] => i = j
  PROVE  \A q \in Participants : \E i \in DOMAIN slots : slots[i] = q
<1> DEFINE I == 1..Degree
           f == [i \in I |-> slots[i]]
<1>1. DOMAIN slots = I /\ \A i \in I : slots[i] \in Participants
  OBVIOUS
<1>2. f \in Injection(I, Participants)
  BY <1>1 DEF Injection, IsInjective
<1>3. IsFiniteSet(I) /\ Cardinality(I) = Degree
  BY DegreeType, FS_Interval
<1>4. f \in Surjection(I, Participants)
  BY <1>2, <1>3, BarrierAssumption, FS_Injection, FS_CardinalityType DEF Degree
<1> QED
  BY <1>1, <1>4 DEF Surjection

(* Who waits in the new round after somebody opened it: nobody. *)
LEMMA NextRoundIsEmpty ==
  ASSUME BarrierIInv, NEW p \in Participants, call[p].stage <= Stages,
         NEW ok \in BOOLEAN, Returns(p, ok),
         barrier'.generation = barrier.generation + 1
  PROVE  RoundOfOneStage'
<1>1. BarrierTypeOK
  BY DEF BarrierIInv
<1>2. /\ call'[p].pc # "waiting"
      /\ \A q \in Participants \ {p} : call'[q] = call[q]
  BY <1>1, ReturnsType
<1>3. \A q \in Participants : Waiting(q)' =>
        /\ call'[q].generation \in Nat
        /\ call'[q].generation <= barrier.generation
  BY <1>1, <1>2 DEF BarrierIInv, BarrierTypeOK, WaitsForThePast, Waiting
<1>4. barrier.generation \in Nat
  BY <1>1 DEF BarrierTypeOK
<1>5. \A q \in Participants : Waiting(q)' => call'[q].generation # barrier'.generation
  BY <1>3, <1>4
<1> QED
  BY <1>5 DEF RoundOfOneStage

(* A tensor that changes to the thread's own contribution sums nothing.    *)
LEMMA OwnKeepsSums ==
  ASSUME BarrierTypeOK, SumsOneStage, NEW p \in Participants,
         tensor' = [tensor EXCEPT ![p] = Own(p)]
  PROVE  SumsOneStage'
<1>1. \A q \in Participants : tensor'[q] = IF q = p THEN Own(p) ELSE tensor[q]
  BY DEF BarrierTypeOK
<1>2. Cardinality(Own(p)) = 1
  BY OwnIsNoSum
<1> QED
  BY <1>1, <1>2 DEF SumsOneStage

LEMMA MismatchedKeepsSums ==
  ASSUME SumIInv, NEW p \in Participants, ArriveMismatched(p)
  PROVE  RoundOfOneStage' /\ SumsOneStage'
<1>1. BarrierTypeOK /\ call[p].stage <= Stages /\ Returns(p, FALSE)
  BY DEF SumIInv, BarrierIInv, ArriveMismatched
<1>2. barrier'.generation = barrier.generation + 1
  BY <1>1, NextRoundType DEF ArriveMismatched
<1>3. RoundOfOneStage'
  BY <1>1, <1>2, NextRoundIsEmpty DEF SumIInv
<1>4. SumsOneStage'
  BY <1>1, OwnKeepsSums DEF SumIInv, ArriveMismatched
<1> QED
  BY <1>3, <1>4

LEMMA GiveUpKeepsSums ==
  ASSUME SumIInv, NEW p \in Participants, GiveUp(p)
  PROVE  RoundOfOneStage' /\ SumsOneStage'
<1>1. BarrierTypeOK /\ call[p].stage <= Stages /\ Returns(p, FALSE)
  BY DEF SumIInv, BarrierIInv, GiveUp, WaitsForThePast
<1>2. barrier'.generation = barrier.generation + 1
  BY <1>1, NextRoundType DEF GiveUp
<1>3. RoundOfOneStage'
  BY <1>1, <1>2, NextRoundIsEmpty DEF SumIInv
<1>4. SumsOneStage'
  BY DEF SumIInv, GiveUp, SumsOneStage
<1> QED
  BY <1>3, <1>4

LEMMA WakeUpKeepsSums ==
  ASSUME SumIInv, NEW p \in Participants, WakeUp(p)
  PROVE  RoundOfOneStage' /\ SumsOneStage'
<1>1. /\ BarrierTypeOK /\ call[p].stage <= Stages
      /\ barrier.result \in BOOLEAN /\ Returns(p, barrier.result)
      /\ UNCHANGED <<barrier, tensor>>
  BY DEF SumIInv, BarrierIInv, WakeUp, WaitsForThePast, BarrierTypeOK
<1>2. /\ call'[p].pc # "waiting"
      /\ \A q \in Participants \ {p} : call'[q] = call[q]
  BY <1>1, ReturnsType
<1>3. RoundOfOneStage'
  BY <1>1, <1>2 DEF SumIInv, RoundOfOneStage, Waiting, Own
<1>4. SumsOneStage'
  BY <1>1 DEF SumIInv, SumsOneStage
<1> QED
  BY <1>3, <1>4

(* The round that fills is of the stage of whoever is in it already.       *)
LEMMA SameStage ==
  ASSUME NamesDiffer, SumIInv, NEW p \in Participants, call[p].pc = "out",
         call[p].stage <= Stages, ~Mismatch(p), barrier.arrived # << >>
  PROVE  call[p].stage = barrier.stage
<1>1. /\ barrier.arrived \in Seq(Participants)
      /\ \A q \in Participants : call[q].stage \in 1..(Stages + 1)
      /\ Stages \in Nat
  BY BarrierAssumption DEF SumIInv, BarrierIInv, BarrierTypeOK
<1>2. 1 \in DOMAIN barrier.arrived /\ barrier.arrived[1] \in Participants
  BY <1>1
<1>3. PICK q \in Participants : Waiting(q) /\ call[q].generation = barrier.generation
  BY <1>2 DEF SumIInv, BarrierIInv, SlotsAreWaiting
<1>4. call[q].stage = barrier.stage /\ call[q].stage <= Stages
  BY <1>3 DEF SumIInv, BarrierIInv, RoundOfOneStage, WaitsForThePast
<1>5. barrier.stage \in 1..Stages /\ call[p].stage \in 1..Stages
  BY <1>1, <1>4
<1> QED
  BY <1>5 DEF Mismatch, NamesDiffer

LEMMA ArriveAndWaitKeepsSums ==
  ASSUME NamesDiffer, SumIInv, NEW p \in Participants, ArriveAndWait(p)
  PROVE  RoundOfOneStage' /\ SumsOneStage'
<1>1. /\ BarrierTypeOK /\ barrier \in BarrierType
      /\ call \in [Participants -> CallType]
      /\ tensor' = [tensor EXCEPT ![p] = Own(p)]
  BY DEF SumIInv, BarrierIInv, BarrierTypeOK, BarrierType, CallType, ArriveAndWait
<1>2. /\ barrier'.stage = call[p].stage
      /\ barrier'.generation = barrier.generation
  <2>1. RoundStage(p) = call[p].stage
    BY SameStage DEF RoundStage, ArriveAndWait
  <2> QED
    BY <1>1, <2>1 DEF ArriveAndWait, BarrierType
<1>3. /\ call'[p].stage = call[p].stage
      /\ \A q \in Participants \ {p} : call'[q] = call[q]
  BY <1>1 DEF ArriveAndWait, CallType
<1>4. ASSUME NEW q \in Participants, Waiting(q)',
             call'[q].generation = barrier'.generation
      PROVE  call'[q].stage = barrier'.stage /\ tensor'[q] = Own(q)'
  <2>1. CASE q = p
    BY <1>1, <1>2, <1>3, <2>1 DEF BarrierTypeOK, Own
  <2>2. CASE q # p
    <3>1. /\ Waiting(q) /\ call[q].generation = barrier.generation
          /\ call'[q] = call[q]
      BY <1>2, <1>3, <1>4, <2>2 DEF Waiting
    <3>2. call[q].stage = barrier.stage /\ tensor[q] = Own(q)
      BY <3>1 DEF SumIInv, RoundOfOneStage
    <3>3. barrier.arrived # << >>
      BY <3>1 DEF SumIInv, BarrierIInv, SlotsAreWaiting
    <3>4. call[p].stage = barrier.stage
      BY <3>3, SameStage DEF ArriveAndWait
    <3>5. tensor'[q] = tensor[q]
      BY <1>1, <2>2 DEF BarrierTypeOK
    <3> QED
      BY <1>2, <3>1, <3>2, <3>4, <3>5 DEF Own
  <2> QED
    BY <2>1, <2>2
<1>5. RoundOfOneStage'
  BY <1>4 DEF RoundOfOneStage
<1>6. SumsOneStage'
  BY <1>1, OwnKeepsSums DEF SumIInv
<1> QED
  BY <1>5, <1>6

(* When the last thread arrives, all the others wait for this round. *)
LEMMA FullRound ==
  ASSUME BarrierIInv, NEW p \in Participants, ArriveLast(p),
         NEW slots, slots = Append(barrier.arrived, p)
  PROVE  /\ DOMAIN slots = 1..Degree
         /\ \A i \in DOMAIN slots : slots[i] \in Participants
         /\ \A q \in Participants : \E i \in DOMAIN slots : slots[i] = q
         /\ \A q \in Participants \ {p} :
              Waiting(q) /\ call[q].generation = barrier.generation
<1> DEFINE k == Len(barrier.arrived)
<1>1. /\ call[p].pc = "out" /\ barrier.arrived \in Seq(Participants)
      /\ Len(slots) = Degree
  BY DEF BarrierIInv, ArriveLast, BarrierTypeOK
<1>2. /\ slots \in Seq(Participants) /\ k \in Nat
      /\ DOMAIN slots = 1..(k + 1) /\ DOMAIN barrier.arrived = 1..k
      /\ slots[k + 1] = p
      /\ \A i \in 1..k : slots[i] = barrier.arrived[i]
  BY <1>1
<1>3. \A i \in 1..k : /\ slots[i] \in Participants
                      /\ Waiting(slots[i])
                      /\ call[slots[i]].generation = barrier.generation
  BY <1>1, <1>2 DEF BarrierIInv, SlotsAreWaiting
<1>4. \A i \in 1..k : slots[i] # p
  BY <1>1, <1>3 DEF Waiting
<1>5. \A i, j \in DOMAIN slots : slots[i] = slots[j] => i = j
  BY <1>2, <1>4 DEF BarrierIInv, SlotsAreWaiting
<1>6. \A q \in Participants : \E i \in DOMAIN slots : slots[i] = q
  BY <1>1, <1>2, <1>5, FullRoundHasAll
<1>7. \A q \in Participants \ {p} :
        Waiting(q) /\ call[q].generation = barrier.generation
  <2> SUFFICES ASSUME NEW q \in Participants \ {p}
               PROVE  Waiting(q) /\ call[q].generation = barrier.generation
    OBVIOUS
  <2>1. PICK i \in DOMAIN slots : slots[i] = q
    BY <1>6
  <2>2. i \in 1..k
    BY <1>2, <2>1
  <2> QED
    BY <1>3, <2>1, <2>2
<1>8. \A i \in DOMAIN slots : slots[i] \in Participants
  BY <1>2
<1>9. DOMAIN slots = 1..Degree
  BY <1>1, <1>2
<1> QED
  BY <1>6, <1>7, <1>8, <1>9

(* What the last arrival leaves behind when all are in one stage: the sum  *)
(* of that stage in some tensors, in all of them if it succeeds.           *)
LEMMA LastArrivalSums ==
  ASSUME BarrierIInv, RoundOfOneStage, NEW p \in Participants, ArriveLast(p),
         NEW s, \A q \in Participants : call[q].stage = s
  PROVE  \E ok \in BOOLEAN :
           /\ barrier' = [NextRound(barrier) EXCEPT !.result = ok]
           /\ Returns(p, ok)
           /\ \A q \in Participants :
                tensor'[q] \in {Participants \X {s}, {<<q, s>>}}
           /\ ok => \A q \in Participants : tensor'[q] = Participants \X {s}
<1> DEFINE slots   == Append(barrier.arrived, p)
           given   == [tensor EXCEPT ![p] = Own(p)]
           sum     == UNION {given[slots[i]] : i \in DOMAIN slots}
           Written(n) == [q \in Participants |->
                            IF \E i \in 1..n : slots[i] = q THEN sum ELSE given[q]]
<1>1. /\ DOMAIN slots = 1..Degree
      /\ \A i \in DOMAIN slots : slots[i] \in Participants
      /\ \A q \in Participants : \E i \in DOMAIN slots : slots[i] = q
      /\ \A q \in Participants \ {p} :
           Waiting(q) /\ call[q].generation = barrier.generation
  BY FullRound
<1>2. DOMAIN tensor = Participants
  BY DEF BarrierIInv, BarrierTypeOK
<1>3. \A q \in Participants : given[q] = {<<q, s>>}
  BY <1>1, <1>2 DEF RoundOfOneStage, Own
<1>4. sum = Participants \X {s}
  <2> HIDE DEF slots, given
  <2>1. ASSUME NEW c \in sum PROVE c \in Participants \X {s}
    <3>1. PICK i \in DOMAIN slots : c \in given[slots[i]]
      OBVIOUS
    <3> QED
      BY <1>1, <1>3, <3>1
  <2>2. ASSUME NEW c \in Participants \X {s} PROVE c \in sum
    <3>1. PICK q \in Participants : c = <<q, s>>
      OBVIOUS
    <3>2. PICK i \in DOMAIN slots : slots[i] = q
      BY <1>1
    <3>3. c \in given[slots[i]]
      BY <1>3, <3>1, <3>2
    <3> QED
      BY <3>3
  <2> QED
    BY <2>1, <2>2
<1>5. PICK ok \in BOOLEAN, n \in Nat :
         /\ barrier' = [NextRound(barrier) EXCEPT !.result = ok]
         /\ tensor' = Written(n)
         /\ Returns(p, ok)
         /\ ok => n = Degree
  <2>1. Degree \in Nat /\ 0..(Degree - 1) \subseteq Nat
    BY DegreeType
  <2> QED
    BY <2>1 DEF ArriveLast
<1>6. \A q \in Participants : tensor'[q] \in {Participants \X {s}, {<<q, s>>}}
  BY <1>3, <1>4, <1>5
<1>7. ok => \A q \in Participants : tensor'[q] = Participants \X {s}
  BY <1>1, <1>4, <1>5
<1> QED
  BY <1>5, <1>6, <1>7

(* The last arrival sums one contribution of every thread.                 *)
LEMMA ArriveLastKeepsSums ==
  ASSUME NamesDiffer, SumIInv, NEW p \in Participants, ArriveLast(p)
  PROVE  RoundOfOneStage' /\ SumsOneStage'
<1> DEFINE s == call[p].stage
<1>1. /\ BarrierTypeOK /\ BarrierIInv /\ RoundOfOneStage
      /\ s \in 1..Stages /\ call[p].pc = "out" /\ ~Mismatch(p)
  BY BarrierAssumption DEF SumIInv, BarrierIInv, ArriveLast, BarrierTypeOK
<1>2. \A q \in Participants : call[q].stage = s
  <2> SUFFICES ASSUME NEW q \in Participants, q # p PROVE call[q].stage = s
    OBVIOUS
  <2>1. Waiting(q) /\ call[q].generation = barrier.generation
    BY <1>1, FullRound
  <2>2. call[q].stage = barrier.stage /\ barrier.arrived # << >>
    BY <1>1, <2>1 DEF RoundOfOneStage, BarrierIInv, SlotsAreWaiting
  <2> QED
    BY <1>1, <2>2, SameStage
<1> HIDE DEF s
<1>3. PICK ok \in BOOLEAN :
        /\ barrier' = [NextRound(barrier) EXCEPT !.result = ok]
        /\ Returns(p, ok)
        /\ \A q \in Participants : tensor'[q] \in {Participants \X {s}, {<<q, s>>}}
  BY <1>1, <1>2, LastArrivalSums
<1>4. RoundOfOneStage'
  <2>1. barrier'.generation = barrier.generation + 1
    BY <1>1, <1>3, NextRoundType DEF BarrierType
  <2> QED
    BY <1>1, <1>3, <2>1, NextRoundIsEmpty DEF s
<1>5. SumsOneStage'
  <2> SUFFICES ASSUME NEW q \in Participants, Cardinality(tensor'[q]) > 1
               PROVE  \E t \in 1..Stages : tensor'[q] = Participants \X {t}
    BY DEF SumsOneStage
  <2>1. Cardinality({<<q, s>>}) = 1
    BY FS_Singleton
  <2>2. tensor'[q] # {<<q, s>>}
    BY <2>1
  <2> QED
    BY <1>1, <1>3, <2>2
<1> QED
  BY <1>4, <1>5

LEMMA GoOnKeepsRound ==
  ASSUME BarrierTypeOK, RoundOfOneStage, NEW p \in Participants, GoOn(p)
  PROVE  RoundOfOneStage'
BY GoesOn DEF RoundOfOneStage, Waiting, Own

LEMMA GoOnKeepsSums ==
  ASSUME SumIInv, NEW p \in Participants, GoOn(p)
  PROVE  RoundOfOneStage' /\ SumsOneStage'
<1>1. BarrierTypeOK
  BY DEF SumIInv, BarrierIInv
<1> QED
  BY <1>1, GoesOn, GoOnKeepsRound DEF SumIInv, SumsOneStage

LEMMA NextKeepsSums ==
  ASSUME NamesDiffer
  PROVE  SumIInv /\ [BarrierNext]_barrierVars => SumIInv'
<1> SUFFICES ASSUME SumIInv, [BarrierNext]_barrierVars PROVE SumIInv'
  OBVIOUS
<1>1. BarrierIInv'
  BY NextKeepsInvariant DEF SumIInv
<1>2. CASE UNCHANGED barrierVars
  BY <1>1, <1>2 DEF SumIInv, barrierVars, RoundOfOneStage, SumsOneStage, Waiting, Own
<1>3. ASSUME NEW p \in Participants, BarrierStep(p)
      PROVE  RoundOfOneStage' /\ SumsOneStage'
  BY <1>3, MismatchedKeepsSums, ArriveAndWaitKeepsSums, ArriveLastKeepsSums,
     WakeUpKeepsSums, GiveUpKeepsSums DEF BarrierStep
<1>4. CASE BarrierNext
  <2>1. RoundOfOneStage' /\ SumsOneStage'
    BY <1>3, <1>4, GoOnKeepsSums DEF BarrierNext
  <2> QED
    BY <1>1, <2>1 DEF SumIInv
<1> QED
  BY <1>2, <1>4

(* If the graph's stages have names of their own, a tensor that was summed *)
(* holds exactly one contribution of every thread, all of one stage: for   *)
(* any number of threads and stages, with timeouts, threads that run ahead *)
(* on a stale result or go on after a failure, and copies that fail        *)
(* half-way.                                                               *)
THEOREM SumsOneStageHolds ==
  ASSUME NamesDiffer
  PROVE  BarrierSpec => []SumsOneStage
<1>1. BarrierInit => SumIInv
  <2>1. BarrierInit => BarrierIInv
    BY InitInvariant
  <2>2. BarrierInit => RoundOfOneStage
    BY DEF BarrierInit, RoundOfOneStage, Waiting
  <2>3. BarrierInit => SumsOneStage
    BY FS_EmptySet DEF BarrierInit, SumsOneStage
  <2> QED
    BY <2>1, <2>2, <2>3 DEF SumIInv
<1>2. SumIInv /\ [BarrierNext]_barrierVars => SumIInv'
  BY NextKeepsSums
<1>3. SumIInv => SumsOneStage
  BY DEF SumIInv
<1> QED
  BY <1>1, <1>2, <1>3, PTL DEF BarrierSpec

-----------------------------------------------------------------------------
(* What a result means. Without timeouts the threads run in lockstep: the  *)
(* generation counts the stages done, whether they succeeded or failed. A  *)
(* thread that has not woken up yet from the last round finds its tensor   *)
(* reduced if that round succeeded, because no round can be completed      *)
(* without it.                                                             *)

InLockstep ==
  \A p \in Participants :
    /\ call[p].pc = "out" => call[p].stage = barrier.generation + 1
    /\ call[p].pc = "failed" => call[p].stage = barrier.generation
    /\ Waiting(p) => /\ call[p].stage = call[p].generation + 1
                     /\ barrier.generation <= call[p].generation + 1

LateIsReduced ==
  barrier.result => \A p \in Participants :
    Waiting(p) /\ call[p].generation < barrier.generation =>
      tensor[p] = Participants \X {call[p].stage}

StepIInv == BarrierIInv /\ RoundOfOneStage /\ LateIsReduced /\ InLockstep

Reduces ==
  \A p \in Participants :
    call[p].pc # "failed" /\ call'[p].stage > call[p].stage =>
      tensor'[p] = Participants \X {call[p].stage}

(* In lockstep no two stages meet. *)
LEMMA NoMismatchInLockstep ==
  ASSUME StepIInv, NEW p \in Participants, call[p].pc = "out", barrier.arrived # << >>
  PROVE  call[p].stage = barrier.stage /\ ~Mismatch(p)
<1>1. barrier.arrived \in Seq(Participants)
  BY DEF StepIInv, BarrierIInv, BarrierTypeOK
<1>2. 1 \in DOMAIN barrier.arrived /\ barrier.arrived[1] \in Participants
  BY <1>1
<1>3. PICK q \in Participants : Waiting(q) /\ call[q].generation = barrier.generation
  BY <1>2 DEF StepIInv, BarrierIInv, SlotsAreWaiting
<1>4. call[q].stage = barrier.stage
  BY <1>3 DEF StepIInv, RoundOfOneStage
<1>5. call[q].stage = barrier.generation + 1 /\ call[p].stage = barrier.generation + 1
  BY <1>3 DEF StepIInv, InLockstep
<1> QED
  BY <1>4, <1>5 DEF Mismatch

LEMMA ArriveAndWaitReduces ==
  ASSUME StepIInv, NEW p \in Participants, ArriveAndWait(p)
  PROVE  RoundOfOneStage' /\ LateIsReduced' /\ InLockstep' /\ Reduces
<1>1. /\ BarrierTypeOK /\ barrier \in BarrierType
      /\ call \in [Participants -> CallType]
      /\ DOMAIN tensor = Participants
      /\ tensor' = [tensor EXCEPT ![p] = Own(p)]
      /\ call[p].pc = "out" /\ InLockstep
  BY DEF StepIInv, BarrierIInv, BarrierTypeOK, BarrierType, CallType, ArriveAndWait
<1>2. /\ barrier'.stage = call[p].stage
      /\ barrier'.generation = barrier.generation
      /\ barrier'.result = barrier.result
      /\ barrier.generation \in Nat
  <2>1. RoundStage(p) = call[p].stage
    BY <1>1, NoMismatchInLockstep DEF RoundStage
  <2> QED
    BY <1>1, <2>1 DEF ArriveAndWait, BarrierType
<1>3. /\ call'[p].stage = call[p].stage
      /\ call'[p].pc = "waiting"
      /\ call'[p].generation = barrier.generation
      /\ \A q \in Participants \ {p} : call'[q] = call[q] /\ tensor'[q] = tensor[q]
      /\ tensor'[p] = {<<p, call[p].stage>>}
  BY <1>1 DEF ArriveAndWait, CallType, Own
<1>4. InLockstep'
  BY <1>1, <1>2, <1>3 DEF InLockstep, Waiting
<1>5. LateIsReduced'
  BY <1>2, <1>3 DEF StepIInv, LateIsReduced, Waiting
<1>6. RoundOfOneStage'
  <2>1. \A q \in Participants : Waiting(q)' /\ call'[q].generation = barrier'.generation
          => call'[q].stage = barrier'.stage
    BY <1>1, <1>2, <1>3, <1>4 DEF InLockstep, Waiting
  <2>2. \A q \in Participants : Waiting(q)' /\ call'[q].generation = barrier'.generation
          => tensor'[q] = {<<q, call'[q].stage>>}
    BY <1>2, <1>3 DEF StepIInv, RoundOfOneStage, Waiting, Own
  <2> QED
    BY <2>1, <2>2 DEF RoundOfOneStage, Own
<1>7. Reduces
  <2>1. \A q \in Participants : call[q].stage \in Nat /\ call'[q].stage = call[q].stage
    BY <1>1, <1>3, BarrierAssumption DEF CallType
  <2> QED
    BY <2>1 DEF Reduces
<1> QED
  BY <1>4, <1>5, <1>6, <1>7

LEMMA WakeUpReduces ==
  ASSUME StepIInv, NEW p \in Participants, WakeUp(p)
  PROVE  RoundOfOneStage' /\ LateIsReduced' /\ InLockstep' /\ Reduces
<1>1. /\ BarrierTypeOK /\ barrier.generation \in Nat /\ barrier.result \in BOOLEAN
      /\ call \in [Participants -> CallType]
      /\ UNCHANGED <<barrier, tensor>>
      /\ Waiting(p) /\ call[p].generation < barrier.generation
      /\ InLockstep
  BY DEF StepIInv, BarrierIInv, BarrierTypeOK, CallType, WakeUp
<1>2. /\ call[p].generation \in Nat
      /\ \A q \in Participants : call[q].stage \in Nat
  BY <1>1, BarrierAssumption DEF CallType
<1>3. /\ call'[p] = ReturnsTo(call[p], barrier.result)
      /\ \A q \in Participants \ {p} : call'[q] = call[q]
  BY <1>1 DEF WakeUp, Returns
<1>4. call[p].stage = barrier.generation
  BY <1>1, <1>2 DEF InLockstep
<1>5. CASE barrier.result
  <2>1. call'[p].pc = "out" /\ call'[p].stage = call[p].stage + 1
    BY <1>1, <1>3, <1>5 DEF ReturnsTo, CallType
  <2>2. InLockstep'
    BY <1>1, <1>3, <1>4, <2>1 DEF InLockstep, Waiting
  <2>3. RoundOfOneStage' /\ LateIsReduced'
    BY <1>1, <1>3, <2>1 DEF StepIInv, RoundOfOneStage, LateIsReduced, Waiting, Own
  <2>4. Reduces
    <3>1. tensor'[p] = Participants \X {call[p].stage}
      BY <1>1, <1>5 DEF StepIInv, LateIsReduced
    <3> QED
      BY <1>2, <1>3, <3>1 DEF Reduces
  <2> QED
    BY <2>2, <2>3, <2>4
<1>6. CASE ~barrier.result
  <2>1. call'[p].pc = "failed" /\ call'[p].stage = call[p].stage
    BY <1>1, <1>3, <1>6 DEF ReturnsTo, CallType
  <2>2. InLockstep'
    BY <1>1, <1>3, <1>4, <2>1 DEF InLockstep, Waiting
  <2>3. RoundOfOneStage' /\ LateIsReduced'
    BY <1>1, <1>3, <2>1 DEF StepIInv, RoundOfOneStage, LateIsReduced, Waiting, Own
  <2>4. Reduces
    BY <1>2, <1>3, <2>1 DEF Reduces
  <2> QED
    BY <2>2, <2>3, <2>4
<1> QED
  BY <1>1, <1>5, <1>6

LEMMA ArriveLastReduces ==
  ASSUME StepIInv, NEW p \in Participants, ArriveLast(p)
  PROVE  RoundOfOneStage' /\ LateIsReduced' /\ InLockstep' /\ Reduces
<1> DEFINE s == call[p].stage
<1>1. /\ BarrierTypeOK /\ BarrierIInv /\ RoundOfOneStage
      /\ barrier.generation \in Nat
      /\ call \in [Participants -> CallType]
      /\ call[p].pc = "out" /\ s <= Stages /\ InLockstep
  BY DEF StepIInv, BarrierIInv, BarrierTypeOK, CallType, ArriveLast
<1>2. \A q \in Participants \ {p} :
        Waiting(q) /\ call[q].generation = barrier.generation
  BY <1>1, FullRound
<1>3. \A q \in Participants : call[q].stage = s
  BY <1>1, <1>2 DEF InLockstep
<1>4. s = barrier.generation + 1
  BY <1>1 DEF InLockstep
<1> HIDE DEF s
<1>5. PICK ok \in BOOLEAN :
        /\ barrier' = [NextRound(barrier) EXCEPT !.result = ok]
        /\ Returns(p, ok)
        /\ ok => \A q \in Participants : tensor'[q] = Participants \X {s}
  BY <1>1, <1>3, LastArrivalSums
<1>6. barrier'.generation = barrier.generation + 1 /\ barrier'.result = ok
  BY <1>1, <1>5, NextRoundType DEF BarrierType
<1>7. /\ call'[p] = ReturnsTo(call[p], ok)
      /\ \A q \in Participants \ {p} : call'[q] = call[q]
  BY <1>1, <1>5 DEF Returns
<1>8. RoundOfOneStage'
  BY <1>1, <1>5, <1>6, NextRoundIsEmpty DEF s
<1>9. \A q \in Participants \ {p} :
        /\ call'[q].pc = "waiting" /\ call'[q].stage = call'[q].generation + 1
        /\ barrier'.generation <= call'[q].generation + 1
  BY <1>1, <1>2, <1>3, <1>4, <1>6, <1>7 DEF Waiting
<1>10. CASE ok
  <2>1. call'[p].pc = "out" /\ call'[p].stage = s + 1
    BY <1>1, <1>7, <1>10 DEF ReturnsTo, CallType, s
  <2>2. InLockstep'
    BY <1>4, <1>6, <1>9, <2>1 DEF InLockstep, Waiting
  <2>3. LateIsReduced'
    BY <1>3, <1>5, <1>7, <1>10, <2>1 DEF LateIsReduced, Waiting
  <2>4. Reduces
    BY <1>3, <1>5, <1>10 DEF Reduces
  <2> QED
    BY <1>8, <2>2, <2>3, <2>4
<1>11. CASE ~ok
  <2>1. call'[p].pc = "failed" /\ call'[p].stage = s
    BY <1>1, <1>7, <1>11 DEF ReturnsTo, CallType, s
  <2>2. InLockstep'
    BY <1>4, <1>6, <1>9, <2>1 DEF InLockstep, Waiting
  <2>3. LateIsReduced'
    BY <1>6, <1>11 DEF LateIsReduced
  <2>4. Reduces
    <3>1. s \in Nat
      BY <1>1, <1>4
    <3>2. \A q \in Participants : call'[q].stage = s
      BY <1>3, <1>7, <2>1
    <3> QED
      BY <1>3, <3>1, <3>2 DEF Reduces
  <2> QED
    BY <1>8, <2>2, <2>3, <2>4
<1> QED
  BY <1>10, <1>11

LEMMA GoOnReduces ==
  ASSUME StepIInv, NEW p \in Participants, GoOn(p)
  PROVE  RoundOfOneStage' /\ LateIsReduced' /\ InLockstep' /\ Reduces
<1>1. BarrierTypeOK /\ RoundOfOneStage /\ LateIsReduced /\ InLockstep
  BY DEF StepIInv, BarrierIInv
<1>2. /\ call[p].pc = "failed" /\ call'[p].pc = "out"
      /\ call'[p].stage = call[p].stage + 1
      /\ \A q \in Participants \ {p} : call'[q] = call[q]
      /\ UNCHANGED <<barrier, tensor>>
  BY <1>1, GoesOn
<1>3. RoundOfOneStage'
  BY <1>1, GoOnKeepsRound
<1>4. LateIsReduced'
  BY <1>1, <1>2 DEF LateIsReduced, Waiting
<1>5. InLockstep'
  BY <1>1, <1>2 DEF InLockstep, Waiting
<1>6. Reduces
  <2>1. \A q \in Participants : call[q].stage \in Nat
    BY <1>1, BarrierAssumption DEF BarrierTypeOK
  <2> QED
    BY <1>2, <2>1 DEF Reduces
<1> QED
  BY <1>3, <1>4, <1>5, <1>6

LEMMA NextReduces ==
  ASSUME ~TimesOut
  PROVE  StepIInv /\ [BarrierNext]_barrierVars => StepIInv' /\ [Reduces]_barrierVars
<1> SUFFICES ASSUME StepIInv, [BarrierNext]_barrierVars
             PROVE  StepIInv' /\ [Reduces]_barrierVars
  OBVIOUS
<1>1. BarrierIInv'
  BY NextKeepsInvariant DEF StepIInv
<1>2. CASE UNCHANGED barrierVars
  BY <1>1, <1>2 DEF StepIInv, barrierVars, RoundOfOneStage, LateIsReduced, InLockstep,
                    Waiting, Own
<1>3. ASSUME NEW p \in Participants, BarrierStep(p) \/ GoOn(p)
      PROVE  RoundOfOneStage' /\ LateIsReduced' /\ InLockstep' /\ Reduces
  <2>1. ~GiveUp(p)
    BY DEF GiveUp
  <2>2. ~ArriveMismatched(p)
    BY NoMismatchInLockstep DEF ArriveMismatched, Mismatch
  <2> QED
    BY <1>3, <2>1, <2>2, ArriveAndWaitReduces, ArriveLastReduces, WakeUpReduces,
       GoOnReduces DEF BarrierStep
<1>4. CASE BarrierNext
  <2>1. RoundOfOneStage' /\ LateIsReduced' /\ InLockstep' /\ Reduces
    BY <1>3, <1>4 DEF BarrierNext
  <2> QED
    BY <1>1, <2>1 DEF StepIInv
<1> QED
  BY <1>2, <1>4

(* An allreduce that returns true has reduced the caller's tensor, for any *)
(* number of threads and stages and any names, also when copies fail and   *)
(* callers go on after that: as long as no wait times out.                 *)
THEOREM TrueMeansReducedHolds ==
  ASSUME ~TimesOut
  PROVE  BarrierSpec => TrueMeansReduced
<1>1. BarrierInit => StepIInv
  <2>1. BarrierInit => BarrierIInv
    BY InitInvariant
  <2>2. BarrierInit => RoundOfOneStage /\ LateIsReduced /\ InLockstep
    BY DEF BarrierInit, RoundOfOneStage, LateIsReduced, InLockstep, Waiting
  <2> QED
    BY <2>1, <2>2 DEF StepIInv
<1>2. StepIInv /\ [BarrierNext]_barrierVars => StepIInv' /\ [Reduces]_barrierVars
  BY NextReduces
<1>3. BarrierSpec => [][Reduces]_barrierVars
  BY <1>1, <1>2, PTL DEF BarrierSpec
<1> QED
  BY <1>3 DEF TrueMeansReduced, Reduces

-----------------------------------------------------------------------------
(* With timeouts the barrier lies only to the waiters of a round that was  *)
(* abandoned. The inductive invariant adds to that of SumsOneStage: a      *)
(* thread that waits for a round of the past and is no orphan finds its    *)
(* tensor reduced if barrier_result_ is true. It holds because only a      *)
(* completed round writes barrier_result_, and no round is completed while *)
(* such a thread waits.                                                    *)

LateIsHonest ==
  barrier.result => \A p \in Participants :
    Waiting(p) /\ call[p].generation < barrier.generation /\ p \notin orphans =>
      tensor[p] = Participants \X {call[p].stage}

HonestIInv == SumIInv /\ LateIsHonest

HonestStep ==
  \A p \in Participants :
    /\ call[p].pc # "failed" /\ p \notin orphans
    /\ call'[p].stage > call[p].stage
    => tensor'[p] = Participants \X {call[p].stage}

(* A round that is abandoned makes orphans of all who wait in it, so that  *)
(* nobody new has to find its tensor reduced.                              *)
LEMMA AbandonIsHonest ==
  ASSUME HonestIInv, NEW p \in Participants, Abandon(p)
  PROVE  LateIsHonest' /\ HonestStep
<1>1. /\ BarrierTypeOK /\ call[p].stage <= Stages /\ Returns(p, FALSE)
      /\ barrier' = NextRound(barrier)
      /\ \A q \in Participants \ {p} : tensor'[q] = tensor[q]
  BY DEF HonestIInv, SumIInv, BarrierIInv, BarrierTypeOK, WaitsForThePast, Abandon,
         ArriveMismatched, GiveUp
<1>2. /\ barrier.generation \in Nat
      /\ barrier'.generation = barrier.generation + 1
      /\ barrier'.result = barrier.result
      /\ \A q \in Participants : call[q].stage \in Nat /\ call[q].generation \in Nat
  BY <1>1, NextRoundType, BarrierAssumption DEF BarrierTypeOK
<1>3. /\ call'[p].pc # "waiting" /\ call'[p].stage = call[p].stage
      /\ \A q \in Participants \ {p} : call'[q] = call[q]
  <2>1. /\ call'[p].pc # "waiting"
        /\ \A q \in Participants \ {p} : call'[q] = call[q]
    BY <1>1, ReturnsType
  <2>2. call'[p].stage = call[p].stage
    BY <1>1 DEF Returns, ReturnsTo, BarrierTypeOK
  <2> QED
    BY <2>1, <2>2
<1>4. LateIsHonest'
  <2> SUFFICES ASSUME NEW q \in Participants, barrier'.result, Waiting(q)',
                      call'[q].generation < barrier'.generation, q \notin orphans'
               PROVE  tensor'[q] = Participants \X {call'[q].stage}
    BY DEF LateIsHonest
  <2>1. q # p /\ call'[q] = call[q] /\ Waiting(q)
    BY <1>3 DEF Waiting
  <2>2. q \notin orphans /\ q \notin InRound
    BY <2>1 DEF Abandon
  <2>3. call[q].generation # barrier.generation
    BY <2>1, <2>2 DEF InRound, HonestIInv, SumIInv, BarrierIInv, SlotsAreWaiting
  <2>4. call[q].generation < barrier.generation
    BY <1>2, <2>1, <2>3
  <2> QED
    BY <1>1, <1>2, <2>1, <2>2, <2>4 DEF HonestIInv, LateIsHonest
<1>5. HonestStep
  BY <1>2, <1>3 DEF HonestStep
<1> QED
  BY <1>4, <1>5

LEMMA LeaveIsHonest ==
  ASSUME HonestIInv, NEW p \in Participants, Leave(p)
  PROVE  LateIsHonest' /\ HonestStep
<1>1. /\ BarrierTypeOK /\ call[p].stage <= Stages
      /\ barrier.result \in BOOLEAN /\ Returns(p, barrier.result)
      /\ UNCHANGED <<barrier, tensor>>
      /\ Waiting(p) /\ barrier.generation > call[p].generation
  BY DEF HonestIInv, SumIInv, BarrierIInv, Leave, WakeUp, WaitsForThePast, BarrierTypeOK
<1>2. /\ call'[p].pc # "waiting"
      /\ call'[p] = ReturnsTo(call[p], barrier.result)
      /\ \A q \in Participants \ {p} : call'[q] = call[q]
  BY <1>1, ReturnsType DEF Returns, BarrierTypeOK
<1>3. \A q \in Participants : call[q].stage \in Nat /\ call[q].generation \in Nat
  BY <1>1, BarrierAssumption DEF BarrierTypeOK
<1>4. LateIsHonest'
  BY <1>1, <1>2 DEF HonestIInv, LateIsHonest, Waiting, Leave
<1>5. HonestStep
  <2> SUFFICES ASSUME p \notin orphans, call'[p].stage > call[p].stage
               PROVE  tensor'[p] = Participants \X {call[p].stage}
    BY <1>2, <1>3 DEF HonestStep
  <2>1. barrier.result
    BY <1>1, <1>2, <1>3 DEF ReturnsTo
  <2>2. call[p].generation < barrier.generation
    BY <1>1, <1>3 DEF BarrierTypeOK
  <2> QED
    BY <1>1, <2>1, <2>2 DEF HonestIInv, LateIsHonest
<1> QED
  BY <1>4, <1>5

LEMMA ArriveAndWaitIsHonest ==
  ASSUME HonestIInv, NEW p \in Participants, ArriveAndWait(p), UNCHANGED orphans
  PROVE  LateIsHonest' /\ HonestStep
<1>1. BarrierTypeOK /\ tensor' = [tensor EXCEPT ![p] = Own(p)]
  BY DEF HonestIInv, SumIInv, BarrierIInv, ArriveAndWait
<1>2. /\ barrier'.generation = barrier.generation
      /\ barrier'.result = barrier.result
      /\ barrier.generation \in Nat
  BY <1>1 DEF ArriveAndWait, BarrierTypeOK
<1>3. /\ call'[p].stage = call[p].stage
      /\ call'[p].generation = barrier.generation
      /\ \A q \in Participants \ {p} : call'[q] = call[q] /\ tensor'[q] = tensor[q]
  BY <1>1 DEF ArriveAndWait, BarrierTypeOK
<1>4. LateIsHonest'
  BY <1>2, <1>3 DEF HonestIInv, LateIsHonest, Waiting
<1>5. HonestStep
  <2>1. \A q \in Participants : call[q].stage \in Nat
    BY <1>1, BarrierAssumption DEF BarrierTypeOK
  <2>2. \A q \in Participants : call'[q].stage = call[q].stage
    BY <1>3
  <2> QED
    BY <2>1, <2>2 DEF HonestStep
<1> QED
  BY <1>4, <1>5

(* The last arrival finds all others in this round and in its stage.       *)
LEMMA LastArrivalMeetsItsStage ==
  ASSUME NamesDiffer, SumIInv, NEW p \in Participants, ArriveLast(p)
  PROVE  \A q \in Participants : call[q].stage = call[p].stage
<1>1. /\ BarrierTypeOK /\ BarrierIInv /\ RoundOfOneStage
      /\ call[p].stage <= Stages /\ call[p].pc = "out" /\ ~Mismatch(p)
  BY DEF SumIInv, BarrierIInv, ArriveLast
<1> SUFFICES ASSUME NEW q \in Participants, q # p PROVE call[q].stage = call[p].stage
  OBVIOUS
<1>2. Waiting(q) /\ call[q].generation = barrier.generation
  BY <1>1, FullRound
<1>3. call[q].stage = barrier.stage /\ barrier.arrived # << >>
  BY <1>1, <1>2 DEF RoundOfOneStage, BarrierIInv, SlotsAreWaiting
<1> QED
  BY <1>1, <1>3, SameStage

LEMMA ArriveLastIsHonest ==
  ASSUME NamesDiffer, HonestIInv, NEW p \in Participants, ArriveLast(p),
         UNCHANGED orphans
  PROVE  LateIsHonest' /\ HonestStep
<1> DEFINE s == call[p].stage
<1>1. /\ BarrierTypeOK /\ BarrierIInv /\ RoundOfOneStage /\ SumIInv
      /\ s \in Nat /\ s <= Stages /\ call[p].pc = "out"
  BY BarrierAssumption
     DEF HonestIInv, SumIInv, BarrierIInv, ArriveLast, BarrierTypeOK
<1>2. \A q \in Participants : call[q].stage = s
  BY <1>1, LastArrivalMeetsItsStage
<1> HIDE DEF s
<1>3. PICK ok \in BOOLEAN :
        /\ barrier' = [NextRound(barrier) EXCEPT !.result = ok]
        /\ Returns(p, ok)
        /\ ok => \A q \in Participants : tensor'[q] = Participants \X {s}
  BY <1>1, <1>2, LastArrivalSums
<1>4. barrier'.result = ok
  BY <1>1, <1>3, NextRoundType DEF BarrierType
<1>5. /\ call'[p].pc # "waiting"
      /\ call'[p] = ReturnsTo(call[p], ok)
      /\ \A q \in Participants \ {p} : call'[q] = call[q]
  BY <1>1, <1>3, ReturnsType DEF Returns, BarrierTypeOK, s
<1>6. LateIsHonest'
  BY <1>2, <1>3, <1>4, <1>5 DEF LateIsHonest, Waiting
<1>7. HonestStep
  <2> SUFFICES ASSUME call'[p].stage > s PROVE ok
    BY <1>1, <1>2, <1>3, <1>5 DEF HonestStep
  <2> QED
    BY <1>1, <1>2, <1>5 DEF ReturnsTo
<1> QED
  BY <1>6, <1>7

LEMMA GoOnIsHonest ==
  ASSUME HonestIInv, NEW p \in Participants, GoOn(p), UNCHANGED orphans
  PROVE  LateIsHonest' /\ HonestStep
<1>1. BarrierTypeOK
  BY DEF HonestIInv, SumIInv, BarrierIInv
<1>2. \A q \in Participants : call[q].stage \in Nat
  BY <1>1, BarrierAssumption DEF BarrierTypeOK
<1>3. LateIsHonest'
  BY <1>1, GoesOn DEF HonestIInv, LateIsHonest, Waiting
<1>4. HonestStep
  BY <1>1, <1>2, GoesOn DEF HonestStep
<1> QED
  BY <1>3, <1>4

LEMMA NextIsHonest ==
  ASSUME NamesDiffer
  PROVE  HonestIInv /\ [HistoryNext]_historyVars
           => HonestIInv' /\ [HonestStep]_historyVars
<1> SUFFICES ASSUME HonestIInv, [HistoryNext]_historyVars
             PROVE  HonestIInv' /\ [HonestStep]_historyVars
  OBVIOUS
<1>1. [BarrierNext]_barrierVars
  BY DEF HistoryNext, historyVars, Abandon, Leave, Proceed, BarrierNext, BarrierStep
<1>2. SumIInv'
  BY <1>1, NextKeepsSums DEF HonestIInv
<1>3. CASE UNCHANGED historyVars
  BY <1>2, <1>3 DEF HonestIInv, historyVars, barrierVars, LateIsHonest, Waiting
<1>4. CASE HistoryNext
  <2>1. PICK p \in Participants : Abandon(p) \/ Leave(p) \/ Proceed(p)
    BY <1>4 DEF HistoryNext
  <2>2. LateIsHonest' /\ HonestStep
    BY <2>1, AbandonIsHonest, LeaveIsHonest, ArriveAndWaitIsHonest, ArriveLastIsHonest,
       GoOnIsHonest DEF Proceed
  <2> QED
    BY <1>2, <2>2 DEF HonestIInv
<1> QED
  BY <1>3, <1>4

(* An allreduce that returns true has reduced its caller's tensor, unless  *)
(* the caller waited in a round that was abandoned: for any number of      *)
(* threads and stages with names of their own, whatever times out, meets a *)
(* stage mismatch, fails to copy or goes on after a failure.               *)
THEOREM CompletedMeansReducedHolds ==
  ASSUME NamesDiffer
  PROVE  HistorySpec => CompletedMeansReduced
<1>1. HistoryInit => HonestIInv
  <2>1. BarrierInit => BarrierIInv
    BY InitInvariant
  <2>2. BarrierInit => RoundOfOneStage
    BY DEF BarrierInit, RoundOfOneStage, Waiting
  <2>3. BarrierInit => SumsOneStage
    BY FS_EmptySet DEF BarrierInit, SumsOneStage
  <2>4. BarrierInit => LateIsHonest
    BY DEF BarrierInit, LateIsHonest
  <2> QED
    BY <2>1, <2>2, <2>3, <2>4 DEF HistoryInit, HonestIInv, SumIInv
<1>2. HonestIInv /\ [HistoryNext]_historyVars => HonestIInv' /\ [HonestStep]_historyVars
  BY NextIsHonest
<1>3. HistorySpec => [][HonestStep]_historyVars
  BY <1>1, <1>2, PTL DEF HistorySpec
<1> QED
  BY <1>3 DEF CompletedMeansReduced, HonestStep
=============================================================================
