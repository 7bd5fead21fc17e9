------------------------ MODULE LocalTPBarrierHistory ------------------------
(***************************************************************************)
(* LocalTPBarrier with a history variable that changes none of its steps:  *)
(* the waiters whose round another thread abandoned. The code does not     *)
(* tell them from the waiters of a round that was completed.               *)
(***************************************************************************)
EXTENDS LocalTPBarrier

VARIABLE orphans  \* waiters of abandoned rounds

historyVars == <<barrierVars, orphans>>

InRound == {p \in Participants :
              \E i \in DOMAIN barrier.arrived : barrier.arrived[i] = p}

HistoryInit == BarrierInit /\ orphans = {}

Abandon(p) ==
  /\ ArriveMismatched(p) \/ GiveUp(p)
  /\ orphans' = orphans \cup (InRound \ {p})

Leave(p) ==
  /\ WakeUp(p)
  /\ orphans' = orphans \ {p}

Proceed(p) ==
  /\ ArriveAndWait(p) \/ ArriveLast(p) \/ GoOn(p)
  /\ UNCHANGED orphans

HistoryNext == \E p \in Participants : Abandon(p) \/ Leave(p) \/ Proceed(p)

HistorySpec == HistoryInit /\ [][HistoryNext]_historyVars

(* A thread in the wait is woken or times out, and a thread outside it     *)
(* computes its next stage; it may also stop short of it for ever.         *)
FairHistorySpec ==
  HistorySpec /\ \A p \in Participants : WF_barrierVars(WakeUp(p) \/ GiveUp(p))

(* An allreduce that returns true has reduced the caller's tensor, unless  *)
(* the caller waited in a round that was abandoned: neither a copy that    *)
(* failed half-way nor any number of rounds completed or abandoned before  *)
(* it wakes turns a caller of a completed round into another's result.     *)
CompletedMeansReduced ==
  [][\A p \in Participants :
       /\ call[p].pc # "failed" /\ p \notin orphans
       /\ call'[p].stage > call[p].stage
       => tensor'[p] = Participants \X {call[p].stage}]_historyVars

=============================================================================
