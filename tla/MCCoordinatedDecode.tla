------------------------ MODULE MCCoordinatedDecode ------------------------
(***************************************************************************)
(* Instances of CoordinatedDecode for TLC: prompts that fit, that exceed   *)
(* the activation buffers, and that exceed the context window.             *)
(***************************************************************************)
EXTENDS CoordinatedDecode, TLC

CONSTANTS word, endThink, eos

PromptSet == {<<word>>, <<word, word, word>>, <<word, word, word, word>>}
BudgetSet == {-1, 0, 1}
StopPrompt == <<word, endThink>>

Sampling(g, p, n) == [greedy |-> g, penalties |-> p, narrow |-> n]

(* What each kind of ranks supports: the CPU samples anything on rank 0;   *)
(* with a sharded LM head greedy sampling is coordinated; elsewhere the    *)
(* logits must be on the host.                                             *)
SupportedSetups ==
  {[gpu |-> FALSE, sharded |-> TRUE,
    samplings |-> {Sampling(FALSE, FALSE, TRUE)}],
   [gpu |-> TRUE, sharded |-> TRUE,
    samplings |-> {Greedy, Sampling(FALSE, FALSE, FALSE)}],
   [gpu |-> TRUE, sharded |-> FALSE,
    samplings |-> {Sampling(TRUE, TRUE, FALSE)}]}

(* The usual sampling, temperature and a top_k of 1..256.                  *)
DeferredSetups ==
  {[gpu |-> TRUE, sharded |-> TRUE, samplings |-> {Sampling(FALSE, FALSE, TRUE)}]}

(* Greedy requests with penalties.                                         *)
PenaltySetups ==
  {[gpu |-> TRUE, sharded |-> TRUE, samplings |-> {Sampling(TRUE, TRUE, FALSE)}]}
=============================================================================
