--------------------------- MODULE MCPrefixRequest ---------------------------
(***************************************************************************)
(* Instances of PrefixRequest for TLC: blocks of two tokens, prompts that  *)
(* extend one another across a block boundary, end on one, end inside a    *)
(* block, and branch.                                                      *)
(***************************************************************************)
EXTENDS PrefixRequest

CONSTANTS a, b

AlignedPrompts == {<<a, b>>, <<a, b, a, b>>, <<a, b, b, a>>}
UnalignedPrompts == {<<a>>, <<a, b>>, <<a, b, a>>}
MixedPrompts == {<<a, b>>, <<a, b, a>>, <<a, b, a, b>>}
LongPrompts == {<<a, b>>, <<a, b, a, b>>, <<a, b, a, b, a, b>>}

OneDevice ==
  [ranks |-> <<{1}>>, owners |-> {1}, prompts |-> UnalignedPrompts, hybrid |-> FALSE,
   terminal |-> FALSE, mtp |-> FALSE, ioFails |-> FALSE]

(* Two shards, one with logits, prompts of whole blocks, failures. *)
TwoShards ==
  [OneDevice EXCEPT !.ranks = <<{1, 2}>>, !.prompts = AlignedPrompts, !.terminal = TRUE,
                    !.ioFails = TRUE]

(* Speculative decoding on two shards that both have logits. *)
MtpShards ==
  [OneDevice EXCEPT !.ranks = <<{1, 2}>>, !.owners = {1, 2}, !.prompts = MixedPrompts,
                    !.terminal = TRUE, !.mtp = TRUE]

(* A model with recurrent layers. *)
HybridDevice == [OneDevice EXCEPT !.hybrid = TRUE, !.terminal = TRUE]

(* Two MPI ranks, the first with two devices. *)
TwoRanks ==
  [TwoShards EXCEPT !.ranks = <<{1, 2}, {3}>>, !.owners = {1, 3},
                    !.prompts = {<<a, b>>, <<a, b, a, b>>}, !.ioFails = FALSE]
OneDeviceRanks == [TwoRanks EXCEPT !.ranks = <<{1}, {2}>>, !.owners = {1, 2}]

(* Ranks that may part ways. *)
FailingRanks == [OneDeviceRanks EXCEPT !.ioFails = TRUE]
MtpRanks == [OneDeviceRanks EXCEPT !.mtp = TRUE]

Supported == {TwoShards, MtpShards, HybridDevice, TwoRanks, FailingRanks, MtpRanks}
PartialBlock == {OneDevice}
HybridShards ==
  {[HybridDevice EXCEPT !.ranks = <<{1, 2}>>, !.owners = {1, 2}, !.prompts = LongPrompts]}
HybridRecompute ==
  {[HybridDevice EXCEPT !.prompts = AlignedPrompts, !.terminal = FALSE]}
TerminalSkipped == {[HybridDevice EXCEPT !.hybrid = FALSE, !.prompts = AlignedPrompts]}

RankFails == {FailingRanks}
RankMtp == {MtpRanks}
=============================================================================
