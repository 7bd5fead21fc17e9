---------------------------- MODULE PrefixRequest ----------------------------
(***************************************************************************)
(* A prefill that uses the prefix cache: the prefix branch of              *)
(* OrchestrationRunner::prefill on each MPI rank, over a RankOrchestrator  *)
(* whose children (tensor-parallel devices, each a                         *)
(* DeviceGraphOrchestrator with a cache of its own) look up, import,       *)
(* compute and harvest their shard of every block. A rank with one         *)
(* participant is a lone DeviceGraphOrchestrator. The ranks agree on the   *)
(* common hit by reductions, and after that meet only inside the forward.  *)
(*                                                                         *)
(* A prompt is a sequence of tokens. A KV row is identified with the       *)
(* tokens it attends to, itself included, so row i of a correct cache is   *)
(* the prompt's first i tokens; the recurrent (hybrid) state and a row of  *)
(* logits are likewise the tokens they were computed from. The key of a    *)
(* block is the prompt up to the block's end, which is what the parent     *)
(* hash chain makes it.                                                    *)
(*                                                                         *)
(* Each participant's cache is a lossy store (PrefixStore): it may forget  *)
(* at any step and a lookup may miss what is there.                        *)
(***************************************************************************)
EXTENDS Naturals, Sequences, FiniteSets

CONSTANTS
  Tokens,     \* token ids
  Setups,     \* the configurations the runner may have been started in
  BlockSize,  \* prefix_layout_.block_size
  None

(* ranks: the participants of each rank, in the order they are called;     *)
(* owners: those whose layout includes terminal logits; prompts: what      *)
(* requests may carry;                                                     *)
(* hybrid: prefix_layout_.includes_hybrid_state; terminal: terminal_state  *)
(* mode is not Off; mtp: full hits need the terminal hidden row; ioFails:  *)
(* imports, forwards and restores may fail.                                *)
ASSUME RequestAssumption ==
  /\ BlockSize \in Nat \ {0}
  /\ None \notin Seq(Tokens)
  /\ None \notin [state  : Seq(Tokens) \cup {None}, logits : Seq(Tokens) \cup {None}]
  /\ \A s \in Setups :
       /\ s.ranks \in Seq((SUBSET Nat) \ {{}}) \ {<< >>}
       /\ \A q, r \in DOMAIN s.ranks : q # r => s.ranks[q] \cap s.ranks[r] = {}
       /\ s.owners \subseteq UNION {s.ranks[r] : r \in DOMAIN s.ranks}
       /\ s.prompts \subseteq Seq(Tokens) \ {<< >>}
       /\ {s.hybrid, s.terminal, s.mtp, s.ioFails} \subseteq BOOLEAN

VARIABLES
  setup,   \* the configuration, fixed at start
  store,   \* participant -> key -> block or None: its prefix cache
  live,    \* participant -> its KV rows and its recurrent state
  logits,  \* participant -> what its logits row was computed from
  prompt_tokens, \* the prompt being served
  req      \* rank -> where it is with that prompt

vars == <<setup, store, live, logits, prompt_tokens, req>>

Ranks == DOMAIN setup.ranks
Participants == UNION {setup.ranks[r] : r \in Ranks}

-----------------------------------------------------------------------------
(* Blocks. *)

AtMost(a, b) == IF a <= b THEN a ELSE b
Largest(S) == CHOOSE m \in S : \A n \in S : n <= m
Least(S)   == CHOOSE m \in S : \A n \in S : m <= n

Blocks(prompt) == 1..((Len(prompt) + BlockSize - 1) \div BlockSize)
End(prompt, i) == AtMost(i * BlockSize, Len(prompt))
(* Mutant: the parent hash is left out of the key. *)
KeyOfBlockOnly(prompt, i) == SubSeq(prompt, (i - 1) * BlockSize + 1, End(prompt, i))
Key(prompt, i) == SubSeq(prompt, 1, End(prompt, i))
Keys == UNION {{Key(prompt, i) : i \in Blocks(prompt)} :
                 prompt \in UNION {s.prompts : s \in Setups}}

Rows(prompt) == [i \in 1..Len(prompt) |-> SubSeq(prompt, 1, i)]

(* A block: its KV rows and, when a prompt ended there, its tail, the      *)
(* recurrent state and logits (with MTP also the hidden row) of that end.  *)
(* The hidden row needs no flag: with MTP a layout has both rows or        *)
(* neither, and the harvest rejects a block of which it cannot store both. *)
HasState(block)  == block.tail # None /\ block.tail.state # None
HasLogits(block) == block.tail # None /\ block.tail.logits # None

Cache == INSTANCE PrefixStore WITH
  Payloads <- {}, stored <- store, reply <- None

-----------------------------------------------------------------------------
(* PrefixLookupResult: matched tokens, block handles, terminal flag. *)

NoHit == [cached |-> 0, blocks |-> << >>, logits |-> FALSE]

(* Drop trailing blocks that carry no recurrent state. *)
Restorable(blocks) ==
  IF setup.hybrid
    THEN SubSeq(blocks, 1,
                Largest({0} \cup {i \in DOMAIN blocks : HasState(blocks[i])}))
    ELSE blocks

(* lookupPrefix() of one participant that found these blocks. *)
HitOf(prompt, found) ==
  LET blocks == Restorable(found)
      n == Len(blocks)
  IN IF n = 0
       THEN NoHit
       ELSE [cached |-> End(prompt, n), blocks |-> blocks,
             logits |-> HasLogits(blocks[n])]

(* PrefixLookupResult::clampedTo() *)
ClampedTo(prompt, hit, count) ==
  LET cached == AtMost(hit.cached, count)
      whole  == SubSeq(hit.blocks, 1,
                  Largest({0} \cup {i \in DOMAIN hit.blocks : End(prompt, i) <= cached}))
      blocks == Restorable(whole)
      kept   == End(prompt, Len(blocks))
  IN IF cached = 0
       THEN NoHit
     ELSE IF hit.blocks = << >>
       THEN [hit EXCEPT !.cached = cached, !.logits = @ /\ cached = hit.cached]
     ELSE [cached |-> kept, blocks |-> blocks,
           logits |-> blocks # << >> /\ kept = hit.cached /\ hit.logits]

(* Mutant: the longest hit is agreed on. *)
CoordinatedLongest(prompt, hits, needing) ==
  [cached |-> Largest({hits[p].cached : p \in DOMAIN hits}),
   logits |-> \A p \in needing : hits[p].logits]

(* coordinatePrefixLookups() and makePrefixLookupResult() over the hits of *)
(* all participants, those of needing having terminal logits to restore.   *)
Coordinated(prompt, hits, needing) ==
  LET tokens   == Least({hits[p].cached : p \in DOMAIN hits})
      nblocks(h) == IF h.blocks = << >> THEN h.cached \div BlockSize ELSE Len(h.blocks)
      common   == AtMost(tokens, Least({nblocks(hits[p]) : p \in DOMAIN hits}) * BlockSize)
      required == {p \in needing : hits[p].cached > 0}
  IN [cached |-> common,
      logits |-> /\ common > 0 /\ common = tokens
                 /\ required # {}
                 /\ \A p \in required : hits[p].logits]

(* RankOrchestrator::lookupPrefix(): the common boundary, with the blocks  *)
(* of the first participant that reaches it.                               *)
Aggregate(prompt, hits, owners) ==
  LET common == Coordinated(prompt, hits, IF setup.terminal THEN owners ELSE {})
      reach  == {p \in DOMAIN hits :
                   hits[p].cached >= common.cached /\ hits[p].blocks # << >>}
  IN [cached |-> common.cached,
      logits |-> common.logits,
      blocks |-> IF common.cached = 0 \/ reach = {} THEN << >>
                 ELSE ClampedTo(prompt, hits[Least(reach)], common.cached).blocks]

-----------------------------------------------------------------------------
(* Execution state. *)

Empty == [rows |-> << >>, state |-> << >>]  \* after clear_cache()

ImportedRows(hit) ==
  [i \in 1..hit.cached |->
     hit.blocks[((i - 1) \div BlockSize) + 1].rows[((i - 1) % BlockSize) + 1]]

(* Mutant: the recurrent state is not restored. *)
ImportedWithoutState(hit) == [rows |-> ImportedRows(hit), state |-> << >>]

(* DeviceGraphOrchestrator::populatePrefix() of a hit that is not empty *)
Imported(hit) ==
  [rows  |-> ImportedRows(hit),
   state |-> IF setup.hybrid /\ hit.cached > 0
               THEN hit.blocks[Len(hit.blocks)].tail.state ELSE << >>]

(* A forward pass over tokens: each new row attends to the rows there. *)
Fed(kv, tokens) ==
  LET context == IF kv.rows = << >> THEN << >> ELSE kv.rows[Len(kv.rows)]
  IN [rows  |-> kv.rows \o [i \in DOMAIN tokens |-> context \o SubSeq(tokens, 1, i)],
      state |-> IF setup.hybrid THEN kv.state \o tokens ELSE << >>]

LastRow(kv) == kv.rows[Len(kv.rows)]
Suffix(prompt, start) == SubSeq(prompt, start + 1, Len(prompt))

-----------------------------------------------------------------------------
(* The request at one rank. hits: what each of its participants found;     *)
(* local: their aggregate; agreed: the hit all ranks agreed on; matched:   *)
(* matched_tokens; failed: populatePrefix() failed here, or                *)
(* restorePrefixTerminalState() on a hit that has what it needs; next: the *)
(* participant whose turn it is.                                           *)

First(r) == Least(setup.ranks[r])
IsLast(p, r) == \A q \in setup.ranks[r] : q <= p
After(p, r) == Least({q \in setup.ranks[r] : q > p})

Idle(r) ==
  [phase |-> "idle", hits |-> [p \in setup.ranks[r] |-> NoHit], local |-> NoHit,
   agreed |-> NoHit, matched |-> 0, failed |-> FALSE, next |-> First(r)]

Init ==
  /\ setup \in Setups
  /\ store = [p \in Participants |-> [k \in Keys |-> None]]
  /\ live = [p \in Participants |-> Empty]
  /\ logits = [p \in Participants |-> << >>]
  /\ prompt_tokens = << >>
  /\ req = [r \in Ranks |-> Idle(r)]

Cleared(r) == [p \in Participants |-> IF p \in setup.ranks[r] THEN Empty ELSE live[p]]

(* make_common_hit() *)
CommonHit(r) ==
  LET hit == ClampedTo(prompt_tokens, req[r].local, req[r].matched)
  IN [hit EXCEPT !.logits = @ /\ req[r].agreed.logits]

ChildHit(p, r) == ClampedTo(prompt_tokens, req[r].hits[p], CommonHit(r).cached)

(* Mutant: one token is given back, not one block. *)
StepBackOneToken(matched) == matched - 1

StepBack(matched) == matched - AtMost(matched, BlockSize)

(* Every rank prefills the prompt that rank 0 was given. *)
Submit(prompt) ==
  /\ \A r \in Ranks : req[r].phase = "idle"
  /\ prompt_tokens' = prompt
  /\ req' = [r \in Ranks |-> [Idle(r) EXCEPT !.phase = "lookup"]]
  /\ UNCHANGED <<store, live, logits>>

LookupPrefix(r) ==
  LET p == req[r].next
      present == {n \in {0} \cup Blocks(prompt_tokens) :
                    \A i \in 1..n : store[p][Key(prompt_tokens, i)] # None}
  IN /\ req[r].phase = "lookup"
     /\ \E n \in present :
          LET found == [i \in 1..n |-> store[p][Key(prompt_tokens, i)]]
          IN req' = [req EXCEPT ![r].hits[p] = HitOf(prompt_tokens, found),
                                ![r].next = IF IsLast(p, r) THEN First(r) ELSE After(p, r),
                                ![r].phase = IF IsLast(p, r) THEN "coordinate" ELSE @]
     /\ \E left \in Cache!Remains(store[p], {}) : store' = [store EXCEPT ![p] = left]
     /\ UNCHANGED <<live, logits, prompt_tokens>>

(* Mutant: each rank goes on with what it found itself. *)
CoordinateAlone ==
  /\ \A r \in Ranks : req[r].phase = "coordinate"
  /\ req' = [r \in Ranks |->
       LET local == Aggregate(prompt_tokens, req[r].hits, setup.owners \cap setup.ranks[r])
       IN [req[r] EXCEPT !.phase = "populate", !.local = local, !.agreed = local,
                         !.matched = local.cached]]
  /\ live' = [p \in Participants |-> Empty]
  /\ UNCHANGED <<store, logits, prompt_tokens>>

(* The reductions over all ranks; no rank leaves them before the last has  *)
(* entered. With MTP a rank whose part of a partial hit lacks the hidden   *)
(* row steps back one block.                                               *)
Coordinate ==
  LET local == [r \in Ranks |->
                  Aggregate(prompt_tokens, req[r].hits, setup.owners \cap setup.ranks[r])]
      needing == {r \in Ranks : setup.terminal /\
                    \E p \in setup.owners \cap setup.ranks[r] : req[r].hits[p].cached > 0}
      agreed == Coordinated(prompt_tokens, local, needing)
      Lacks(r) ==
        ~(ClampedTo(prompt_tokens, local[r], agreed.cached).logits /\ agreed.logits)
  IN /\ \A r \in Ranks : req[r].phase = "coordinate"
     /\ req' = [r \in Ranks |-> [req[r] EXCEPT
          !.phase = "populate", !.local = local[r], !.agreed = agreed,
          !.matched =
             IF setup.mtp /\ agreed.cached \in 1..(Len(prompt_tokens) - 1) /\ Lacks(r)
               THEN StepBack(agreed.cached) ELSE agreed.cached]]
     /\ live' = [p \in Participants |-> Empty]
     /\ UNCHANGED <<store, logits, prompt_tokens>>

(* Mutant: a failed import leaves earlier ones in place. *)
PopulatePrefixHalfway(r) ==
  /\ req[r].phase = "populate"
  /\ \E failed \in setup.ranks[r] :
       live' = [p \in Participants |->
                  IF p \in setup.ranks[r] /\ p < failed /\ ChildHit(p, r).cached > 0
                    THEN Imported(ChildHit(p, r)) ELSE live[p]]
  /\ req' = [req EXCEPT ![r].phase = "prefill", ![r].matched = 0, ![r].failed = TRUE]
  /\ UNCHANGED <<store, logits, prompt_tokens>>

(* Every child imports its hit clamped to the common one: for an empty hit *)
(* it imports nothing, and succeeds. If one fails, all are cleared.        *)
PopulatePrefix(r) ==
  LET Complete(hit) == hit.cached > 0 => hit.blocks # << >>
      complete == \A p \in setup.ranks[r] : Complete(ChildHit(p, r))
  IN /\ req[r].phase = "populate"
     /\ \/ /\ complete \/ CommonHit(r).cached = 0
           /\ live' = [p \in Participants |->
                         IF p \in setup.ranks[r] /\ ChildHit(p, r).cached > 0
                           THEN Imported(ChildHit(p, r)) ELSE live[p]]
           /\ req' = [req EXCEPT ![r].phase = "prefill"]
        \/ /\ setup.ioFails \/ ~complete
           /\ CommonHit(r).cached > 0
           /\ live' = Cleared(r)
           /\ req' = [req EXCEPT ![r].phase = "prefill", ![r].matched = 0,
                                 ![r].failed = TRUE]
     /\ UNCHANGED <<store, logits, prompt_tokens>>

(* A rank that has a suffix to feed waits in the first collective of the   *)
(* forward until every rank is there with rows of the same number.         *)
Forwards(r) == req[r].phase = "prefill" /\ req[r].matched < Len(prompt_tokens)

ForwardSuffix ==
  LET start == req[1].matched
      fed == [p \in Participants |-> Fed(live[p], Suffix(prompt_tokens, start))]
  IN /\ \A r \in Ranks : Forwards(r) /\ req[r].matched = start
     /\ live' = fed
     /\ logits' = [p \in Participants |->
                     IF p \in setup.owners THEN LastRow(fed[p]) ELSE logits[p]]
     /\ req' = [r \in Ranks |-> [req[r] EXCEPT !.phase = "harvest"]]
     /\ UNCHANGED <<store, prompt_tokens>>

Decided(r) == Forwards(r) \/ req[r].phase \in {"harvest", "ready"}

(* Ranks that came to feed different suffixes do not get out of the        *)
(* collectives of that forward.                                            *)
StuckApart ==
  /\ \E q, r \in Ranks :
       Decided(q) /\ Decided(r) /\ Forwards(r) /\ req[q].matched # req[r].matched
  /\ UNCHANGED <<store, live, logits, prompt_tokens, req>>

(* Of one rank; what the others do when a rank leaves the forward is that  *)
(* collective's business.                                                  *)
ForwardFails ==
  /\ setup.ioFails /\ Ranks = {1} /\ Forwards(1)
  /\ req' = [r \in Ranks |-> Idle(r)]
  /\ UNCHANGED <<store, live, logits, prompt_tokens>>

(* RankOrchestrator::restorePrefixTerminalState(): one child after the     *)
(* other; those without terminal logits in their layout have nothing to    *)
(* restore.                                                                *)
Restoring == IF setup.terminal THEN setup.owners ELSE {}

CanRestore(r, children) ==
  /\ CommonHit(r).logits
  /\ \A p \in Restoring \cap children : ChildHit(p, r).logits

Restored(r, children) ==
  [p \in Participants |->
     IF p \in Restoring \cap children
       THEN LET blocks == ChildHit(p, r).blocks IN blocks[Len(blocks)].tail.logits
       ELSE logits[p]]

FullHit(r) == req[r].phase = "prefill" /\ req[r].matched = Len(prompt_tokens)

RestoreTerminal(r) ==
  /\ FullHit(r) /\ CanRestore(r, setup.ranks[r])
  /\ logits' = Restored(r, setup.ranks[r])
  /\ req' = [req EXCEPT ![r].phase = "harvest"]
  /\ UNCHANGED <<store, live, prompt_tokens>>

(* Mutant: the children are not cleared. *)
RecomputeLastBlockNoClear(r) ==
  /\ FullHit(r) /\ ~CanRestore(r, setup.ranks[r])
  /\ req' = [req EXCEPT ![r].phase = "populate", ![r].matched = StepBack(@)]
  /\ UNCHANGED <<store, live, logits, prompt_tokens>>

(* The restore failed at some child, having written the ones before it. *)
RecomputeLastBlock(r) ==
  /\ FullHit(r)
  /\ \E failed \in setup.ranks[r] :
       LET before == {p \in setup.ranks[r] : p < failed}
       IN /\ before # {} => CanRestore(r, before)
          /\ setup.ioFails \/ ~CanRestore(r, before \cup {failed})
          /\ logits' = Restored(r, before)
  /\ req' = [req EXCEPT ![r].phase = "populate", ![r].matched = StepBack(@),
                        ![r].failed = @ \/ CanRestore(r, setup.ranks[r])]
  /\ live' = Cleared(r)
  /\ UNCHANGED <<store, prompt_tokens>>

(* Mutant: every block carries the final state. *)
ExportedTailAlways(p, i) ==
  [rows |-> SubSeq(live[p].rows, (i - 1) * BlockSize + 1, End(prompt_tokens, i)),
   tail |-> [state  |-> IF setup.hybrid THEN live[p].state ELSE None,
             logits |-> IF p \in Restoring THEN logits[p] ELSE None]]

(* The block a participant exports: a tail only at the end of the prompt.  *)
Exported(p, i) ==
  [rows |-> SubSeq(live[p].rows, (i - 1) * BlockSize + 1, End(prompt_tokens, i)),
   tail |-> IF End(prompt_tokens, i) = Len(prompt_tokens)
              THEN [state  |-> IF setup.hybrid THEN live[p].state ELSE None,
                    logits |-> IF p \in Restoring THEN logits[p] ELSE None]
              ELSE None]

(* harvestPrefix() of one participant: the absent blocks in order, up to   *)
(* the first that is refused or that the KV cache cannot export.           *)
HarvestPrefix(r) ==
  LET p == req[r].next
      blocks == Blocks(prompt_tokens)
  IN /\ req[r].phase = "harvest"
     /\ \E before \in Cache!Remains(store[p], {}), upTo \in {0} \cup blocks :
          LET added == {i \in blocks : i <= upTo /\ before[Key(prompt_tokens, i)] = None}
              after == [k \in Keys |->
                          IF \E i \in added : Key(prompt_tokens, i) = k
                            THEN Exported(p, CHOOSE i \in added : Key(prompt_tokens, i) = k)
                            ELSE before[k]]
          IN /\ \A i \in added : End(prompt_tokens, i) <= Len(live[p].rows)
             /\ \E left \in Cache!Remains(after, {}) : store' = [store EXCEPT ![p] = left]
     /\ req' = IF IsLast(p, r) THEN [req EXCEPT ![r].phase = "ready"]
                               ELSE [req EXCEPT ![r].next = After(p, r)]
     /\ UNCHANGED <<live, logits, prompt_tokens>>

(* prefill() has returned on every rank; decoding is not modelled. *)
Finish ==
  /\ \A r \in Ranks : req[r].phase = "ready"
  /\ req' = [r \in Ranks |-> Idle(r)]
  /\ UNCHANGED <<store, live, logits, prompt_tokens>>

Next ==
  /\ \/ \E prompt \in setup.prompts : Submit(prompt)
     \/ \E r \in Ranks :
          \/ LookupPrefix(r) \/ PopulatePrefix(r)
          \/ RestoreTerminal(r) \/ RecomputeLastBlock(r) \/ HarvestPrefix(r)
     \/ Coordinate \/ ForwardSuffix \/ StuckApart \/ ForwardFails \/ Finish
  /\ UNCHANGED setup

Spec == Init /\ [][Next]_vars

-----------------------------------------------------------------------------
(* Properties. *)

(* Prefix reuse does not change the computation: when prefill has its      *)
(* logits, every participant's KV rows and recurrent state are those of    *)
(* the whole prompt, and the logits are those of its last token, however   *)
(* much of it came from the cache and whatever failed on the way.          *)
Computed(r) == req[r].phase \in {"harvest", "ready"}
PrefillComputesPrompt ==
  \A r \in Ranks : Computed(r) =>
    \A p \in setup.ranks[r] :
      /\ live[p].rows = Rows(prompt_tokens)
      /\ setup.hybrid => live[p].state = prompt_tokens
      /\ p \in setup.owners => logits[p] = prompt_tokens

(* populatePrefix() leaves every shard with exactly the tokens that the    *)
(* suffix forward will not feed again.                                     *)
ShardsAtSuffixStart ==
  \A r \in Ranks : req[r].phase = "prefill" =>
    \A p \in setup.ranks[r] : Len(live[p].rows) = req[r].matched

(* Ranks that have decided what to forward feed the same suffix, or none   *)
(* of them any, unless one of two things set them apart after they agreed: *)
(* a failed import or restore; or, with MTP, hits that were of different   *)
(* lengths before they were clamped, which is what the step back of one    *)
(* rank alone goes by. What the caches of a rank lost and how far the hits *)
(* of its shards reach does not.                                           *)
RanksPartOnlyForCause ==
  \A q, r \in Ranks :
    Decided(q) /\ Decided(r) /\ req[q].matched # req[r].matched =>
      \/ req[q].failed \/ req[r].failed
      \/ setup.mtp /\ req[q].local.cached # req[r].local.cached

(* "All ranks restore and run the same suffix positions": the forward is a *)
(* chain of collectives in which a rank that feeds other rows than its     *)
(* peers, or none, leaves them stuck or adds up wrong ones.                *)
RanksForwardTheSame ==
  \A q, r \in Ranks : Decided(q) /\ Decided(r) => req[q].matched = req[r].matched

(* No block in any cache holds anything but what its key says, so a        *)
(* request never poisons a later one.                                      *)
StoreIsHonest ==
  \A p \in Participants, k \in Keys :
    LET block == store[p][k]
        start == ((Len(k) - 1) \div BlockSize) * BlockSize
    IN block # None =>
         /\ block.rows = SubSeq(Rows(k), start + 1, Len(k))
         /\ HasState(block) => block.tail.state = k
         /\ HasLogits(block) => block.tail.logits = k

(* "When harvesting a prompt whose length ends on a complete block         *)
(* boundary, store terminal logits for the final block if affordable":     *)
(* once harvested, a resident final block of the prompt has them.          *)
FinalBlockHasLogits ==
  \A r \in Ranks : req[r].phase = "ready" /\ Len(prompt_tokens) % BlockSize = 0 =>
    \A p \in Restoring \cap setup.ranks[r] :
      LET block == store[p][prompt_tokens] IN block # None => HasLogits(block)

=============================================================================
