----------------------------- MODULE PrefixStore -----------------------------
(***************************************************************************)
(* What a prefix cache promises to the request path, with no tiers, no     *)
(* budgets and no recency: a store that may forget, and never lies.        *)
(*                                                                         *)
(*   - a block it returns is the block that was harvested under that key;  *)
(*   - while a key is present its block does not change;                   *)
(*   - any block may be lost at any time (eviction, a failed device or     *)
(*     disk transfer), and a lookup may miss although the block is there   *)
(*     (no room could be made to bring it back into RAM).                  *)
(*                                                                         *)
(* PrefixStateCache implements it (PrefixStateCache!ImplementsPrefixStore) *)
(* and PrefixRequest takes Remains, its account of what may be lost, as    *)
(* the environment of the request path.                                    *)
(***************************************************************************)
CONSTANTS
  Keys,      \* block keys
  Payloads,  \* what a block may hold
  None       \* no block

VARIABLES
  stored,    \* key -> the block a lookup would find, or None
  reply      \* the answer of the last operation: a block, or None

storeVars == <<stored, reply>>

(* What may be left of a store s after a step that promises to keep kept. *)
Remains(s, kept) ==
  {[k \in Keys |-> IF k \in lost THEN None ELSE s[k]] :
     lost \in SUBSET {k \in Keys \ kept : s[k] # None}}

StoreInit ==
  /\ stored = [k \in Keys |-> None]
  /\ reply = None

(* A harvest adds a block for an absent key, or is refused. *)
Add(k, p) ==
  /\ stored[k] = None
  /\ stored' \in Remains([stored EXCEPT ![k] = p], {})
  /\ reply' = None

(* A lookup answers with the block that is there, and leaves it there. *)
LookupHit(k) ==
  /\ stored[k] # None
  /\ stored' \in Remains(stored, {k})
  /\ reply' = stored[k]

(* Misses, retain/release bookkeeping and erasures only forget. *)
Forget ==
  /\ stored' \in Remains(stored, {})
  /\ reply' = None

StoreNext ==
  \/ \E k \in Keys, p \in Payloads : Add(k, p)
  \/ \E k \in Keys : LookupHit(k)
  \/ Forget

StoreSpec == StoreInit /\ [][StoreNext]_storeVars
=============================================================================
