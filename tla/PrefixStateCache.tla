-------------------------- MODULE PrefixStateCache --------------------------
(***************************************************************************)
(* The tiered prefix cache of one device runner:                           *)
(* execution/prefix_cache/PrefixStateCache.cpp over its RAM, device-hot    *)
(* and disk storage backends, driven the way DeviceGraphOrchestrator       *)
(* drives it (find from lookupPrefix; contains, reserveRam, allocate,      *)
(* export and insert from harvestPrefix) plus the rest of its public       *)
(* interface (retain, release, erase).                                     *)
(*                                                                         *)
(* The cache is used by one thread, so every call is one step. The object  *)
(* is one record; a method that cannot fail is an operator from a record   *)
(* to a record, a method whose outcome depends on an I/O result is an      *)
(* operator from a record to the SET of records it can leave behind.       *)
(*                                                                         *)
(* A key stands for one token prefix under one model fingerprint, so the   *)
(* bytes of a block are a function of its key and of its KIND: a plain     *)
(* block holds KV only, a terminal one also the hybrid state and the       *)
(* terminal hidden/logits rows of a prompt that ends there.                *)
(***************************************************************************)
EXTENDS Naturals, FiniteSets

CONSTANTS
  Keys,          \* block keys
  Plain,         \* kind: KV only
  Terminal,      \* kind: KV, hybrid state and terminal rows
  None,          \* no block
  PlainSize,     \* PrefixPayloadLayout::totalBytes() of each kind, in units
  TerminalSize,
  RamBudget,     \* ram_budget_bytes_, also the RAM backend's budget
  HasHot,        \* device_hot_backend_ is set
  HotBudget,
  HasDisk,       \* disk_backend_ is set
  DiskBudget,    \* 0 = unlimited
  MaxRefs        \* bound on nested retain() calls (model checking only)

Kinds == {Plain, Terminal}

ASSUME SizesAssumption ==
  /\ PlainSize \in Nat \ {0}
  /\ TerminalSize \in Nat \ {0}
  /\ PlainSize <= TerminalSize
ASSUME BudgetsAssumption ==
  /\ RamBudget \in Nat /\ HotBudget \in Nat /\ DiskBudget \in Nat
  /\ MaxRefs \in Nat
  /\ HasHot \in BOOLEAN /\ HasDisk \in BOOLEAN
ASSUME KindsAssumption == Plain # Terminal /\ None \notin Kinds
ASSUME KeysAssumption == IsFiniteSet(Keys)

VARIABLES
  cache,  \* the PrefixStateCache object and its backends (see CacheType)
  last    \* the last call: its name and, for find, the block it returned

vars == <<cache, last>>

SizeOf(kind) == IF kind = Terminal THEN TerminalSize ELSE PlainSize

(* The bytes that the keys of S occupy in a tier, counted unit by unit. *)
Units(tier, S) ==
  {u \in S \X (1..TerminalSize) : tier[u[1]] # None /\ u[2] <= SizeOf(tier[u[1]])}
Bytes(tier, S) == Cardinality(Units(tier, S))

(* The bytes recorded for the keys of S in a backend's allocations_.       *)
LedgerUnits(ledger, S) ==
  {u \in S \X (1..TerminalSize) : u[2] <= ledger[u[1]]}
LedgerBytes(ledger, S) == Cardinality(LedgerUnits(ledger, S))

AtMost(a, b) == IF a <= b THEN a ELSE b

CacheType ==
  [entries   : [Keys -> Kinds \cup {None}],  \* entries_ (RAM residents)
   refs      : [Keys -> Nat],                \* ref_count of the resident
   lru       : SUBSET (Keys \X Keys),        \* lru_: <<a, b>> = a nearer the front
   used      : Nat,                          \* used_bytes_
   ledger    : [Keys -> 0..TerminalSize],    \* RAM backend allocations_, 0 = none
   ramUsed   : Nat,                          \* RAM backend used_bytes_
   hot       : [Keys -> Kinds \cup {None}],  \* device_hot_entries_
   hotLru    : SUBSET (Keys \X Keys),        \* device_hot_lru_
   hotLedger : [Keys -> 0..TerminalSize],    \* device-hot backend allocations_
   hotUsed   : Nat,                          \* device-hot backend used_bytes_
   disk      : [Keys -> Kinds \cup {None}],  \* disk_entries_
   diskUsed  : Nat]                          \* stats_.disk_bytes

Calls == {"none", "find", "store", "retain", "release", "erase"}
TypeOK ==
  /\ cache \in CacheType
  /\ last \in [call : Calls, reply : Kinds \cup {None}]

Resident(s) == {k \in Keys : s.entries[k] # None}
InHot(s)    == {k \in Keys : s.hot[k] # None}
(* Mutant: the disk index is not consulted. *)
ContainsRamOnly(s, k) == s.entries[k] # None
Contains(s, k) == s.entries[k] # None \/ s.disk[k] # None

-----------------------------------------------------------------------------
(* Recency lists, as "nearer the front" orders. *)

Without(order, S)   == {p \in order : p[1] \notin S /\ p[2] \notin S}
ToFront(order, k, S) == Without(order, {k}) \cup ({k} \X (S \ {k}))
(* Mutant: the scan starts at the most recent block. *)
NewerThan(order, k) == {j \in Keys : <<j, k>> \in order}
OlderThan(order, k) == {j \in Keys : <<k, j>> \in order}

Touch(s, k) == [s EXCEPT !.lru = ToFront(@, k, Resident(s))]
TouchHot(s, k) ==
  IF k \in InHot(s) THEN [s EXCEPT !.hotLru = ToFront(@, k, InHot(s))] ELSE s

-----------------------------------------------------------------------------
(* The RAM backend: allocate() overwrites the key's record, release()      *)
(* subtracts whatever is recorded, never below zero.                        *)

CanStore(s, n) == n <= RamBudget /\ n <= RamBudget - s.ramUsed
Allocate(s, k, kind) ==
  [s EXCEPT !.ledger[k] = SizeOf(kind), !.ramUsed = @ + SizeOf(kind)]
ReleaseAll(s, S) ==
  [s EXCEPT !.ramUsed = @ - AtMost(@, LedgerBytes(s.ledger, S)),
            !.ledger  = [k \in Keys |-> IF k \in S THEN 0 ELSE @[k]]]

-----------------------------------------------------------------------------
(* Removing blocks from a tier. *)

(* Mutant: the RAM backend is not told. *)
UnloadLeaksAllocation(s, V) ==
  [s EXCEPT
    !.used    = @ - AtMost(@, Bytes(s.entries, V)),
    !.lru     = Without(@, V),
    !.entries = [k \in Keys |-> IF k \in V THEN None ELSE @[k]]]

(* evictResident() for every key of V, none of them pinned. *)
Unload(s, V) ==
  ReleaseAll([s EXCEPT
    !.used    = @ - AtMost(@, Bytes(s.entries, V)),
    !.lru     = Without(@, V),
    !.entries = [k \in Keys |-> IF k \in V THEN None ELSE @[k]]], V)

(* removeDeviceHotEntry() for every key of V: a key without a hot entry is *)
(* left alone, for the others the backend gives back what it recorded.     *)
RemoveHot(s, V) ==
  LET W == V \cap InHot(s)
  IN [s EXCEPT
       !.hot       = [k \in Keys |-> IF k \in V THEN None ELSE @[k]],
       !.hotLru    = Without(@, V),
       !.hotUsed   = @ - AtMost(@, LedgerBytes(s.hotLedger, W)),
       !.hotLedger = [k \in Keys |-> IF k \in W THEN 0 ELSE @[k]]]

(* Mutant: the entry goes, its bytes stay counted. *)
RemoveDiskKeepsCount(s, k) == [s EXCEPT !.disk[k] = None]

RemoveDisk(s, k) ==
  [s EXCEPT !.disk[k]  = None,
            !.diskUsed = @ - AtMost(@, Bytes(s.disk, {k}))]

-----------------------------------------------------------------------------
(* evictUntilFits(n): evict one block at a time until n more bytes fit,    *)
(* each time the least recent one that is not pinned and is safe on disk,  *)
(* writing it there first if need be. A write may fail, then the scan goes *)
(* on to a more recent block; every round scans again from the back. An    *)
(* outcome is the set V of blocks evicted, in the order turn.              *)

FitsIn(s, V, n) == s.used - Bytes(s.entries, V) + n <= RamBudget
Fits(s, n)      == n <= RamBudget /\ FitsIn(s, {}, n)

(* The blocks of V that an eviction has to write. *)
Unwritten(s, V) == {k \in V : s.disk[k] = None}

(* Room on disk for k once the blocks of V are written: persistResidentToDisk. *)
DiskHasRoom(s, k, V) ==
  \/ DiskBudget = 0
  \/ s.diskUsed + Bytes(s.entries, Unwritten(s, V)) + SizeOf(s.entries[k])
       <= DiskBudget

(* Mutant: pinned blocks are victims like any other. *)
EvictablePinned(s, k, V) ==
  /\ s.entries[k] # None
  /\ HasDisk /\ s.disk[k] = None => DiskHasRoom(s, k, V)

Evictable(s, k, V) ==
  /\ s.entries[k] # None /\ s.refs[k] = 0
  /\ HasDisk /\ s.disk[k] = None => DiskHasRoom(s, k, V)
MaySkip(s, k) ==
  s.entries[k] = None \/ s.refs[k] > 0 \/ (HasDisk /\ s.disk[k] = None)

IsEviction(s, V, turn, n) ==
  /\ \A k \in V :
       LET before == {j \in V : turn[j] < turn[k]}
       IN /\ ~FitsIn(s, before, n)
          /\ Evictable(s, k, before)
          /\ \A j \in OlderThan(s.lru, k) \ before : MaySkip(s, j)
  /\ FitsIn(s, V, n) \/ \A j \in Keys \ V : MaySkip(s, j)

Orders(V) ==
  {turn \in [V -> 1..Cardinality(V)] :
     \A j, k \in V : turn[j] = turn[k] => j = k}

(* Mutant: victims are dropped without being written. *)
PersistNothing(s, V) == s

Persist(s, V) ==
  IF HasDisk
    THEN [s EXCEPT
           !.disk     = [k \in Keys |->
                           IF k \in Unwritten(s, V) THEN s.entries[k] ELSE @[k]],
           !.diskUsed = @ + Bytes(s.entries, Unwritten(s, V))]
    ELSE s

EvictUntilFits(s, n) ==
  IF n > RamBudget
    THEN {s}
    ELSE {Unload(Persist(s, V), V) :
            V \in {W \in SUBSET Resident(s) :
                     \E turn \in Orders(W) : IsEviction(s, W, turn, n)}}

-----------------------------------------------------------------------------
(* promoteResidentToDeviceHot(): drop hot blocks from the back until the   *)
(* block fits, then, if the backend finds room for it, upload it (the      *)
(* upload may fail); an existing hot copy is left as it is.                *)

(* The victims V, dropped one at a time by the backend's own count. *)
IsHotEviction(s, V, n) ==
  \A k \in InHot(s) :
    k \in V <=>
      RemoveHot(s, V \cap OlderThan(s.hotLru, k)).hotUsed + n > HotBudget

HotCanStore(s, n) ==
  n <= HotBudget /\ s.hotUsed <= HotBudget /\ n <= HotBudget - s.hotUsed

AddHot(s, k) ==
  LET n == SizeOf(s.entries[k])
  IN TouchHot([s EXCEPT !.hot[k]       = s.entries[k],
                        !.hotLedger[k] = n,
                        !.hotUsed      = @ + n], k)

Promote(s, k) ==
  LET n == SizeOf(s.entries[k])
  IN IF ~HasHot \/ s.hot[k] # None \/ n > HotBudget
       THEN {s}
       ELSE UNION {
              {t} \cup (IF HotCanStore(t, n) THEN {AddHot(t, k)} ELSE {}) :
              t \in {RemoveHot(s, V) :
                       V \in {W \in SUBSET InHot(s) : IsHotEviction(s, W, n)}}}

-----------------------------------------------------------------------------
(* erase() and insertResident(). *)

(* Mutant: the hot copy is left behind. *)
EraseKeyKeepsHot(s, k) ==
  IF s.refs[k] > 0
    THEN s
    ELSE RemoveDisk(IF s.entries[k] # None THEN Unload(s, {k}) ELSE s, k)

EraseKey(s, k) ==
  IF s.refs[k] > 0
    THEN s
    ELSE RemoveDisk(RemoveHot(
           IF s.entries[k] # None THEN Unload(s, {k}) ELSE s, {k}), k)

AddResident(s, k, kind) ==
  Touch([s EXCEPT !.entries[k] = kind, !.refs[k] = 0, !.used = @ + SizeOf(kind)], k)

(* k's bytes are allocated in the RAM backend; when the insertion is       *)
(* refused, every caller gives them back.                                  *)
InsertResident(s, k, kind, keepDisk) ==
  IF s.refs[k] > 0
    THEN {ReleaseAll(s, {k})}
    ELSE UNION {
      IF Fits(t, SizeOf(kind))
        THEN {IF keepDisk THEN u ELSE RemoveDisk(u, k) :
                u \in Promote(AddResident(t, k, kind), k)}
        ELSE {ReleaseAll(t, {k})} :
      t \in EvictUntilFits(
              IF s.entries[k] # None THEN EraseKey(s, k) ELSE s, SizeOf(kind))}

-----------------------------------------------------------------------------
(* find(): resident block, else the hot copy, else the disk copy. A        *)
(* download or a read may fail; the copy that failed is dropped.           *)

Answer(s, block) == [state |-> s, reply |-> block]

(* Bring a copy of kind back into RAM, room having been made for it. *)
Hydrate(s, k, kind) ==
  IF CanStore(s, SizeOf(kind))
    THEN InsertResident(Allocate(s, k, kind), k, kind, TRUE)
    ELSE {}

LookupDisk(s, k) ==
  LET kind == s.disk[k]
  IN IF kind = None
       THEN {Answer(s, None)}
       ELSE UNION {
         IF Fits(t, SizeOf(kind))
           THEN {Answer(u, u.entries[k]) : u \in Hydrate(t, k, kind)}
                  \cup {Answer(RemoveDisk(t, k), None)}
           ELSE {Answer(t, None)} :
         t \in EvictUntilFits(s, SizeOf(kind))}

LookupHot(s, k) ==
  LET kind == s.hot[k]
  IN IF kind = None
       THEN LookupDisk(s, k)
       ELSE UNION {
         (IF Fits(t, SizeOf(kind))
            THEN {Answer(TouchHot(u, k), u.entries[k]) : u \in Hydrate(t, k, kind)}
            ELSE {})
         \cup LookupDisk(RemoveHot(t, {k}), k) :
         t \in EvictUntilFits(s, SizeOf(kind))}

Lookup(s, k) ==
  IF s.entries[k] # None
    THEN {Answer(TouchHot(Touch(s, k), k), s.entries[k])}
    ELSE LookupHot(s, k)

-----------------------------------------------------------------------------
(* One block of harvestPrefix(): reserveRam, allocate, export, insert. Any *)
(* refusal or a failed export ends the harvest.                            *)
StoreOutcomes(s, k, kind) ==
  LET n == SizeOf(kind)
  IN UNION {
       IF Fits(t, n) /\ CanStore(t, n)
         THEN InsertResident(Allocate(t, k, kind), k, kind, FALSE)
                \cup {ReleaseAll(Allocate(t, k, kind), {k})}
         ELSE {t} :
       t \in EvictUntilFits(s, n)}

-----------------------------------------------------------------------------
Init ==
  /\ cache = [entries   |-> [k \in Keys |-> None],
              refs      |-> [k \in Keys |-> 0],
              lru       |-> {},
              used      |-> 0,
              ledger    |-> [k \in Keys |-> 0],
              ramUsed   |-> 0,
              hot       |-> [k \in Keys |-> None],
              hotLru    |-> {},
              hotLedger |-> [k \in Keys |-> 0],
              hotUsed   |-> 0,
              disk      |-> [k \in Keys |-> None],
              diskUsed  |-> 0]
  /\ last = [call |-> "none", reply |-> None]

Returns(call, reply) == last' = [call |-> call, reply |-> reply]

Find(k) ==
  \E answer \in Lookup(cache, k) :
    /\ cache' = answer.state
    /\ Returns("find", answer.reply)

Store(k, kind) ==
  /\ ~Contains(cache, k)
  /\ cache' \in StoreOutcomes(cache, k, kind)
  /\ Returns("store", None)

Retain(k) ==
  /\ cache.entries[k] # None
  /\ cache.refs[k] < MaxRefs
  /\ cache' = Touch([cache EXCEPT !.refs[k] = @ + 1], k)
  /\ Returns("retain", None)

(* Mutant: a reference too many can be given back. *)
ReleaseUnguarded(k) ==
  /\ cache.entries[k] # None
  /\ cache' = [cache EXCEPT !.refs[k] = @ - 1]
  /\ Returns("release", None)

Release(k) ==
  /\ cache.entries[k] # None /\ cache.refs[k] > 0
  /\ cache' = [cache EXCEPT !.refs[k] = @ - 1]
  /\ Returns("release", None)

Erase(k) ==
  /\ cache' = EraseKey(cache, k)
  /\ Returns("erase", None)

Next ==
  \E k \in Keys :
    \/ Find(k)
    \/ \E kind \in Kinds : Store(k, kind)
    \/ Retain(k)
    \/ Release(k)
    \/ Erase(k)

Spec == Init /\ [][Next]_vars

-----------------------------------------------------------------------------
(* Properties. *)

(* The two RAM counts, the cache's own used_bytes_ and the backend's       *)
(* per-key allocations, describe exactly the resident blocks after every   *)
(* call, whatever was refused, failed or rolled back inside it, and stay   *)
(* within the budget.                                                      *)
RamAccounting ==
  /\ cache.used = Bytes(cache.entries, Keys)
  /\ cache.used <= RamBudget
  /\ cache.ramUsed = cache.used
  /\ \A k \in Keys :
       cache.ledger[k] = IF cache.entries[k] = None THEN 0 ELSE SizeOf(cache.entries[k])

StrictTotalOrder(order, S) ==
  /\ order \subseteq S \X S
  /\ \A j, k \in S : j # k => (<<j, k>> \in order <=> <<k, j>> \notin order)
  /\ \A k \in S : <<k, k>> \notin order
  /\ \A i, j, k \in S :
       <<i, j>> \in order /\ <<j, k>> \in order => <<i, k>> \in order

(* The recency lists hold every block of their tier once and nothing else: *)
(* a block missing from its list could never be evicted, a stale one would *)
(* be a dangling iterator.                                                 *)
RecencyLists ==
  /\ StrictTotalOrder(cache.lru, Resident(cache))
  /\ StrictTotalOrder(cache.hotLru, InHot(cache))

(* The counts that the two lower tiers are admitted by describe exactly    *)
(* what these tiers hold, and stay within the budgets, after every call:   *)
(* the device-hot backend's used_bytes_ and allocations_, and              *)
(* stats_.disk_bytes, which writes, failed reads, replacing inserts and    *)
(* erases all change. A drift upwards would close a tier for ever, one     *)
(* downwards would overfill it.                                            *)
LowerTierAccounting ==
  /\ cache.hotUsed = Bytes(cache.hot, Keys)
  /\ \A k \in Keys :
       cache.hotLedger[k] = IF cache.hot[k] = None THEN 0 ELSE SizeOf(cache.hot[k])
  /\ cache.hotUsed <= HotBudget
  /\ cache.diskUsed = Bytes(cache.disk, Keys)
  /\ DiskBudget # 0 => cache.diskUsed <= DiskBudget

(* "A device-hot block is a promotion of a RAM block": a hot copy always   *)
(* has the same block in RAM or, evicted from there, on disk.              *)
HotIsPromotion ==
  \A k \in Keys :
    cache.hot[k] # None => cache.hot[k] \in {cache.entries[k], cache.disk[k]}

(* A block that a caller retained stays resident and unchanged until it is *)
(* released, through any eviction, replacement or erase by other calls.    *)
PinnedStaysResident ==
  [][\A k \in Keys :
       cache.refs[k] > 0 => cache'.entries[k] = cache.entries[k]]_vars

(* Where lookup() would find k's block. *)
Visible(s, k) ==
  IF s.entries[k] # None THEN s.entries[k]
  ELSE IF s.hot[k] # None THEN s.hot[k] ELSE s.disk[k]

(* With a disk tier, eviction never loses a block: only an erase, or a     *)
(* lookup whose disk read failed, makes a block disappear.                 *)
EvictionLosesNothing ==
  [][\A k \in Keys :
       Visible(cache, k) # None /\ Visible(cache', k) = None =>
         \/ last'.call = "erase"
         \/ last'.call = "find" /\ last'.reply = None]_vars

(* Eviction follows recency: a block leaves RAM only when every older      *)
(* unpinned block leaves with it or could not be written to disk.          *)
EvictsLeastRecentFirst ==
  [][last'.call # "erase" =>
       \A j, k \in Resident(cache) :
         /\ <<j, k>> \in cache.lru
         /\ cache'.entries[j] = None
         /\ cache.refs[k] = 0
         => \/ cache'.entries[k] = None
            \/ HasDisk /\ cache'.disk[k] = None]_vars

(* The cache is a lossy store: what find() returns is what was harvested   *)
(* under that key, although copies of it travel through three tiers.       *)
PS ==
  INSTANCE PrefixStore WITH
    Payloads <- Kinds,
    stored   <- [k \in Keys |-> Visible(cache, k)],
    reply    <- last.reply
ImplementsPrefixStore == PS!StoreSpec

=============================================================================
