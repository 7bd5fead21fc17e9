---------------------- MODULE PrefixStateCache_proofs ----------------------
(***************************************************************************)
(* Proofs about PrefixStateCache for every set of keys, every size and     *)
(* budget and every combination of tiers. First the RAM tier: types, the   *)
(* agreement of its two counts with the resident blocks, and the pins.     *)
(* Then the tiers together: the recency lists, the budgets of the lower    *)
(* tiers, what eviction may lose and in which order, and that the whole is *)
(* the lossy store PrefixStore.                                            *)
(*                                                                         *)
(* The invariants are predicates on the record the operators transform:    *)
(* Settled(s) and Tiered(s) hold of the object between two calls and are   *)
(* carried through each operator by a lemma of its own, together with what *)
(* the operator leaves of the record before it (KeepsPins, MakesRoom,      *)
(* Admits).                                                                *)
(***************************************************************************)
EXTENDS PrefixStateCache, FiniteSetTheorems, WellFoundedInduction, TLAPS

(* The contents of a tier: for each key the kind of its block, or None. *)
Tier == [Keys -> Kinds \cup {None}]

Settled(s) ==
  /\ s \in CacheType
  /\ s.used = Bytes(s.entries, Keys)
  /\ s.used <= RamBudget
  /\ s.ramUsed = s.used
  /\ \A k \in Keys :
       s.ledger[k] = IF s.entries[k] = None THEN 0 ELSE SizeOf(s.entries[k])
  /\ \A k \in Keys : s.entries[k] = None => s.refs[k] = 0

IInv ==
  /\ Settled(cache)
  /\ last \in [call : Calls, reply : Kinds \cup {None}]

(* The pins and the blocks they hold are the same in s and t. *)
KeepsPins(s, t) ==
  /\ t.refs = s.refs
  /\ \A k \in Keys : s.refs[k] > 0 => t.entries[k] = s.entries[k]

-----------------------------------------------------------------------------
(* Counting bytes. *)

(* A block has a positive number of units, at most TerminalSize. *)
LEMMA SizeType ==
  ASSUME NEW kind
  PROVE  SizeOf(kind) \in Nat \ {0} /\ SizeOf(kind) <= TerminalSize
BY SizesAssumption DEF SizeOf

(* The bytes of a part of a tier are a number. *)
LEMMA BytesType ==
  ASSUME NEW tier, NEW S \in SUBSET Keys
  PROVE  IsFiniteSet(Units(tier, S)) /\ Bytes(tier, S) \in Nat
<1>1. IsFiniteSet(S)
  BY KeysAssumption, FS_Subset
<1>2. IsFiniteSet(1..TerminalSize)
  BY SizesAssumption, FS_Interval
<1>3. IsFiniteSet(S \X (1..TerminalSize))
  BY <1>1, <1>2, FS_Product
<1>4. Units(tier, S) \subseteq S \X (1..TerminalSize)
  BY DEF Units
<1>5. IsFiniteSet(Units(tier, S))
  BY <1>3, <1>4, FS_Subset
<1> QED
  BY <1>5, FS_CardinalityType DEF Bytes

(* Bytes are counted block by block, in any part of the keys. *)
LEMMA BytesParts ==
  ASSUME NEW tier, NEW S \in SUBSET Keys, NEW V \in SUBSET S
  PROVE  Bytes(tier, S) = Bytes(tier, V) + Bytes(tier, S \ V)
<1>1. Units(tier, S) = Units(tier, V) \cup Units(tier, S \ V)
  BY DEF Units
<1>2. Units(tier, V) \cap Units(tier, S \ V) = {}
  BY DEF Units
<1>3. IsFiniteSet(Units(tier, V)) /\ IsFiniteSet(Units(tier, S \ V))
  BY BytesType
<1>4. Cardinality(Units(tier, V) \cup Units(tier, S \ V)) =
        Cardinality(Units(tier, V)) + Cardinality(Units(tier, S \ V))
          - Cardinality(Units(tier, V) \cap Units(tier, S \ V))
  <2> DEFINE A == Units(tier, V)
             B == Units(tier, S \ V)
  <2>1. IsFiniteSet(A) /\ IsFiniteSet(B)
    BY <1>3
  <2> HIDE DEF A, B
  <2>2. Cardinality(A \cup B) = Cardinality(A) + Cardinality(B) - Cardinality(A \cap B)
    BY <2>1, FS_Union
  <2> QED
    BY <2>2 DEF A, B
<1>5. Bytes(tier, V) \in Nat /\ Bytes(tier, S \ V) \in Nat
  BY BytesType
<1>6. Cardinality({}) = 0
  BY FS_EmptySet
<1>7. Bytes(tier, S) = Bytes(tier, V) + Bytes(tier, S \ V) - 0
  BY <1>1, <1>2, <1>4, <1>6 DEF Bytes
<1> QED
  BY <1>5, <1>7

LEMMA BytesSplit ==
  ASSUME NEW tier, NEW V \in SUBSET Keys
  PROVE  Bytes(tier, Keys) = Bytes(tier, V) + Bytes(tier, Keys \ V)
BY BytesParts

(* Two tiers that agree on S hold the same bytes there. *)
LEMMA BytesSame ==
  ASSUME NEW tier1, NEW tier2, NEW S \in SUBSET Keys,
         \A k \in S : tier1[k] = tier2[k]
  PROVE  Bytes(tier1, S) = Bytes(tier2, S)
<1>1. Units(tier1, S) = Units(tier2, S)
  BY DEF Units
<1> QED
  BY <1>1 DEF Bytes

LEMMA BytesEmpty ==
  ASSUME NEW tier, NEW S \in SUBSET Keys, \A k \in S : tier[k] = None
  PROVE  Bytes(tier, S) = 0
<1>1. Units(tier, S) = {}
  BY DEF Units
<1> QED
  BY <1>1, FS_EmptySet DEF Bytes

(* One block occupies its size. *)
LEMMA BytesOne ==
  ASSUME NEW tier, NEW k \in Keys, tier[k] # None
  PROVE  Bytes(tier, {k}) = SizeOf(tier[k])
<1> DEFINE n == SizeOf(tier[k])
<1>1. n \in Nat \ {0} /\ n <= TerminalSize /\ TerminalSize \in Nat
  BY SizeType, SizesAssumption
<1>2. Units(tier, {k}) = {k} \X (1..n)
  BY <1>1 DEF Units
<1>3. IsFiniteSet(1..n) /\ Cardinality(1..n) = n
  BY <1>1, FS_Interval
<1>4. IsFiniteSet({k}) /\ Cardinality({k}) = 1
  BY FS_Singleton
<1>5. Cardinality({k} \X (1..n)) = Cardinality({k}) * Cardinality(1..n)
  BY <1>3, <1>4, FS_Product
<1>6. Cardinality(Units(tier, {k})) = n
  <2>1. \A m \in Nat : 1 * m = m
    OBVIOUS
  <2>2. Cardinality({k} \X (1..n)) = 1 * Cardinality(1..n)
    BY <1>4, <1>5
  <2>3. Cardinality(1..n) \in Nat
    BY <1>1, <1>3
  <2>4. Cardinality({k} \X (1..n)) = Cardinality(1..n)
    BY <2>1, <2>2, <2>3
  <2> QED
    BY <1>2, <1>3, <2>4
<1> QED
  BY <1>6 DEF Bytes

(* Emptying the slots of V takes their bytes off the tier. *)
LEMMA BytesDrop ==
  ASSUME NEW tier, NEW after, NEW V \in SUBSET Keys,
         \A k \in V : after[k] = None,
         \A k \in Keys \ V : after[k] = tier[k]
  PROVE  /\ Bytes(after, Keys) = Bytes(tier, Keys) - Bytes(tier, V)
         /\ Bytes(tier, V) <= Bytes(tier, Keys)
<1>1. Bytes(after, Keys) = Bytes(after, V) + Bytes(after, Keys \ V)
  BY BytesSplit
<1>2. Bytes(tier, Keys) = Bytes(tier, V) + Bytes(tier, Keys \ V)
  BY BytesSplit
<1>3. Bytes(after, V) = 0
  BY BytesEmpty
<1>4. Bytes(after, Keys \ V) = Bytes(tier, Keys \ V)
  BY BytesSame
<1>5. Bytes(tier, V) \in Nat /\ Bytes(tier, Keys \ V) \in Nat
  BY BytesType
<1> QED
  BY <1>1, <1>2, <1>3, <1>4, <1>5

(* Filling an empty slot adds the block's size. *)
LEMMA BytesAdd ==
  ASSUME NEW tier, NEW after, NEW k \in Keys,
         tier[k] = None, after[k] # None,
         \A j \in Keys \ {k} : after[j] = tier[j]
  PROVE  Bytes(after, Keys) = Bytes(tier, Keys) + SizeOf(after[k])
<1>1. Bytes(tier, Keys) = Bytes(after, Keys) - Bytes(after, {k})
  BY BytesDrop
<1>2. Bytes(after, {k}) = SizeOf(after[k])
  BY BytesOne
<1>3. Bytes(after, Keys) \in Nat /\ SizeOf(after[k]) \in Nat
  BY BytesType, SizeType
<1> QED
  BY <1>1, <1>2, <1>3

LEMMA LedgerType ==
  ASSUME NEW ledger, NEW S \in SUBSET Keys
  PROVE  LedgerBytes(ledger, S) \in Nat
<1>1. IsFiniteSet(S) /\ IsFiniteSet(1..TerminalSize)
  BY KeysAssumption, SizesAssumption, FS_Subset, FS_Interval
<1>2. IsFiniteSet(S \X (1..TerminalSize))
  BY <1>1, FS_Product
<1>3. LedgerUnits(ledger, S) \subseteq S \X (1..TerminalSize)
  BY DEF LedgerUnits
<1>4. IsFiniteSet(LedgerUnits(ledger, S))
  BY <1>2, <1>3, FS_Subset
<1> QED
  BY <1>4, FS_CardinalityType DEF LedgerBytes

(* A ledger that records the size of every block counts their bytes. *)
LEMMA LedgerCounts ==
  ASSUME NEW ledger, NEW tier, NEW S \in SUBSET Keys,
         \A k \in Keys : ledger[k] = IF tier[k] = None THEN 0 ELSE SizeOf(tier[k])
  PROVE  LedgerBytes(ledger, S) = Bytes(tier, S)
<1>1. LedgerUnits(ledger, S) = Units(tier, S)
  BY SizesAssumption DEF LedgerUnits, Units
<1> QED
  BY <1>1 DEF LedgerBytes, Bytes

-----------------------------------------------------------------------------
(* Leaving RAM. *)

(* Evicting unpinned residents gives back exactly their bytes, in both     *)
(* counts; nothing else of the object changes but the recency list.        *)
LEMMA UnloadSettled ==
  ASSUME NEW s, Settled(s), NEW V \in SUBSET Resident(s),
         \A k \in V : s.refs[k] = 0
  PROVE  /\ Settled(Unload(s, V))
         /\ KeepsPins(s, Unload(s, V))
         /\ \A k \in Keys :
              Unload(s, V).entries[k] = IF k \in V THEN None ELSE s.entries[k]
<1> DEFINE t == Unload(s, V)
<1> DEFINE bytes == Bytes(s.entries, V)
<1> DEFINE mid == [s EXCEPT
      !.used    = @ - AtMost(@, bytes),
      !.lru     = Without(@, V),
      !.entries = [k \in Keys |-> IF k \in V THEN None ELSE @[k]]]
<1>1. V \in SUBSET Keys /\ s \in CacheType
  BY DEF Resident, Settled
<1>2. bytes \in Nat /\ bytes <= s.used /\ s.used \in Nat
  <2>1. s.used = bytes + Bytes(s.entries, Keys \ V)
    BY <1>1, BytesSplit DEF Settled
  <2>2. bytes \in Nat /\ Bytes(s.entries, Keys \ V) \in Nat
    BY <1>1, BytesType
  <2> QED
    BY <2>1, <2>2
<1>3. LedgerBytes(s.ledger, V) = bytes
  BY <1>1, LedgerCounts DEF Settled
<1>4. AtMost(s.used, bytes) = bytes /\ s.ramUsed = s.used
  BY <1>2 DEF AtMost, Settled
<1>5. /\ t.entries = [k \in Keys |-> IF k \in V THEN None ELSE s.entries[k]]
      /\ t.refs = s.refs /\ t.hot = s.hot /\ t.hotLru = s.hotLru /\ t.disk = s.disk
      /\ t.hotLedger = s.hotLedger /\ t.hotUsed = s.hotUsed /\ t.diskUsed = s.diskUsed
      /\ t.lru = Without(s.lru, V)
      /\ t.used = s.used - bytes
      /\ t.ramUsed = s.used - bytes
      /\ t.ledger = [k \in Keys |-> IF k \in V THEN 0 ELSE s.ledger[k]]
      /\ t = [entries |-> t.entries, refs |-> t.refs, lru |-> t.lru,
              used |-> t.used, ledger |-> t.ledger, ramUsed |-> t.ramUsed,
              hot |-> t.hot, hotLru |-> t.hotLru,
              hotLedger |-> t.hotLedger, hotUsed |-> t.hotUsed,
              disk |-> t.disk, diskUsed |-> t.diskUsed]
  <2> DEFINE entries == [k \in Keys |-> IF k \in V THEN None ELSE s.entries[k]]
  <2>1. mid = [entries |-> entries, refs |-> s.refs, lru |-> Without(s.lru, V),
               used |-> s.used - bytes, ledger |-> s.ledger, ramUsed |-> s.ramUsed,
               hot |-> s.hot, hotLru |-> s.hotLru,
               hotLedger |-> s.hotLedger, hotUsed |-> s.hotUsed,
               disk |-> s.disk, diskUsed |-> s.diskUsed]
    <3>1. s = [entries |-> s.entries, refs |-> s.refs, lru |-> s.lru,
               used |-> s.used, ledger |-> s.ledger, ramUsed |-> s.ramUsed,
               hot |-> s.hot, hotLru |-> s.hotLru,
               hotLedger |-> s.hotLedger, hotUsed |-> s.hotUsed,
               disk |-> s.disk, diskUsed |-> s.diskUsed]
      BY <1>1 DEF CacheType
    <3>2. mid = [s EXCEPT !.used = s.used - bytes, !.lru = Without(s.lru, V),
                          !.entries = entries]
      BY <1>4
    <3> HIDE DEF mid, bytes, entries
    <3> QED
      BY <3>1, <3>2
  <2>2. t = ReleaseAll(mid, V)
    BY DEF Unload
  <2>3. t = [mid EXCEPT !.ramUsed = s.used - bytes,
                        !.ledger = [k \in Keys |-> IF k \in V THEN 0 ELSE s.ledger[k]]]
    <3>1. mid.ledger = s.ledger /\ mid.ramUsed = s.ramUsed
      BY <2>1
    <3>2. mid.ramUsed - AtMost(mid.ramUsed, LedgerBytes(mid.ledger, V)) = s.used - bytes
      BY <3>1, <1>3, <1>4
    <3> HIDE DEF mid, bytes, t
    <3> QED
      BY <2>2, <3>1, <3>2 DEF ReleaseAll
  <2> QED
    BY <2>1, <2>3
<1>6. Bytes(t.entries, Keys) = s.used - bytes
  BY <1>1, <1>5, BytesDrop DEF Settled
<1>7. t \in CacheType
  <2>1. t.lru \in SUBSET (Keys \X Keys)
    BY <1>1, <1>5 DEF CacheType, Without
  <2>2. t.entries \in Tier /\ t.ledger \in [Keys -> 0..TerminalSize]
    BY <1>1, <1>5, SizesAssumption DEF CacheType, Tier
  <2>3. t.used \in Nat /\ t.ramUsed \in Nat
    BY <1>2, <1>5
  <2> QED
    BY <1>1, <1>5, <2>1, <2>2, <2>3 DEF CacheType, Tier
<1>8. KeepsPins(s, t)
  BY <1>5 DEF KeepsPins
<1>9. Settled(t)
  BY <1>2, <1>5, <1>6, <1>7, <1>1, BudgetsAssumption DEF Settled
<1> QED
  BY <1>5, <1>8, <1>9

(* The fields of the object that count RAM, and the pins, are those of s. *)
SameRam(s, t) ==
  /\ t.entries = s.entries /\ t.refs = s.refs /\ t.lru = s.lru
  /\ t.used = s.used /\ t.ledger = s.ledger /\ t.ramUsed = s.ramUsed

(* The counts of the lower tiers are those of s. *)
SameCounts(s, t) ==
  t.hotLedger = s.hotLedger /\ t.hotUsed = s.hotUsed /\ t.diskUsed = s.diskUsed

(* The counts of the lower tiers once blocks have left or entered them. *)
HotUsedWithout(s, V) ==
  s.hotUsed - AtMost(s.hotUsed, LedgerBytes(s.hotLedger, V \cap InHot(s)))
HotUsedWith(s, k)  == s.hotUsed + SizeOf(s.entries[k])
DiskUsedWith(s, V) == s.diskUsed + Bytes(s.entries, Unwritten(s, V))

LEMMA SameRamSettled ==
  ASSUME NEW s, Settled(s), NEW t, t \in CacheType, SameRam(s, t)
  PROVE  Settled(t) /\ KeepsPins(s, t)
BY DEF Settled, SameRam, KeepsPins

(* Writing victims to disk changes the disk index only. *)
LEMMA PersistKeeps ==
  ASSUME NEW s \in CacheType, NEW V \in SUBSET Keys
  PROVE  /\ Persist(s, V) \in CacheType /\ SameRam(s, Persist(s, V))
         /\ Persist(s, V).hot = s.hot /\ Persist(s, V).hotLru = s.hotLru
         /\ Persist(s, V).hotLedger = s.hotLedger
         /\ Persist(s, V).hotUsed = s.hotUsed
         /\ Persist(s, V).disk = [k \in Keys |->
               IF HasDisk /\ k \in V /\ s.disk[k] = None
                 THEN s.entries[k] ELSE s.disk[k]]
         /\ HasDisk => Persist(s, V).diskUsed = DiskUsedWith(s, V)
<1> DEFINE W == Unwritten(s, V)
<1>1. W \in SUBSET Keys /\ Bytes(s.entries, W) \in Nat
  BY BytesType DEF Unwritten
<1>2. CASE ~HasDisk
  <2>1. Persist(s, V) = s
    BY <1>2 DEF Persist
  <2>2. s.disk = [k \in Keys |-> IF HasDisk /\ k \in V /\ s.disk[k] = None
                                   THEN s.entries[k] ELSE s.disk[k]]
    BY <1>2 DEF CacheType
  <2> QED
    BY <1>2, <2>1, <2>2 DEF SameRam, CacheType
<1>3. CASE HasDisk
  <2> DEFINE disk == [k \in Keys |-> IF k \in W THEN s.entries[k] ELSE s.disk[k]]
  <2> DEFINE bytes == DiskUsedWith(s, V)
  <2>1. Persist(s, V) = [s EXCEPT !.disk = disk, !.diskUsed = bytes]
    BY <1>3 DEF Persist, DiskUsedWith
  <2>2. disk \in Tier /\ bytes \in Nat
    BY <1>1 DEF CacheType, Tier, DiskUsedWith
  <2>3. disk = [k \in Keys |-> IF HasDisk /\ k \in V /\ s.disk[k] = None
                                 THEN s.entries[k] ELSE s.disk[k]]
    BY <1>3 DEF Unwritten
  <2> HIDE DEF disk, bytes, W
  <2>4. /\ Persist(s, V) \in CacheType /\ SameRam(s, Persist(s, V))
        /\ Persist(s, V).hot = s.hot /\ Persist(s, V).hotLru = s.hotLru
        /\ Persist(s, V).hotLedger = s.hotLedger /\ Persist(s, V).hotUsed = s.hotUsed
        /\ Persist(s, V).disk = disk /\ Persist(s, V).diskUsed = bytes
    BY <2>1, <2>2 DEF CacheType, Tier, SameRam
  <2> QED
    BY <1>3, <2>3, <2>4 DEF bytes, W
<1> QED
  BY <1>2, <1>3

(* Making room keeps the object settled and every pinned block in RAM. *)
LEMMA EvictSettled ==
  ASSUME NEW s, Settled(s), NEW n, NEW t \in EvictUntilFits(s, n)
  PROVE  /\ Settled(t)
         /\ KeepsPins(s, t)
         /\ \A k \in Keys : s.entries[k] = None => t.entries[k] = None
<1>1. CASE n > RamBudget
  BY <1>1 DEF EvictUntilFits, KeepsPins
<1>2. CASE ~(n > RamBudget)
  <2>1. PICK V \in SUBSET Resident(s) :
          /\ \E turn \in Orders(V) : IsEviction(s, V, turn, n)
          /\ t = Unload(Persist(s, V), V)
    BY <1>2 DEF EvictUntilFits
  <2>2. \A k \in V : s.refs[k] = 0
    BY <2>1 DEF IsEviction, Evictable
  <2> DEFINE p == Persist(s, V)
  <2>3. Settled(p) /\ KeepsPins(s, p) /\ SameRam(s, p)
    <3>1. V \in SUBSET Keys /\ s \in CacheType
      BY DEF Resident, Settled
    <3>2. p \in CacheType /\ SameRam(s, p)
      BY <3>1, PersistKeeps
    <3> QED
      BY <3>2, SameRamSettled
  <2>4. V \in SUBSET Resident(p) /\ \A k \in V : p.refs[k] = 0
    BY <2>2, <2>3 DEF SameRam, Resident
  <2>5. /\ Settled(Unload(p, V))
        /\ KeepsPins(p, Unload(p, V))
        /\ \A k \in Keys :
             Unload(p, V).entries[k] = IF k \in V THEN None ELSE p.entries[k]
    BY <2>3, <2>4, UnloadSettled
  <2> HIDE DEF p
  <2> QED
    BY <2>1, <2>3, <2>5 DEF KeepsPins, SameRam, p
<1> QED
  BY <1>1, <1>2

(* When the block already fits, nothing is evicted. *)
LEMMA NothingToEvict ==
  ASSUME NEW s \in CacheType, NEW n \in Nat, Fits(s, n),
         NEW t \in EvictUntilFits(s, n)
  PROVE  t = s
<1>1. \A V \in SUBSET Keys : FitsIn(s, V, n)
  <2> SUFFICES ASSUME NEW V \in SUBSET Keys PROVE FitsIn(s, V, n)
    OBVIOUS
  <2>1. Bytes(s.entries, V) \in Nat /\ Bytes(s.entries, {}) = 0
    BY BytesType, BytesEmpty
  <2>2. s.used \in Nat /\ RamBudget \in Nat
    BY BudgetsAssumption DEF CacheType
  <2> QED
    BY <2>1, <2>2 DEF Fits, FitsIn
<1>2. n <= RamBudget /\ RamBudget \in Nat
  BY BudgetsAssumption DEF Fits
<1>3. PICK V \in SUBSET Resident(s) :
        /\ \E turn \in Orders(V) : IsEviction(s, V, turn, n)
        /\ t = Unload(Persist(s, V), V)
  BY <1>2 DEF EvictUntilFits
<1>4. V = {}
  <2>1. V \subseteq Keys
    BY DEF Resident
  <2> QED
    BY <1>1, <1>3, <2>1 DEF IsEviction
<1> DEFINE p == Persist(s, {})
<1>5. p \in CacheType /\ p = s
  <2>1. CASE ~HasDisk
    BY <2>1 DEF Persist
  <2>2. CASE HasDisk
    <3>1. Unwritten(s, {}) = {} /\ Bytes(s.entries, {}) = 0
      BY BytesEmpty DEF Unwritten
    <3>2. /\ [k \in Keys |-> IF k \in {} THEN s.entries[k] ELSE s.disk[k]] = s.disk
          /\ s.diskUsed + 0 = s.diskUsed
      BY DEF CacheType
    <3>3. p = [s EXCEPT !.disk = s.disk, !.diskUsed = s.diskUsed]
      BY <2>2, <3>1, <3>2 DEF Persist
    <3> QED
      BY <3>3 DEF CacheType
  <2> QED
    BY <2>1, <2>2
<1>6. Bytes(p.entries, {}) = 0 /\ LedgerBytes(p.ledger, {}) = 0
  <2>1. LedgerUnits(p.ledger, {}) = {}
    BY DEF LedgerUnits
  <2> QED
    BY <2>1, BytesEmpty, FS_EmptySet DEF LedgerBytes
<1>7. /\ p.used - AtMost(p.used, 0) = p.used
      /\ p.ramUsed - AtMost(p.ramUsed, 0) = p.ramUsed
      /\ Without(p.lru, {}) = p.lru
      /\ [k \in Keys |-> IF k \in {} THEN None ELSE p.entries[k]] = p.entries
      /\ [k \in Keys |-> IF k \in {} THEN 0 ELSE p.ledger[k]] = p.ledger
  <2> HIDE DEF p
  <2> QED
    BY <1>5 DEF CacheType, AtMost, Without
<1>8. p = [entries |-> p.entries, refs |-> p.refs, lru |-> p.lru,
           used |-> p.used, ledger |-> p.ledger, ramUsed |-> p.ramUsed,
           hot |-> p.hot, hotLru |-> p.hotLru,
           hotLedger |-> p.hotLedger, hotUsed |-> p.hotUsed,
           disk |-> p.disk, diskUsed |-> p.diskUsed]
  <2> HIDE DEF p
  <2> QED
    BY <1>5 DEF CacheType
<1>9. Unload(p, {}) = p
  <2> HIDE DEF p
  <2>1. [p EXCEPT !.used = p.used, !.lru = p.lru, !.entries = p.entries] = p
    BY <1>8
  <2>2. Unload(p, {}) = ReleaseAll(p, {})
    BY <1>6, <1>7, <2>1 DEF Unload
  <2>3. [p EXCEPT !.ramUsed = p.ramUsed, !.ledger = p.ledger] = p
    BY <1>8
  <2> QED
    BY <1>6, <1>7, <2>2, <2>3 DEF ReleaseAll
<1> QED
  BY <1>3, <1>4, <1>5, <1>9

-----------------------------------------------------------------------------
(* Moving copies and entering RAM. *)

(* Every record of the type is the record of its fields. *)
LEMMA Fields ==
  ASSUME NEW s \in CacheType
  PROVE  s = [entries |-> s.entries, refs |-> s.refs, lru |-> s.lru,
              used |-> s.used, ledger |-> s.ledger, ramUsed |-> s.ramUsed,
              hot |-> s.hot, hotLru |-> s.hotLru,
              hotLedger |-> s.hotLedger, hotUsed |-> s.hotUsed,
              disk |-> s.disk, diskUsed |-> s.diskUsed]
BY DEF CacheType

LEMMA ToFrontType ==
  ASSUME NEW order \in SUBSET (Keys \X Keys), NEW k \in Keys, NEW S \in SUBSET Keys
  PROVE  ToFront(order, k, S) \in SUBSET (Keys \X Keys)
BY DEF ToFront, Without

(* What the edits of the lower tiers change. *)
LEMMA RemoveHotFields ==
  ASSUME NEW s \in CacheType, NEW V
  PROVE  /\ RemoveHot(s, V) \in CacheType /\ SameRam(s, RemoveHot(s, V))
         /\ \A k \in Keys :
              /\ RemoveHot(s, V).hot[k] = IF k \in V THEN None ELSE s.hot[k]
              /\ RemoveHot(s, V).hotLedger[k] =
                   IF k \in V \cap InHot(s) THEN 0 ELSE s.hotLedger[k]
         /\ RemoveHot(s, V).hotLru = Without(s.hotLru, V)
         /\ RemoveHot(s, V).hotUsed = HotUsedWithout(s, V)
         /\ RemoveHot(s, V).disk = s.disk /\ RemoveHot(s, V).diskUsed = s.diskUsed
<1> DEFINE W == V \cap InHot(s)
<1> DEFINE hot == [k \in Keys |-> IF k \in V THEN None ELSE s.hot[k]]
<1> DEFINE used == HotUsedWithout(s, V)
<1> DEFINE ledger == [k \in Keys |-> IF k \in W THEN 0 ELSE s.hotLedger[k]]
<1>1. RemoveHot(s, V) = [s EXCEPT !.hot = hot, !.hotLru = Without(s.hotLru, V),
                                  !.hotUsed = used, !.hotLedger = ledger]
  BY DEF RemoveHot, HotUsedWithout
<1>2. /\ hot \in Tier /\ Without(s.hotLru, V) \in SUBSET (Keys \X Keys)
      /\ ledger \in [Keys -> 0..TerminalSize] /\ used \in Nat
  <2>1. LedgerBytes(s.hotLedger, W) \in Nat
    BY LedgerType DEF InHot
  <2>2. used \in Nat
    BY <2>1 DEF CacheType, AtMost, HotUsedWithout
  <2> QED
    BY <2>2, SizesAssumption DEF CacheType, Tier, Without
<1> DEFINE lru == Without(s.hotLru, V)
<1> HIDE DEF hot, used, ledger, W, lru
<1>3. RemoveHot(s, V) =
        [entries |-> s.entries, refs |-> s.refs, lru |-> s.lru,
         used |-> s.used, ledger |-> s.ledger, ramUsed |-> s.ramUsed,
         hot |-> hot, hotLru |-> lru, hotLedger |-> ledger, hotUsed |-> used,
         disk |-> s.disk, diskUsed |-> s.diskUsed]
  <2>1. RemoveHot(s, V) = [s EXCEPT !.hot = hot, !.hotLru = lru,
                                    !.hotUsed = used, !.hotLedger = ledger]
    BY <1>1 DEF lru
  <2> DEFINE m == [s EXCEPT !.hot = hot, !.hotLru = lru]
  <2>2. m = [entries |-> s.entries, refs |-> s.refs, lru |-> s.lru,
             used |-> s.used, ledger |-> s.ledger, ramUsed |-> s.ramUsed,
             hot |-> hot, hotLru |-> lru, hotLedger |-> s.hotLedger,
             hotUsed |-> s.hotUsed, disk |-> s.disk, diskUsed |-> s.diskUsed]
    <3> DEFINE m1 == [s EXCEPT !.hot = hot]
    <3>1. m1 = [entries |-> s.entries, refs |-> s.refs, lru |-> s.lru,
                used |-> s.used, ledger |-> s.ledger, ramUsed |-> s.ramUsed,
                hot |-> hot, hotLru |-> s.hotLru, hotLedger |-> s.hotLedger,
                hotUsed |-> s.hotUsed, disk |-> s.disk, diskUsed |-> s.diskUsed]
      BY DEF CacheType
    <3>2. m = [m1 EXCEPT !.hotLru = lru]
      OBVIOUS
    <3> HIDE DEF m1
    <3> QED
      BY <3>1, <3>2
  <2>3. RemoveHot(s, V) = [m EXCEPT !.hotUsed = used, !.hotLedger = ledger]
    BY <2>1
  <2> HIDE DEF m
  <2> QED
    BY <2>2, <2>3
<1>4. RemoveHot(s, V) \in CacheType /\ SameRam(s, RemoveHot(s, V))
  BY <1>2, <1>3 DEF CacheType, Tier, SameRam, lru
<1> QED
  BY <1>3, <1>4 DEF hot, used, ledger, W, lru

LEMMA RemoveDiskFields ==
  ASSUME NEW s \in CacheType, NEW k \in Keys
  PROVE  /\ RemoveDisk(s, k) \in CacheType /\ SameRam(s, RemoveDisk(s, k))
         /\ RemoveDisk(s, k).hot = s.hot /\ RemoveDisk(s, k).hotLru = s.hotLru
         /\ RemoveDisk(s, k).hotLedger = s.hotLedger
         /\ RemoveDisk(s, k).hotUsed = s.hotUsed
         /\ RemoveDisk(s, k).disk = [s.disk EXCEPT ![k] = None]
         /\ RemoveDisk(s, k).diskUsed =
              s.diskUsed - AtMost(s.diskUsed, Bytes(s.disk, {k}))
<1> DEFINE used == s.diskUsed - AtMost(s.diskUsed, Bytes(s.disk, {k}))
<1> DEFINE disk == [s.disk EXCEPT ![k] = None]
<1>1. RemoveDisk(s, k) = [s EXCEPT !.disk = disk, !.diskUsed = used]
  BY DEF RemoveDisk, CacheType
<1>2. used \in Nat /\ disk \in Tier
  <2>1. Bytes(s.disk, {k}) \in Nat
    BY BytesType
  <2> QED
    BY <2>1 DEF CacheType, Tier, AtMost
<1> HIDE DEF used, disk
<1> DEFINE t == [s EXCEPT !.disk = disk, !.diskUsed = used]
<1>3. t \in CacheType
  BY <1>2 DEF CacheType, Tier
<1>4. SameRam(s, t)
  BY DEF CacheType, SameRam
<1>5. /\ t.hot = s.hot /\ t.hotLru = s.hotLru
      /\ t.hotLedger = s.hotLedger /\ t.hotUsed = s.hotUsed
      /\ t.disk = disk /\ t.diskUsed = used
  BY DEF CacheType
<1> HIDE DEF t
<1>6. RemoveDisk(s, k) = t
  BY <1>1 DEF t
<1> QED
  BY <1>3, <1>4, <1>5, <1>6 DEF used, disk

(* The hot list, the hot tier and the disk index can be edited freely.     *)
LEMMA HotEdits ==
  ASSUME NEW s \in CacheType
  PROVE  /\ \A V : RemoveHot(s, V) \in CacheType /\ SameRam(s, RemoveHot(s, V))
         /\ \A k : TouchHot(s, k) \in CacheType /\ SameRam(s, TouchHot(s, k))
         /\ \A k \in Keys : RemoveDisk(s, k) \in CacheType /\ SameRam(s, RemoveDisk(s, k))
<1>1. ASSUME NEW V
      PROVE  RemoveHot(s, V) \in CacheType /\ SameRam(s, RemoveHot(s, V))
  BY RemoveHotFields
<1>2. ASSUME NEW k
      PROVE  TouchHot(s, k) \in CacheType /\ SameRam(s, TouchHot(s, k))
  <2>1. CASE k \in InHot(s)
    <3> DEFINE order == ToFront(s.hotLru, k, InHot(s))
    <3>1. order \in SUBSET (Keys \X Keys)
      BY <2>1, ToFrontType DEF CacheType, InHot
    <3>2. TouchHot(s, k) = [s EXCEPT !.hotLru = order]
      BY <2>1 DEF TouchHot
    <3> HIDE DEF order
    <3> QED
      BY <3>1, <3>2 DEF CacheType, SameRam
  <2>2. CASE k \notin InHot(s)
    BY <2>2 DEF TouchHot, SameRam
  <2> QED
    BY <2>1, <2>2
<1>3. ASSUME NEW k \in Keys
      PROVE  RemoveDisk(s, k) \in CacheType /\ SameRam(s, RemoveDisk(s, k))
  BY RemoveDiskFields
<1> QED
  BY <1>1, <1>2, <1>3

(* Adding a hot copy of a resident block. *)
LEMMA AddHotFields ==
  ASSUME NEW s \in CacheType, NEW k \in Resident(s)
  PROVE  /\ AddHot(s, k) \in CacheType /\ SameRam(s, AddHot(s, k))
         /\ AddHot(s, k).hot = [s.hot EXCEPT ![k] = s.entries[k]]
         /\ AddHot(s, k).hotLru = ToFront(s.hotLru, k, InHot(s) \cup {k})
         /\ AddHot(s, k).hotLedger = [s.hotLedger EXCEPT ![k] = SizeOf(s.entries[k])]
         /\ AddHot(s, k).hotUsed = HotUsedWith(s, k)
         /\ AddHot(s, k).disk = s.disk /\ AddHot(s, k).diskUsed = s.diskUsed
<1> DEFINE n == SizeOf(s.entries[k])
<1> DEFINE hot == [s.hot EXCEPT ![k] = s.entries[k]]
<1> DEFINE ledger == [s.hotLedger EXCEPT ![k] = n]
<1> DEFINE used == HotUsedWith(s, k)
<1> DEFINE a == [s EXCEPT !.hot = hot, !.hotLedger = ledger, !.hotUsed = used]
<1>1. /\ k \in Keys /\ s.entries[k] \in Kinds /\ s.entries[k] # None
      /\ n \in Nat \ {0} /\ n <= TerminalSize
  BY SizeType DEF Resident, CacheType
<1>2. hot \in Tier /\ ledger \in [Keys -> 0..TerminalSize] /\ used \in Nat
  BY <1>1, SizesAssumption DEF CacheType, Tier, HotUsedWith
<1>3. AddHot(s, k) = TouchHot(a, k)
  BY DEF AddHot, HotUsedWith
<1> HIDE DEF hot, ledger, n, used
<1>4. /\ a \in CacheType /\ SameRam(s, a) /\ a.hot = hot /\ a.hotLru = s.hotLru
      /\ a.hotLedger = ledger /\ a.hotUsed = used
      /\ a.disk = s.disk /\ a.diskUsed = s.diskUsed
  BY <1>2 DEF CacheType, Tier, SameRam
<1> HIDE DEF a
<1>5. InHot(a) = InHot(s) \cup {k}
  BY <1>1, <1>4 DEF InHot, CacheType, hot
<1> DEFINE order == ToFront(s.hotLru, k, InHot(s) \cup {k})
<1>6. TouchHot(a, k) = [a EXCEPT !.hotLru = order]
  BY <1>4, <1>5 DEF TouchHot
<1>7. TouchHot(a, k) \in CacheType /\ SameRam(a, TouchHot(a, k))
  BY <1>4, HotEdits
<1> HIDE DEF order
<1>8. /\ TouchHot(a, k).hot = hot /\ TouchHot(a, k).hotLru = order
      /\ TouchHot(a, k).hotLedger = ledger /\ TouchHot(a, k).hotUsed = used
      /\ TouchHot(a, k).disk = s.disk /\ TouchHot(a, k).diskUsed = s.diskUsed
  BY <1>4, <1>6 DEF CacheType
<1> QED
  BY <1>3, <1>4, <1>7, <1>8 DEF SameRam, hot, ledger, n, used, order

(* What promotion may leave behind. *)
LEMMA PromoteOutcome ==
  ASSUME NEW s, NEW k, NEW w \in Promote(s, k)
  PROVE  \/ w = s
         \/ HasHot /\ s.hot[k] = None /\ \E V \in SUBSET InHot(s) :
              LET t == RemoveHot(s, V)
              IN  \/ w = t
                  \/ HotCanStore(t, SizeOf(s.entries[k])) /\ w = AddHot(t, k)
<1> DEFINE n == SizeOf(s.entries[k])
<1>1. CASE ~HasHot \/ s.hot[k] # None \/ n > HotBudget
  BY <1>1 DEF Promote
<1>2. CASE ~(~HasHot \/ s.hot[k] # None \/ n > HotBudget)
  <2>1. PICK V \in SUBSET InHot(s) :
          LET t == RemoveHot(s, V)
          IN  w \in {t} \cup (IF HotCanStore(t, n) THEN {AddHot(t, k)} ELSE {})
    BY <1>2 DEF Promote
  <2> QED
    BY <1>2, <2>1
<1> QED
  BY <1>1, <1>2

(* Promotion to the device touches the hot tier only. *)
LEMMA PromoteKeeps ==
  ASSUME NEW s \in CacheType, NEW k \in Resident(s), NEW t \in Promote(s, k)
  PROVE  t \in CacheType /\ SameRam(s, t)
<1>1. CASE t = s
  BY <1>1 DEF SameRam
<1>2. ASSUME NEW V, t = RemoveHot(s, V)
      PROVE  t \in CacheType /\ SameRam(s, t)
  BY <1>2, HotEdits
<1>3. ASSUME NEW V, t = AddHot(RemoveHot(s, V), k)
      PROVE  t \in CacheType /\ SameRam(s, t)
  <2> DEFINE r == RemoveHot(s, V)
  <2>1. r \in CacheType /\ SameRam(s, r)
    BY HotEdits
  <2> HIDE DEF r
  <2>2. k \in Resident(r)
    BY <2>1 DEF Resident, SameRam
  <2>3. AddHot(r, k) \in CacheType /\ SameRam(r, AddHot(r, k))
    BY <2>1, <2>2, AddHotFields
  <2> QED
    BY <1>3, <2>1, <2>3 DEF SameRam, r
<1> QED
  BY <1>1, <1>2, <1>3, PromoteOutcome

(* Refreshing a resident changes its place in the recency list only. *)
LEMMA TouchSettled ==
  ASSUME NEW s, Settled(s), NEW k \in Keys
  PROVE  Settled(Touch(s, k)) /\ KeepsPins(s, Touch(s, k))
<1> DEFINE order == ToFront(s.lru, k, Resident(s))
<1>1. s \in CacheType /\ order \in SUBSET (Keys \X Keys)
  BY ToFrontType DEF Settled, CacheType, Resident
<1>2. Touch(s, k) = [s EXCEPT !.lru = order]
  BY DEF Touch
<1> HIDE DEF order
<1> QED
  BY <1>1, <1>2 DEF CacheType, Settled, KeepsPins

(* The two ends of a transfer into RAM: a block whose bytes have been      *)
(* allocated enters, or gives its allocation back. Either way the object   *)
(* is settled again: this is what the rollbacks in find() and              *)
(* harvestPrefix() have to achieve.                                        *)
LEMMA RollbackSettled ==
  ASSUME NEW s, Settled(s), NEW k \in Keys, s.entries[k] = None,
         NEW kind \in Kinds, NEW t \in CacheType,
         SameRam(Allocate(s, k, kind), t)
  PROVE  Settled(ReleaseAll(t, {k})) /\ KeepsPins(s, ReleaseAll(t, {k}))
<1> DEFINE n == SizeOf(kind)
<1>1. s \in CacheType /\ s.ramUsed \in Nat /\ n \in Nat \ {0} /\ n <= TerminalSize
  BY SizeType DEF Settled, CacheType
<1>2. /\ t.entries = s.entries /\ t.refs = s.refs /\ t.used = s.used
      /\ t.ledger = [s.ledger EXCEPT ![k] = n] /\ t.ramUsed = s.ramUsed + n
  BY <1>1 DEF Allocate, SameRam, CacheType
<1>3. LedgerBytes(t.ledger, {k}) = n
  <2>1. LedgerUnits(t.ledger, {k}) = {k} \X (1..n)
    BY <1>1, <1>2, SizesAssumption DEF LedgerUnits, CacheType
  <2>2. IsFiniteSet(1..n) /\ Cardinality(1..n) = n
    BY <1>1, FS_Interval
  <2>3. IsFiniteSet({k}) /\ Cardinality({k}) = 1
    BY FS_Singleton
  <2>4. Cardinality({k} \X (1..n)) = 1 * Cardinality(1..n)
    BY <2>2, <2>3, FS_Product
  <2>5. \A m \in Nat : 1 * m = m
    OBVIOUS
  <2> HIDE DEF n
  <2> QED
    BY <1>1, <2>1, <2>2, <2>4, <2>5 DEF LedgerBytes
<1>4. t.ramUsed - AtMost(t.ramUsed, n) = s.ramUsed
  BY <1>1, <1>2 DEF AtMost
<1> DEFINE ledger == [j \in Keys |-> IF j \in {k} THEN 0 ELSE t.ledger[j]]
<1>5. ReleaseAll(t, {k}) = [t EXCEPT !.ramUsed = s.ramUsed, !.ledger = ledger]
  BY <1>3, <1>4 DEF ReleaseAll
<1>6. ledger = s.ledger
  BY <1>1, <1>2 DEF Settled, CacheType
<1> DEFINE u == [t EXCEPT !.ramUsed = s.ramUsed, !.ledger = s.ledger]
<1>7. u \in CacheType
  BY <1>1 DEF CacheType
<1>8. /\ u.entries = s.entries /\ u.refs = s.refs /\ u.used = s.used
      /\ u.ledger = s.ledger /\ u.ramUsed = s.ramUsed
  BY <1>2, Fields
<1>9. ReleaseAll(t, {k}) = u
  BY <1>5, <1>6
<1> HIDE DEF u
<1> QED
  BY <1>7, <1>8, <1>9 DEF Settled, KeepsPins

LEMMA AdmitSettled ==
  ASSUME NEW s, Settled(s), NEW k \in Keys, s.entries[k] = None,
         NEW kind \in Kinds, Fits(s, SizeOf(kind)), NEW t \in CacheType,
         SameRam(Allocate(s, k, kind), t)
  PROVE  LET u == AddResident(t, k, kind)
         IN  Settled(u) /\ KeepsPins(s, u) /\ u.entries[k] = kind
<1> DEFINE n == SizeOf(kind)
<1> DEFINE a == [t EXCEPT !.entries[k] = kind, !.refs[k] = 0, !.used = @ + n]
<1>1. s \in CacheType /\ s.used \in Nat /\ s.ramUsed \in Nat /\ n \in Nat \ {0}
      /\ n <= TerminalSize /\ kind # None /\ s.refs[k] = 0
  BY SizeType, KindsAssumption DEF Settled, CacheType
<1>2. /\ t.entries = s.entries /\ t.refs = s.refs /\ t.used = s.used
      /\ t.ledger = [s.ledger EXCEPT ![k] = n] /\ t.ramUsed = s.ramUsed + n
  BY <1>1 DEF Allocate, SameRam, CacheType
<1>3. s.used + n <= RamBudget
  <2>1. Bytes(s.entries, {}) = 0
    BY BytesEmpty
  <2> QED
    BY <1>1, <2>1 DEF Fits, FitsIn
<1>4. a \in CacheType
  <2>1. /\ [t.entries EXCEPT ![k] = kind] \in Tier
        /\ [t.refs EXCEPT ![k] = 0] \in [Keys -> Nat]
        /\ t.used + n \in Nat
    BY <1>1, <1>2 DEF CacheType, Tier
  <2> HIDE DEF n
  <2> QED
    BY <2>1 DEF CacheType, Tier
<1>5. /\ a.entries = [s.entries EXCEPT ![k] = kind] /\ a.refs = s.refs
      /\ a.used = s.used + n /\ a.ramUsed = s.ramUsed + n
      /\ a.ledger = [s.ledger EXCEPT ![k] = n]
  BY <1>1, <1>2 DEF CacheType
<1>6. Bytes(a.entries, Keys) = s.used + n
  <2> DEFINE after == [s.entries EXCEPT ![k] = kind]
  <2>1. after[k] = kind /\ \A j \in Keys \ {k} : after[j] = s.entries[j]
    BY <1>1 DEF CacheType
  <2>2. Bytes(after, Keys) = Bytes(s.entries, Keys) + SizeOf(after[k])
    <3> HIDE DEF after
    <3> QED
      BY <1>1, <2>1, BytesAdd
  <2> QED
    BY <1>5, <2>1, <2>2 DEF Settled
<1>7. Settled(a) /\ KeepsPins(s, a)
  <2> HIDE DEF a
  <2> QED
    BY <1>1, <1>3, <1>4, <1>5, <1>6 DEF Settled, CacheType, KeepsPins
<1>8. a.entries[k] = kind
  BY <1>1, <1>5 DEF CacheType
<1>9. Settled(Touch(a, k)) /\ KeepsPins(a, Touch(a, k)) /\ Touch(a, k).entries = a.entries
  <2> HIDE DEF a
  <2> QED
    BY <1>4, <1>7, TouchSettled DEF Touch, CacheType
<1>10. AddResident(t, k, kind) = Touch(a, k)
  BY DEF AddResident
<1> HIDE DEF a
<1> QED
  BY <1>7, <1>8, <1>9, <1>10 DEF KeepsPins

(* insertResident() of a block that has its allocation and its room. *)
LEMMA InsertSettled ==
  ASSUME NEW s, Settled(s), NEW k \in Keys, s.entries[k] = None,
         NEW kind \in Kinds, Fits(s, SizeOf(kind)), NEW keepDisk \in BOOLEAN,
         NEW u \in InsertResident(Allocate(s, k, kind), k, kind, keepDisk)
  PROVE  Settled(u) /\ KeepsPins(s, u) /\ u.entries[k] \in Kinds \cup {None}
<1> DEFINE a == Allocate(s, k, kind)
<1> DEFINE n == SizeOf(kind)
<1>1. s \in CacheType /\ n \in Nat \ {0} /\ n <= TerminalSize /\ s.refs[k] = 0
  BY SizeType DEF Settled
<1>2. a \in CacheType /\ a.entries = s.entries /\ a.refs = s.refs /\ a.used = s.used
  <2>1. a = [s EXCEPT !.ledger[k] = n, !.ramUsed = @ + n]
    BY DEF Allocate
  <2>2. [s.ledger EXCEPT ![k] = n] \in [Keys -> 0..TerminalSize] /\ s.ramUsed + n \in Nat
    BY <1>1, SizesAssumption DEF CacheType
  <2> HIDE DEF a, n
  <2> QED
    BY <1>1, <2>1, <2>2 DEF CacheType
<1>3. Fits(a, n)
  BY <1>2 DEF Fits, FitsIn
<1>4. PICK t \in EvictUntilFits(a, n) :
        u \in IF Fits(t, n)
              THEN {IF keepDisk THEN w ELSE RemoveDisk(w, k) :
                      w \in Promote(AddResident(t, k, kind), k)}
              ELSE {ReleaseAll(t, {k})}
  <2> HIDE DEF a
  <2>1. a.refs[k] = 0 /\ a.entries[k] = None
    BY <1>1, <1>2
  <2>2. u \in InsertResident(a, k, kind, keepDisk)
    BY DEF a
  <2>3. ~(a.refs[k] > 0)
    BY <2>1
  <2> QED
    BY <2>1, <2>2, <2>3 DEF InsertResident
<1>5. t \in CacheType /\ SameRam(a, t)
  <2> HIDE DEF a
  <2>1. t = a
    BY <1>1, <1>2, <1>3, <1>4, NothingToEvict
  <2> QED
    BY <1>2, <2>1 DEF SameRam
<1>6. CASE ~Fits(t, n)
  <2>1. u = ReleaseAll(t, {k})
    BY <1>4, <1>6
  <2>2. Settled(u) /\ KeepsPins(s, u)
    BY <1>5, <2>1, RollbackSettled
  <2> QED
    BY <2>2 DEF Settled, CacheType
<1>7. CASE Fits(t, n)
  <2> DEFINE r == AddResident(t, k, kind)
  <2>1. PICK w \in Promote(r, k) : u = IF keepDisk THEN w ELSE RemoveDisk(w, k)
    BY <1>4, <1>7
  <2>2. Settled(r) /\ KeepsPins(s, r)
    BY <1>5, AdmitSettled
  <2>3. r.entries[k] = kind
    BY <1>5, AdmitSettled
  <2> HIDE DEF r
  <2>4. w \in CacheType /\ SameRam(r, w)
    <3>1. r \in CacheType /\ k \in Resident(r)
      BY <2>2, <2>3, KindsAssumption DEF Settled, Resident
    <3> QED
      BY <2>1, <3>1, PromoteKeeps
  <2>5. u \in CacheType /\ SameRam(w, u)
    BY <2>1, <2>4, HotEdits DEF SameRam
  <2>6. SameRam(r, u)
    BY <2>4, <2>5 DEF SameRam
  <2>7. Settled(u) /\ KeepsPins(r, u)
    BY <2>2, <2>5, <2>6, SameRamSettled
  <2> QED
    BY <2>2, <2>7 DEF KeepsPins, Settled, CacheType
<1> QED
  BY <1>6, <1>7

LEMMA EraseSettled ==
  ASSUME NEW s, Settled(s), NEW k \in Keys
  PROVE  Settled(EraseKey(s, k)) /\ KeepsPins(s, EraseKey(s, k))
<1>1. CASE s.refs[k] > 0
  BY <1>1 DEF EraseKey, KeepsPins
<1>2. CASE ~(s.refs[k] > 0)
  <2> DEFINE u == IF s.entries[k] # None THEN Unload(s, {k}) ELSE s
  <2>1. s.refs[k] = 0
    BY <1>2 DEF Settled, CacheType
  <2>2. Settled(u) /\ KeepsPins(s, u)
    <3>1. CASE s.entries[k] # None
      BY <2>1, <3>1, UnloadSettled DEF Resident
    <3>2. CASE s.entries[k] = None
      BY <3>2 DEF KeepsPins
    <3> QED
      BY <3>1, <3>2
  <2> DEFINE h == RemoveHot(u, {k})
  <2>3. h \in CacheType /\ SameRam(u, h)
    BY <2>2, HotEdits DEF Settled
  <2>4. RemoveDisk(h, k) \in CacheType /\ SameRam(h, RemoveDisk(h, k))
    <3> HIDE DEF h
    <3> QED
      BY <2>3, HotEdits
  <2>5. EraseKey(s, k) = RemoveDisk(h, k)
    BY <1>2 DEF EraseKey
  <2> HIDE DEF u, h
  <2>6. SameRam(u, EraseKey(s, k))
    BY <2>3, <2>4, <2>5 DEF SameRam
  <2>7. Settled(EraseKey(s, k)) /\ KeepsPins(u, EraseKey(s, k))
    BY <2>2, <2>4, <2>5, <2>6, SameRamSettled
  <2> QED
    BY <2>2, <2>7 DEF KeepsPins
<1> QED
  BY <1>1, <1>2

-----------------------------------------------------------------------------
(* The calls. *)

LEMMA HydrateSettled ==
  ASSUME NEW s, Settled(s), NEW k \in Keys, s.entries[k] = None,
         NEW kind \in Kinds, Fits(s, SizeOf(kind)), NEW u \in Hydrate(s, k, kind)
  PROVE  Settled(u) /\ KeepsPins(s, u) /\ u.entries[k] \in Kinds \cup {None}
<1>1. u \in InsertResident(Allocate(s, k, kind), k, kind, TRUE)
  BY DEF Hydrate
<1> QED
  BY <1>1, InsertSettled

(* An answer of find() that leaves the object settled and the pins alone. *)
Sound(s, answer) ==
  /\ Settled(answer.state)
  /\ KeepsPins(s, answer.state)
  /\ answer.reply \in Kinds \cup {None}

LEMMA LookupDiskSettled ==
  ASSUME NEW s, Settled(s), NEW k \in Keys, s.entries[k] = None,
         NEW answer \in LookupDisk(s, k)
  PROVE  Sound(s, answer)
<1> DEFINE kind == s.disk[k]
<1>1. kind \in Kinds \cup {None}
  BY DEF Settled, CacheType
<1>2. CASE kind = None
  <2>1. answer = Answer(s, None)
    BY <1>2 DEF LookupDisk
  <2> QED
    BY <2>1 DEF Answer, Sound, KeepsPins
<1>3. CASE kind # None
  <2>1. PICK t \in EvictUntilFits(s, SizeOf(kind)) :
          answer \in IF Fits(t, SizeOf(kind))
            THEN {Answer(u, u.entries[k]) : u \in Hydrate(t, k, kind)}
                   \cup {Answer(RemoveDisk(t, k), None)}
            ELSE {Answer(t, None)}
    BY <1>3 DEF LookupDisk
  <2>2. Settled(t) /\ KeepsPins(s, t) /\ t.entries[k] = None
    BY EvictSettled
  <2>3. CASE answer = Answer(t, None)
    BY <2>2, <2>3 DEF Answer, Sound
  <2>4. CASE answer = Answer(RemoveDisk(t, k), None)
    <3>1. Settled(RemoveDisk(t, k)) /\ KeepsPins(t, RemoveDisk(t, k))
      BY <2>2, HotEdits, SameRamSettled DEF Settled
    <3> QED
      BY <2>2, <2>4, <3>1 DEF Answer, Sound, KeepsPins
  <2>5. ASSUME Fits(t, SizeOf(kind)), NEW u \in Hydrate(t, k, kind),
               answer = Answer(u, u.entries[k])
        PROVE  Sound(s, answer)
    <3>1. Settled(u) /\ KeepsPins(t, u) /\ u.entries[k] \in Kinds \cup {None}
      BY <1>1, <1>3, <2>2, <2>5, HydrateSettled
    <3> QED
      BY <2>2, <2>5, <3>1 DEF Answer, Sound, KeepsPins
  <2> QED
    BY <2>1, <2>3, <2>4, <2>5
<1> QED
  BY <1>2, <1>3

LEMMA LookupSettled ==
  ASSUME NEW s, Settled(s), NEW k \in Keys, NEW answer \in Lookup(s, k)
  PROVE  Sound(s, answer)
<1>1. CASE s.entries[k] # None
  <2> DEFINE t == Touch(s, k)
  <2>1. Settled(t) /\ KeepsPins(s, t)
    BY TouchSettled
  <2> HIDE DEF t
  <2>2. Settled(TouchHot(t, k)) /\ KeepsPins(t, TouchHot(t, k))
    BY <2>1, HotEdits, SameRamSettled DEF Settled
  <2>3. answer = Answer(TouchHot(t, k), s.entries[k])
    BY <1>1 DEF Lookup, t
  <2>4. s.entries[k] \in Kinds \cup {None}
    BY DEF Settled, CacheType
  <2> QED
    BY <2>1, <2>2, <2>3, <2>4 DEF Answer, Sound, KeepsPins
<1>2. CASE s.entries[k] = None
  <2> DEFINE kind == s.hot[k]
  <2>1. answer \in LookupHot(s, k) /\ kind \in Kinds \cup {None}
    BY <1>2 DEF Lookup, Settled, CacheType
  <2>2. CASE kind = None
    <3>1. answer \in LookupDisk(s, k)
      BY <2>1, <2>2 DEF LookupHot
    <3> QED
      BY <1>2, <3>1, LookupDiskSettled
  <2>3. CASE kind # None
    <3>1. PICK t \in EvictUntilFits(s, SizeOf(kind)) :
            answer \in
              (IF Fits(t, SizeOf(kind))
                 THEN {Answer(TouchHot(u, k), u.entries[k]) : u \in Hydrate(t, k, kind)}
                 ELSE {})
              \cup LookupDisk(RemoveHot(t, {k}), k)
      BY <2>1, <2>3 DEF LookupHot
    <3>2. Settled(t) /\ KeepsPins(s, t) /\ t.entries[k] = None
      BY <1>2, EvictSettled
    <3>3. CASE answer \in LookupDisk(RemoveHot(t, {k}), k)
      <4> DEFINE h == RemoveHot(t, {k})
      <4>1. Settled(h) /\ KeepsPins(t, h) /\ h.entries[k] = None
        <5>1. h \in CacheType /\ SameRam(t, h)
          BY <3>2, HotEdits DEF Settled
        <5> HIDE DEF h
        <5> QED
          BY <3>2, <5>1, SameRamSettled DEF SameRam
      <4>2. answer \in LookupDisk(h, k)
        BY <3>3
      <4> HIDE DEF h
      <4>3. Sound(h, answer)
        BY <4>1, <4>2, LookupDiskSettled
      <4> QED
        BY <3>2, <4>1, <4>3 DEF Sound, KeepsPins
    <3>4. ASSUME Fits(t, SizeOf(kind)), NEW u \in Hydrate(t, k, kind),
                 answer = Answer(TouchHot(u, k), u.entries[k])
          PROVE  Sound(s, answer)
      <4>1. Settled(u) /\ KeepsPins(t, u) /\ u.entries[k] \in Kinds \cup {None}
        BY <2>1, <2>3, <3>2, <3>4, HydrateSettled
      <4>2. Settled(TouchHot(u, k)) /\ KeepsPins(u, TouchHot(u, k))
        BY <4>1, HotEdits, SameRamSettled DEF Settled
      <4> QED
        BY <3>2, <3>4, <4>1, <4>2 DEF Answer, Sound, KeepsPins
    <3> QED
      BY <3>1, <3>3, <3>4
  <2> QED
    BY <2>2, <2>3
<1> QED
  BY <1>1, <1>2 DEF Settled, CacheType

LEMMA StoreSettled ==
  ASSUME NEW s, Settled(s), NEW k \in Keys, s.entries[k] = None,
         NEW kind \in Kinds, NEW u \in StoreOutcomes(s, k, kind)
  PROVE  Settled(u) /\ KeepsPins(s, u)
<1> DEFINE n == SizeOf(kind)
<1>1. PICK t \in EvictUntilFits(s, n) :
        u \in IF Fits(t, n) /\ CanStore(t, n)
                THEN InsertResident(Allocate(t, k, kind), k, kind, FALSE)
                       \cup {ReleaseAll(Allocate(t, k, kind), {k})}
                ELSE {t}
  BY DEF StoreOutcomes
<1>2. Settled(t) /\ KeepsPins(s, t) /\ t.entries[k] = None
  BY EvictSettled
<1>3. CASE u = t
  BY <1>2, <1>3
<1>4. CASE Fits(t, n) /\ u \in InsertResident(Allocate(t, k, kind), k, kind, FALSE)
  <2>1. Settled(u) /\ KeepsPins(t, u)
    BY <1>2, <1>4, InsertSettled
  <2> QED
    BY <1>2, <2>1 DEF KeepsPins
<1>5. CASE u = ReleaseAll(Allocate(t, k, kind), {k})
  <2> DEFINE a == Allocate(t, k, kind)
  <2>1. a \in CacheType
    <3>1. n \in Nat \ {0} /\ n <= TerminalSize
      BY SizeType
    <3>2. [t.ledger EXCEPT ![k] = n] \in [Keys -> 0..TerminalSize] /\ t.ramUsed + n \in Nat
      BY <1>2, <3>1, SizesAssumption DEF Settled, CacheType
    <3>3. a = [t EXCEPT !.ledger[k] = n, !.ramUsed = @ + n]
      BY DEF Allocate
    <3> HIDE DEF a, n
    <3> QED
      BY <1>2, <3>2, <3>3 DEF Settled, CacheType
  <2>2. SameRam(Allocate(t, k, kind), a)
    BY DEF SameRam
  <2>3. Settled(ReleaseAll(a, {k})) /\ KeepsPins(t, ReleaseAll(a, {k}))
    <3> HIDE DEF a
    <3> QED
      BY <1>2, <2>1, <2>2, RollbackSettled
  <2> QED
    BY <1>2, <1>5, <2>3 DEF KeepsPins
<1> QED
  BY <1>1, <1>3, <1>4, <1>5

-----------------------------------------------------------------------------
(* The theorems. *)

LEMMA InitSettled == Init => IInv
<1> SUFFICES ASSUME Init PROVE IInv
  OBVIOUS
<1>1. cache \in CacheType
  BY SizesAssumption DEF Init, CacheType
<1>2. Bytes(cache.entries, Keys) = 0
  BY BytesEmpty DEF Init
<1> QED
  BY <1>1, <1>2, BudgetsAssumption DEF Init, IInv, Settled, Calls

(* One step of the cache: the object stays settled, and every step except  *)
(* retain and release keeps the pins; those keep the blocks they hold.     *)
(* Writing the reference counts leaves the rest of the record as it is.    *)
LEMMA RefsWritten ==
  ASSUME NEW s \in CacheType, NEW refs \in [Keys -> Nat]
  PROVE  LET t == [s EXCEPT !.refs = refs]
         IN  /\ t \in CacheType /\ t.refs = refs
             /\ t.entries = s.entries /\ t.lru = s.lru /\ t.used = s.used
             /\ t.ramUsed = s.ramUsed /\ t.ledger = s.ledger
             /\ t.hot = s.hot /\ t.hotLru = s.hotLru
             /\ t.hotLedger = s.hotLedger /\ t.hotUsed = s.hotUsed
             /\ t.disk = s.disk /\ t.diskUsed = s.diskUsed
<1> DEFINE t == [s EXCEPT !.refs = refs]
<1>1. t \in CacheType
  BY DEF CacheType
<1>2. /\ t.refs = refs /\ t.entries = s.entries /\ t.lru = s.lru
      /\ t.used = s.used /\ t.ramUsed = s.ramUsed /\ t.ledger = s.ledger
  BY DEF CacheType
<1>3. /\ t.hot = s.hot /\ t.hotLru = s.hotLru
      /\ t.hotLedger = s.hotLedger /\ t.hotUsed = s.hotUsed
      /\ t.disk = s.disk /\ t.diskUsed = s.diskUsed
  BY DEF CacheType
<1> QED
  BY <1>1, <1>2, <1>3

LEMMA StepSettled ==
  ASSUME IInv, [Next]_vars
  PROVE  /\ IInv'
         /\ \A k \in Keys :
              cache.refs[k] > 0 => cache'.entries[k] = cache.entries[k]
<1>1. Settled(cache) /\ last \in [call : Calls, reply : Kinds \cup {None}]
  BY DEF IInv
<1>2. ASSUME NEW k \in Keys, Find(k)
      PROVE  IInv' /\ KeepsPins(cache, cache')
  <2>1. PICK answer \in Lookup(cache, k) :
          cache' = answer.state /\ Returns("find", answer.reply)
    BY <1>2 DEF Find
  <2>2. Sound(cache, answer)
    BY <1>1, LookupSettled
  <2> QED
    BY <2>1, <2>2 DEF Sound, Returns, IInv, Settled, Calls
<1>3. ASSUME NEW k \in Keys, NEW kind \in Kinds, Store(k, kind)
      PROVE  IInv' /\ KeepsPins(cache, cache')
  <2>1. cache.entries[k] = None /\ cache' \in StoreOutcomes(cache, k, kind)
    BY <1>3 DEF Store, Contains
  <2>2. Settled(cache') /\ KeepsPins(cache, cache')
    BY <1>1, <2>1, StoreSettled
  <2> QED
    BY <1>3, <2>2 DEF Store, Returns, IInv, Settled, Calls
<1>4. ASSUME NEW k \in Keys, Retain(k)
      PROVE  IInv' /\ cache'.entries = cache.entries
  <2> DEFINE s == [cache EXCEPT !.refs[k] = @ + 1]
  <2>1. Settled(s)
    <3>1. cache \in CacheType /\ cache.entries[k] # None
      BY <1>1, <1>4 DEF Settled, Retain
    <3> DEFINE refs == [cache.refs EXCEPT ![k] = @ + 1]
    <3>2. refs \in [Keys -> Nat] /\ s = [cache EXCEPT !.refs = refs]
      BY <3>1 DEF CacheType
    <3>3. \A j \in Keys : cache.entries[j] = None => refs[j] = 0
      BY <1>1, <3>1 DEF Settled, CacheType
    <3> HIDE DEF s, refs
    <3>4. /\ s \in CacheType /\ s.refs = refs
          /\ s.entries = cache.entries /\ s.used = cache.used
          /\ s.ramUsed = cache.ramUsed /\ s.ledger = cache.ledger
      BY <3>1, <3>2, RefsWritten
    <3> QED
      BY <1>1, <3>3, <3>4 DEF Settled
  <2>2. s.entries = cache.entries
    BY <1>1 DEF Settled, CacheType
  <2>3. cache' = Touch(s, k)
    BY <1>4 DEF Retain
  <2> HIDE DEF s
  <2>4. Settled(Touch(s, k)) /\ Touch(s, k).entries = s.entries
    BY <2>1, TouchSettled DEF Touch, Settled, CacheType
  <2> QED
    BY <1>4, <2>2, <2>3, <2>4 DEF Retain, Returns, IInv, Settled, Calls
<1>5. ASSUME NEW k \in Keys, Release(k)
      PROVE  IInv' /\ cache'.entries = cache.entries
  <2>1. cache \in CacheType /\ cache.entries[k] # None /\ cache.refs[k] > 0
    BY <1>1, <1>5 DEF Settled, Release
  <2> DEFINE refs == [cache.refs EXCEPT ![k] = @ - 1]
  <2>2. refs \in [Keys -> Nat] /\ cache' = [cache EXCEPT !.refs = refs]
    BY <1>5, <2>1 DEF Release, CacheType
  <2>3. Settled(cache') /\ cache'.entries = cache.entries
    <3>1. \A j \in Keys : cache.entries[j] = None => refs[j] = 0
      BY <1>1, <2>1 DEF Settled, CacheType
    <3> HIDE DEF refs
    <3>2. /\ cache' \in CacheType /\ cache'.refs = refs
          /\ cache'.entries = cache.entries /\ cache'.used = cache.used
          /\ cache'.ramUsed = cache.ramUsed /\ cache'.ledger = cache.ledger
      BY <2>1, <2>2, RefsWritten
    <3> QED
      BY <1>1, <3>1, <3>2 DEF Settled
  <2> QED
    BY <1>5, <2>3 DEF Release, Returns, IInv, Settled, Calls
<1>6. ASSUME NEW k \in Keys, Erase(k)
      PROVE  IInv' /\ KeepsPins(cache, cache')
  <2>1. cache' = EraseKey(cache, k)
    BY <1>6 DEF Erase
  <2>2. Settled(cache') /\ KeepsPins(cache, cache')
    BY <1>1, <2>1, EraseSettled
  <2> QED
    BY <1>6, <2>2 DEF Erase, Returns, IInv, Settled, Calls
<1>7. CASE UNCHANGED vars
  BY <1>1, <1>7 DEF vars, IInv, Settled
<1>8. CASE Next
  BY <1>2, <1>3, <1>4, <1>5, <1>6, <1>8 DEF Next, KeepsPins
<1> QED
  BY <1>7, <1>8 DEF vars

(* Between two calls the object is settled, for every history of calls.    *)
THEOREM SettledAlways == Spec => []IInv
<1>1. Init => IInv
  BY InitSettled
<1>2. IInv /\ [Next]_vars => IInv'
  BY StepSettled
<1> QED
  BY <1>1, <1>2, PTL DEF Spec

(* Every field of the cache object always has its type. *)
THEOREM TypeCorrect == Spec => []TypeOK
<1>1. IInv => TypeOK
  BY DEF IInv, Settled, TypeOK
<1> QED
  BY <1>1, SettledAlways, PTL

(* The RAM counts of the cache and of its backend always describe exactly  *)
(* the resident blocks and never exceed the budget (insertResident,        *)
(* evictResident, find's and harvestPrefix's rollbacks).                   *)
THEOREM RamAccountingHolds == Spec => []RamAccounting
<1>1. IInv => RamAccounting
  BY DEF IInv, Settled, RamAccounting
<1> QED
  BY <1>1, SettledAlways, PTL

(* No call takes away or replaces a block that a caller has retained.      *)
THEOREM PinnedStaysResidentHolds == Spec => PinnedStaysResident
<1>1. IInv /\ [Next]_vars =>
        [\A k \in Keys :
           cache.refs[k] > 0 => cache'.entries[k] = cache.entries[k]]_vars
  BY StepSettled
<1> QED
  BY <1>1, SettledAlways, PTL DEF Spec, PinnedStaysResident

-----------------------------------------------------------------------------
(* Numbers and recency lists. *)

(* A non-empty set of numbers has a least element. *)
LEMMA Least ==
  ASSUME NEW T \in SUBSET Nat, T # {}
  PROVE  \E n \in T : \A m \in T : n <= m
<1> DEFINE R == OpToRel(<, Nat)
<1>1. IsWellFoundedOn(R, Nat)
  BY NatLessThanWellFounded
<1>2. PICK n \in T : \A m \in T : ~(<<m, n>> \in R)
  <2> HIDE DEF R
  <2> QED BY <1>1, WFMin
<1>3. \A m, l \in Nat : m < l => <<m, l>> \in R
  BY DEF OpToRel
<1> HIDE DEF R
<1>4. \A m \in T : ~(m < n)
  BY <1>2, <1>3
<1> QED
  BY <1>4

(* Among finitely many blocks some block has the largest number. *)
LEMMA Latest ==
  ASSUME NEW W, W # {}, NEW c \in Nat, NEW turn, \A k \in W : turn[k] \in 1..c
  PROVE  \E k \in W : \A j \in W : turn[j] <= turn[k]
<1> DEFINE T == {c - turn[k] : k \in W}
<1>1. T \in SUBSET Nat /\ T # {}
  OBVIOUS
<1>2. PICK n \in T : \A m \in T : n <= m
  <2> HIDE DEF T
  <2> QED
    BY <1>1, Least
<1>3. PICK k \in W : n = c - turn[k]
  BY <1>2
<1>4. \A j \in W : c - turn[k] <= c - turn[j]
  BY <1>2, <1>3
<1> QED
  BY <1>4

(* A recency list stays one when blocks leave it ... *)
LEMMA WithoutOrder ==
  ASSUME NEW S, NEW order, StrictTotalOrder(order, S), NEW V
  PROVE  StrictTotalOrder(Without(order, V), S \ V)
BY DEF StrictTotalOrder, Without

(* ... and when one, new or not, moves to the front. *)
LEMMA ToFrontOrder ==
  ASSUME NEW S, NEW order, StrictTotalOrder(order, S), NEW k, NEW T, T = S \cup {k}
  PROVE  StrictTotalOrder(ToFront(order, k, T), T)
<1> DEFINE new == ToFront(order, k, T)
<1>1. \A i, j : <<i, j>> \in new <=>
        \/ <<i, j>> \in order /\ i # k /\ j # k
        \/ i = k /\ j \in T /\ j # k
  BY DEF ToFront, Without
<1>2. new \subseteq T \X T
  BY DEF ToFront, Without, StrictTotalOrder
<1> HIDE DEF new
<1>3. \A i, j \in T : i # j => (<<i, j>> \in new <=> <<j, i>> \notin new)
  BY <1>1 DEF StrictTotalOrder
<1>4. \A i \in T : <<i, i>> \notin new
  BY <1>1 DEF StrictTotalOrder
<1>5. ASSUME NEW h \in T, NEW i \in T, NEW j \in T, <<h, i>> \in new, <<i, j>> \in new
      PROVE  <<h, j>> \in new
  BY <1>1, <1>5 DEF StrictTotalOrder
<1>6. \A h, i, j \in T : <<h, i>> \in new /\ <<i, j>> \in new => <<h, j>> \in new
  BY ONLY <1>5
<1>7. StrictTotalOrder(new, T)
  BY ONLY <1>2, <1>3, <1>4, <1>6, Zenon DEF StrictTotalOrder
<1> QED
  BY ONLY <1>7 DEF new

-----------------------------------------------------------------------------
(* Making room in RAM. *)

(* What unloading does to every field it is not about. *)
LEMMA UnloadFields ==
  ASSUME NEW s \in CacheType, NEW V
  PROVE  /\ Unload(s, V).entries = [k \in Keys |-> IF k \in V THEN None ELSE s.entries[k]]
         /\ Unload(s, V).lru = Without(s.lru, V)
         /\ Unload(s, V).refs = s.refs
         /\ Unload(s, V).hot = s.hot /\ Unload(s, V).hotLru = s.hotLru
         /\ Unload(s, V).disk = s.disk
         /\ SameCounts(s, Unload(s, V))
<1> DEFINE entries == [k \in Keys |-> IF k \in V THEN None ELSE s.entries[k]]
<1> DEFINE used == s.used - AtMost(s.used, Bytes(s.entries, V))
<1> DEFINE lru == Without(s.lru, V)
<1> DEFINE mid == [s EXCEPT !.used = used, !.lru = lru, !.entries = entries]
<1>1. Unload(s, V) = ReleaseAll(mid, V)
  BY DEF Unload
<1>2. /\ mid.entries = entries /\ mid.lru = lru /\ mid.refs = s.refs
      /\ mid.hot = s.hot /\ mid.hotLru = s.hotLru /\ mid.disk = s.disk
      /\ mid = [entries |-> entries, refs |-> s.refs, lru |-> lru,
                used |-> used, ledger |-> s.ledger, ramUsed |-> s.ramUsed,
                hot |-> s.hot, hotLru |-> s.hotLru,
                hotLedger |-> s.hotLedger, hotUsed |-> s.hotUsed,
                disk |-> s.disk, diskUsed |-> s.diskUsed]
  <2> DEFINE m1 == [s EXCEPT !.used = used]
  <2> DEFINE m2 == [m1 EXCEPT !.lru = lru]
  <2> HIDE DEF entries, used, lru
  <2>1. m1 = [entries |-> s.entries, refs |-> s.refs, lru |-> s.lru,
              used |-> used, ledger |-> s.ledger, ramUsed |-> s.ramUsed,
              hot |-> s.hot, hotLru |-> s.hotLru,
              hotLedger |-> s.hotLedger, hotUsed |-> s.hotUsed,
              disk |-> s.disk, diskUsed |-> s.diskUsed]
    BY DEF CacheType
  <2>2. mid = [m2 EXCEPT !.entries = entries]
    OBVIOUS
  <2> HIDE DEF m1, mid
  <2>3. m2 = [entries |-> s.entries, refs |-> s.refs, lru |-> lru,
              used |-> used, ledger |-> s.ledger, ramUsed |-> s.ramUsed,
              hot |-> s.hot, hotLru |-> s.hotLru,
              hotLedger |-> s.hotLedger, hotUsed |-> s.hotUsed,
              disk |-> s.disk, diskUsed |-> s.diskUsed]
    BY <2>1
  <2> HIDE DEF m2
  <2>4. mid = [entries |-> entries, refs |-> s.refs, lru |-> lru,
               used |-> used, ledger |-> s.ledger, ramUsed |-> s.ramUsed,
               hot |-> s.hot, hotLru |-> s.hotLru,
               hotLedger |-> s.hotLedger, hotUsed |-> s.hotUsed,
               disk |-> s.disk, diskUsed |-> s.diskUsed]
    BY <2>2, <2>3
  <2> HIDE DEF mid
  <2> QED
    BY <2>4
<1> DEFINE ramUsed == mid.ramUsed - AtMost(mid.ramUsed, LedgerBytes(mid.ledger, V))
<1> DEFINE ledger == [k \in Keys |-> IF k \in V THEN 0 ELSE mid.ledger[k]]
<1>3. ReleaseAll(mid, V) = [mid EXCEPT !.ramUsed = ramUsed, !.ledger = ledger]
  BY DEF ReleaseAll
<1> DEFINE u == [mid EXCEPT !.ramUsed = ramUsed, !.ledger = ledger]
<1> HIDE DEF entries, used, mid, ramUsed, ledger, lru
<1>4. /\ mid.hotLedger = s.hotLedger /\ mid.hotUsed = s.hotUsed
      /\ mid.diskUsed = s.diskUsed
  BY <1>2
<1>5. /\ u.entries = mid.entries /\ u.lru = mid.lru /\ u.refs = mid.refs
      /\ u.hot = mid.hot /\ u.hotLru = mid.hotLru /\ u.disk = mid.disk
  BY <1>2
<1>6. /\ u.hotLedger = mid.hotLedger /\ u.hotUsed = mid.hotUsed
      /\ u.diskUsed = mid.diskUsed
  BY <1>2
<1>7. Unload(s, V) = u
  BY <1>1, <1>3
<1> HIDE DEF u
<1>8. /\ Unload(s, V).entries = entries /\ Unload(s, V).lru = lru
      /\ Unload(s, V).refs = s.refs
      /\ Unload(s, V).hot = s.hot /\ Unload(s, V).hotLru = s.hotLru
      /\ Unload(s, V).disk = s.disk
  BY <1>2, <1>5, <1>7
<1>9. SameCounts(s, Unload(s, V))
  BY <1>4, <1>6, <1>7 DEF SameCounts
<1> QED
  BY <1>8, <1>9 DEF entries, lru

(* The blocks an eviction that turns s into t has taken out of RAM. *)
Victims(s, t) == {k \in Resident(s) : t.entries[k] = None}

(* stats_.disk_bytes is right. *)
DiskCounted(s) ==
  /\ s.diskUsed = Bytes(s.disk, Keys)
  /\ DiskBudget # 0 => s.diskUsed <= DiskBudget

(* The device-hot backend's used_bytes_ and allocations_ are right. *)
HotCounted(s) ==
  /\ s.hotUsed = Bytes(s.hot, Keys)
  /\ s.hotUsed <= HotBudget
  /\ \A k \in Keys :
       s.hotLedger[k] = IF s.hot[k] = None THEN 0 ELSE SizeOf(s.hot[k])

(* t is s with some unpinned residents moved to disk, each after the older *)
(* ones that could move.                                                   *)
Evicts(s, t) ==
  /\ \A k \in Keys : t.entries[k] \in {s.entries[k], None}
  /\ t.refs = s.refs /\ t.hot = s.hot /\ t.hotLru = s.hotLru
  /\ t.hotLedger = s.hotLedger /\ t.hotUsed = s.hotUsed
  /\ t.lru = Without(s.lru, Victims(s, t))
  /\ \A k \in Keys :
       t.disk[k] = IF HasDisk /\ k \in Victims(s, t) /\ s.disk[k] = None
                     THEN s.entries[k] ELSE s.disk[k]
  /\ \A k \in Victims(s, t) :
       \A j \in OlderThan(s.lru, k) : j \in Victims(s, t) \/ MaySkip(s, j)
  /\ DiskCounted(s) => DiskCounted(t)

(* The blocks written are counted, and the last one found room for itself  *)
(* and all before it.                                                      *)
LEMMA PersistCounted ==
  ASSUME NEW s \in CacheType, NEW V \in SUBSET Resident(s), NEW n,
         NEW turn \in Orders(V), IsEviction(s, V, turn, n), DiskCounted(s)
  PROVE  DiskCounted(Persist(s, V))
<1> DEFINE p == Persist(s, V)
<1> DEFINE W == Unwritten(s, V)
<1>1. V \in SUBSET Keys /\ W \in SUBSET Keys /\ W \in SUBSET V
  BY DEF Resident, Unwritten
<1>2. CASE ~HasDisk
  BY <1>2 DEF Persist
<1>3. CASE HasDisk
  <2>1. /\ \A k \in W : p.disk[k] = s.entries[k] /\ s.disk[k] = None
        /\ \A k \in Keys \ W : p.disk[k] = s.disk[k]
        /\ p.diskUsed = s.diskUsed + Bytes(s.entries, W)
    <3>1. /\ p.disk = [k \in Keys |-> IF HasDisk /\ k \in V /\ s.disk[k] = None
                                         THEN s.entries[k] ELSE s.disk[k]]
          /\ p.diskUsed = DiskUsedWith(s, V)
      BY <1>1, <1>3, PersistKeeps
    <3>2. p.diskUsed = s.diskUsed + Bytes(s.entries, W)
      BY <3>1 DEF DiskUsedWith
    <3> HIDE DEF p
    <3> QED
      BY <1>1, <1>3, <3>1, <3>2 DEF Unwritten
  <2> HIDE DEF p
  <2>2. Bytes(p.disk, Keys) = Bytes(s.disk, Keys) + Bytes(s.entries, W)
    <3> HIDE DEF W
    <3>1. /\ Bytes(s.disk, Keys) = Bytes(s.disk, W) + Bytes(s.disk, Keys \ W)
          /\ Bytes(p.disk, Keys) = Bytes(p.disk, W) + Bytes(p.disk, Keys \ W)
      BY <1>1, BytesSplit
    <3>2. Bytes(s.disk, W) = 0
      BY <1>1, <2>1, BytesEmpty
    <3>3. Bytes(p.disk, Keys \ W) = Bytes(s.disk, Keys \ W)
      BY <2>1, BytesSame
    <3>4. Bytes(p.disk, W) = Bytes(s.entries, W)
      BY <1>1, <2>1, BytesSame
    <3>5. Bytes(s.disk, Keys \ W) \in Nat /\ Bytes(s.entries, W) \in Nat
      BY <1>1, BytesType
    <3> QED
      BY <3>1, <3>2, <3>3, <3>4, <3>5
  <2>3. p.diskUsed = Bytes(p.disk, Keys)
    BY <2>1, <2>2 DEF DiskCounted
  <2>4. ASSUME DiskBudget # 0
        PROVE  p.diskUsed <= DiskBudget
    <3>1. CASE W = {}
      <4>1. Bytes(s.entries, W) = 0
        BY <3>1, BytesEmpty
      <4>2. p.diskUsed = s.diskUsed
        BY <2>1, <4>1 DEF CacheType
      <4> QED
        BY <2>4, <4>2 DEF DiskCounted
    <3>2. CASE W # {}
      <4>1. IsFiniteSet(V) /\ Cardinality(V) \in Nat
        BY <1>1, KeysAssumption, FS_Subset, FS_CardinalityType
      <4>2. \A k \in W : turn[k] \in 1..Cardinality(V)
        BY <1>1 DEF Orders
      <4>3. PICK k \in W : \A j \in W : turn[j] <= turn[k]
        <5> HIDE DEF W
        <5> QED
          BY <3>2, <4>1, <4>2, Latest
      <4> DEFINE before == {j \in V : turn[j] < turn[k]}
      <4>4. Evictable(s, k, before)
        BY <1>1, <4>3 DEF IsEviction
      <4>5. Unwritten(s, before) = W \ {k}
        <5>1. \A j \in W \ {k} : turn[j] < turn[k]
          <6>1. \A j \in W \ {k} : turn[j] # turn[k]
            BY <1>1, <4>3 DEF Orders
          <6> QED
            BY <4>1, <4>2, <4>3, <6>1
        <5>2. ~(turn[k] < turn[k])
          BY <4>1, <4>2
        <5> QED
          BY <5>1, <5>2 DEF Unwritten
      <4>6. s.disk[k] = None
        BY <4>3 DEF Unwritten
      <4>7. s.diskUsed + Bytes(s.entries, W \ {k}) + SizeOf(s.entries[k]) <= DiskBudget
        BY <1>3, <2>4, <4>4, <4>5, <4>6 DEF Evictable, DiskHasRoom
      <4>8. Bytes(s.entries, W) = Bytes(s.entries, {k}) + Bytes(s.entries, W \ {k})
        BY <1>1, <4>3, BytesParts
      <4>9. Bytes(s.entries, {k}) = SizeOf(s.entries[k])
        BY <1>1, <4>3, BytesOne DEF Resident
      <4>10. /\ Bytes(s.entries, W \ {k}) \in Nat /\ SizeOf(s.entries[k]) \in Nat
             /\ s.diskUsed \in Nat
        BY <1>1, BytesType, SizeType DEF CacheType
      <4> HIDE DEF W
      <4> QED
        BY <2>1, <4>7, <4>8, <4>9, <4>10
    <3> QED
      BY <3>1, <3>2
  <2> QED
    BY <2>3, <2>4 DEF DiskCounted, p
<1> QED
  BY <1>2, <1>3

LEMMA EvictOutcome ==
  ASSUME NEW s \in CacheType, NEW n, NEW t \in EvictUntilFits(s, n)
  PROVE  Evicts(s, t)
<1>1. CASE n > RamBudget
  <2>1. t = s
    BY <1>1 DEF EvictUntilFits
  <2>2. \A k \in Keys : ~(k \in Victims(s, t))
    BY <2>1 DEF Victims, Resident
  <2>3. s.lru = Without(s.lru, Victims(s, t))
    BY <2>2 DEF Without, CacheType, Victims, Resident
  <2> QED
    BY <2>1, <2>2, <2>3 DEF Evicts, Victims, Resident
<1>2. CASE ~(n > RamBudget)
  <2>1. PICK V \in SUBSET Resident(s) :
          /\ \E turn \in Orders(V) : IsEviction(s, V, turn, n)
          /\ t = Unload(Persist(s, V), V)
    BY <1>2 DEF EvictUntilFits
  <2>2. PICK turn \in Orders(V) : IsEviction(s, V, turn, n)
    BY <2>1
  <2> DEFINE p == Persist(s, V)
  <2>3. /\ p \in CacheType /\ SameRam(s, p) /\ p.hot = s.hot /\ p.hotLru = s.hotLru
        /\ p.hotLedger = s.hotLedger /\ p.hotUsed = s.hotUsed
        /\ p.disk = [k \in Keys |-> IF HasDisk /\ k \in V /\ s.disk[k] = None
                                      THEN s.entries[k] ELSE s.disk[k]]
    <3>1. V \in SUBSET Keys
      BY DEF Resident
    <3> QED
      BY <3>1, PersistKeeps
  <2>4. /\ t.entries = [k \in Keys |-> IF k \in V THEN None ELSE p.entries[k]]
        /\ t.lru = Without(p.lru, V)
        /\ t.refs = p.refs /\ t.hot = p.hot /\ t.hotLru = p.hotLru /\ t.disk = p.disk
        /\ SameCounts(p, t)
    <3> HIDE DEF p
    <3> QED
      BY <2>1, <2>3, UnloadFields DEF p
  <2> HIDE DEF p
  <2>5. Victims(s, t) = V
    BY <2>3, <2>4 DEF Victims, Resident, SameRam
  <2>6. \A k \in V : \A j \in OlderThan(s.lru, k) : j \in V \/ MaySkip(s, j)
    BY <2>2 DEF IsEviction
  <2>7. DiskCounted(s) => DiskCounted(t)
    <3>1. DiskCounted(s) => DiskCounted(p)
      BY <2>2, PersistCounted DEF p
    <3> QED
      BY <2>4, <3>1 DEF DiskCounted, SameCounts
  <2> QED
    BY <2>3, <2>4, <2>5, <2>6, <2>7 DEF Evicts, SameRam, SameCounts
<1> QED
  BY <1>1, <1>2

-----------------------------------------------------------------------------
(* The tiers and their lists. *)

(* A device-hot block has a disk tier below RAM. *)
Covered == HasHot => HasDisk

(* The copies of a block in several tiers are the same block, and a hot    *)
(* copy has another one in RAM or on disk.                                 *)
CopiesAgree(s) ==
  \A k \in Keys :
    /\ s.entries[k] # None /\ s.disk[k] # None => s.entries[k] = s.disk[k]
    /\ s.hot[k] # None => s.hot[k] \in {s.entries[k], s.disk[k]}

(* What holds of the tiers and their lists between two calls. *)
Tiered(s) ==
  /\ StrictTotalOrder(s.lru, Resident(s))
  /\ StrictTotalOrder(s.hotLru, InHot(s))
  /\ ~HasHot => InHot(s) = {}
  /\ HotCounted(s)
  /\ DiskCounted(s)
  /\ Covered => CopiesAgree(s)

(* Eviction from s to t followed recency, as far as t can tell. *)
InOrder(s, t) ==
  \A j, k \in Resident(s) :
    /\ <<j, k>> \in s.lru
    /\ t.entries[j] = None
    /\ s.refs[k] = 0
    => t.entries[k] = None \/ (HasDisk /\ t.disk[k] = None)

Forgets(s, t) == \A k \in Keys : Visible(t, k) \in {Visible(s, k), None}
Keeps(s, t)   == \A k \in Keys : Visible(t, k) = Visible(s, k)

(* t is s after one or more evictions: it may be evicted from again, and   *)
(* what was evicted in between is still in order.                          *)
MakesRoom(s, t) ==
  /\ Tiered(t)
  /\ t.refs = s.refs
  /\ \A k \in Keys : t.entries[k] \in {s.entries[k], None}
  /\ \A k \in Keys : t.disk[k] # s.disk[k] => t.entries[k] = None
  /\ \A j, k \in Resident(t) : <<j, k>> \in s.lru => <<j, k>> \in t.lru
  /\ InOrder(s, t)
  /\ Covered => Forgets(s, t)
  /\ HasDisk => Keeps(s, t)

LEMMA MakesRoomTransitive ==
  ASSUME NEW s, NEW t, NEW u, MakesRoom(s, t), MakesRoom(t, u)
  PROVE  MakesRoom(s, u)
<1>1. \A k \in Keys : u.entries[k] \in {s.entries[k], None}
  BY DEF MakesRoom
<1>2. \A k \in Keys : u.disk[k] # s.disk[k] => u.entries[k] = None
  BY DEF MakesRoom
<1>3. Resident(u) \subseteq Resident(t) /\ Resident(t) \subseteq Resident(s)
  BY DEF MakesRoom, Resident
<1>4. \A j, k \in Resident(u) : <<j, k>> \in s.lru => <<j, k>> \in u.lru
  BY <1>3 DEF MakesRoom
<1>5. ASSUME NEW j \in Resident(s), NEW k \in Resident(s), <<j, k>> \in s.lru,
             u.entries[j] = None, s.refs[k] = 0
      PROVE  u.entries[k] = None \/ (HasDisk /\ u.disk[k] = None)
  <2>1. j \in Keys /\ k \in Keys /\ HasDisk \in BOOLEAN
    BY BudgetsAssumption DEF Resident
  <2>2. /\ t.entries[k] = None => u.entries[k] = None
        /\ u.disk[k] # t.disk[k] => u.entries[k] = None
    BY <2>1 DEF MakesRoom
  <2>3. CASE t.entries[j] = None
    <3>1. t.entries[k] = None \/ (HasDisk /\ t.disk[k] = None)
      BY <1>5, <2>3 DEF MakesRoom, InOrder
    <3> QED
      BY <2>1, <2>2, <3>1
  <2>4. CASE t.entries[j] # None
    <3>1. CASE t.entries[k] = None
      BY <2>2, <3>1
    <3>2. CASE t.entries[k] # None
      <4>1. j \in Resident(t) /\ k \in Resident(t) /\ <<j, k>> \in t.lru /\ t.refs[k] = 0
        BY <1>5, <2>1, <2>4, <3>2 DEF MakesRoom, Resident
      <4> QED
        BY <1>5, <4>1 DEF MakesRoom, InOrder
    <3> QED
      BY <3>1, <3>2
  <2> QED
    BY <2>3, <2>4
<1>6. Covered => Forgets(s, u)
  BY DEF MakesRoom, Forgets
<1>7. HasDisk => Keeps(s, u)
  BY DEF MakesRoom, Keeps
<1> QED
  BY <1>1, <1>2, <1>4, <1>5, <1>6, <1>7 DEF MakesRoom, InOrder

(* Making room in RAM leaves the tiers in order and loses no copy. *)
LEMMA EvictTiered ==
  ASSUME NEW s \in CacheType, Tiered(s), NEW n, NEW t \in EvictUntilFits(s, n)
  PROVE  MakesRoom(s, t)
<1> DEFINE V == Victims(s, t)
<1>1. Evicts(s, t)
  BY EvictOutcome
<1>2. \A k \in Keys : k \in V <=> s.entries[k] # None /\ t.entries[k] = None
  BY DEF Victims, Resident
<1>3. Resident(t) = Resident(s) \ V
  BY <1>1 DEF Evicts, Victims, Resident
<1>4. StrictTotalOrder(t.lru, Resident(t))
  BY <1>1, <1>3, WithoutOrder DEF Evicts, Tiered
<1>5. InHot(t) = InHot(s) /\ StrictTotalOrder(t.hotLru, InHot(t))
  BY <1>1 DEF Evicts, Tiered, InHot
<1>6. \A j, k \in Resident(t) : <<j, k>> \in s.lru => <<j, k>> \in t.lru
  BY <1>1, <1>3 DEF Evicts, Without
<1>7. ASSUME Covered, NEW k \in Keys
      PROVE  /\ t.entries[k] # None /\ t.disk[k] # None => t.entries[k] = t.disk[k]
             /\ t.hot[k] # None => t.hot[k] \in {t.entries[k], t.disk[k]}
             /\ Visible(t, k) \in {Visible(s, k), None}
             /\ HasDisk => Visible(t, k) = Visible(s, k)
  <2>1. /\ s.entries[k] # None /\ s.disk[k] # None => s.entries[k] = s.disk[k]
        /\ s.hot[k] # None => s.hot[k] \in {s.entries[k], s.disk[k]}
    BY <1>7 DEF Tiered, CopiesAgree
  <2>2. ~HasDisk => s.hot[k] = None
    BY <1>7 DEF Covered, Tiered, InHot
  <2>3. t.hot[k] = s.hot[k]
    BY <1>1 DEF Evicts
  <2>4. CASE k \in V
    <3>1. t.entries[k] = None /\ s.entries[k] # None
      BY <1>2, <2>4
    <3>2. t.disk[k] = IF HasDisk /\ s.disk[k] = None THEN s.entries[k] ELSE s.disk[k]
      BY <1>1, <2>4 DEF Evicts
    <3> QED
      BY <2>1, <2>2, <2>3, <3>1, <3>2 DEF Visible
  <2>5. CASE k \notin V
    <3>1. t.entries[k] = s.entries[k] /\ t.disk[k] = s.disk[k]
      BY <1>1, <1>2, <2>5 DEF Evicts
    <3> QED
      BY <2>1, <2>3, <3>1 DEF Visible
  <2> QED
    BY <2>4, <2>5
<1>8. Covered => CopiesAgree(t)
  BY <1>7 DEF CopiesAgree
<1>9. Covered => Forgets(s, t)
  BY <1>7 DEF Forgets
<1>10. HasDisk => Keeps(s, t)
  BY <1>7 DEF Keeps, Covered
<1>11. \A k \in Keys : t.disk[k] # s.disk[k] => t.entries[k] = None
  BY <1>1, <1>2 DEF Evicts
<1>12. InOrder(s, t)
  <2> SUFFICES ASSUME NEW j \in Resident(s), NEW k \in Resident(s),
                      <<j, k>> \in s.lru, t.entries[j] = None, s.refs[k] = 0,
                      t.entries[k] # None
               PROVE  HasDisk /\ t.disk[k] = None
    BY BudgetsAssumption DEF InOrder
  <2>1. j \in V /\ k \in OlderThan(s.lru, j) /\ k \notin V /\ k \in Keys /\ s.entries[k] # None
    BY DEF Victims, OlderThan, Resident
  <2>2. MaySkip(s, k)
    BY <1>1, <2>1 DEF Evicts
  <2>3. HasDisk /\ s.disk[k] = None
    BY <2>1, <2>2 DEF MaySkip
  <2> QED
    BY <1>1, <2>1, <2>3 DEF Evicts
<1>13. Tiered(t)
  BY <1>1, <1>4, <1>5, <1>8 DEF Tiered, Evicts, InHot, HotCounted
<1> QED
  BY <1>1, <1>6, <1>9, <1>10, <1>11, <1>12, <1>13 DEF MakesRoom, Evicts

-----------------------------------------------------------------------------
(* Editing the hot tier. *)

(* The backend gives back exactly what the blocks that leave occupied. *)
LEMMA RemoveHotCounted ==
  ASSUME NEW s \in CacheType, HotCounted(s), NEW V
  PROVE  HotCounted(RemoveHot(s, V))
<1> DEFINE t == RemoveHot(s, V)
<1> DEFINE W == V \cap InHot(s)
<1>1. /\ \A k \in Keys :
           /\ t.hot[k] = IF k \in V THEN None ELSE s.hot[k]
           /\ t.hotLedger[k] = IF k \in W THEN 0 ELSE s.hotLedger[k]
      /\ t.hotUsed = HotUsedWithout(s, V)
  BY RemoveHotFields
<1>2. /\ W \in SUBSET Keys
      /\ \A k \in W : t.hot[k] = None
      /\ \A k \in Keys \ W : t.hot[k] = s.hot[k]
  BY <1>1 DEF InHot
<1>3. \A k \in Keys :
        t.hotLedger[k] = IF t.hot[k] = None THEN 0 ELSE SizeOf(t.hot[k])
  <2> SUFFICES ASSUME NEW k \in Keys
               PROVE  t.hotLedger[k] = IF t.hot[k] = None THEN 0 ELSE SizeOf(t.hot[k])
    OBVIOUS
  <2>1. t.hotLedger[k] = IF k \in W THEN 0 ELSE s.hotLedger[k]
    BY <1>1
  <2> HIDE DEF t, W
  <2> QED
    BY <1>2, <2>1 DEF HotCounted
<1>4. t.hotUsed = s.hotUsed - AtMost(s.hotUsed, LedgerBytes(s.hotLedger, W))
  BY <1>1 DEF HotUsedWithout
<1> HIDE DEF t, W
<1>5. LedgerBytes(s.hotLedger, W) = Bytes(s.hot, W)
  BY <1>2, LedgerCounts DEF HotCounted
<1>6. /\ Bytes(t.hot, Keys) = Bytes(s.hot, Keys) - Bytes(s.hot, W)
      /\ Bytes(s.hot, W) <= Bytes(s.hot, Keys)
  BY <1>2, BytesDrop
<1>7. Bytes(s.hot, W) \in Nat /\ Bytes(s.hot, Keys) \in Nat
  BY <1>2, BytesType
<1>8. t.hotUsed = Bytes(t.hot, Keys) /\ t.hotUsed <= HotBudget
  BY <1>5, <1>6, <1>7, <1>4, BudgetsAssumption DEF HotCounted, AtMost
<1> QED
  BY <1>3, <1>8 DEF HotCounted, t

(* The backend counts what enters, and takes only what it has room for. *)
LEMMA AddHotCounted ==
  ASSUME NEW s \in CacheType, HotCounted(s), NEW k \in Resident(s),
         s.hot[k] = None, HotCanStore(s, SizeOf(s.entries[k]))
  PROVE  HotCounted(AddHot(s, k))
<1> DEFINE t == AddHot(s, k)
<1> DEFINE n == SizeOf(s.entries[k])
<1>1. k \in Keys /\ s.entries[k] # None /\ n \in Nat
      /\ s.hot \in Tier /\ s.hotLedger \in [Keys -> 0..TerminalSize]
  BY SizeType DEF Resident, CacheType, Tier
<1>2. /\ t.hot = [s.hot EXCEPT ![k] = s.entries[k]]
      /\ t.hotLedger = [s.hotLedger EXCEPT ![k] = n]
      /\ t.hotUsed = HotUsedWith(s, k)
  BY AddHotFields
<1>3. t.hotUsed = s.hotUsed + n
  BY <1>2 DEF HotUsedWith
<1> HIDE DEF t, n
<1>4. /\ t.hot[k] = s.entries[k] /\ t.hotLedger[k] = n
      /\ \A j \in Keys \ {k} : t.hot[j] = s.hot[j] /\ t.hotLedger[j] = s.hotLedger[j]
  <2>1. t.hot[k] = s.entries[k] /\ \A j \in Keys \ {k} : t.hot[j] = s.hot[j]
    BY <1>1, <1>2 DEF Tier
  <2>2. /\ t.hotLedger = [s.hotLedger EXCEPT ![k] = n]
        /\ DOMAIN s.hotLedger = Keys
    BY <1>1, <1>2 DEF n
  <2>3. t.hotLedger[k] = n /\ \A j \in Keys \ {k} : t.hotLedger[j] = s.hotLedger[j]
    BY <1>1, <2>2
  <2> QED
    BY <2>1, <2>3
<1>5. Bytes(t.hot, Keys) = Bytes(s.hot, Keys) + n
  <2>1. Bytes(t.hot, Keys) = Bytes(s.hot, Keys) + SizeOf(t.hot[k])
    BY <1>1, <1>4, BytesAdd
  <2>2. SizeOf(t.hot[k]) = n
    BY <1>4 DEF n
  <2> QED
    BY <2>1, <2>2
<1>6. t.hotUsed = Bytes(t.hot, Keys)
  BY <1>3, <1>5 DEF HotCounted
<1>7. t.hotUsed <= HotBudget
  BY <1>1, <1>3, BudgetsAssumption DEF HotCanStore, CacheType, n
<1>8. \A j \in Keys :
        t.hotLedger[j] = IF t.hot[j] = None THEN 0 ELSE SizeOf(t.hot[j])
  BY <1>1, <1>4 DEF HotCounted, n
<1> QED
  BY <1>6, <1>7, <1>8 DEF HotCounted, t

(* The cache gives back exactly what the block occupied on disk. *)
LEMMA RemoveDiskCounted ==
  ASSUME NEW s \in CacheType, DiskCounted(s), NEW k \in Keys
  PROVE  DiskCounted(RemoveDisk(s, k))
<1> DEFINE t == RemoveDisk(s, k)
<1>1. /\ t.disk = [s.disk EXCEPT ![k] = None]
      /\ t.diskUsed = s.diskUsed - AtMost(s.diskUsed, Bytes(s.disk, {k}))
  BY RemoveDiskFields
<1> HIDE DEF t
<1>2. /\ \A j \in {k} : t.disk[j] = None
      /\ \A j \in Keys \ {k} : t.disk[j] = s.disk[j]
  BY <1>1 DEF CacheType
<1>3. /\ Bytes(t.disk, Keys) = Bytes(s.disk, Keys) - Bytes(s.disk, {k})
      /\ Bytes(s.disk, {k}) <= Bytes(s.disk, Keys)
  BY <1>2, BytesDrop
<1>4. Bytes(s.disk, {k}) \in Nat /\ Bytes(s.disk, Keys) \in Nat
  BY BytesType
<1> QED
  BY <1>1, <1>3, <1>4, BudgetsAssumption DEF DiskCounted, AtMost, t

(* Dropping hot copies loses no block and keeps the counts. *)
LEMMA RemoveHotTiered ==
  ASSUME NEW s \in CacheType, Tiered(s), NEW V
  PROVE  /\ Tiered(RemoveHot(s, V))
         /\ Covered => Keeps(s, RemoveHot(s, V))
         /\ MakesRoom(s, RemoveHot(s, V))
<1> DEFINE t == RemoveHot(s, V)
<1>1. t \in CacheType /\ SameRam(s, t)
  BY HotEdits
<1>2. /\ \A k \in Keys : t.hot[k] = IF k \in V THEN None ELSE s.hot[k]
      /\ t.hotLru = Without(s.hotLru, V)
      /\ t.disk = s.disk /\ t.diskUsed = s.diskUsed
  BY RemoveHotFields
<1>3. HotCounted(t)
  BY RemoveHotCounted DEF Tiered
<1> HIDE DEF t
<1>4. InHot(t) = InHot(s) \ V /\ Resident(t) = Resident(s)
  BY <1>1, <1>2 DEF InHot, Resident, SameRam
<1>5. StrictTotalOrder(t.hotLru, InHot(t))
  BY <1>2, <1>4, WithoutOrder DEF Tiered
<1>6. Covered => CopiesAgree(t)
  BY <1>1, <1>2 DEF Tiered, CopiesAgree, SameRam
<1>7. Covered => Keeps(s, t)
  <2> SUFFICES ASSUME Covered, NEW k \in Keys PROVE Visible(t, k) = Visible(s, k)
    BY DEF Keeps
  <2>1. s.hot[k] # None => s.hot[k] \in {s.entries[k], s.disk[k]}
    BY DEF Tiered, CopiesAgree
  <2> QED
    BY <1>1, <1>2, <2>1 DEF Visible, SameRam
<1>8. Tiered(t)
  BY <1>1, <1>2, <1>4, <1>5, <1>3, <1>6 DEF Tiered, SameRam, DiskCounted
<1>9. MakesRoom(s, t)
  <2>1. InOrder(s, t)
    BY <1>1, <1>2 DEF InOrder, Resident, SameRam
  <2>2. (Covered => Forgets(s, t)) /\ (HasDisk => Keeps(s, t))
    BY <1>7 DEF Keeps, Forgets, Covered
  <2> QED
    BY <1>1, <1>2, <1>8, <2>1, <2>2 DEF MakesRoom, SameRam
<1> QED
  BY <1>7, <1>8, <1>9 DEF t

(* Calls that leave the lower tiers alone keep their counts right. *)
LEMMA SameLowerCounts ==
  ASSUME NEW s, NEW t, t.hot = s.hot, t.disk = s.disk, SameCounts(s, t),
         HotCounted(s), DiskCounted(s)
  PROVE  HotCounted(t) /\ DiskCounted(t)
BY DEF HotCounted, DiskCounted, SameCounts

(* Refreshing or adding at the front of either list. *)
LEMMA TouchHotTiered ==
  ASSUME NEW s \in CacheType, Tiered(s), NEW k \in Keys
  PROVE  /\ Tiered(TouchHot(s, k)) /\ Keeps(s, TouchHot(s, k))
         /\ TouchHot(s, k).disk = s.disk /\ TouchHot(s, k).hot = s.hot
<1>1. CASE k \notin InHot(s)
  BY <1>1 DEF TouchHot, Keeps
<1>2. CASE k \in InHot(s)
  <2> DEFINE t == TouchHot(s, k)
  <2> DEFINE order == ToFront(s.hotLru, k, InHot(s))
  <2>1. t = [s EXCEPT !.hotLru = order]
    BY <1>2 DEF TouchHot
  <2>2. StrictTotalOrder(order, InHot(s))
    BY <1>2, ToFrontOrder DEF Tiered
  <2> HIDE DEF order, t
  <2>3. /\ t.entries = s.entries /\ t.lru = s.lru /\ t.hot = s.hot
        /\ t.disk = s.disk /\ t.hotLru = order
        /\ t.hotLedger = s.hotLedger /\ t.hotUsed = s.hotUsed /\ t.diskUsed = s.diskUsed
    BY <2>1 DEF CacheType
  <2>4. Tiered(t)
    BY <2>2, <2>3, SameLowerCounts DEF Tiered, InHot, Resident, CopiesAgree, SameCounts
  <2>5. Keeps(s, t)
    BY <2>3 DEF Keeps, Visible
  <2> QED
    BY <2>3, <2>4, <2>5 DEF t
<1> QED
  BY <1>1, <1>2

LEMMA TouchTiered ==
  ASSUME NEW s \in CacheType, Tiered(s), NEW k \in Resident(s)
  PROVE  /\ Tiered(Touch(s, k)) /\ Keeps(s, Touch(s, k))
         /\ Touch(s, k).entries = s.entries /\ Touch(s, k).disk = s.disk
<1> DEFINE t == Touch(s, k)
<1> DEFINE order == ToFront(s.lru, k, Resident(s))
<1>1. t = [s EXCEPT !.lru = order]
  BY DEF Touch
<1>2. StrictTotalOrder(order, Resident(s))
  BY ToFrontOrder DEF Tiered
<1> HIDE DEF order, t
<1>3. /\ t.entries = s.entries /\ t.hot = s.hot /\ t.hotLru = s.hotLru
      /\ t.disk = s.disk /\ t.lru = order
      /\ t.hotLedger = s.hotLedger /\ t.hotUsed = s.hotUsed /\ t.diskUsed = s.diskUsed
  BY <1>1 DEF CacheType
<1>4. Tiered(t)
  BY <1>2, <1>3, SameLowerCounts DEF Tiered, InHot, Resident, CopiesAgree, SameCounts
<1>5. Keeps(s, t)
  BY <1>3 DEF Keeps, Visible
<1> QED
  BY <1>3, <1>4, <1>5 DEF t

-----------------------------------------------------------------------------
(* Promotion. *)

(* A promotion makes room first, and adds a copy of what RAM holds. *)
LEMMA PromoteTiered ==
  ASSUME NEW s \in CacheType, Tiered(s), NEW k \in Resident(s), NEW w \in Promote(s, k)
  PROVE  /\ Tiered(w) /\ w \in CacheType /\ SameRam(s, w) /\ w.disk = s.disk
         /\ Covered => Keeps(s, w)
<1> DEFINE n == SizeOf(s.entries[k])
<1>1. CASE w = s
  BY <1>1 DEF SameRam, Keeps
<1>2. ASSUME NEW V, w = RemoveHot(s, V)
      PROVE  /\ Tiered(w) /\ w \in CacheType /\ SameRam(s, w) /\ w.disk = s.disk
             /\ Covered => Keeps(s, w)
  BY <1>2, HotEdits, RemoveHotTiered, RemoveHotFields
<1>3. ASSUME HasHot, s.hot[k] = None, NEW V \in SUBSET InHot(s),
             HotCanStore(RemoveHot(s, V), n), w = AddHot(RemoveHot(s, V), k)
      PROVE  /\ Tiered(w) /\ w \in CacheType /\ SameRam(s, w) /\ w.disk = s.disk
             /\ Covered => Keeps(s, w)
  <2> DEFINE r == RemoveHot(s, V)
  <2>1. k \in Keys /\ s.entries[k] \in Kinds /\ s.entries[k] # None
    BY DEF Resident, CacheType
  <2>2. /\ r \in CacheType /\ SameRam(s, r) /\ Tiered(r) /\ (Covered => Keeps(s, r))
        /\ \A j \in Keys : r.hot[j] = IF j \in V THEN None ELSE s.hot[j]
        /\ r.disk = s.disk
    BY HotEdits, RemoveHotTiered, RemoveHotFields
  <2>3. HotCanStore(r, n) /\ w = AddHot(r, k)
    BY <1>3
  <2> HIDE DEF r
  <2>4. r.entries[k] = s.entries[k] /\ r.hot[k] = None /\ k \in Resident(r)
    BY <1>3, <2>1, <2>2 DEF SameRam, Resident
  <2>5. /\ w \in CacheType /\ SameRam(r, w)
        /\ w.hot = [r.hot EXCEPT ![k] = s.entries[k]]
        /\ w.hotLru = ToFront(r.hotLru, k, InHot(r) \cup {k})
        /\ w.disk = r.disk /\ w.diskUsed = r.diskUsed
    <3>1. /\ AddHot(r, k) \in CacheType /\ SameRam(r, AddHot(r, k))
          /\ AddHot(r, k).hot = [r.hot EXCEPT ![k] = r.entries[k]]
          /\ AddHot(r, k).hotLru = ToFront(r.hotLru, k, InHot(r) \cup {k})
          /\ AddHot(r, k).disk = r.disk /\ AddHot(r, k).diskUsed = r.diskUsed
      BY <2>2, <2>4, AddHotFields
    <3> QED
      BY <2>3, <2>4, <3>1
  <2>6. HotCounted(w)
    BY <2>2, <2>3, <2>4, AddHotCounted DEF Tiered
  <2>7. InHot(w) = InHot(r) \cup {k}
    BY <2>1, <2>2, <2>5 DEF InHot, CacheType
  <2>8. StrictTotalOrder(w.hotLru, InHot(w))
    <3>1. StrictTotalOrder(r.hotLru, InHot(r))
      BY <2>2 DEF Tiered
    <3> QED
      BY <2>5, <2>7, <3>1, ToFrontOrder
  <2>9. /\ w.entries = s.entries /\ w.lru = s.lru /\ w.disk = s.disk
        /\ \A j \in Keys : w.hot[j] = IF j = k THEN s.entries[k] ELSE r.hot[j]
    BY <2>1, <2>2, <2>5 DEF SameRam, CacheType
  <2>10. Covered => CopiesAgree(w)
    <3>1. Covered => CopiesAgree(r)
      BY <2>2 DEF Tiered
    <3> QED
      BY <2>2, <2>9, <3>1 DEF CopiesAgree, SameRam
  <2>11. Covered => Keeps(s, w)
    <3> SUFFICES ASSUME Covered, NEW j \in Keys PROVE Visible(w, j) = Visible(s, j)
      BY DEF Keeps
    <3>1. Visible(r, j) = Visible(s, j)
      BY <2>2 DEF Keeps
    <3>2. CASE j = k
      BY <2>9, <3>2 DEF Visible, Resident
    <3>3. CASE j # k
      BY <2>2, <2>9, <3>1, <3>3 DEF Visible, SameRam
    <3> QED
      BY <3>2, <3>3
  <2>12. Tiered(w)
    <3>1. StrictTotalOrder(w.lru, Resident(w))
      BY <2>9 DEF Tiered, Resident
    <3>2. DiskCounted(w)
      BY <2>2, <2>5 DEF Tiered, DiskCounted
    <3> QED
      BY <1>3, <2>6, <2>8, <2>10, <3>1, <3>2 DEF Tiered
  <2> QED
    BY <2>2, <2>5, <2>9, <2>11, <2>12 DEF SameRam
<1> QED
  BY <1>1, <1>2, <1>3, PromoteOutcome

-----------------------------------------------------------------------------
(* A block enters RAM. *)

(* u is s with k's block in RAM; elsewhere only copies may have gone. *)
Admits(s, k, kind, u) ==
  /\ Tiered(u)
  /\ u.entries = [s.entries EXCEPT ![k] = kind]
  /\ u.refs = s.refs
  /\ \A j \in Keys \ {k} : u.disk[j] = s.disk[j]
  /\ Covered => \A j \in Keys \ {k} : Visible(u, j) = Visible(s, j)

(* insertResident() of a block that has its allocation and its room always *)
(* takes it in: find() and harvestPrefix() made the room before.           *)
LEMMA InsertTiered ==
  ASSUME NEW s, Settled(s), Tiered(s), NEW k \in Keys, s.entries[k] = None,
         NEW kind \in Kinds, Fits(s, SizeOf(kind)), NEW keepDisk \in BOOLEAN,
         Covered => Visible(s, k) \in {kind, None},
         NEW u \in InsertResident(Allocate(s, k, kind), k, kind, keepDisk)
  PROVE  Admits(s, k, kind, u)
<1> DEFINE n == SizeOf(kind)
<1> DEFINE a == Allocate(s, k, kind)
<1>1. s \in CacheType /\ n \in Nat \ {0} /\ n <= TerminalSize /\ s.refs[k] = 0
      /\ kind # None
  BY SizeType, KindsAssumption DEF Settled
<1>2. /\ a \in CacheType /\ a.entries = s.entries /\ a.refs = s.refs /\ a.used = s.used
      /\ a.lru = s.lru /\ a.hot = s.hot /\ a.hotLru = s.hotLru /\ a.disk = s.disk
      /\ SameCounts(s, a)
  <2>1. a = [s EXCEPT !.ledger[k] = n, !.ramUsed = @ + n]
    BY DEF Allocate
  <2>2. [s.ledger EXCEPT ![k] = n] \in [Keys -> 0..TerminalSize] /\ s.ramUsed + n \in Nat
    BY <1>1, SizesAssumption DEF CacheType
  <2> HIDE DEF a, n
  <2> QED
    BY <1>1, <2>1, <2>2 DEF CacheType, SameCounts
<1>3. Fits(a, n)
  BY <1>2 DEF Fits, FitsIn
<1> HIDE DEF a
<1>4. PICK t \in EvictUntilFits(a, n) :
        u \in IF Fits(t, n)
              THEN {IF keepDisk THEN w ELSE RemoveDisk(w, k) :
                      w \in Promote(AddResident(t, k, kind), k)}
              ELSE {ReleaseAll(t, {k})}
  <2>1. ~(a.refs[k] > 0) /\ a.entries[k] = None
    BY <1>1, <1>2
  <2>2. u \in InsertResident(a, k, kind, keepDisk)
    BY DEF a
  <2> QED
    BY <2>1, <2>2 DEF InsertResident
<1>5. t = a
  BY <1>1, <1>2, <1>3, <1>4, NothingToEvict
<1> DEFINE r == AddResident(a, k, kind)
<1>6. PICK w \in Promote(r, k) : u = IF keepDisk THEN w ELSE RemoveDisk(w, k)
  BY <1>3, <1>4, <1>5
<1> DEFINE b == [a EXCEPT !.entries[k] = kind, !.refs[k] = 0, !.used = @ + n]
<1>7. /\ b \in CacheType /\ b.entries = [s.entries EXCEPT ![k] = kind]
      /\ b.refs = s.refs /\ b.lru = s.lru
      /\ b.hot = s.hot /\ b.hotLru = s.hotLru /\ b.disk = s.disk
      /\ SameCounts(s, b)
  <2> HIDE DEF n
  <2>1. a.used + n \in Nat /\ a.refs = [a.refs EXCEPT ![k] = 0]
    BY <1>1, <1>2 DEF CacheType
  <2> QED
    BY <1>1, <1>2, <2>1 DEF CacheType, SameCounts
<1> DEFINE order == ToFront(s.lru, k, Resident(b))
<1>8. r = [b EXCEPT !.lru = order]
  BY <1>7 DEF AddResident, Touch
<1>9. Resident(b) = Resident(s) \cup {k}
  BY <1>1, <1>7 DEF Resident, CacheType
<1>10. StrictTotalOrder(order, Resident(b)) /\ order \in SUBSET (Keys \X Keys)
  BY <1>9, ToFrontOrder, ToFrontType, <1>1 DEF Tiered, Resident, CacheType
<1> HIDE DEF b, order, r, n
<1>11. /\ r \in CacheType /\ r.entries = b.entries /\ r.refs = b.refs /\ r.lru = order
       /\ r.hot = s.hot /\ r.hotLru = s.hotLru /\ r.disk = s.disk
       /\ SameCounts(s, r)
  BY <1>7, <1>8, <1>10 DEF CacheType, SameCounts
<1>12. r.entries[k] = kind /\ \A j \in Keys \ {k} : r.entries[j] = s.entries[j]
  BY <1>1, <1>7, <1>11 DEF CacheType
<1>13. Covered => CopiesAgree(r)
  <2> SUFFICES ASSUME Covered, NEW j \in Keys
               PROVE  /\ r.entries[j] # None /\ r.disk[j] # None => r.entries[j] = r.disk[j]
                      /\ r.hot[j] # None => r.hot[j] \in {r.entries[j], r.disk[j]}
    BY DEF CopiesAgree
  <2>1. /\ s.entries[j] # None /\ s.disk[j] # None => s.entries[j] = s.disk[j]
        /\ s.hot[j] # None => s.hot[j] \in {s.entries[j], s.disk[j]}
    BY DEF Tiered, CopiesAgree
  <2>2. CASE j = k
    <3>1. Visible(s, k) \in {kind, None}
      OBVIOUS
    <3> QED
      BY <1>11, <1>12, <2>1, <2>2, <3>1 DEF Visible
  <2>3. CASE j # k
    BY <1>11, <1>12, <2>1, <2>3
  <2> QED
    BY <2>2, <2>3
<1>14. Tiered(r)
  <2>1. StrictTotalOrder(r.lru, Resident(r))
    BY <1>10, <1>11 DEF Resident
  <2> QED
    BY <1>11, <1>13, <2>1, SameLowerCounts DEF Tiered, InHot
<1>15. /\ Tiered(w) /\ w \in CacheType /\ SameRam(r, w) /\ w.disk = r.disk
       /\ Covered => Keeps(r, w)
  <2>1. k \in Resident(r)
    BY <1>1, <1>12 DEF Resident
  <2> QED
    BY <1>6, <1>11, <1>14, <2>1, PromoteTiered
<1>16. \A j \in Keys \ {k} : Covered => Visible(w, j) = Visible(s, j)
  <2> SUFFICES ASSUME NEW j \in Keys \ {k}, Covered PROVE Visible(w, j) = Visible(s, j)
    OBVIOUS
  <2>1. Visible(w, j) = Visible(r, j)
    BY <1>15 DEF Keeps
  <2>2. Visible(r, j) = Visible(s, j)
    BY <1>11, <1>12 DEF Visible
  <2> QED
    BY <2>1, <2>2
<1>17. Admits(s, k, kind, w)
  BY <1>7, <1>11, <1>15, <1>16 DEF Admits, SameRam
<1>18. CASE keepDisk
  BY <1>6, <1>17, <1>18
<1>19. CASE ~keepDisk
  <2>1. u = RemoveDisk(w, k)
    BY <1>6, <1>19
  <2>2. /\ u.entries = w.entries /\ u.refs = w.refs /\ u.lru = w.lru /\ u.hot = w.hot
        /\ u.hotLru = w.hotLru /\ u.disk = [w.disk EXCEPT ![k] = None]
        /\ u.hotLedger = w.hotLedger /\ u.hotUsed = w.hotUsed
    BY <1>15, <2>1, RemoveDiskFields DEF SameRam
  <2>3. u.disk[k] = None /\ \A j \in Keys \ {k} : u.disk[j] = w.disk[j]
    BY <1>15, <2>2 DEF CacheType
  <2>4. w.entries[k] = kind
    BY <1>12, <1>15 DEF SameRam
  <2>5. DiskCounted(u) /\ HotCounted(u)
    BY <1>15, <2>1, <2>2, RemoveDiskCounted DEF Tiered, HotCounted
  <2>6. Covered => CopiesAgree(u)
    <3> SUFFICES ASSUME Covered, NEW j \in Keys
                 PROVE  /\ u.entries[j] # None /\ u.disk[j] # None => u.entries[j] = u.disk[j]
                        /\ u.hot[j] # None => u.hot[j] \in {u.entries[j], u.disk[j]}
      BY DEF CopiesAgree
    <3>1. /\ w.entries[j] # None /\ w.disk[j] # None => w.entries[j] = w.disk[j]
          /\ w.hot[j] # None => w.hot[j] \in {w.entries[j], w.disk[j]}
      BY <1>15 DEF Tiered, CopiesAgree
    <3>2. CASE j = k
      BY <1>1, <2>2, <2>3, <2>4, <3>1, <3>2
    <3>3. CASE j # k
      BY <2>2, <2>3, <3>1, <3>3
    <3> QED
      BY <3>2, <3>3
  <2>7. Tiered(u)
    BY <1>15, <2>2, <2>5, <2>6 DEF Tiered, InHot, Resident
  <2>8. \A j \in Keys \ {k} : Visible(u, j) = Visible(w, j)
    BY <2>2, <2>3 DEF Visible
  <2> QED
    BY <1>17, <2>2, <2>3, <2>7, <2>8 DEF Admits
<1> QED
  BY <1>18, <1>19

-----------------------------------------------------------------------------
(* find(). *)

LEMMA RemoveDiskTiered ==
  ASSUME NEW s \in CacheType, Tiered(s), NEW k \in Keys,
         s.entries[k] = None, s.hot[k] = None
  PROVE  LET t == RemoveDisk(s, k)
         IN  /\ Tiered(t) /\ t.entries = s.entries
             /\ \A j \in Keys \ {k} : t.disk[j] = s.disk[j]
             /\ \A j \in Keys \ {k} : Visible(t, j) = Visible(s, j)
             /\ Visible(t, k) = None
<1> DEFINE t == RemoveDisk(s, k)
<1>1. DiskCounted(t)
  BY RemoveDiskCounted DEF Tiered
<1>2. /\ t.entries = s.entries /\ t.lru = s.lru /\ t.hot = s.hot
      /\ t.hotLru = s.hotLru /\ t.disk = [s.disk EXCEPT ![k] = None]
      /\ t.hotLedger = s.hotLedger /\ t.hotUsed = s.hotUsed
  BY RemoveDiskFields DEF SameRam
<1> HIDE DEF t
<1>3. t.disk[k] = None /\ \A j \in Keys \ {k} : t.disk[j] = s.disk[j]
  BY <1>2 DEF CacheType
<1>4. HotCounted(t)
  BY <1>2 DEF Tiered, HotCounted
<1>5. Covered => CopiesAgree(t)
  <2> SUFFICES ASSUME Covered, NEW j \in Keys
               PROVE  /\ t.entries[j] # None /\ t.disk[j] # None => t.entries[j] = t.disk[j]
                      /\ t.hot[j] # None => t.hot[j] \in {t.entries[j], t.disk[j]}
    BY DEF CopiesAgree
  <2>1. /\ s.entries[j] # None /\ s.disk[j] # None => s.entries[j] = s.disk[j]
        /\ s.hot[j] # None => s.hot[j] \in {s.entries[j], s.disk[j]}
    BY DEF Tiered, CopiesAgree
  <2> QED
    BY <1>2, <1>3, <2>1
<1>6. Tiered(t)
  BY <1>1, <1>2, <1>4, <1>5 DEF Tiered, InHot, Resident
<1>7. Visible(t, k) = None /\ \A j \in Keys \ {k} : Visible(t, j) = Visible(s, j)
  BY <1>2, <1>3 DEF Visible
<1> QED
  BY <1>2, <1>3, <1>6, <1>7 DEF t

(* What find() does with a block that is not in RAM: it makes room, then   *)
(* misses, or brings the block in and answers with it.                     *)
Misses(t, k, u) ==
  /\ Tiered(u)
  /\ u.entries = t.entries
  /\ \A j \in Keys \ {k} : u.disk[j] = t.disk[j]
  /\ \A j \in Keys \ {k} : Visible(u, j) = Visible(t, j)
  /\ Visible(u, k) \in {Visible(t, k), None}

Finds(s, k, answer) ==
  \E t \in CacheType :
    /\ MakesRoom(s, t)
    /\ \/ answer.reply = None /\ Misses(t, k, answer.state)
       \/ /\ answer.reply \in Kinds
          /\ Admits(t, k, answer.reply, answer.state)
          /\ Covered => answer.reply = Visible(s, k)

LEMMA HydrateTiered ==
  ASSUME NEW s, Settled(s), Tiered(s), NEW k \in Keys, s.entries[k] = None,
         NEW kind \in Kinds, Fits(s, SizeOf(kind)),
         Covered => Visible(s, k) \in {kind, None}, NEW u \in Hydrate(s, k, kind)
  PROVE  Admits(s, k, kind, u) /\ u.entries[k] = kind
<1>1. u \in InsertResident(Allocate(s, k, kind), k, kind, TRUE)
  BY DEF Hydrate
<1>2. Admits(s, k, kind, u)
  BY <1>1, InsertTiered
<1> QED
  BY <1>2 DEF Admits, Settled, CacheType

LEMMA LookupDiskFinds ==
  ASSUME NEW s, Settled(s), Tiered(s), NEW k \in Keys,
         s.entries[k] = None, s.hot[k] = None, NEW answer \in LookupDisk(s, k)
  PROVE  Finds(s, k, answer)
<1> DEFINE kind == s.disk[k]
<1>1. s \in CacheType /\ kind \in Kinds \cup {None} /\ Visible(s, k) = kind
  BY DEF Settled, CacheType, Visible
<1>2. CASE kind = None
  <2>1. answer.state = s /\ answer.reply = None
    BY <1>2 DEF LookupDisk, Answer
  <2>2. MakesRoom(s, s)
    BY <1>1 DEF MakesRoom, InOrder, Resident, Forgets, Keeps
  <2>3. Misses(s, k, s)
    BY DEF Misses
  <2> QED
    BY <1>1, <2>1, <2>2, <2>3 DEF Finds
<1>3. CASE kind # None
  <2>1. PICK t \in EvictUntilFits(s, SizeOf(kind)) :
          answer \in IF Fits(t, SizeOf(kind))
            THEN {Answer(u, u.entries[k]) : u \in Hydrate(t, k, kind)}
                   \cup {Answer(RemoveDisk(t, k), None)}
            ELSE {Answer(t, None)}
    BY <1>3 DEF LookupDisk
  <2>2. Settled(t) /\ t \in CacheType /\ t.entries[k] = None /\ MakesRoom(s, t)
    BY <1>1, EvictSettled, EvictTiered DEF Settled
  <2>3. t.hot[k] = None
    BY <1>1, EvictOutcome DEF Evicts
  <2>4. Tiered(t)
    BY <2>2 DEF MakesRoom
  <2>5. CASE answer = Answer(t, None)
    <3>1. answer.state = t /\ answer.reply = None
      BY <2>5 DEF Answer
    <3>2. Misses(t, k, t)
      BY <2>4 DEF Misses
    <3> QED
      BY <2>2, <3>1, <3>2 DEF Finds
  <2>6. CASE answer = Answer(RemoveDisk(t, k), None)
    <3>1. answer.state = RemoveDisk(t, k) /\ answer.reply = None
      BY <2>6 DEF Answer
    <3>2. Misses(t, k, RemoveDisk(t, k))
      BY <2>2, <2>3, <2>4, RemoveDiskTiered DEF Misses
    <3> QED
      BY <2>2, <3>1, <3>2 DEF Finds
  <2>7. ASSUME Fits(t, SizeOf(kind)), NEW u \in Hydrate(t, k, kind),
               answer = Answer(u, u.entries[k])
        PROVE  Finds(s, k, answer)
    <3>1. Covered => Visible(t, k) \in {kind, None}
      BY <1>1, <2>2 DEF MakesRoom, Forgets
    <3>2. Admits(t, k, kind, u) /\ u.entries[k] = kind
      BY <1>1, <1>3, <2>2, <2>4, <2>7, <3>1, HydrateTiered
    <3>3. answer.state = u /\ answer.reply = kind
      BY <2>7, <3>2 DEF Answer
    <3> QED
      BY <1>1, <1>3, <2>2, <3>2, <3>3 DEF Finds
  <2> QED
    BY <2>1, <2>5, <2>6, <2>7
<1> QED
  BY <1>2, <1>3

LEMMA TouchHotAdmits ==
  ASSUME NEW s, NEW k \in Keys, NEW kind, NEW u \in CacheType, Admits(s, k, kind, u)
  PROVE  Admits(s, k, kind, TouchHot(u, k))
<1>1. Tiered(u)
  BY DEF Admits
<1>2. /\ Tiered(TouchHot(u, k)) /\ Keeps(u, TouchHot(u, k))
      /\ TouchHot(u, k).disk = u.disk /\ SameRam(u, TouchHot(u, k))
  BY <1>1, TouchHotTiered, HotEdits
<1> QED
  BY <1>2 DEF Admits, Keeps, SameRam

LEMMA LookupHotFinds ==
  ASSUME NEW s, Settled(s), Tiered(s), NEW k \in Keys,
         s.entries[k] = None, NEW answer \in LookupHot(s, k)
  PROVE  Finds(s, k, answer)
<1> DEFINE kind == s.hot[k]
<1>1. s \in CacheType /\ kind \in Kinds \cup {None}
  BY DEF Settled, CacheType
<1>2. CASE kind = None
  BY <1>2, LookupDiskFinds DEF LookupHot
<1>3. CASE kind # None
  <2>1. PICK t \in EvictUntilFits(s, SizeOf(kind)) :
          answer \in
            (IF Fits(t, SizeOf(kind))
               THEN {Answer(TouchHot(u, k), u.entries[k]) : u \in Hydrate(t, k, kind)}
               ELSE {})
            \cup LookupDisk(RemoveHot(t, {k}), k)
    BY <1>3 DEF LookupHot
  <2>2. Settled(t) /\ t \in CacheType /\ t.entries[k] = None /\ MakesRoom(s, t)
    BY <1>1, EvictSettled, EvictTiered DEF Settled
  <2>3. Tiered(t)
    BY <2>2 DEF MakesRoom
  <2>4. Visible(s, k) = kind
    BY <1>3 DEF Visible
  <2>5. CASE answer \in LookupDisk(RemoveHot(t, {k}), k)
    <3> DEFINE h == RemoveHot(t, {k})
    <3>1. Settled(h) /\ h.entries[k] = None /\ h.hot[k] = None /\ Tiered(h)
          /\ MakesRoom(t, h)
      <4>1. h \in CacheType /\ SameRam(t, h)
        BY <2>2, HotEdits
      <4>2. Settled(h)
        BY <2>2, <4>1, SameRamSettled
      <4>3. Tiered(h) /\ MakesRoom(t, h)
        BY <2>2, <2>3, RemoveHotTiered
      <4>4. h.hot[k] = None
        <5>1. \A j \in Keys : h.hot[j] = IF j \in {k} THEN None ELSE t.hot[j]
          BY <2>2, RemoveHotFields
        <5> HIDE DEF h
        <5> QED
          BY <5>1
      <4>5. h.entries[k] = None
        BY <2>2, <4>1 DEF SameRam
      <4> QED
        BY <4>2, <4>3, <4>4, <4>5
    <3>2. answer \in LookupDisk(h, k)
      BY <2>5
    <3> HIDE DEF h
    <3>3. MakesRoom(s, h)
      BY <2>2, <3>1, MakesRoomTransitive
    <3>4. Finds(h, k, answer)
      BY <3>1, <3>2, LookupDiskFinds
    <3>5. PICK r \in CacheType :
            /\ MakesRoom(h, r)
            /\ \/ answer.reply = None /\ Misses(r, k, answer.state)
               \/ /\ answer.reply \in Kinds
                  /\ Admits(r, k, answer.reply, answer.state)
                  /\ Covered => answer.reply = Visible(h, k)
      BY <3>4 DEF Finds
    <3>6. MakesRoom(s, r)
      BY <3>3, <3>5, MakesRoomTransitive
    <3>7. Covered => Visible(h, k) \in {Visible(s, k), None}
      BY <3>3 DEF MakesRoom, Forgets
    <3> QED
      BY <3>5, <3>6, <3>7, KindsAssumption DEF Finds
  <2>6. ASSUME Fits(t, SizeOf(kind)), NEW u \in Hydrate(t, k, kind),
               answer = Answer(TouchHot(u, k), u.entries[k])
        PROVE  Finds(s, k, answer)
    <3>1. Covered => Visible(t, k) \in {kind, None}
      BY <2>2, <2>4 DEF MakesRoom, Forgets
    <3>2. Admits(t, k, kind, u) /\ u.entries[k] = kind
      BY <1>1, <1>3, <2>2, <2>3, <2>6, <3>1, HydrateTiered
    <3>3. u \in CacheType
      BY <1>1, <1>3, <2>2, <2>6, HydrateSettled DEF Settled
    <3>4. Admits(t, k, kind, TouchHot(u, k))
      BY <3>2, <3>3, TouchHotAdmits
    <3>5. answer.state = TouchHot(u, k) /\ answer.reply = kind
      BY <2>6, <3>2 DEF Answer
    <3> QED
      BY <1>1, <1>3, <2>2, <2>4, <3>4, <3>5 DEF Finds
  <2> QED
    BY <2>1, <2>5, <2>6
<1> QED
  BY <1>2, <1>3

-----------------------------------------------------------------------------
(* The other calls. *)

(* A harvested block enters, or the store ends where making room ended. *)
Stores(s, k, kind, u) ==
  \E t \in CacheType :
    /\ MakesRoom(s, t)
    /\ Misses(t, k, u) \/ Admits(t, k, kind, u)

(* Giving an allocation back leaves no trace outside the RAM backend. *)
LEMMA RollbackTiered ==
  ASSUME NEW s \in CacheType, Tiered(s), NEW k \in Keys, NEW kind
  PROVE  Misses(s, k, ReleaseAll(Allocate(s, k, kind), {k}))
<1> DEFINE u == ReleaseAll(Allocate(s, k, kind), {k})
<1> DEFINE a == Allocate(s, k, kind)
<1> DEFINE ledger1 == [s.ledger EXCEPT ![k] = SizeOf(kind)]
<1> DEFINE ramUsed1 == s.ramUsed + SizeOf(kind)
<1>1. a = [s EXCEPT !.ledger = ledger1, !.ramUsed = ramUsed1]
  BY DEF Allocate, CacheType
<1> HIDE DEF ledger1, ramUsed1, a
<1>2. a = [entries |-> s.entries, refs |-> s.refs, lru |-> s.lru,
           used |-> s.used, ledger |-> ledger1, ramUsed |-> ramUsed1,
           hot |-> s.hot, hotLru |-> s.hotLru,
           hotLedger |-> s.hotLedger, hotUsed |-> s.hotUsed,
           disk |-> s.disk, diskUsed |-> s.diskUsed]
  BY <1>1 DEF CacheType
<1> DEFINE ramUsed2 == a.ramUsed - AtMost(a.ramUsed, LedgerBytes(a.ledger, {k}))
<1> DEFINE ledger2 == [j \in Keys |-> IF j \in {k} THEN 0 ELSE a.ledger[j]]
<1>3. u = [a EXCEPT !.ramUsed = ramUsed2, !.ledger = ledger2]
  BY DEF ReleaseAll, a
<1> HIDE DEF ramUsed2, ledger2, u
<1>4. /\ u.entries = s.entries /\ u.refs = s.refs /\ u.lru = s.lru
      /\ u.hot = s.hot /\ u.hotLru = s.hotLru /\ u.disk = s.disk
      /\ u.hotLedger = s.hotLedger /\ u.hotUsed = s.hotUsed /\ u.diskUsed = s.diskUsed
  BY <1>2, <1>3
<1>5. Tiered(u)
  BY <1>4, SameLowerCounts DEF Tiered, InHot, Resident, CopiesAgree, SameCounts
<1>6. \A j \in Keys : Visible(u, j) = Visible(s, j)
  BY <1>4 DEF Visible
<1> QED
  BY <1>4, <1>5, <1>6 DEF Misses, u, a

LEMMA StoreStores ==
  ASSUME NEW s, Settled(s), Tiered(s), NEW k \in Keys, ~Contains(s, k),
         NEW kind \in Kinds, NEW u \in StoreOutcomes(s, k, kind)
  PROVE  Stores(s, k, kind, u)
<1> DEFINE n == SizeOf(kind)
<1>1. PICK t \in EvictUntilFits(s, n) :
        u \in IF Fits(t, n) /\ CanStore(t, n)
                THEN InsertResident(Allocate(t, k, kind), k, kind, FALSE)
                       \cup {ReleaseAll(Allocate(t, k, kind), {k})}
                ELSE {t}
  BY DEF StoreOutcomes
<1>2. s \in CacheType /\ s.entries[k] = None /\ s.disk[k] = None
  BY DEF Contains, Settled
<1>3. Settled(t) /\ t \in CacheType /\ t.entries[k] = None /\ MakesRoom(s, t)
  BY <1>2, EvictSettled, EvictTiered DEF Settled
<1>4. Tiered(t)
  BY <1>3 DEF MakesRoom
<1>5. CASE u = t
  <2>1. Misses(t, k, u)
    BY <1>4, <1>5 DEF Misses
  <2> QED
    BY <1>3, <2>1 DEF Stores
<1>6. CASE Fits(t, n) /\ u \in InsertResident(Allocate(t, k, kind), k, kind, FALSE)
  <2>1. Covered => Visible(t, k) \in {kind, None}
    <3>1. Covered => Visible(s, k) = None
      BY <1>2 DEF Tiered, CopiesAgree, Visible
    <3> QED
      BY <1>3, <3>1 DEF MakesRoom, Forgets
  <2>2. Admits(t, k, kind, u)
    BY <1>3, <1>4, <1>6, <2>1, InsertTiered
  <2> QED
    BY <1>3, <2>2 DEF Stores
<1>7. CASE u = ReleaseAll(Allocate(t, k, kind), {k})
  <2>1. Misses(t, k, u)
    BY <1>3, <1>4, <1>7, RollbackTiered
  <2> QED
    BY <1>3, <2>1 DEF Stores
<1> QED
  BY <1>1, <1>5, <1>6, <1>7

(* What erase() does to the tiers. *)
LEMMA EraseTiered ==
  ASSUME NEW s, Settled(s), Tiered(s), NEW k \in Keys
  PROVE  Tiered(EraseKey(s, k)) /\ Forgets(s, EraseKey(s, k))
<1>1. CASE s.refs[k] > 0
  BY <1>1 DEF EraseKey, Forgets
<1>2. CASE ~(s.refs[k] > 0)
  <2> DEFINE u == IF s.entries[k] # None THEN Unload(s, {k}) ELSE s
  <2> DEFINE h == RemoveHot(u, {k})
  <2> DEFINE t == RemoveDisk(h, k)
  <2>1. s \in CacheType /\ s.refs[k] = 0
    BY <1>2 DEF Settled, CacheType
  <2>2. u \in CacheType
    BY <2>1, UnloadSettled DEF Settled, Resident
  <2>3. /\ \A j \in Keys : u.entries[j] = IF j = k THEN None ELSE s.entries[j]
        /\ u.lru = Without(s.lru, {k})
        /\ u.hot = s.hot /\ u.hotLru = s.hotLru /\ u.disk = s.disk
        /\ SameCounts(s, u)
    <3>1. CASE s.entries[k] # None
      <4>1. u = Unload(s, {k})
        BY <3>1
      <4> HIDE DEF u
      <4>2. /\ u.entries = [j \in Keys |-> IF j \in {k} THEN None ELSE s.entries[j]]
            /\ u.lru = Without(s.lru, {k})
            /\ u.hot = s.hot /\ u.hotLru = s.hotLru /\ u.disk = s.disk
            /\ SameCounts(s, u)
        BY <2>1, <4>1, UnloadFields
      <4> QED
        BY <4>2
    <3>2. CASE s.entries[k] = None
      <4>1. \A p \in s.lru : p[1] # k /\ p[2] # k
        BY <3>2 DEF Tiered, StrictTotalOrder, Resident
      <4> QED
        BY <3>2, <4>1 DEF Without, SameCounts
    <3> QED
      BY <3>1, <3>2
  <2> HIDE DEF u
  <2>4. /\ h \in CacheType /\ SameRam(u, h) /\ h.disk = u.disk
        /\ \A j \in Keys : h.hot[j] = IF j = k THEN None ELSE u.hot[j]
        /\ h.hotLru = Without(u.hotLru, {k}) /\ h.diskUsed = u.diskUsed
    BY <2>2, HotEdits, RemoveHotFields
  <2>5. HotCounted(h) /\ DiskCounted(h)
    <3>1. HotCounted(u) /\ DiskCounted(u)
      BY <2>3, SameLowerCounts DEF Tiered
    <3> QED
      BY <2>2, <2>4, <3>1, RemoveHotCounted DEF DiskCounted
  <2>6. DiskCounted(t)
    BY <2>4, <2>5, RemoveDiskCounted
  <2> HIDE DEF h
  <2>7. /\ t.entries = h.entries /\ t.lru = h.lru /\ t.hot = h.hot
        /\ t.hotLru = h.hotLru /\ t.disk = [h.disk EXCEPT ![k] = None]
        /\ t.hotLedger = h.hotLedger /\ t.hotUsed = h.hotUsed
    BY <2>4, RemoveDiskFields DEF SameRam
  <2> HIDE DEF t
  <2>8. \A j \in Keys :
          /\ t.entries[j] = IF j = k THEN None ELSE s.entries[j]
          /\ t.hot[j] = IF j = k THEN None ELSE s.hot[j]
          /\ t.disk[j] = IF j = k THEN None ELSE s.disk[j]
    <3>1. \A j \in Keys : t.entries[j] = IF j = k THEN None ELSE s.entries[j]
      BY <2>3, <2>4, <2>7 DEF SameRam
    <3>2. \A j \in Keys : t.hot[j] = IF j = k THEN None ELSE s.hot[j]
      BY <2>3, <2>4, <2>7
    <3>3. \A j \in Keys : t.disk[j] = IF j = k THEN None ELSE s.disk[j]
      BY <2>1, <2>3, <2>4, <2>7 DEF CacheType
    <3> QED
      BY <3>1, <3>2, <3>3
  <2>9. t.lru = Without(s.lru, {k}) /\ t.hotLru = Without(s.hotLru, {k})
    BY <2>3, <2>4, <2>7 DEF SameRam
  <2>10. Resident(t) = Resident(s) \ {k} /\ InHot(t) = InHot(s) \ {k}
    BY <2>8 DEF Resident, InHot
  <2>11. StrictTotalOrder(t.lru, Resident(t)) /\ StrictTotalOrder(t.hotLru, InHot(t))
    BY <2>9, <2>10, WithoutOrder DEF Tiered
  <2>12. HotCounted(t) /\ DiskCounted(t)
    BY <2>5, <2>7, <2>6 DEF HotCounted
  <2>13. Covered => CopiesAgree(t)
    <3> SUFFICES ASSUME Covered, NEW j \in Keys
                 PROVE  /\ t.entries[j] # None /\ t.disk[j] # None => t.entries[j] = t.disk[j]
                        /\ t.hot[j] # None => t.hot[j] \in {t.entries[j], t.disk[j]}
      BY DEF CopiesAgree
    <3>1. /\ s.entries[j] # None /\ s.disk[j] # None => s.entries[j] = s.disk[j]
          /\ s.hot[j] # None => s.hot[j] \in {s.entries[j], s.disk[j]}
      BY DEF Tiered, CopiesAgree
    <3> QED
      BY <2>8, <3>1
  <2>14. Tiered(t)
    BY <2>10, <2>11, <2>12, <2>13 DEF Tiered
  <2>15. Forgets(s, t)
    BY <2>8 DEF Forgets, Visible
  <2>16. EraseKey(s, k) = t
    BY <1>2 DEF EraseKey, u, h, t
  <2> QED
    BY <2>14, <2>15, <2>16
<1> QED
  BY <1>1, <1>2

-----------------------------------------------------------------------------
(* What each call promises. *)

(* What the action properties and the refinement ask of a step. *)
CallTiered(s, t, call, reply) ==
  /\ Tiered(t)
  /\ call # "erase" => InOrder(s, t)
  /\ HasDisk => \A k \in Keys :
       Visible(s, k) # None /\ Visible(t, k) = None =>
         \/ call = "erase"
         \/ call = "find" /\ reply = None

LEMMA AfterRoom ==
  ASSUME NEW s \in CacheType, NEW k \in Keys, s.entries[k] = None,
         NEW t \in CacheType, MakesRoom(s, t), NEW u, NEW kind \in Kinds,
         Misses(t, k, u) \/ Admits(t, k, kind, u)
  PROVE  /\ Tiered(u) /\ InOrder(s, u)
         /\ Covered => \A j \in Keys \ {k} : Visible(u, j) \in {Visible(s, j), None}
         /\ HasDisk => \A j \in Keys \ {k} : Visible(u, j) = Visible(s, j)
         /\ Misses(t, k, u) /\ Covered => Visible(u, k) \in {Visible(s, k), None}
         /\ Admits(t, k, kind, u) => Visible(u, k) = kind
<1>1. /\ \A j \in Keys \ {k} : u.entries[j] = t.entries[j] /\ u.disk[j] = t.disk[j]
      /\ Tiered(u)
  BY DEF Misses, Admits, CacheType
<1>2. InOrder(s, u)
  <2> SUFFICES ASSUME NEW i \in Resident(s), NEW j \in Resident(s), <<i, j>> \in s.lru,
                      u.entries[i] = None, s.refs[j] = 0
               PROVE  u.entries[j] = None \/ (HasDisk /\ u.disk[j] = None)
    BY BudgetsAssumption DEF InOrder
  <2>1. i \in Keys \ {k} /\ j \in Keys \ {k}
    BY DEF Resident
  <2>2. t.entries[j] = None \/ (HasDisk /\ t.disk[j] = None)
    BY <1>1, <2>1 DEF MakesRoom, InOrder
  <2> QED
    BY <1>1, <2>1, <2>2
<1>3. Covered => \A j \in Keys \ {k} : Visible(u, j) = Visible(t, j)
  BY DEF Misses, Admits
<1>4. HasDisk => Covered
  BY DEF Covered
<1>5. (Covered => Forgets(s, t)) /\ (HasDisk => Keeps(s, t))
  BY DEF MakesRoom
<1>6. Admits(t, k, kind, u) => Visible(u, k) = kind
  BY KindsAssumption DEF Admits, Visible, CacheType
<1>7. Misses(t, k, u) => Visible(u, k) \in {Visible(t, k), None}
  BY DEF Misses
<1> QED
  BY <1>1, <1>2, <1>3, <1>4, <1>5, <1>6, <1>7 DEF Forgets, Keeps

(* The whole invariant of the object. *)
TieredIInv == IInv /\ Tiered(cache)

(* A step of the store, seen from the records before and after it. *)
Promise(s, t, reply) ==
  \/ /\ reply = None
     /\ \/ Forgets(s, t)
        \/ \E k \in Keys, kind \in Kinds :
             /\ Visible(s, k) = None
             /\ Visible(t, k) \in {kind, None}
             /\ \A j \in Keys \ {k} : Visible(t, j) \in {Visible(s, j), None}
  \/ \E k \in Keys :
       /\ reply = Visible(s, k) /\ reply # None
       /\ Forgets(s, t) /\ Visible(t, k) = Visible(s, k)

LEMMA StepTiered ==
  ASSUME TieredIInv, Next
  PROVE  /\ CallTiered(cache, cache', last'.call, last'.reply)
         /\ Covered => Promise(cache, cache', last'.reply)
<1>1. Settled(cache) /\ Tiered(cache) /\ cache \in CacheType
  BY DEF TieredIInv, IInv, Settled
<1>2. ASSUME NEW k \in Keys, Find(k)
      PROVE  /\ CallTiered(cache, cache', last'.call, last'.reply)
             /\ Covered => Promise(cache, cache', last'.reply)
  <2>1. PICK answer \in Lookup(cache, k) :
          /\ cache' = answer.state
          /\ last'.call = "find" /\ last'.reply = answer.reply
    BY <1>2 DEF Find, Returns
  <2>2. CASE cache.entries[k] # None
    <3> DEFINE t == Touch(cache, k)
    <3>1. answer.state = TouchHot(t, k) /\ answer.reply = cache.entries[k]
      BY <2>1, <2>2 DEF Lookup, Answer
    <3>2. t \in CacheType
      BY <1>1, TouchSettled DEF Settled
    <3>3. /\ Tiered(t) /\ Keeps(cache, t)
          /\ t.entries = cache.entries /\ t.disk = cache.disk
      BY <1>1, <2>2, TouchTiered DEF Resident
    <3> HIDE DEF t
    <3>4. /\ Tiered(TouchHot(t, k)) /\ Keeps(t, TouchHot(t, k))
          /\ TouchHot(t, k).entries = t.entries
      BY <3>2, <3>3, TouchHotTiered, HotEdits DEF SameRam
    <3>5. Keeps(cache, cache') /\ cache'.entries = cache.entries /\ Tiered(cache')
      BY <2>1, <3>1, <3>3, <3>4 DEF Keeps
    <3>6. InOrder(cache, cache')
      BY <3>5 DEF InOrder, Resident
    <3>7. last'.reply = Visible(cache, k) /\ last'.reply # None
      BY <2>1, <2>2, <3>1 DEF Visible
    <3> QED
      BY <2>1, <3>5, <3>6, <3>7 DEF CallTiered, Promise, Keeps, Forgets
  <2>3. CASE cache.entries[k] = None
    <3>1. Finds(cache, k, answer)
      BY <1>1, <2>1, <2>3, LookupHotFinds DEF Lookup
    <3>2. PICK t \in CacheType :
            /\ MakesRoom(cache, t)
            /\ \/ answer.reply = None /\ Misses(t, k, answer.state)
               \/ /\ answer.reply \in Kinds
                  /\ Admits(t, k, answer.reply, answer.state)
                  /\ Covered => answer.reply = Visible(cache, k)
      BY <3>1 DEF Finds
    <3>3. CASE answer.reply = None /\ Misses(t, k, answer.state)
      <4>1. Plain \in Kinds
        BY DEF Kinds
      <4>2. /\ Tiered(cache') /\ InOrder(cache, cache')
            /\ Covered => \A j \in Keys : Visible(cache', j) \in {Visible(cache, j), None}
        BY <1>1, <2>1, <2>3, <3>2, <3>3, <4>1, AfterRoom
      <4> QED
        BY <2>1, <3>3, <4>2 DEF CallTiered, Promise, Forgets
    <3>4. CASE /\ answer.reply \in Kinds
               /\ Admits(t, k, answer.reply, answer.state)
               /\ Covered => answer.reply = Visible(cache, k)
      <4>1. /\ Tiered(cache') /\ InOrder(cache, cache')
            /\ Covered => \A j \in Keys \ {k} :
                            Visible(cache', j) \in {Visible(cache, j), None}
            /\ HasDisk => \A j \in Keys \ {k} : Visible(cache', j) = Visible(cache, j)
            /\ Visible(cache', k) = answer.reply
        BY <1>1, <2>1, <2>3, <3>2, <3>4, AfterRoom
      <4>2. answer.reply # None
        BY <3>4, KindsAssumption
      <4>3. CallTiered(cache, cache', last'.call, last'.reply)
        BY <2>1, <4>1, <4>2 DEF CallTiered
      <4>4. Covered => Promise(cache, cache', last'.reply)
        BY <2>1, <3>4, <4>1, <4>2 DEF Promise, Forgets
      <4> QED
        BY <4>3, <4>4
    <3> QED
      BY <3>2, <3>3, <3>4
  <2> QED
    BY <2>2, <2>3
<1>3. ASSUME NEW k \in Keys, NEW kind \in Kinds, Store(k, kind)
      PROVE  /\ CallTiered(cache, cache', last'.call, last'.reply)
             /\ Covered => Promise(cache, cache', last'.reply)
  <2>1. /\ ~Contains(cache, k) /\ cache' \in StoreOutcomes(cache, k, kind)
        /\ last'.call = "store" /\ last'.reply = None
    BY <1>3 DEF Store, Returns
  <2>2. cache.entries[k] = None /\ cache.disk[k] = None
    BY <2>1 DEF Contains
  <2>3. PICK t \in CacheType :
          MakesRoom(cache, t) /\ (Misses(t, k, cache') \/ Admits(t, k, kind, cache'))
    BY <1>1, <2>1, StoreStores DEF Stores
  <2>4. /\ Tiered(cache') /\ InOrder(cache, cache')
        /\ Covered => \A j \in Keys \ {k} :
                        Visible(cache', j) \in {Visible(cache, j), None}
        /\ HasDisk => \A j \in Keys \ {k} : Visible(cache', j) = Visible(cache, j)
        /\ Misses(t, k, cache') /\ Covered =>
             Visible(cache', k) \in {Visible(cache, k), None}
        /\ Admits(t, k, kind, cache') => Visible(cache', k) = kind
    BY <1>1, <2>2, <2>3, AfterRoom
  <2>5. Covered => Visible(cache, k) = None
    BY <1>1, <2>2 DEF Tiered, CopiesAgree, Visible
  <2>6. CallTiered(cache, cache', last'.call, last'.reply)
    BY <2>1, <2>4, <2>5 DEF CallTiered, Covered
  <2>7. Covered => Promise(cache, cache', last'.reply)
    BY <2>1, <2>3, <2>4, <2>5 DEF Promise
  <2> QED
    BY <2>6, <2>7
<1>4. ASSUME NEW k \in Keys, Retain(k)
      PROVE  /\ CallTiered(cache, cache', last'.call, last'.reply)
             /\ Covered => Promise(cache, cache', last'.reply)
  <2> DEFINE s == [cache EXCEPT !.refs[k] = @ + 1]
  <2>1. /\ s \in CacheType /\ s.entries = cache.entries /\ s.lru = cache.lru
        /\ s.hot = cache.hot /\ s.hotLru = cache.hotLru /\ s.disk = cache.disk
        /\ SameCounts(cache, s)
    <3> DEFINE refs == [cache.refs EXCEPT ![k] = @ + 1]
    <3>1. refs \in [Keys -> Nat] /\ s = [cache EXCEPT !.refs = refs]
      BY <1>1 DEF CacheType
    <3> HIDE DEF refs, s
    <3> QED
      BY <1>1, <3>1, RefsWritten DEF SameCounts
  <2>2. /\ cache' = Touch(s, k) /\ cache.entries[k] # None
        /\ last'.call = "retain" /\ last'.reply = None
    BY <1>4 DEF Retain, Returns
  <2> HIDE DEF s
  <2>3. Tiered(s) /\ k \in Resident(s)
    BY <1>1, <2>1, <2>2, SameLowerCounts DEF Tiered, InHot, Resident, CopiesAgree
  <2>4. Tiered(cache') /\ Keeps(s, cache') /\ cache'.entries = cache.entries
    BY <2>1, <2>2, <2>3, TouchTiered
  <2>5. \A j \in Keys : Visible(cache', j) = Visible(cache, j)
    BY <2>1, <2>4 DEF Keeps, Visible
  <2>6. InOrder(cache, cache')
    BY <2>4 DEF InOrder, Resident
  <2> QED
    BY <2>2, <2>4, <2>5, <2>6 DEF CallTiered, Promise, Forgets
<1>5. ASSUME NEW k \in Keys, Release(k)
      PROVE  /\ CallTiered(cache, cache', last'.call, last'.reply)
             /\ Covered => Promise(cache, cache', last'.reply)
  <2>1. cache' = [cache EXCEPT !.refs[k] = @ - 1]
        /\ last'.call = "release" /\ last'.reply = None
    BY <1>5 DEF Release, Returns
  <2>2. /\ cache' \in CacheType /\ cache'.entries = cache.entries /\ cache'.lru = cache.lru
        /\ cache'.hot = cache.hot /\ cache'.hotLru = cache.hotLru
        /\ cache'.disk = cache.disk /\ SameCounts(cache, cache')
    <3> DEFINE refs == [cache.refs EXCEPT ![k] = @ - 1]
    <3>1. refs \in [Keys -> Nat] /\ cache' = [cache EXCEPT !.refs = refs]
      BY <1>1, <1>5 DEF Release, CacheType
    <3> HIDE DEF refs
    <3> QED
      BY <1>1, <3>1, RefsWritten DEF SameCounts
  <2>3. Tiered(cache')
    BY <1>1, <2>2, SameLowerCounts DEF Tiered, InHot, Resident, CopiesAgree
  <2>4. \A j \in Keys : Visible(cache', j) = Visible(cache, j)
    BY <2>2 DEF Visible
  <2>5. InOrder(cache, cache')
    BY <2>2 DEF InOrder, Resident
  <2> QED
    BY <2>1, <2>3, <2>4, <2>5 DEF CallTiered, Promise, Forgets
<1>6. ASSUME NEW k \in Keys, Erase(k)
      PROVE  /\ CallTiered(cache, cache', last'.call, last'.reply)
             /\ Covered => Promise(cache, cache', last'.reply)
  <2>1. cache' = EraseKey(cache, k) /\ last'.call = "erase" /\ last'.reply = None
    BY <1>6 DEF Erase, Returns
  <2>2. Tiered(cache') /\ Forgets(cache, cache')
    BY <1>1, <2>1, EraseTiered
  <2> QED
    BY <2>1, <2>2 DEF CallTiered, Promise
<1> QED
  BY <1>2, <1>3, <1>4, <1>5, <1>6 DEF Next

-----------------------------------------------------------------------------
(* The theorems. *)

LEMMA InitTiered == Init => TieredIInv
<1> SUFFICES ASSUME Init PROVE TieredIInv
  OBVIOUS
<1>1. IInv
  BY InitSettled
<1>2. Resident(cache) = {} /\ InHot(cache) = {} /\ cache.lru = {} /\ cache.hotLru = {}
  BY DEF Init, Resident, InHot
<1>3. Bytes(cache.hot, Keys) = 0 /\ Bytes(cache.disk, Keys) = 0
  BY BytesEmpty DEF Init
<1>4. StrictTotalOrder({}, {})
  BY DEF StrictTotalOrder
<1>5. HotCounted(cache) /\ DiskCounted(cache)
  BY <1>3, BudgetsAssumption DEF Init, HotCounted, DiskCounted
<1>6. CopiesAgree(cache)
  BY DEF Init, CopiesAgree
<1> QED
  BY <1>1, <1>2, <1>4, <1>6, <1>5 DEF TieredIInv, Tiered

(* Between two calls the tiers are in order, for every history of calls.   *)
THEOREM TieredAlways == Spec => []TieredIInv
<1>1. Init => TieredIInv
  BY InitTiered
<1>2. TieredIInv /\ [Next]_vars => TieredIInv'
  <2> SUFFICES ASSUME TieredIInv, [Next]_vars PROVE TieredIInv'
    OBVIOUS
  <2>1. IInv'
    BY StepSettled DEF TieredIInv
  <2>2. CASE Next
    BY <2>1, <2>2, StepTiered DEF TieredIInv, CallTiered
  <2>3. CASE UNCHANGED vars
    BY <2>1, <2>3 DEF TieredIInv, vars
  <2> QED
    BY <2>2, <2>3
<1> QED
  BY <1>1, <1>2, PTL DEF Spec

(* Each recency list always holds the blocks of its tier, once each, and   *)
(* nothing else (touch, promoteResidentToDeviceHot, evictResident, erase). *)
THEOREM RecencyListsHold == Spec => []RecencyLists
<1>1. TieredIInv => RecencyLists
  BY DEF TieredIInv, Tiered, RecencyLists
<1> QED
  BY <1>1, TieredAlways, PTL

(* The device-hot backend's used_bytes_ and allocations_ and the cache's   *)
(* stats_.disk_bytes always describe exactly the blocks of their tiers and *)
(* stay within the budgets (promoteFromRam, release, persistResidentToDisk *)
(* and removeDiskEntry, on every path of find, insertResident and erase).  *)
THEOREM LowerTierAccountingHolds == Spec => []LowerTierAccounting
<1>1. TieredIInv => LowerTierAccounting
  BY DEF TieredIInv, Tiered, HotCounted, DiskCounted, LowerTierAccounting
<1> QED
  BY <1>1, TieredAlways, PTL

(* With a disk tier below it, the hot tier never holds the only copy.      *)
THEOREM HotIsPromotionHolds ==
  ASSUME Covered
  PROVE  Spec => []HotIsPromotion
<1>1. TieredIInv => HotIsPromotion
  BY DEF TieredIInv, Tiered, CopiesAgree, HotIsPromotion
<1> QED
  BY <1>1, TieredAlways, PTL

(* Without an erase or a failed read, no call makes a block disappear that *)
(* has a disk tier to go to.                                               *)
THEOREM EvictionLosesNothingHolds ==
  ASSUME HasDisk
  PROVE  Spec => EvictionLosesNothing
<1>1. TieredIInv /\ [Next]_vars =>
        [\A k \in Keys :
           Visible(cache, k) # None /\ Visible(cache', k) = None =>
             \/ last'.call = "erase"
             \/ last'.call = "find" /\ last'.reply = None]_vars
  <2> SUFFICES ASSUME TieredIInv, Next
               PROVE  \A k \in Keys :
                        Visible(cache, k) # None /\ Visible(cache', k) = None =>
                          \/ last'.call = "erase"
                          \/ last'.call = "find" /\ last'.reply = None
    OBVIOUS
  <2> QED
    BY StepTiered DEF CallTiered
<1> QED
  BY <1>1, TieredAlways, PTL DEF Spec, EvictionLosesNothing

(* No call evicts a block from RAM and keeps an older one that could go,   *)
(* also when it makes room twice (a hot copy that cannot be downloaded).   *)
THEOREM EvictsLeastRecentFirstHolds == Spec => EvictsLeastRecentFirst
<1> DEFINE Ordered ==
      last'.call # "erase" =>
        \A j, k \in Resident(cache) :
          /\ <<j, k>> \in cache.lru
          /\ cache'.entries[j] = None
          /\ cache.refs[k] = 0
          => \/ cache'.entries[k] = None
             \/ HasDisk /\ cache'.disk[k] = None
<1>1. TieredIInv /\ [Next]_vars => [Ordered]_vars
  <2> SUFFICES ASSUME TieredIInv, Next PROVE Ordered
    OBVIOUS
  <2>1. last'.call # "erase" => InOrder(cache, cache')
    BY StepTiered DEF CallTiered
  <2> QED
    BY <2>1 DEF InOrder
<1> QED
  BY <1>1, TieredAlways, PTL DEF Spec, EvictsLeastRecentFirst

-----------------------------------------------------------------------------
(* The cache implements the lossy store. *)

LEMMA RemainsOf ==
  ASSUME NEW f, NEW g, g = [k \in Keys |-> g[k]], NEW kept \in SUBSET Keys,
         \A k \in Keys : g[k] \in {f[k], None}, \A k \in kept : g[k] = f[k]
  PROVE  g \in PS!Remains(f, kept)
<1> DEFINE lost == {k \in Keys \ kept : f[k] # None /\ g[k] = None}
<1>1. lost \in SUBSET {k \in Keys \ kept : f[k] # None}
  OBVIOUS
<1>2. \A k \in Keys : g[k] = IF k \in lost THEN None ELSE f[k]
  OBVIOUS
<1> HIDE DEF lost
<1>3. g = [k \in Keys |-> IF k \in lost THEN None ELSE f[k]]
  BY <1>2
<1> QED
  BY <1>1, <1>3 DEF PS!Remains

LEMMA StepImplements ==
  ASSUME Covered, TieredIInv, Next
  PROVE  PS!StoreNext
<1> DEFINE f == [k \in Keys |-> Visible(cache, k)]
<1> DEFINE g == [k \in Keys |-> Visible(cache', k)]
<1>1. Promise(cache, cache', last'.reply)
  BY StepTiered
<1>2. \A k \in Keys : f[k] = Visible(cache, k) /\ g[k] = Visible(cache', k)
  OBVIOUS
<1>3. f = [k \in Keys |-> f[k]] /\ g = [k \in Keys |-> g[k]]
  OBVIOUS
<1>4. /\ PS!Forget <=> g \in PS!Remains(f, {}) /\ last'.reply = None
      /\ \A k : PS!LookupHit(k) <=>
           f[k] # None /\ g \in PS!Remains(f, {k}) /\ last'.reply = f[k]
      /\ \A k, p : PS!Add(k, p) <=>
           /\ f[k] = None /\ g \in PS!Remains([f EXCEPT ![k] = p], {})
           /\ last'.reply = None
  BY DEF PS!Forget, PS!LookupHit, PS!Add
<1> HIDE DEF f, g
<1>5. CASE last'.reply = None /\ Forgets(cache, cache')
  <2>1. g \in PS!Remains(f, {})
    BY <1>2, <1>3, <1>5, RemainsOf DEF Forgets
  <2> QED
    BY <1>4, <1>5, <2>1 DEF PS!StoreNext
<1>6. ASSUME last'.reply = None, NEW k \in Keys, NEW kind \in Kinds,
             Visible(cache, k) = None, Visible(cache', k) \in {kind, None},
             \A j \in Keys \ {k} : Visible(cache', j) \in {Visible(cache, j), None}
      PROVE  PS!StoreNext
  <2> DEFINE e == [f EXCEPT ![k] = kind]
  <2>1. \A j \in Keys : g[j] \in {e[j], None}
    <3>1. e[k] = kind /\ \A j \in Keys \ {k} : e[j] = f[j]
      BY <1>3
    <3> HIDE DEF e
    <3> QED
      BY <1>2, <1>6, <3>1
  <2> HIDE DEF e
  <2>2. g \in PS!Remains(e, {})
    BY <1>3, <2>1, RemainsOf
  <2>3. PS!Add(k, kind)
    BY <1>2, <1>4, <1>6, <2>2 DEF e
  <2> QED
    BY <2>3 DEF PS!StoreNext
<1>7. ASSUME NEW k \in Keys, last'.reply = Visible(cache, k), last'.reply # None,
             Forgets(cache, cache'), Visible(cache', k) = Visible(cache, k)
      PROVE  PS!StoreNext
  <2>1. g \in PS!Remains(f, {k})
    BY <1>2, <1>3, <1>7, RemainsOf DEF Forgets
  <2>2. PS!LookupHit(k)
    BY <1>2, <1>4, <1>7, <2>1
  <2> QED
    BY <2>2 DEF PS!StoreNext
<1> QED
  BY <1>1, <1>5, <1>6, <1>7 DEF Promise

(* Seen through find(), the three tiers together are a store that may      *)
(* forget and never answers with anything but what was harvested under the *)
(* key, for every combination of tiers but a device without a disk.        *)
THEOREM CacheImplementsStore ==
  ASSUME Covered
  PROVE  Spec => ImplementsPrefixStore
<1>1. Init => PS!StoreInit
  BY DEF Init, PS!StoreInit, Visible
<1>2. TieredIInv /\ [Next]_vars => [PS!StoreNext]_(PS!storeVars)
  <2> SUFFICES ASSUME TieredIInv, [Next]_vars
               PROVE  [PS!StoreNext]_(PS!storeVars)
    OBVIOUS
  <2>1. CASE Next
    BY <2>1, StepImplements
  <2>2. CASE UNCHANGED vars
    BY <2>2 DEF vars, PS!storeVars
  <2> QED
    BY <2>1, <2>2
<1> QED
  BY <1>1, <1>2, TieredAlways, PTL DEF Spec, ImplementsPrefixStore, PS!StoreSpec

=============================================================================
