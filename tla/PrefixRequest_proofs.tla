------------------------ MODULE PrefixRequest_proofs ------------------------
(***************************************************************************)
(* Proofs about PrefixRequest: in the configurations in which it is        *)
(* correct, prefix reuse computes what the whole prompt would, no cache is *)
(* ever given a block that is not what its key says, and no rank parts     *)
(* from the others over the suffix without a cause.                        *)
(***************************************************************************)
EXTENDS PrefixRequest, SequenceTheorems, WellFoundedInduction, TLAPS

-----------------------------------------------------------------------------
(* Least and greatest elements. *)

LEMMA LeastIs ==
  ASSUME NEW S \in SUBSET Nat, NEW m \in S, \A n \in S : m <= n
  PROVE  Least(S) = m
<1>1. \A k \in S : (\A n \in S : k <= n) => k = m
  OBVIOUS
<1> QED
  BY <1>1, Zenon DEF Least

LEMMA LargestIs ==
  ASSUME NEW S \in SUBSET Nat, NEW m \in S, \A n \in S : n <= m
  PROVE  Largest(S) = m
<1>1. \A k \in S : (\A n \in S : n <= k) => k = m
  OBVIOUS
<1> QED
  BY <1>1, Zenon DEF Largest

LEMMA SomeLeast ==
  ASSUME NEW S \in SUBSET Nat, S # {}
  PROVE  \E m \in S : \A n \in S : m <= n
<1> DEFINE R == OpToRel(<, Nat)
<1>1. IsWellFoundedOn(R, Nat)
  BY NatLessThanWellFounded
<1> HIDE DEF R
<1>2. PICK n \in S : \A m \in S : ~(<<m, n>> \in R)
  BY <1>1, WFMin
<1> USE DEF R
<1>3. \A m, l \in Nat : m < l => <<m, l>> \in R
  BY DEF OpToRel
<1> HIDE DEF R
<1>4. \A m \in S : ~(m < n)
  BY <1>2, <1>3
<1> QED
  BY <1>4

LEMMA LeastIn ==
  ASSUME NEW S \in SUBSET Nat, S # {}
  PROVE  Least(S) \in S /\ \A n \in S : Least(S) <= n
<1>1. PICK m \in S : \A n \in S : m <= n
  BY SomeLeast
<1>2. Least(S) = m
  BY <1>1, LeastIs
<1> QED
  BY <1>1, <1>2

LEMMA LargestIn ==
  ASSUME NEW c \in Nat, NEW S \in SUBSET (0..c), S # {}
  PROVE  Largest(S) \in S /\ \A n \in S : n <= Largest(S)
<1> DEFINE T == {c - n : n \in S}
<1>0. \A n \in S : n \in Nat /\ n <= c /\ c - n \in Nat
  OBVIOUS
<1>1. T \in SUBSET Nat /\ T # {}
  BY <1>0
<1>2. PICK t \in T : \A n \in T : t <= n
  <2> HIDE DEF T
  <2> QED
    BY <1>1, SomeLeast
<1>3. PICK m \in S : t = c - m
  BY <1>2
<1>4. \A n \in S : c - m <= c - n
  BY <1>2, <1>3
<1>5. \A n \in S : n <= m
  BY <1>0, <1>4
<1>6. Largest(S) = m
  BY <1>5, LargestIs
<1> QED
  BY <1>5, <1>6

-----------------------------------------------------------------------------
(* Block boundaries. *)

LEMMA Assumed ==
  /\ BlockSize \in Nat /\ BlockSize > 0
  /\ \A s \in Setups :
       /\ s.ranks \in Seq((SUBSET Nat) \ {{}}) /\ s.ranks # << >>
       /\ \A q, r \in DOMAIN s.ranks : q # r => s.ranks[q] \cap s.ranks[r] = {}
       /\ s.owners \subseteq UNION {s.ranks[r] : r \in DOMAIN s.ranks}
       /\ s.prompts \subseteq Seq(Tokens) \ {<< >>}
       /\ s.hybrid \in BOOLEAN /\ s.terminal \in BOOLEAN
       /\ s.mtp \in BOOLEAN /\ s.ioFails \in BOOLEAN
BY RequestAssumption

LEMMA Times ==
  ASSUME NEW b \in Nat, NEW i \in Int, NEW j \in Int, i <= j
  PROVE  i * b <= j * b /\ i * b \in Int /\ (i + 1) * b = i * b + b
<1>1. PICK k \in Nat : j = i + k
  BY j - i \in Nat
<1>2. j * b = i * b + k * b
  BY <1>1
<1>3. k * b \in Nat
  OBVIOUS
<1> QED
  BY <1>2, <1>3

LEMMA Division ==
  ASSUME NEW x \in Int
  PROVE  /\ x \div BlockSize \in Int
         /\ (x \div BlockSize) * BlockSize <= x
         /\ x < (x \div BlockSize) * BlockSize + BlockSize
         /\ x % BlockSize = x - (x \div BlockSize) * BlockSize
BY Assumed

LEMMA DivisionIs ==
  ASSUME NEW x \in Int, NEW q \in Int,
         q * BlockSize <= x, x < q * BlockSize + BlockSize
  PROVE  x \div BlockSize = q /\ x % BlockSize = x - q * BlockSize
<1> DEFINE d == x \div BlockSize
<1>1. /\ d \in Int /\ d * BlockSize <= x /\ x < d * BlockSize + BlockSize
      /\ x % BlockSize = x - d * BlockSize
  BY Division
<1> HIDE DEF d
<1>2. BlockSize \in Nat /\ BlockSize > 0
  BY Assumed
<1>3. ~(d + 1 <= q)
  <2> SUFFICES ASSUME d + 1 <= q PROVE FALSE
    OBVIOUS
  <2>1. (d + 1) * BlockSize <= q * BlockSize /\ (d + 1) * BlockSize = d * BlockSize + BlockSize
    BY <1>1, <1>2, Times
  <2>2. d * BlockSize \in Int /\ q * BlockSize \in Int
    BY <1>1, <1>2
  <2> QED
    BY <1>1, <1>2, <2>1, <2>2
<1>4. ~(q + 1 <= d)
  <2> SUFFICES ASSUME q + 1 <= d PROVE FALSE
    OBVIOUS
  <2>1. (q + 1) * BlockSize <= d * BlockSize /\ (q + 1) * BlockSize = q * BlockSize + BlockSize
    BY <1>1, <1>2, Times
  <2>2. d * BlockSize \in Int /\ q * BlockSize \in Int
    BY <1>1, <1>2
  <2> QED
    BY <1>1, <1>2, <2>1, <2>2
<1>5. d = q
  BY <1>1, <1>3, <1>4
<1> QED
  BY <1>1, <1>5 DEF d

(* The last block is the one that the prompt ends in. *)
LEMMA LastBlock ==
  ASSUME NEW prompt \in Seq(Tokens)
  PROVE  \E n \in Nat :
           /\ Blocks(prompt) = 1..n
           /\ (n - 1) * BlockSize < Len(prompt) /\ Len(prompt) <= n * BlockSize
<1> DEFINE n == (Len(prompt) + BlockSize - 1) \div BlockSize
           l == Len(prompt)
<1>1. l \in Nat /\ BlockSize \in Nat /\ BlockSize > 0
  BY Assumed
<1>2. /\ n \in Int /\ n * BlockSize <= l + BlockSize - 1
      /\ l + BlockSize - 1 < n * BlockSize + BlockSize
  BY <1>1, Division
<1>3. Blocks(prompt) = 1..n
  BY DEF Blocks
<1> HIDE DEF n, l
<1>4. (n - 1) * BlockSize + BlockSize = n * BlockSize /\ (n - 1) * BlockSize \in Int
  BY <1>1, <1>2
<1>5. (n - 1) * BlockSize < l /\ l <= n * BlockSize
  <2>1. n * BlockSize \in Int
    BY <1>1, <1>2
  <2> QED
    BY <1>1, <1>2, <1>4, <2>1
<1>6. n \in Nat
  <2> SUFFICES ASSUME n + 1 <= 0 PROVE FALSE
    BY <1>2
  <2>1. (n + 1) * BlockSize <= 0 * BlockSize /\ (n + 1) * BlockSize = n * BlockSize + BlockSize
    BY <1>1, <1>2, Times
  <2>2. n * BlockSize \in Int /\ 0 * BlockSize = 0
    BY <1>1, <1>2
  <2> QED
    BY <1>1, <1>5, <2>1, <2>2
<1> QED
  BY <1>3, <1>5, <1>6 DEF l

(* Block ends grow from 0 to the length, and only the last may fall short  *)
(* of a multiple of the block size.                                        *)
LEMMA Ends ==
  ASSUME NEW prompt \in Seq(Tokens), NEW j \in {0} \cup Blocks(prompt)
  PROVE  /\ j \in Nat /\ 0..j \subseteq {0} \cup Blocks(prompt)
         /\ End(prompt, j) \in 0..Len(prompt) /\ End(prompt, j) <= j * BlockSize
         /\ End(prompt, 0) = 0
         /\ j * BlockSize \in Nat
         /\ \A i \in Nat : i < j =>
              End(prompt, i) = i * BlockSize /\ i * BlockSize < End(prompt, j)
         /\ End(prompt, j) < Len(prompt) => End(prompt, j) = j * BlockSize
         /\ j # 0 => /\ (j - 1) * BlockSize \in Nat
                     /\ (j - 1) * BlockSize < End(prompt, j)
                     /\ End(prompt, j) <= (j - 1) * BlockSize + BlockSize
                     /\ End(prompt, j - 1) = (j - 1) * BlockSize
<1> DEFINE l == Len(prompt)
<1>1. PICK n \in Nat : /\ Blocks(prompt) = 1..n
                       /\ (n - 1) * BlockSize < Len(prompt) /\ Len(prompt) <= n * BlockSize
  BY LastBlock
<1>2. l \in Nat /\ BlockSize \in Nat /\ BlockSize > 0
  BY Assumed
<1>3. (n - 1) * BlockSize < l /\ l <= n * BlockSize
  BY <1>1
<1>4. \A i : End(prompt, i) = AtMost(i * BlockSize, l)
  BY DEF End
<1> HIDE DEF l
<1>5. j \in Nat /\ j <= n /\ 0..j \subseteq {0} \cup Blocks(prompt)
  BY <1>1
<1>6. \A i \in Int : i * BlockSize \in Int
  BY <1>2
<1>6a. \A i \in Nat : i * BlockSize \in Nat
  BY <1>2
<1>7. j * BlockSize \in Nat /\ 0 * BlockSize = 0
  BY <1>2, <1>5
<1>8. \A i \in Nat : i < j => i * BlockSize + BlockSize <= j * BlockSize /\ i * BlockSize < l
  <2> SUFFICES ASSUME NEW i \in Nat, i < j
               PROVE  i * BlockSize + BlockSize <= j * BlockSize /\ i * BlockSize < l
    OBVIOUS
  <2>1. (i + 1) * BlockSize <= j * BlockSize /\ (i + 1) * BlockSize = i * BlockSize + BlockSize
    BY <1>2, <1>5, Times
  <2>2. i * BlockSize <= (n - 1) * BlockSize
    BY <1>2, <1>5, Times
  <2>3. i * BlockSize \in Int /\ (n - 1) * BlockSize \in Int
    BY <1>6, <1>5
  <2> QED
    BY <1>2, <1>3, <2>1, <2>2, <2>3
<1>9. End(prompt, j) \in 0..l /\ End(prompt, j) <= j * BlockSize /\ End(prompt, 0) = 0
  BY <1>2, <1>4, <1>7 DEF AtMost
<1>10. End(prompt, j) < l => End(prompt, j) = j * BlockSize
  BY <1>2, <1>4, <1>7 DEF AtMost
<1>11. ASSUME NEW i \in Nat, i < j
       PROVE  End(prompt, i) = i * BlockSize /\ i * BlockSize < End(prompt, j)
  <2>1. i * BlockSize \in Nat /\ i * BlockSize + BlockSize <= j * BlockSize /\ i * BlockSize < l
    BY <1>6a, <1>8, <1>11
  <2> QED
    BY <2>1, <1>2, <1>4, <1>7 DEF AtMost
<1>12. ASSUME j # 0
       PROVE  /\ (j - 1) * BlockSize \in Nat
              /\ (j - 1) * BlockSize < End(prompt, j)
              /\ End(prompt, j) <= (j - 1) * BlockSize + BlockSize
              /\ End(prompt, j - 1) = (j - 1) * BlockSize
  <2>1. j - 1 \in Nat /\ j - 1 < j
    BY <1>5, <1>12
  <2>2. End(prompt, j - 1) = (j - 1) * BlockSize /\ (j - 1) * BlockSize < End(prompt, j)
    BY <1>11, <2>1
  <2>3. j - 1 + 1 = j /\ (j - 1 + 1) * BlockSize = (j - 1) * BlockSize + BlockSize
    BY <1>2, <2>1, Times
  <2> QED
    BY <1>6a, <1>9, <2>1, <2>2, <2>3
<1> QED
  BY <1>5, <1>7, <1>9, <1>10, <1>11, <1>12 DEF l

(* The boundaries are strictly ordered, and the last one is the length. *)
LEMMA EndsOrdered ==
  ASSUME NEW prompt \in Seq(Tokens),
         NEW i \in {0} \cup Blocks(prompt), NEW j \in {0} \cup Blocks(prompt)
  PROVE  /\ End(prompt, i) <= End(prompt, j) <=> i <= j
         /\ End(prompt, i) = End(prompt, j) <=> i = j
<1>1. /\ i \in Nat /\ j \in Nat
      /\ End(prompt, i) \in Nat /\ End(prompt, j) \in Nat
  BY Ends
<1>2. /\ i < j => End(prompt, i) < End(prompt, j)
      /\ j < i => End(prompt, j) < End(prompt, i)
  BY Ends, <1>1
<1> QED
  BY <1>1, <1>2

LEMMA EndOfPrompt ==
  ASSUME NEW prompt \in Seq(Tokens)
  PROVE  \E n \in {0} \cup Blocks(prompt) : /\ End(prompt, n) = Len(prompt)
                                            /\ \A j \in {0} \cup Blocks(prompt) : j <= n
<1>1. PICK n \in Nat : /\ Blocks(prompt) = 1..n
                       /\ (n - 1) * BlockSize < Len(prompt) /\ Len(prompt) <= n * BlockSize
  BY LastBlock
<1>2. n \in {0} \cup Blocks(prompt) /\ \A j \in {0} \cup Blocks(prompt) : j <= n
  BY <1>1
<1>3. Len(prompt) \in Nat /\ n * BlockSize \in Int
  BY Assumed
<1>4. End(prompt, n) = Len(prompt)
  BY <1>1, <1>3 DEF End, AtMost
<1> QED
  BY <1>2, <1>4

(* Giving back a whole block leaves a block boundary. *)
LEMMA StepsBackToBoundary ==
  ASSUME NEW prompt \in Seq(Tokens), NEW j \in Blocks(prompt),
         End(prompt, j) = j * BlockSize
  PROVE  StepBack(End(prompt, j)) = End(prompt, j - 1) /\ j - 1 \in {0} \cup Blocks(prompt)
<1>1. /\ j \in Nat /\ j # 0 /\ BlockSize \in Nat /\ j * BlockSize \in Nat
      /\ j - 1 \in Nat /\ j - 1 \in 0..j
  BY Ends, Assumed DEF Blocks
<1>2. j - 1 \in {0} \cup Blocks(prompt)
  BY <1>1, Ends, j \in {0} \cup Blocks(prompt)
<1>3. End(prompt, j - 1) = (j - 1) * BlockSize /\ (j - 1) * BlockSize \in Nat
  BY <1>1, Ends, j \in {0} \cup Blocks(prompt)
<1>4. j * BlockSize = (j - 1) * BlockSize + BlockSize
  BY <1>1
<1>5. StepBack(j * BlockSize) = j * BlockSize - BlockSize
  BY <1>1, <1>3, <1>4 DEF StepBack, AtMost
<1> QED
  BY <1>1, <1>2, <1>3, <1>4, <1>5

(* Where a row lies. *)
LEMMA RowBlock ==
  ASSUME NEW prompt \in Seq(Tokens), NEW j \in {0} \cup Blocks(prompt),
         NEW i \in 1..End(prompt, j)
  PROVE  \E q \in 1..j :
           /\ ((i - 1) \div BlockSize) + 1 = q
           /\ ((i - 1) % BlockSize) + 1 = i - (q - 1) * BlockSize
           /\ (q - 1) * BlockSize < i /\ i <= End(prompt, q)
<1> DEFINE d == (i - 1) \div BlockSize
<1>1. BlockSize \in Nat /\ BlockSize > 0 /\ j \in Nat /\ End(prompt, j) \in 0..Len(prompt)
      /\ j * BlockSize \in Nat /\ End(prompt, j) <= j * BlockSize
  BY Assumed, Ends
<1>2. /\ d \in Int /\ d * BlockSize <= i - 1 /\ i - 1 < d * BlockSize + BlockSize
      /\ (i - 1) % BlockSize = i - 1 - d * BlockSize
  BY <1>1, Division
<1> HIDE DEF d
<1>3. d \in Nat
  <2> SUFFICES ASSUME d + 1 <= 0 PROVE FALSE
    BY <1>2
  <2>1. (d + 1) * BlockSize <= 0 * BlockSize /\ (d + 1) * BlockSize = d * BlockSize + BlockSize
    BY <1>1, <1>2, Times
  <2>2. d * BlockSize \in Int /\ 0 * BlockSize = 0
    BY <1>1, <1>2
  <2> QED
    BY <1>1, <1>2, <2>1, <2>2
<1>4. d < j
  <2> SUFFICES ASSUME j <= d PROVE FALSE
    BY <1>1, <1>3
  <2>1. j * BlockSize <= d * BlockSize /\ d * BlockSize \in Int
    BY <1>1, <1>3, Times
  <2> QED
    BY <1>1, <1>2, <2>1
<1>5. d + 1 \in 1..j /\ d + 1 \in {0} \cup Blocks(prompt)
  BY <1>3, <1>4, <1>1, Ends
<1>6. i <= End(prompt, d + 1)
  <2>1. CASE d + 1 < j
    <3>1. End(prompt, d + 1) = (d + 1) * BlockSize
      BY <2>1, <1>3, Ends
    <3>2. (d + 1) * BlockSize = d * BlockSize + BlockSize /\ d * BlockSize \in Int
      BY <1>1, <1>3
    <3> QED
      BY <3>1, <3>2, <1>1, <1>2
  <2>2. CASE d + 1 = j
    BY <2>2
  <2>3. d + 1 < j \/ d + 1 = j
    BY <1>1, <1>3, <1>4
  <2> QED
    BY <2>1, <2>2, <2>3
<1>7. d + 1 - 1 = d
  BY <1>3
<1> QED
  BY <1>1, <1>2, <1>3, <1>5, <1>6, <1>7 DEF d

-----------------------------------------------------------------------------
(* Parts of sequences. *)

LEMMA Slice ==
  ASSUME NEW S, NEW s \in Seq(S), NEW m \in 1..(Len(s) + 1), NEW n \in (m - 1)..Len(s)
  PROVE  /\ SubSeq(s, m, n) \in Seq(S)
         /\ Len(SubSeq(s, m, n)) = n - m + 1
         /\ \A i \in 1..(n - m + 1) : SubSeq(s, m, n)[i] = s[m + i - 1]
<1>1. Len(s) \in Nat
  BY LenProperties
<1>2. \A i \in m..n : s[i] \in S
  BY <1>1
<1>3. m \in Int /\ n \in Int
  BY <1>1
<1>4. /\ SubSeq(s, m, n) \in Seq(S)
      /\ Len(SubSeq(s, m, n)) = IF m <= n THEN n - m + 1 ELSE 0
      /\ \A i \in 1..(n - m + 1) : SubSeq(s, m, n)[i] = s[m + i - 1]
  BY ONLY <1>2, <1>3, SubSeqProperties
<1> QED
  BY <1>1, <1>4

LEMMA SliceOfPrefix ==
  ASSUME NEW S, NEW s \in Seq(S), NEW l \in 0..Len(s),
         NEW m \in 1..(l + 1), NEW n \in (m - 1)..l
  PROVE  SubSeq(SubSeq(s, 1, l), m, n) = SubSeq(s, m, n)
<1> DEFINE t == SubSeq(s, 1, l)
<1>1. Len(s) \in Nat
  BY LenProperties
<1>2. /\ t \in Seq(S) /\ Len(t) = l
      /\ \A i \in 1..l : t[i] = s[i]
  BY <1>1, Slice
<1> HIDE DEF t
<1>3. /\ SubSeq(t, m, n) \in Seq(S)
      /\ Len(SubSeq(t, m, n)) = n - m + 1
      /\ \A i \in 1..(n - m + 1) : SubSeq(t, m, n)[i] = t[m + i - 1]
  BY <1>1, <1>2, Slice
<1>4. /\ SubSeq(s, m, n) \in Seq(S)
      /\ Len(SubSeq(s, m, n)) = n - m + 1
      /\ \A i \in 1..(n - m + 1) : SubSeq(s, m, n)[i] = s[m + i - 1]
  BY <1>1, Slice
<1>5. \A i \in 1..(n - m + 1) : SubSeq(t, m, n)[i] = SubSeq(s, m, n)[i]
  BY <1>1, <1>2, <1>3, <1>4
<1>6. SubSeq(t, m, n) = SubSeq(s, m, n)
  BY <1>3, <1>4, <1>5, SeqEqual
<1> QED
  BY <1>6 DEF t

LEMMA Prefix ==
  ASSUME NEW prompt \in Seq(Tokens), NEW m \in 0..Len(prompt)
  PROVE  /\ SubSeq(prompt, 1, m) \in Seq(Tokens)
         /\ Len(SubSeq(prompt, 1, m)) = m
         /\ \A i \in 0..m : SubSeq(SubSeq(prompt, 1, m), 1, i) = SubSeq(prompt, 1, i)
<1>1. Len(prompt) \in Nat
  BY LenProperties
<1>2. \A i \in 0..m : SubSeq(SubSeq(prompt, 1, m), 1, i) = SubSeq(prompt, 1, i)
  BY <1>1, SliceOfPrefix
<1>3. SubSeq(prompt, 1, m) \in Seq(Tokens) /\ Len(SubSeq(prompt, 1, m)) = m
  BY <1>1, Slice
<1> QED
  BY <1>2, <1>3

(* The KV rows of the first m tokens. *)
RowsTo(prompt, m) == [i \in 1..m |-> SubSeq(prompt, 1, i)]

LEMMA RowsProperties ==
  ASSUME NEW prompt \in Seq(Tokens), NEW m \in 0..Len(prompt)
  PROVE  /\ RowsTo(prompt, m) \in Seq(Seq(Tokens))
         /\ Len(RowsTo(prompt, m)) = m
         /\ \A i \in 1..m : RowsTo(prompt, m)[i] = SubSeq(prompt, 1, i)
<1>1. Len(prompt) \in Nat
  BY LenProperties
<1>2. \A i \in 1..m : SubSeq(prompt, 1, i) \in Seq(Tokens)
  BY <1>1, Prefix
<1>3. RowsTo(prompt, m) \in [1..m -> Seq(Tokens)]
  BY <1>2 DEF RowsTo
<1>4. RowsTo(prompt, m) \in Seq(Seq(Tokens)) /\ Len(RowsTo(prompt, m)) = m
  BY <1>1, <1>3
<1> QED
  BY <1>4 DEF RowsTo

LEMMA RowsOfPrefix ==
  ASSUME NEW prompt \in Seq(Tokens), NEW m \in 0..Len(prompt)
  PROVE  Rows(SubSeq(prompt, 1, m)) = RowsTo(prompt, m)
BY Prefix, LenProperties DEF Rows, RowsTo

LEMMA RowsAll ==
  ASSUME NEW prompt \in Seq(Tokens)
  PROVE  Rows(prompt) = RowsTo(prompt, Len(prompt)) /\ SubSeq(prompt, 1, Len(prompt)) = prompt
BY SubSeqFull DEF Rows, RowsTo

(* The rows of a block: those of the prefix, from its first to its last. *)
LEMMA RowsOfBlock ==
  ASSUME NEW prompt \in Seq(Tokens), NEW l \in 0..Len(prompt), NEW a \in 0..l, NEW b \in a..l
  PROVE  /\ SubSeq(RowsTo(prompt, l), a + 1, b) = SubSeq(RowsTo(prompt, b), a + 1, b)
         /\ SubSeq(RowsTo(prompt, l), a + 1, b) \in Seq(Seq(Tokens))
         /\ \A i \in 1..(b - a) :
              SubSeq(RowsTo(prompt, l), a + 1, b)[i] = SubSeq(prompt, 1, a + i)
<1>1. Len(prompt) \in Nat
  BY LenProperties
<1>2. /\ RowsTo(prompt, l) \in Seq(Seq(Tokens)) /\ Len(RowsTo(prompt, l)) = l
      /\ \A i \in 1..l : RowsTo(prompt, l)[i] = SubSeq(prompt, 1, i)
  BY RowsProperties
<1>3. /\ RowsTo(prompt, b) \in Seq(Seq(Tokens)) /\ Len(RowsTo(prompt, b)) = b
      /\ \A i \in 1..b : RowsTo(prompt, b)[i] = SubSeq(prompt, 1, i)
  BY <1>1, RowsProperties
<1> DEFINE s == SubSeq(RowsTo(prompt, l), a + 1, b)
           t == SubSeq(RowsTo(prompt, b), a + 1, b)
<1>4. /\ s \in Seq(Seq(Tokens)) /\ Len(s) = b - a
      /\ \A i \in 1..(b - a) : s[i] = RowsTo(prompt, l)[a + i]
  <2>1. a + 1 \in 1..(l + 1) /\ b \in (a + 1 - 1)..l /\ b - (a + 1) + 1 = b - a
    BY <1>1
  <2>2. \A i \in 1..(b - a) : a + 1 + i - 1 = a + i
    BY <1>1
  <2> QED
    BY <1>2, <2>1, <2>2, Slice
<1>5. /\ t \in Seq(Seq(Tokens)) /\ Len(t) = b - a
      /\ \A i \in 1..(b - a) : t[i] = RowsTo(prompt, b)[a + i]
  <2>1. a + 1 \in 1..(b + 1) /\ b \in (a + 1 - 1)..b /\ b - (a + 1) + 1 = b - a
    BY <1>1
  <2>2. \A i \in 1..(b - a) : a + 1 + i - 1 = a + i
    BY <1>1
  <2> QED
    BY <1>3, <2>1, <2>2, Slice
<1> HIDE DEF s, t
<1>6. \A i \in 1..(b - a) : s[i] = SubSeq(prompt, 1, a + i) /\ t[i] = SubSeq(prompt, 1, a + i)
  <2>1. \A i \in 1..(b - a) : a + i \in 1..l /\ a + i \in 1..b
    BY <1>1
  <2> QED
    BY ONLY <1>2, <1>3, <1>4, <1>5, <2>1
<1>7. s = t
  BY <1>4, <1>5, <1>6, SeqEqual
<1> QED
  BY <1>4, <1>6, <1>7 DEF s, t

-----------------------------------------------------------------------------
(* The configurations the theorems are about. A prompt may end inside a    *)
(* block, and a model have recurrent state, only where the terminal state  *)
(* of every full hit can be restored.                                      *)
Safe(s) ==
  (s.hybrid \/ \E prompt \in s.prompts : Len(prompt) % BlockSize # 0) =>
    /\ s.terminal /\ ~s.ioFails
    /\ \A r \in DOMAIN s.ranks : s.owners \cap s.ranks[r] # {}
    /\ s.hybrid => \E p \in s.owners : s.ranks = <<{p}>>

(* Every rank keeps terminal logits, or none does. *)
Alike(s) ==
  \A q, r \in DOMAIN s.ranks : s.owners \cap s.ranks[q] # {} => s.owners \cap s.ranks[r] # {}

-----------------------------------------------------------------------------
(* The inductive invariant. *)

Tails == [state : Seq(Tokens) \cup {None}, logits : Seq(Tokens) \cup {None}]
BlockSet == [rows : Seq(Seq(Tokens)), tail : Tails \cup {None}]
Hits == [cached : Nat, blocks : Seq(BlockSet), logits : BOOLEAN]
Phases == {"idle", "lookup", "coordinate", "populate", "prefill", "harvest", "ready"}
Requests(S) ==
  [phase : Phases, hits : [S -> Hits], local : Hits,
   agreed : Hits \cup [cached : Nat, logits : BOOLEAN], matched : Nat, failed : BOOLEAN,
   next : S]

RequestTypes ==
  /\ setup \in Setups
  /\ prompt_tokens \in {<< >>} \cup setup.prompts
  /\ store \in [Participants -> [Keys -> BlockSet \cup {None}]]
  /\ DOMAIN req = Ranks
  /\ \A r \in Ranks : req[r] \in Requests(setup.ranks[r])

(* A block holds what its key says ... *)
Faithful(key, block) ==
  LET start == ((Len(key) - 1) \div BlockSize) * BlockSize
  IN /\ block.rows = SubSeq(Rows(key), start + 1, Len(key))
     /\ HasState(block) => block.tail.state = key
     /\ HasLogits(block) => block.tail.logits = key

(* ... and where a full hit may end in it, what such a hit needs. *)
RestoringIn(s) == IF s.terminal THEN s.owners ELSE {}
Complete(s, p, key, block) ==
  p \in RestoringIn(s) /\ (HasState(block) \/ Len(key) % BlockSize # 0) => HasLogits(block)

Holds(s, p, key, block) == Faithful(key, block) /\ Complete(s, p, key, block)

StoresHold ==
  \A p \in Participants, k \in Keys : store[p][k] # None => Holds(setup, p, k, store[p][k])

(* A hit covers whole blocks of the prompt, and can be cut off after j.    *)
Bounded(prompt, hit) ==
  /\ Len(hit.blocks) \in {0} \cup Blocks(prompt)
  /\ hit.cached = End(prompt, Len(hit.blocks))
Reaches(s, hit, j) ==
  j # 0 => j <= Len(hit.blocks) /\ (s.hybrid => HasState(hit.blocks[j]))

HitHolds(s, prompt, p, hit) ==
  /\ Bounded(prompt, hit)
  /\ Reaches(s, hit, Len(hit.blocks))
  /\ \A j \in 1..Len(hit.blocks) : Holds(s, p, Key(prompt, j), hit.blocks[j])
  /\ hit.logits => HasLogits(hit.blocks[Len(hit.blocks)]) /\ hit.blocks # << >>
  /\ hit.blocks # << >> /\ HasLogits(hit.blocks[Len(hit.blocks)]) => hit.logits

(* After the reductions, all that a rank x (with participants S) still     *)
(* needs of its hits is there; where recomputing the last block would go   *)
(* wrong, so is what a full hit needs to go without.                       *)
Restores(s, S, x) ==
  /\ x.agreed.logits /\ x.local.logits
  /\ \A p \in RestoringIn(s) \cap S : x.hits[p].logits

Goes(s, prompt, S, x) ==
  /\ Bounded(prompt, x.local)
  /\ x.agreed.logits => s.terminal
  /\ \E j \in {0} \cup Blocks(prompt) :
       /\ x.matched = End(prompt, j)
       /\ Reaches(s, x.local, j)
       /\ \A p \in S : Reaches(s, x.hits[p], j)
  /\ (s.hybrid \/ Len(prompt) % BlockSize # 0) /\ x.matched = Len(prompt) => Restores(s, S, x)

LiveTo(s, prompt, m) ==
  [rows |-> RowsTo(prompt, m), state |-> IF s.hybrid THEN SubSeq(prompt, 1, m) ELSE << >>]

(* Where rank x is, with the execution state kv and the logits lg. *)
RankHolds(s, prompt, S, x, kv, lg) ==
  /\ x.phase # "idle" => prompt \in s.prompts
  /\ \A p \in S : HitHolds(s, prompt, p, x.hits[p])
  /\ x.phase \in {"populate", "prefill"} => Goes(s, prompt, S, x)
  /\ x.phase = "populate" => \A p \in S : kv[p] = LiveTo(s, prompt, 0)
  /\ x.phase = "prefill" => \A p \in S : kv[p] = LiveTo(s, prompt, x.matched)
  /\ x.phase \in {"harvest", "ready"} =>
       \A p \in S : /\ kv[p] = LiveTo(s, prompt, Len(prompt))
                    /\ p \in s.owners => lg[p] = prompt

RanksHold ==
  \A r \in Ranks : RankHolds(setup, prompt_tokens, setup.ranks[r], req[r], live, logits)

RequestIInv == RequestTypes /\ StoresHold /\ RanksHold

-----------------------------------------------------------------------------
(* What the types give. *)

LEMMA SetupFacts ==
  ASSUME RequestTypes
  PROVE  /\ setup.ranks \in Seq((SUBSET Nat) \ {{}}) /\ setup.ranks # << >>
         /\ Ranks = 1..Len(setup.ranks) /\ Len(setup.ranks) \in Nat /\ 1 \in Ranks
         /\ \A r \in Ranks : setup.ranks[r] \in SUBSET Nat /\ setup.ranks[r] # {}
         /\ \A q, r \in Ranks : q # r => setup.ranks[q] \cap setup.ranks[r] = {}
         /\ \A r \in Ranks : setup.ranks[r] \subseteq Participants
         /\ \A p \in Participants : \E r \in Ranks : p \in setup.ranks[r]
         /\ setup.owners \subseteq Participants
         /\ setup.prompts \subseteq Seq(Tokens) \ {<< >>}
         /\ prompt_tokens \in Seq(Tokens)
         /\ setup.hybrid \in BOOLEAN /\ setup.terminal \in BOOLEAN
         /\ setup.mtp \in BOOLEAN /\ setup.ioFails \in BOOLEAN
<1>1. setup \in Setups /\ prompt_tokens \in {<< >>} \cup setup.prompts
  BY DEF RequestTypes
<1>2. /\ setup.ranks \in Seq((SUBSET Nat) \ {{}}) /\ setup.ranks # << >>
      /\ \A q, r \in DOMAIN setup.ranks : q # r => setup.ranks[q] \cap setup.ranks[r] = {}
      /\ setup.owners \subseteq UNION {setup.ranks[r] : r \in DOMAIN setup.ranks}
      /\ setup.prompts \subseteq Seq(Tokens) \ {<< >>}
      /\ setup.hybrid \in BOOLEAN /\ setup.terminal \in BOOLEAN
      /\ setup.mtp \in BOOLEAN /\ setup.ioFails \in BOOLEAN
  BY <1>1, Assumed
<1>3. /\ Ranks = 1..Len(setup.ranks) /\ Len(setup.ranks) \in Nat /\ 1 \in Ranks
      /\ \A r \in Ranks : setup.ranks[r] \in (SUBSET Nat) \ {{}}
  <2>1. Len(setup.ranks) \in Nat /\ DOMAIN setup.ranks = 1..Len(setup.ranks)
        /\ setup.ranks \in [1..Len(setup.ranks) -> (SUBSET Nat) \ {{}}]
    BY <1>2, LenProperties
  <2>2. Len(setup.ranks) # 0
    BY <1>2
  <2> QED
    BY <2>1, <2>2 DEF Ranks
<1>4. prompt_tokens \in Seq(Tokens)
  <2>1. << >> \in Seq(Tokens)
    OBVIOUS
  <2> QED
    BY ONLY <1>1, <1>2, <2>1
<1>5. /\ \A r \in Ranks : setup.ranks[r] \subseteq Participants
      /\ \A p \in Participants : \E r \in Ranks : p \in setup.ranks[r]
      /\ setup.owners \subseteq Participants
  BY <1>2 DEF Participants, Ranks
<1>6. \A q, r \in Ranks : q # r => setup.ranks[q] \cap setup.ranks[r] = {}
  BY <1>2 DEF Ranks
<1> QED
  BY <1>2, <1>3, <1>4, <1>5, <1>6

LEMMA NoneIsNothing ==
  /\ None \notin Seq(Tokens)
  /\ None \notin Tails
BY RequestAssumption DEF Tails

(* The key of a block of a prompt. *)
LEMMA KeyFacts ==
  ASSUME NEW prompt \in Seq(Tokens), NEW j \in Blocks(prompt)
  PROVE  /\ Key(prompt, j) \in Seq(Tokens) /\ Len(Key(prompt, j)) = End(prompt, j)
         /\ ((Len(Key(prompt, j)) - 1) \div BlockSize) * BlockSize = (j - 1) * BlockSize
         /\ \A s \in Setups : prompt \in s.prompts => Key(prompt, j) \in Keys
<1>1. j \in {0} \cup Blocks(prompt) /\ j # 0 /\ j \in Nat /\ BlockSize \in Nat
  BY Assumed DEF Blocks
<1>2. /\ End(prompt, j) \in 0..Len(prompt) /\ (j - 1) * BlockSize \in Nat
      /\ (j - 1) * BlockSize < End(prompt, j)
      /\ End(prompt, j) <= (j - 1) * BlockSize + BlockSize
  BY <1>1, Ends
<1>3. Key(prompt, j) \in Seq(Tokens) /\ Len(Key(prompt, j)) = End(prompt, j)
  BY <1>2, Prefix DEF Key
<1>4. (End(prompt, j) - 1) \div BlockSize = j - 1
  <2>1. End(prompt, j) - 1 \in Int /\ j - 1 \in Int
        /\ (j - 1) * BlockSize <= End(prompt, j) - 1
        /\ End(prompt, j) - 1 < (j - 1) * BlockSize + BlockSize
    BY <1>1, <1>2
  <2> HIDE DEF End
  <2> QED
    BY <2>1, DivisionIs
<1>5. \A s \in Setups : prompt \in s.prompts => Key(prompt, j) \in Keys
  BY DEF Keys
<1> QED
  BY <1>3, <1>4, <1>5

(* A faithful block of a prompt, row by row. *)
LEMMA FaithfulRows ==
  ASSUME NEW prompt \in Seq(Tokens), NEW j \in Blocks(prompt), NEW block,
         Faithful(Key(prompt, j), block)
  PROVE  /\ block.rows = SubSeq(RowsTo(prompt, End(prompt, j)), (j - 1) * BlockSize + 1,
                                End(prompt, j))
         /\ \A i \in 1..(End(prompt, j) - (j - 1) * BlockSize) :
              block.rows[i] = SubSeq(prompt, 1, (j - 1) * BlockSize + i)
<1>1. j \in {0} \cup Blocks(prompt) /\ j # 0 /\ j \in Nat /\ BlockSize \in Nat
  BY Assumed DEF Blocks
<1>2. /\ End(prompt, j) \in 0..Len(prompt) /\ (j - 1) * BlockSize \in Nat
      /\ (j - 1) * BlockSize < End(prompt, j)
  BY <1>1, Ends
<1>3. Rows(Key(prompt, j)) = RowsTo(prompt, End(prompt, j))
  BY <1>2, RowsOfPrefix DEF Key
<1>4. block.rows = SubSeq(RowsTo(prompt, End(prompt, j)), (j - 1) * BlockSize + 1,
                          End(prompt, j))
  BY <1>3, KeyFacts DEF Faithful
<1>5. (j - 1) * BlockSize \in 0..End(prompt, j) /\ End(prompt, j) \in (j - 1) * BlockSize..End(prompt, j)
      /\ Len(prompt) \in Nat
  BY <1>2, LenProperties
<1> DEFINE a == (j - 1) * BlockSize
           e == End(prompt, j)
<1>6. e \in 0..Len(prompt) /\ a \in 0..e /\ e \in a..e
  BY <1>2, <1>5
<1>7. block.rows = SubSeq(RowsTo(prompt, e), a + 1, e)
  BY <1>4
<1>8. \A i \in 1..(e - a) : block.rows[i] = SubSeq(prompt, 1, a + i)
  <2>1. prompt \in Seq(Tokens)
    OBVIOUS
  <2> HIDE DEF a, e
  <2>2. \A i \in 1..(e - a) : SubSeq(RowsTo(prompt, e), a + 1, e)[i] = SubSeq(prompt, 1, a + i)
    BY ONLY <1>6, <2>1, RowsOfBlock
  <2> QED
    BY ONLY <1>7, <2>2
<1> QED
  BY <1>7, <1>8

-----------------------------------------------------------------------------
(* Hits. *)

LEMMA FirstBlocks ==
  ASSUME NEW blocks \in Seq(BlockSet), NEW k \in 0..Len(blocks)
  PROVE  /\ SubSeq(blocks, 1, k) \in Seq(BlockSet) /\ Len(SubSeq(blocks, 1, k)) = k
         /\ \A i \in 1..k : SubSeq(blocks, 1, k)[i] = blocks[i]
<1>1. Len(blocks) \in Nat
  BY LenProperties
<1>2. /\ SubSeq(blocks, 1, k) \in Seq(BlockSet) /\ Len(SubSeq(blocks, 1, k)) = k - 1 + 1
      /\ \A i \in 1..(k - 1 + 1) : SubSeq(blocks, 1, k)[i] = blocks[1 + i - 1]
  BY <1>1, Slice
<1>3. k - 1 + 1 = k /\ \A i \in 1..k : 1 + i - 1 = i
  BY <1>1
<1> QED
  BY <1>2, <1>3

(* Trailing blocks without the recurrent state are dropped, and no other. *)
LEMMA RestorablePrefix ==
  ASSUME RequestTypes, NEW blocks \in Seq(BlockSet)
  PROVE  \E k \in 0..Len(blocks) :
           /\ Restorable(blocks) = SubSeq(blocks, 1, k)
           /\ k # 0 /\ setup.hybrid => HasState(blocks[k])
           /\ setup.hybrid => \A i \in 1..Len(blocks) : HasState(blocks[i]) => i <= k
           /\ ~setup.hybrid => k = Len(blocks)
<1>1. Len(blocks) \in Nat /\ DOMAIN blocks = 1..Len(blocks)
  BY LenProperties
<1>2. CASE ~setup.hybrid
  <2>1. Restorable(blocks) = SubSeq(blocks, 1, Len(blocks))
    BY <1>2, SubSeqFull DEF Restorable
  <2>2. Len(blocks) \in 0..Len(blocks)
    BY <1>1
  <2> QED
    BY <1>2, <2>1, <2>2, Zenon
<1>3. CASE setup.hybrid
  <2> DEFINE T == {0} \cup {i \in DOMAIN blocks : HasState(blocks[i])}
  <2>1. T \in SUBSET (0..Len(blocks)) /\ T # {}
    BY <1>1
  <2>2. Restorable(blocks) = SubSeq(blocks, 1, Largest(T))
    BY <1>3 DEF Restorable
  <2>3. Largest(T) \in T /\ \A i \in T : i <= Largest(T)
    <3> HIDE DEF T
    <3> QED
      BY <1>1, <2>1, LargestIn
  <2>4. Largest(T) \in 0..Len(blocks)
    BY <2>1, <2>3
  <2>5. Largest(T) # 0 => HasState(blocks[Largest(T)])
    BY <2>3
  <2>6. \A i \in 1..Len(blocks) : HasState(blocks[i]) => i <= Largest(T)
    BY <1>1, <2>3
  <2> DEFINE k == Largest(T)
  <2>7. /\ k \in 0..Len(blocks) /\ Restorable(blocks) = SubSeq(blocks, 1, k)
        /\ k # 0 => HasState(blocks[k])
        /\ \A i \in 1..Len(blocks) : HasState(blocks[i]) => i <= k
    BY <2>2, <2>4, <2>5, <2>6
  <2> HIDE DEF k
  <2> QED
    BY <1>3, <2>7
<1> QED
  BY <1>2, <1>3

LEMMA RestorableWhole ==
  ASSUME RequestTypes, NEW blocks \in Seq(BlockSet),
         Len(blocks) # 0 /\ setup.hybrid => HasState(blocks[Len(blocks)])
  PROVE  Restorable(blocks) = blocks
<1>1. PICK k \in 0..Len(blocks) :
           /\ Restorable(blocks) = SubSeq(blocks, 1, k)
           /\ setup.hybrid => \A i \in 1..Len(blocks) : HasState(blocks[i]) => i <= k
           /\ ~setup.hybrid => k = Len(blocks)
  BY RestorablePrefix
<1>2. Len(blocks) \in Nat
  BY LenProperties
<1>3. k = Len(blocks)
  BY <1>1, <1>2, SetupFacts
<1> QED
  BY <1>1, <1>3, SubSeqFull

(* Cutting a hit off at a boundary that it reaches. *)
LEMMA Clamped ==
  ASSUME RequestTypes, NEW hit \in Hits, Bounded(prompt_tokens, hit),
         NEW j \in {0} \cup Blocks(prompt_tokens), Reaches(setup, hit, j)
  PROVE  ClampedTo(prompt_tokens, hit, End(prompt_tokens, j)) =
           [cached |-> End(prompt_tokens, j), blocks |-> SubSeq(hit.blocks, 1, j),
            logits |-> j # 0 /\ j = Len(hit.blocks) /\ hit.logits]
<1> DEFINE P == prompt_tokens
           l == Len(hit.blocks)
           e == End(P, j)
<1>1. P \in Seq(Tokens) /\ hit.blocks \in Seq(BlockSet) /\ l \in Nat /\ hit.logits \in BOOLEAN
      /\ DOMAIN hit.blocks = 1..l
  BY SetupFacts, LenProperties DEF Hits
<1>2. l \in {0} \cup Blocks(P) /\ hit.cached = End(P, l) /\ j \in Nat
  BY <1>1, Ends DEF Bounded
<1>3. j # 0 => j <= l
  BY DEF Reaches
<1>4. j <= l
  BY <1>1, <1>2, <1>3
<1>5. e \in Nat /\ End(P, l) \in Nat /\ e <= End(P, l) /\ (e = 0 <=> j = 0)
  <2>1. P \in Seq(Tokens) /\ l \in {0} \cup Blocks(P) /\ j \in {0} \cup Blocks(P)
        /\ 0 \in {0} \cup Blocks(P)
    BY <1>1, <1>2
  <2> HIDE DEF P, l
  <2>2. End(P, j) \in 0..Len(P) /\ End(P, l) \in 0..Len(P) /\ End(P, 0) = 0
    BY ONLY <2>1, Ends
  <2>3. End(P, j) <= End(P, l) /\ (End(P, j) = End(P, 0) <=> j = 0)
    BY ONLY <1>4, <2>1, EndsOrdered
  <2> QED
    BY <2>1, <2>2, <2>3, LenProperties
<1>6. AtMost(hit.cached, e) = e
  <2> HIDE DEF e, l
  <2> QED
    BY <1>2, <1>5 DEF AtMost
<1>7. CASE j = 0
  <2>1. ClampedTo(P, hit, e) = NoHit
    BY <1>5, <1>6, <1>7 DEF ClampedTo
  <2>2. SubSeq(hit.blocks, 1, j) = << >>
    BY <1>7, SubSeqEmpty
  <2> QED
    BY <1>5, <1>7, <2>1, <2>2 DEF NoHit
<1>8. CASE j # 0
  <2> DEFINE T == {0} \cup {i \in DOMAIN hit.blocks : End(P, i) <= e}
             whole == SubSeq(hit.blocks, 1, j)
  <2>1. Largest(T) = j
    <3>1. \A i \in 1..l : i \in {0} \cup Blocks(P)
      BY <1>1, <1>2, Ends
    <3>2. \A i \in 1..l : End(P, i) <= e <=> i <= j
      BY <1>1, <3>1, EndsOrdered
    <3>3. T \in SUBSET Nat /\ j \in T /\ \A i \in T : i <= j
      BY <1>1, <1>2, <1>4, <1>8, <3>2
    <3> HIDE DEF T
    <3> QED
      BY <3>3, LargestIs
  <2>2. /\ whole \in Seq(BlockSet) /\ Len(whole) = j /\ whole[j] = hit.blocks[j]
    BY <1>1, <1>2, <1>4, <1>8, FirstBlocks
  <2>3. Restorable(whole) = whole
    <3>1. setup.hybrid => HasState(whole[j])
      BY <1>8, <2>2 DEF Reaches
    <3> HIDE DEF whole
    <3> QED
      BY <2>2, <3>1, RestorableWhole
  <2>4. hit.blocks # << >> /\ whole # << >>
    BY <1>1, <1>2, <1>4, <1>8, <2>2
  <2>5. ClampedTo(P, hit, e) =
          [cached |-> End(P, Len(whole)), blocks |-> whole,
           logits |-> whole # << >> /\ End(P, Len(whole)) = hit.cached /\ hit.logits]
    <3> HIDE DEF whole, e
    <3>1. SubSeq(hit.blocks, 1, Largest(T)) = whole
      BY <2>1 DEF whole
    <3> HIDE DEF T
    <3> USE DEF T
    <3> QED
      BY <1>5, <1>6, <1>8, <2>3, <2>4, <3>1 DEF ClampedTo
  <2>6. End(P, Len(whole)) = e /\ (e = hit.cached <=> j = l)
    BY <1>1, <1>2, <2>2, EndsOrdered
  <2>7. (whole # << >> /\ End(P, Len(whole)) = hit.cached /\ hit.logits)
          <=> (j # 0 /\ j = Len(hit.blocks) /\ hit.logits)
    BY <1>8, <2>4, <2>6
  <2> QED
    BY <2>5, <2>6, <2>7
<1> QED
  BY <1>7, <1>8

LEMMA NothingFound ==
  ASSUME NEW s, NEW prompt \in Seq(Tokens), NEW p
  PROVE  NoHit \in Hits /\ HitHolds(s, prompt, p, NoHit)
<1>1. << >> \in Seq(BlockSet) /\ Len(<< >>) = 0
  OBVIOUS
<1>2. NoHit.cached = 0 /\ NoHit.blocks = << >> /\ NoHit.logits = FALSE
  BY DEF NoHit
<1>3. NoHit \in Hits
  BY <1>1 DEF NoHit, Hits
<1>4. End(prompt, 0) = 0
  BY Ends
<1>5. Bounded(prompt, NoHit)
  BY <1>1, <1>2, <1>4 DEF Bounded
<1> QED
  BY <1>1, <1>2, <1>3, <1>5 DEF HitHolds, Reaches

(* What one participant finds. *)
LEMMA FoundHit ==
  ASSUME RequestTypes, StoresHold, prompt_tokens \in setup.prompts,
         NEW p \in Participants, NEW n \in {0} \cup Blocks(prompt_tokens),
         \A i \in 1..n : store[p][Key(prompt_tokens, i)] # None
  PROVE  LET hit == HitOf(prompt_tokens, [i \in 1..n |-> store[p][Key(prompt_tokens, i)]])
         IN hit \in Hits /\ HitHolds(setup, prompt_tokens, p, hit)
<1> DEFINE P == prompt_tokens
           found == [i \in 1..n |-> store[p][Key(P, i)]]
           hit == HitOf(P, found)
<1>1. P \in Seq(Tokens) /\ n \in Nat
  BY SetupFacts, Ends
<1>2. ASSUME NEW i \in 1..n
      PROVE  /\ i \in Blocks(P) /\ Key(P, i) \in Keys /\ store[p][Key(P, i)] \in BlockSet
             /\ Holds(setup, p, Key(P, i), store[p][Key(P, i)])
  <2>1. i \in {0} \cup Blocks(P) /\ i # 0
    BY <1>1, Ends
  <2>2. i \in Blocks(P) /\ setup \in Setups
    BY <2>1 DEF RequestTypes
  <2>3. Key(P, i) \in Keys
    BY <1>1, <2>2, KeyFacts
  <2>4. store[p][Key(P, i)] \in BlockSet \cup {None}
    BY <2>3 DEF RequestTypes
  <2> QED
    BY <2>2, <2>3, <2>4 DEF StoresHold
<1>3. found \in Seq(BlockSet) /\ Len(found) = n /\ \A i \in 1..n : found[i] = store[p][Key(P, i)]
  <2>1. found \in [1..n -> BlockSet]
    BY <1>2
  <2> QED
    BY <1>1, <2>1
<1>4. \A i \in 1..n : i \in Blocks(P) /\ Holds(setup, p, Key(P, i), found[i])
  BY <1>2, <1>3
<1> HIDE DEF found
<1>5. PICK k \in 0..n :
           /\ Restorable(found) = SubSeq(found, 1, k)
           /\ k # 0 /\ setup.hybrid => HasState(found[k])
  BY <1>3, RestorablePrefix
<1> DEFINE kept == SubSeq(found, 1, k)
<1>6. kept \in Seq(BlockSet) /\ Len(kept) = k /\ \A i \in 1..k : kept[i] = found[i]
  BY <1>3, <1>5, FirstBlocks
<1>7. Restorable(found) = kept
  BY <1>5
<1> HIDE DEF kept
<1>8. hit = IF k = 0 THEN NoHit
            ELSE [cached |-> End(P, k), blocks |-> kept, logits |-> HasLogits(kept[k])]
  BY <1>6, <1>7 DEF HitOf
<1>9. hit \in Hits /\ HitHolds(setup, P, p, hit)
  <2>1. CASE k = 0
    <3>1. hit = NoHit
      BY <1>8, <2>1
    <3> HIDE DEF hit
    <3> QED
      BY <1>1, <3>1, NothingFound
  <2>2. CASE k # 0
    <3>1. hit = [cached |-> End(P, k), blocks |-> kept, logits |-> HasLogits(kept[k])]
      BY <1>8, <2>2
    <3>2. k \in Nat /\ k \in {0} \cup Blocks(P) /\ End(P, k) \in Nat /\ k \in 1..n
      BY <1>1, <1>4, <1>5, <2>2, Ends
    <3>3. HasLogits(kept[k]) \in BOOLEAN
      BY DEF HasLogits
    <3> HIDE DEF hit
    <3>4. /\ hit \in Hits /\ hit.cached = End(P, k) /\ hit.blocks = kept
          /\ hit.logits <=> HasLogits(kept[k])
      BY <3>1, <3>2, <3>3, <1>6 DEF Hits
    <3>5. Bounded(P, hit)
      BY <3>2, <3>4, <1>6 DEF Bounded
    <3>6. Reaches(setup, hit, Len(hit.blocks))
      BY <1>5, <1>6, <3>2, <3>4 DEF Reaches
    <3>7. \A j \in 1..Len(hit.blocks) : Holds(setup, p, Key(P, j), hit.blocks[j])
      BY <1>1, <1>4, <1>5, <1>6, <3>2, <3>4
    <3>8. hit.blocks # << >>
      BY <1>6, <2>2, <3>4
    <3> QED
      BY <3>4, <3>5, <3>6, <3>7, <3>8, <1>6 DEF HitHolds
  <2> QED
    BY <2>1, <2>2
<1> HIDE DEF hit
<1> QED
  BY <1>9 DEF hit, found

(* Reducing over hits: the boundary of the shortest. *)
LEMMA CoordinatedHit ==
  ASSUME RequestTypes, NEW I \in SUBSET Nat, I # {}, NEW hits \in [I -> Hits],
         \A p \in I : Bounded(prompt_tokens, hits[p]), NEW needing \in SUBSET I
  PROVE  \E m \in {0} \cup Blocks(prompt_tokens) :
           /\ \E q \in I : m = Len(hits[q].blocks)
           /\ \A p \in I : m <= Len(hits[p].blocks)
           /\ Coordinated(prompt_tokens, hits, needing) =
                [cached |-> End(prompt_tokens, m),
                 logits |-> m # 0 /\ needing # {} /\ \A p \in needing : hits[p].logits]
<1> DEFINE P == prompt_tokens
           nblocks(h) == IF h.blocks = << >> THEN h.cached \div BlockSize ELSE Len(h.blocks)
           C == {hits[p].cached : p \in DOMAIN hits}
           L == {Len(hits[p].blocks) : p \in I}
           N == {nblocks(hits[p]) : p \in DOMAIN hits}
<1>1. P \in Seq(Tokens) /\ DOMAIN hits = I
  BY SetupFacts
<1>2. ASSUME NEW p \in I
      PROVE  /\ Len(hits[p].blocks) \in {0} \cup Blocks(P) /\ Len(hits[p].blocks) \in Nat
             /\ hits[p].cached = End(P, Len(hits[p].blocks)) /\ hits[p].cached \in Nat
             /\ hits[p].blocks = << >> => hits[p].cached = 0
             /\ hits[p].blocks \in Seq(BlockSet)
  <2>1. hits[p] \in Hits /\ Bounded(P, hits[p])
    OBVIOUS
  <2>2. hits[p].blocks \in Seq(BlockSet) /\ hits[p].cached \in Nat
    BY <2>1 DEF Hits
  <2>3. /\ Len(hits[p].blocks) \in {0} \cup Blocks(P)
        /\ hits[p].cached = End(P, Len(hits[p].blocks))
    BY <2>1 DEF Bounded
  <2>4. hits[p].blocks = << >> => Len(hits[p].blocks) = 0
    BY <2>2
  <2> QED
    BY <1>1, <2>2, <2>3, <2>4, Ends
<1>3. L \in SUBSET Nat /\ L # {}
  BY <1>2
<1>4. PICK m \in L : \A l \in L : m <= l
  <2> HIDE DEF L
  <2> QED
    BY <1>3, SomeLeast
<1>5. PICK q \in I : m = Len(hits[q].blocks)
  BY <1>4
<1>6. \A p \in I : m <= Len(hits[p].blocks)
  BY <1>4
<1>7. m \in {0} \cup Blocks(P) /\ m \in Nat /\ m * BlockSize \in Nat
      /\ End(P, m) \in Nat /\ End(P, m) <= m * BlockSize /\ (End(P, m) = 0 <=> m = 0)
  <2>1. m \in {0} \cup Blocks(P)
    BY <1>2, <1>5
  <2> QED
    BY <1>1, <2>1, Ends, EndsOrdered
<1>8. \A p \in I : End(P, m) <= hits[p].cached
  BY <1>1, <1>2, <1>6, <1>7, EndsOrdered
<1>9. Least(C) = End(P, m)
  <2>1. C \in SUBSET Nat /\ End(P, m) \in C /\ \A c \in C : End(P, m) <= c
    BY <1>1, <1>2, <1>5, <1>8
  <2> HIDE DEF C
  <2> QED
    BY <2>1, LeastIs
<1>10. \A p \in I : nblocks(hits[p]) = Len(hits[p].blocks)
  <2>1. 0 \div BlockSize = 0
    BY Assumed, DivisionIs
  <2>2. ASSUME NEW p \in I PROVE nblocks(hits[p]) = Len(hits[p].blocks)
    <3>1. CASE hits[p].blocks = << >>
      <4>1. hits[p].cached = 0 /\ Len(hits[p].blocks) = 0
        BY <1>2, <3>1
      <4> QED
        BY <2>1, <3>1, <4>1
    <3>2. CASE hits[p].blocks # << >>
      BY <3>2
    <3> QED
      BY <3>1, <3>2
  <2> QED
    BY <2>2
<1>11. Least(N) = m
  <2>1. N = L
    <3> HIDE DEF nblocks
    <3> QED
      BY <1>1, <1>10
  <2>2. Least(L) = m
    <3> HIDE DEF L
    <3> QED
      BY <1>3, <1>4, LeastIs
  <2> QED
    BY <2>1, <2>2
<1> DEFINE common == AtMost(Least(C), Least(N) * BlockSize)
           required == {p \in needing : hits[p].cached > 0}
<1>12. Coordinated(P, hits, needing) =
         [cached |-> common,
          logits |-> /\ common > 0 /\ common = Least(C)
                     /\ required # {}
                     /\ \A p \in required : hits[p].logits]
  BY DEF Coordinated
<1>13. common = End(P, m)
  BY <1>7, <1>9, <1>11 DEF AtMost
<1>14. (common > 0 <=> m # 0) /\ common = Least(C)
  BY <1>7, <1>9, <1>13
<1>15. ASSUME m # 0 PROVE required = needing
  <2>1. \A p \in needing : hits[p].cached > 0
    BY <1>2, <1>7, <1>8, <1>15
  <2> QED
    BY <2>1
<1> HIDE DEF common, required, C, N
<1>16. (/\ common > 0 /\ common = Least(C)
        /\ required # {} /\ \A p \in required : hits[p].logits)
       <=> (m # 0 /\ needing # {} /\ \A p \in needing : hits[p].logits)
  BY <1>14, <1>15
<1>17. Coordinated(P, hits, needing) =
         [cached |-> End(P, m),
          logits |-> m # 0 /\ needing # {} /\ \A p \in needing : hits[p].logits]
  BY <1>12, <1>13, <1>16
<1> QED
  BY <1>5, <1>6, <1>7, <1>17

(* What RankOrchestrator::lookupPrefix() makes of its children's hits. *)
LEMMA AggregateHit ==
  ASSUME RequestTypes, NEW r \in Ranks, NEW hits \in [setup.ranks[r] -> Hits],
         \A p \in setup.ranks[r] : HitHolds(setup, prompt_tokens, p, hits[p]),
         setup.hybrid => \E p : setup.ranks[r] = {p}
  PROVE  LET S == setup.ranks[r]
             local == Aggregate(prompt_tokens, hits, setup.owners \cap S)
             restoring == RestoringIn(setup) \cap S
         IN \E m \in {0} \cup Blocks(prompt_tokens) :
              /\ local \in Hits /\ Len(local.blocks) = m /\ local.cached = End(prompt_tokens, m)
              /\ Reaches(setup, local, m)
              /\ \A p \in S : Reaches(setup, hits[p], m)
              /\ \E q \in S : m = Len(hits[q].blocks)
              /\ local.logits <=> m # 0 /\ restoring # {} /\ \A p \in restoring : hits[p].logits
<1> DEFINE P == prompt_tokens
           S == setup.ranks[r]
           restoring == RestoringIn(setup) \cap S
           common == Coordinated(P, hits, restoring)
           reach == {p \in S : hits[p].cached >= common.cached /\ hits[p].blocks # << >>}
           local == Aggregate(P, hits, setup.owners \cap S)
<1>1. P \in Seq(Tokens) /\ S \in SUBSET Nat /\ S # {} /\ DOMAIN hits = S
  BY SetupFacts
<1>2. (IF setup.terminal THEN setup.owners \cap S ELSE {}) = restoring
  BY DEF RestoringIn
<1>3. local = [cached |-> common.cached, logits |-> common.logits,
               blocks |-> IF common.cached = 0 \/ reach = {} THEN << >>
                          ELSE ClampedTo(P, hits[Least(reach)], common.cached).blocks]
  <2> HIDE DEF restoring
  <2> QED
    BY <1>1, <1>2 DEF Aggregate
<1>4. \A p \in S : hits[p] \in Hits /\ Bounded(P, hits[p])
                   /\ Reaches(setup, hits[p], Len(hits[p].blocks))
  BY DEF HitHolds
<1>5. restoring \in SUBSET S
  OBVIOUS
<1> HIDE DEF restoring
<1>6. PICK m \in {0} \cup Blocks(P) :
        /\ \E q \in S : m = Len(hits[q].blocks)
        /\ \A p \in S : m <= Len(hits[p].blocks)
        /\ common = [cached |-> End(P, m),
                     logits |-> m # 0 /\ restoring # {} /\ \A p \in restoring : hits[p].logits]
  BY <1>1, <1>4, <1>5, CoordinatedHit
<1>7. m \in Nat /\ End(P, m) \in Nat /\ (End(P, m) = 0 <=> m = 0)
  BY <1>1, Ends, EndsOrdered
<1>8. common.cached = End(P, m) /\ common.logits \in BOOLEAN
      /\ (common.logits <=> m # 0 /\ restoring # {} /\ \A p \in restoring : hits[p].logits)
  <2> DEFINE l == m # 0 /\ restoring # {} /\ \A p \in restoring : hits[p].logits
  <2>1. common = [cached |-> End(P, m), logits |-> l] /\ l \in BOOLEAN
    BY <1>6
  <2> HIDE DEF l, common
  <2>2. common.cached = End(P, m) /\ common.logits = l
    BY <2>1
  <2> QED
    BY <2>1, <2>2 DEF l
<1>9. \A p \in S : Reaches(setup, hits[p], m)
  <2>1. CASE setup.hybrid
    <3>1. PICK p : S = {p}
      BY <2>1
    <3>2. m = Len(hits[p].blocks)
      BY <1>6, <3>1
    <3> QED
      BY <1>4, <3>1, <3>2
  <2>2. CASE ~setup.hybrid
    BY <1>6, <2>2 DEF Reaches
  <2> QED
    BY <2>1, <2>2
<1> HIDE DEF common
<1>10. CASE m = 0
  <2>1. local = [cached |-> 0, logits |-> common.logits, blocks |-> << >>]
    <3> HIDE DEF reach, local
    <3> QED
      BY <1>3, <1>7, <1>8, <1>10
  <2>2. << >> \in Seq(BlockSet) /\ Len(<< >>) = 0
    OBVIOUS
  <2> HIDE DEF local, reach
  <2>3. local \in Hits /\ Len(local.blocks) = m /\ local.cached = End(P, m)
        /\ local.logits = common.logits
    BY <1>7, <1>8, <1>10, <2>1, <2>2 DEF Hits
  <2>4. Reaches(setup, local, m)
    BY <1>10 DEF Reaches
  <2> QED
    BY <1>6, <1>8, <1>9, <2>3, <2>4 DEF local, restoring
<1>11. CASE m # 0
  <2>1. reach = S
    <3>1. ASSUME NEW p \in S PROVE hits[p].cached >= End(P, m) /\ hits[p].blocks # << >>
      <4>1. /\ Len(hits[p].blocks) \in {0} \cup Blocks(P) /\ hits[p].cached = End(P, Len(hits[p].blocks))
            /\ hits[p].blocks \in Seq(BlockSet) /\ m <= Len(hits[p].blocks)
        BY <1>4, <1>6 DEF Bounded, Hits
      <4>2. End(P, m) <= hits[p].cached /\ hits[p].cached \in Nat
        BY <1>1, <4>1, EndsOrdered, Ends
      <4>3. Len(hits[p].blocks) # 0
        BY <1>7, <1>11, <4>1, LenProperties
      <4> QED
        BY <1>7, <4>2, <4>3
    <3> QED
      BY <1>8, <3>1
  <2> HIDE DEF reach
  <2>2. Least(reach) \in S
    BY <1>1, <2>1, LeastIn
  <2> DEFINE h == hits[Least(reach)]
  <2>3. /\ h \in Hits /\ Bounded(P, h) /\ Reaches(setup, h, m)
        /\ h.blocks \in Seq(BlockSet) /\ m \in 0..Len(h.blocks)
    <3>1. h \in Hits /\ Bounded(P, h) /\ Reaches(setup, h, m) /\ m <= Len(h.blocks)
      BY <1>4, <1>6, <1>9, <2>2
    <3>2. h.blocks \in Seq(BlockSet)
      BY <3>1 DEF Hits
    <3> QED
      BY <1>7, <3>1, <3>2, LenProperties
  <2> HIDE DEF h
  <2>4. ClampedTo(P, h, common.cached).blocks = SubSeq(h.blocks, 1, m)
    BY <1>8, <2>3, Clamped
  <2>5. local = [cached |-> common.cached, logits |-> common.logits,
                 blocks |-> SubSeq(h.blocks, 1, m)]
    <3>1. common.cached # 0 /\ reach # {}
      BY <1>1, <1>7, <1>8, <1>11, <2>1
    <3> HIDE DEF local
    <3>2. local = [cached |-> common.cached, logits |-> common.logits,
                   blocks |-> ClampedTo(P, h, common.cached).blocks]
      BY <1>3, <3>1 DEF h
    <3> QED
      BY <3>2, <2>4
  <2>6. /\ SubSeq(h.blocks, 1, m) \in Seq(BlockSet) /\ Len(SubSeq(h.blocks, 1, m)) = m
        /\ SubSeq(h.blocks, 1, m)[m] = h.blocks[m]
    BY <1>7, <1>11, <2>3, FirstBlocks
  <2> HIDE DEF local
  <2>7. local \in Hits /\ Len(local.blocks) = m /\ local.cached = End(P, m)
        /\ local.logits = common.logits /\ local.blocks[m] = h.blocks[m]
    BY <1>7, <1>8, <2>5, <2>6 DEF Hits
  <2>8. Reaches(setup, local, m)
    BY <1>7, <1>11, <2>3, <2>7 DEF Reaches
  <2> QED
    BY <1>6, <1>8, <1>9, <2>7, <2>8 DEF local, restoring
<1> QED
  BY <1>10, <1>11

-----------------------------------------------------------------------------
(* Execution state. *)

(* Importing faithful blocks gives the rows and the state they end with. *)
LEMMA ImportedHit ==
  ASSUME RequestTypes, NEW hit \in Hits, NEW j \in Blocks(prompt_tokens),
         Len(hit.blocks) = j, hit.cached = End(prompt_tokens, j),
         \A i \in 1..j : Faithful(Key(prompt_tokens, i), hit.blocks[i]),
         setup.hybrid => HasState(hit.blocks[j])
  PROVE  Imported(hit) = LiveTo(setup, prompt_tokens, End(prompt_tokens, j))
<1> DEFINE P == prompt_tokens
<1>1. P \in Seq(Tokens) /\ j \in Nat /\ j # 0 /\ BlockSize \in Nat
      /\ j \in {0} \cup Blocks(P) /\ End(P, j) \in 0..Len(P) /\ End(P, j) \in Nat
  BY SetupFacts, Assumed, Ends DEF Blocks
<1>2. ASSUME NEW i \in 1..End(P, j)
      PROVE  hit.blocks[((i - 1) \div BlockSize) + 1].rows[((i - 1) % BlockSize) + 1]
               = SubSeq(P, 1, i)
  <2>1. PICK q \in 1..j :
           /\ ((i - 1) \div BlockSize) + 1 = q
           /\ ((i - 1) % BlockSize) + 1 = i - (q - 1) * BlockSize
           /\ (q - 1) * BlockSize < i /\ i <= End(P, q)
    BY <1>1, RowBlock
  <2>2. q \in {0} \cup Blocks(P) /\ q # 0 /\ q \in Blocks(P)
    <3> HIDE DEF P
    <3>1. 0..j \subseteq {0} \cup Blocks(P)
      BY <1>1, Ends
    <3>2. q \in 0..j /\ q # 0
      BY <1>1
    <3> QED
      BY ONLY <3>1, <3>2
  <2>3. (q - 1) * BlockSize \in Nat /\ End(P, q) \in Nat
    BY <1>1, <2>2, Ends
  <2> DEFINE a == (q - 1) * BlockSize
             x == i - a
  <2>4. x \in 1..(End(P, q) - a) /\ a + x = i
    <3>1. a \in Nat /\ a < i /\ i <= End(P, q) /\ End(P, q) \in Nat /\ i \in Nat
      BY <1>1, <2>1, <2>3
    <3> HIDE DEF a
    <3> QED
      BY <3>1
  <2>5. \A y \in 1..(End(P, q) - a) : hit.blocks[q].rows[y] = SubSeq(P, 1, a + y)
    BY <1>1, <2>1, <2>2, FaithfulRows
  <2> HIDE DEF a
  <2>6. hit.blocks[q].rows[x] = SubSeq(P, 1, i)
    BY ONLY <2>4, <2>5
  <2> QED
    BY <2>1, <2>6 DEF a
<1>3. ImportedRows(hit) = RowsTo(P, End(P, j))
  BY <1>2 DEF ImportedRows, RowsTo
<1>4. setup.hybrid => hit.blocks[j].tail.state = SubSeq(P, 1, End(P, j))
  BY <1>1 DEF Faithful, Key
<1>5. hit.cached > 0
  BY <1>1, Ends, EndsOrdered
<1> QED
  BY <1>3, <1>4, <1>5 DEF Imported, LiveTo

(* Feeding the rest of the prompt completes it. *)
LEMMA FedRest ==
  ASSUME RequestTypes, NEW m \in 0..Len(prompt_tokens)
  PROVE  Fed(LiveTo(setup, prompt_tokens, m), Suffix(prompt_tokens, m)) =
           LiveTo(setup, prompt_tokens, Len(prompt_tokens))
<1> DEFINE P == prompt_tokens
           n == Len(P)
           rows == RowsTo(P, m)
           suffix == Suffix(P, m)
           context == IF rows = << >> THEN << >> ELSE rows[Len(rows)]
           new == [i \in DOMAIN suffix |-> context \o SubSeq(suffix, 1, i)]
<1>1. P \in Seq(Tokens) /\ n \in Nat /\ m \in Nat /\ m <= n /\ n - m \in Nat
  BY SetupFacts, LenProperties
<1>2. /\ rows \in Seq(Seq(Tokens)) /\ Len(rows) = m
      /\ \A i \in 1..m : rows[i] = SubSeq(P, 1, i)
  BY <1>1, RowsProperties
<1>3. /\ suffix \in Seq(Tokens) /\ Len(suffix) = n - m /\ DOMAIN suffix = 1..(n - m)
      /\ \A i \in 1..(n - m) : suffix[i] = P[m + i]
  <2>1. /\ SubSeq(P, m + 1, n) \in Seq(Tokens)
        /\ Len(SubSeq(P, m + 1, n)) = n - (m + 1) + 1
        /\ \A i \in 1..(n - (m + 1) + 1) : SubSeq(P, m + 1, n)[i] = P[m + 1 + i - 1]
    BY <1>1, Slice
  <2>2. n - (m + 1) + 1 = n - m /\ \A i \in 1..(n - m) : m + 1 + i - 1 = m + i
    BY <1>1
  <2>3. DOMAIN SubSeq(P, m + 1, n) = 1..(n - m)
    BY <2>1, <2>2, LenProperties
  <2> QED
    BY <2>1, <2>2, <2>3 DEF Suffix
<1>4. context = SubSeq(P, 1, m)
  <2>1. CASE m = 0
    <3>1. rows = << >> /\ SubSeq(P, 1, m) = << >>
      BY <1>2, <2>1, SubSeqEmpty
    <3> QED
      BY <3>1
  <2>2. CASE m # 0
    <3>1. rows # << >> /\ rows[Len(rows)] = SubSeq(P, 1, m)
      BY <1>1, <1>2, <2>2
    <3> QED
      BY <3>1
  <2> QED
    BY <2>1, <2>2
<1> HIDE DEF context, rows
<1>5. \A i \in 1..(n - m) : SubSeq(suffix, 1, i) = SubSeq(P, m + 1, m + i)
  <2> SUFFICES ASSUME NEW i \in 1..(n - m)
               PROVE  SubSeq(suffix, 1, i) = SubSeq(P, m + 1, m + i)
    OBVIOUS
  <2>1. suffix = SubSeq(P, m + 1, n)
    BY DEF Suffix
  <2>2. m + 1 \in 1..n /\ n \in 1..n /\ 1 \in 1..(n - (m + 1) + 1) /\ i \in 1..(n - (m + 1) + 1)
    BY <1>1
  <2>3. SubSeq(SubSeq(P, m + 1, n), 1, i) = SubSeq(P, m + 1 + 1 - 1, m + 1 + i - 1)
    BY ONLY <1>1, <2>2, SubSeqOfSubSeq
  <2>4. m + 1 + 1 - 1 = m + 1 /\ m + 1 + i - 1 = m + i
    BY <1>1
  <2> QED
    BY <2>1, <2>3, <2>4
<1>6. \A i \in 1..(n - m) : context \o SubSeq(suffix, 1, i) = SubSeq(P, 1, m + i)
  <2> SUFFICES ASSUME NEW i \in 1..(n - m)
               PROVE  SubSeq(P, 1, m) \o SubSeq(P, m + 1, m + i) = SubSeq(P, 1, m + i)
    BY <1>4, <1>5
  <2>1. 1 \in 1..(n + 1) /\ m \in 0..n /\ m + i \in m..n /\ 1 - 1 = 0
    BY <1>1
  <2> QED
    BY <1>1, <2>1, ConcatAdjacentSubSeq
<1> HIDE DEF suffix
<1>7. /\ new \in Seq(Seq(Tokens)) /\ Len(new) = n - m
      /\ \A i \in 1..(n - m) : new[i] = SubSeq(P, 1, m + i)
  <2>1. \A i \in 1..(n - m) : SubSeq(P, 1, m + i) \in Seq(Tokens)
    BY <1>1, Prefix
  <2>2. new = [i \in 1..(n - m) |-> SubSeq(P, 1, m + i)]
    BY <1>3, <1>6
  <2>3. new \in [1..(n - m) -> Seq(Tokens)]
    BY <2>1, <2>2
  <2> HIDE DEF new
  <2> QED
    BY <1>1, <2>2, <2>3
<1> HIDE DEF new
<1>8. rows \o new = RowsTo(P, n)
  <2>1. /\ rows \o new \in Seq(Seq(Tokens)) /\ Len(rows \o new) = m + (n - m)
        /\ \A i \in 1..(m + (n - m)) :
             (rows \o new)[i] = IF i <= m THEN rows[i] ELSE new[i - m]
    <3>1. rows \in Seq(Seq(Tokens)) /\ new \in Seq(Seq(Tokens))
      BY <1>2, <1>7
    <3>2. Len(rows) = m /\ Len(new) = n - m
      BY <1>2, <1>7
    <3> HIDE DEF rows
    <3>3. /\ rows \o new \in Seq(Seq(Tokens)) /\ Len(rows \o new) = Len(rows) + Len(new)
          /\ \A i \in 1..Len(rows) + Len(new) :
               (rows \o new)[i] = IF i <= Len(rows) THEN rows[i] ELSE new[i - Len(rows)]
      BY ONLY <3>1, ConcatProperties
    <3> QED
      BY ONLY <3>2, <3>3
  <2>2. /\ RowsTo(P, n) \in Seq(Seq(Tokens)) /\ Len(RowsTo(P, n)) = n
        /\ \A i \in 1..n : RowsTo(P, n)[i] = SubSeq(P, 1, i)
    BY <1>1, RowsProperties
  <2>3. ASSUME NEW i \in 1..n PROVE (rows \o new)[i] = SubSeq(P, 1, i)
    <3>1. CASE i <= m
      BY <1>1, <1>2, <2>1, <3>1
    <3>2. CASE ~(i <= m)
      <4>1. i - m \in 1..(n - m) /\ m + (i - m) = i
        BY <1>1, <3>2
      <4>2. new[i - m] = SubSeq(P, 1, m + (i - m))
        BY <1>7, <4>1
      <4>3. (rows \o new)[i] = new[i - m]
        BY <1>1, <2>1, <3>2
      <4> QED
        BY <4>1, <4>2, <4>3
    <3> QED
      BY <3>1, <3>2
  <2>4. m + (n - m) = n
    BY <1>1
  <2> QED
    BY <2>1, <2>2, <2>3, <2>4, SeqEqual
<1>9. SubSeq(P, 1, m) \o suffix = SubSeq(P, 1, n)
  <2>1. 1 \in 1..(n + 1) /\ m \in 0..n /\ n \in m..n /\ 1 - 1 = 0
    BY <1>1
  <2> QED
    BY <1>1, <2>1, ConcatAdjacentSubSeq DEF suffix, Suffix
<1>10. LiveTo(setup, P, m).rows = rows
       /\ (setup.hybrid => LiveTo(setup, P, m).state = SubSeq(P, 1, m))
  BY DEF LiveTo, rows
<1>11. Fed(LiveTo(setup, P, m), suffix) =
         [rows |-> rows \o new,
          state |-> IF setup.hybrid THEN SubSeq(P, 1, m) \o suffix ELSE << >>]
  BY <1>10 DEF Fed, new, context
<1> QED
  BY <1>8, <1>9, <1>11 DEF LiveTo, suffix

LEMMA LastOfPrompt ==
  ASSUME RequestTypes, prompt_tokens # << >>
  PROVE  LastRow(LiveTo(setup, prompt_tokens, Len(prompt_tokens))) = prompt_tokens
<1>1. prompt_tokens \in Seq(Tokens) /\ Len(prompt_tokens) \in Nat /\ Len(prompt_tokens) # 0
  BY SetupFacts, LenProperties
<1>2. LiveTo(setup, prompt_tokens, Len(prompt_tokens)).rows = RowsTo(prompt_tokens, Len(prompt_tokens))
  BY DEF LiveTo
<1>3. /\ Len(RowsTo(prompt_tokens, Len(prompt_tokens))) = Len(prompt_tokens)
      /\ RowsTo(prompt_tokens, Len(prompt_tokens))[Len(prompt_tokens)] =
           SubSeq(prompt_tokens, 1, Len(prompt_tokens))
  <2>1. /\ Len(prompt_tokens) \in 0..Len(prompt_tokens)
        /\ Len(prompt_tokens) \in 1..Len(prompt_tokens)
    BY <1>1
  <2> QED
    BY ONLY <1>1, <2>1, RowsProperties
<1>4. SubSeq(prompt_tokens, 1, Len(prompt_tokens)) = prompt_tokens
  BY <1>1, RowsAll
<1> QED
  BY <1>2, <1>3, <1>4 DEF LastRow

(* What is harvested from a complete prefill is what its keys say, and the *)
(* block the prompt ends in has what a full hit needs.                     *)
LEMMA ExportedBlock ==
  ASSUME RequestTypes, NEW p, NEW i \in Blocks(prompt_tokens),
         live[p] = LiveTo(setup, prompt_tokens, Len(prompt_tokens)),
         p \in setup.owners => logits[p] = prompt_tokens
  PROVE  /\ Exported(p, i) \in BlockSet
         /\ Holds(setup, p, Key(prompt_tokens, i), Exported(p, i))
<1> DEFINE P == prompt_tokens
           n == Len(P)
           e == End(P, i)
           a == (i - 1) * BlockSize
           key == Key(P, i)
           block == Exported(p, i)
           tail == [state  |-> IF setup.hybrid THEN live[p].state ELSE None,
                    logits |-> IF p \in Restoring THEN logits[p] ELSE None]
<1>1. /\ P \in Seq(Tokens) /\ n \in Nat /\ BlockSize \in Nat
      /\ i \in {0} \cup Blocks(P) /\ i # 0 /\ i \in Nat
  BY SetupFacts, LenProperties, Assumed DEF Blocks
<1>2. e \in 0..n /\ e \in Nat /\ a \in Nat /\ a < e /\ (e < n => e = i * BlockSize)
  BY <1>1, Ends
<1>3. /\ key \in Seq(Tokens) /\ Len(key) = e
      /\ ((Len(key) - 1) \div BlockSize) * BlockSize = a
      /\ key = SubSeq(P, 1, e)
  BY <1>1, KeyFacts DEF Key
<1>4. block = [rows |-> SubSeq(live[p].rows, a + 1, e),
               tail |-> IF e = n THEN tail ELSE None]
  BY DEF Exported
<1>5. live[p].rows = RowsTo(P, n) /\ (setup.hybrid => live[p].state = SubSeq(P, 1, n))
  BY DEF LiveTo
<1> HIDE DEF e, a, key, block, tail
<1>6. /\ SubSeq(live[p].rows, a + 1, e) = SubSeq(RowsTo(P, e), a + 1, e)
      /\ SubSeq(live[p].rows, a + 1, e) \in Seq(Seq(Tokens))
  <2>1. n \in 0..n /\ a \in 0..n /\ e \in a..n
    BY <1>1, <1>2
  <2> HIDE DEF n
  <2>2. n \in 0..Len(P)
    BY <2>1 DEF n
  <2> QED
    BY <1>1, <1>5, <2>1, <2>2, RowsOfBlock
<1>7. RowsTo(P, e) = Rows(key)
  BY <1>1, <1>2, <1>3, RowsOfPrefix
<1>8. SubSeq(P, 1, n) = P
  BY <1>1, RowsAll
<1>9. Restoring = RestoringIn(setup) /\ (p \in Restoring => logits[p] = P)
  BY DEF Restoring, RestoringIn
<1>10. /\ tail \in Tails /\ tail # None
       /\ tail.state = IF setup.hybrid THEN P ELSE None
       /\ tail.logits = IF p \in Restoring THEN P ELSE None
  <2>1. tail = [state  |-> IF setup.hybrid THEN P ELSE None,
                logits |-> IF p \in Restoring THEN P ELSE None]
    BY <1>5, <1>8, <1>9 DEF tail
  <2>2. tail \in Tails
    BY <1>1, <2>1 DEF Tails
  <2> QED
    BY <2>1, <2>2, NoneIsNothing
<1>11. block.rows = SubSeq(Rows(key), a + 1, Len(key)) /\ block \in BlockSet
       /\ block.tail = IF e = n THEN tail ELSE None
  BY <1>3, <1>4, <1>6, <1>7, <1>10 DEF BlockSet
<1>12. HasState(block) \/ HasLogits(block) => block.tail = tail /\ key = P
  BY <1>3, <1>8, <1>11 DEF HasState, HasLogits
<1>13. HasState(block) => block.tail.state = key
  BY <1>10, <1>12 DEF HasState
<1>14. HasLogits(block) => block.tail.logits = key
  BY <1>10, <1>12 DEF HasLogits
<1>15. Faithful(key, block)
  BY <1>3, <1>11, <1>13, <1>14 DEF Faithful
<1>16. ASSUME p \in RestoringIn(setup), HasState(block) \/ Len(key) % BlockSize # 0
       PROVE  HasLogits(block)
  <2>1. block.tail = tail
    <3>1. CASE HasState(block)
      BY <1>12, <3>1
    <3>2. CASE Len(key) % BlockSize # 0
      <4>1. (i * BlockSize) % BlockSize = 0
        <5>1. i * BlockSize \in Int /\ BlockSize > 0
          BY <1>1, Assumed
        <5>2. (i * BlockSize) % BlockSize = i * BlockSize - i * BlockSize
          BY <1>1, <5>1, DivisionIs
        <5> QED
          BY <5>1, <5>2
      <4>2. e = n
        BY <1>1, <1>2, <1>3, <3>2, <4>1
      <4> QED
        BY <1>11, <4>2
    <3> QED
      BY <1>16, <3>1, <3>2
  <2>2. P # None
    BY <1>1, NoneIsNothing
  <2> QED
    BY <1>9, <1>10, <1>16, <2>1, <2>2 DEF HasLogits
<1> QED
  BY <1>11, <1>15, <1>16 DEF Holds, Complete, block, key

-----------------------------------------------------------------------------
(* Steps. *)

LEMMA SameSetup ==
  ASSUME UNCHANGED setup
  PROVE  Ranks' = Ranks /\ Participants' = Participants
BY DEF Ranks, Participants

LEMMA StoresKept ==
  ASSUME RequestIInv, UNCHANGED <<setup, store>>
  PROVE  StoresHold' /\ store' \in [Participants -> [Keys -> BlockSet \cup {None}]]
<1>1. Participants' = Participants
  BY SameSetup
<1> QED
  BY <1>1 DEF RequestIInv, RequestTypes, StoresHold

LEMMA StoreChanged ==
  ASSUME RequestIInv, UNCHANGED setup, NEW p \in Participants,
         NEW left \in [Keys -> BlockSet \cup {None}],
         \A k \in Keys : left[k] # None => Holds(setup, p, k, left[k]),
         store' = [store EXCEPT ![p] = left]
  PROVE  StoresHold' /\ store' \in [Participants -> [Keys -> BlockSet \cup {None}]]
<1>1. Participants' = Participants
  BY SameSetup
<1>2. store \in [Participants -> [Keys -> BlockSet \cup {None}]] /\ StoresHold
  BY DEF RequestIInv, RequestTypes
<1>3. store' \in [Participants -> [Keys -> BlockSet \cup {None}]]
  BY <1>2
<1>4. \A q \in Participants : store'[q] = IF q = p THEN left ELSE store[q]
  BY <1>2
<1>5. ASSUME NEW q \in Participants, NEW k \in Keys, store'[q][k] # None
      PROVE  Holds(setup, q, k, store'[q][k])
  <2>1. CASE q = p
    BY <1>4, <1>5, <2>1
  <2>2. CASE q # p
    BY <1>2, <1>4, <1>5, <2>2 DEF StoresHold
  <2> QED
    BY <2>1, <2>2
<1>6. StoresHold'
  BY <1>1, <1>5 DEF StoresHold
<1> QED
  BY <1>3, <1>6

LEMMA Remaining ==
  ASSUME NEW T, NEW s \in [Keys -> T \cup {None}], NEW left \in Cache!Remains(s, {})
  PROVE  /\ left \in [Keys -> T \cup {None}]
         /\ \A k \in Keys : left[k] = s[k] \/ left[k] = None
<1>1. PICK lost : left = [k \in Keys |-> IF k \in lost THEN None ELSE s[k]]
  BY DEF Cache!Remains
<1> QED
  BY <1>1

(* Nothing about a rank depends on the state of participants of others. *)
LEMMA RankKept ==
  ASSUME NEW s, NEW prompt, NEW S, NEW x, NEW kv, NEW lg, NEW kw, NEW lh,
         RankHolds(s, prompt, S, x, kv, lg),
         \A p \in S : kw[p] = kv[p] /\ lh[p] = lg[p]
  PROVE  RankHolds(s, prompt, S, x, kw, lh)
BY DEF RankHolds

LEMMA StepOfRank ==
  ASSUME RequestIInv, UNCHANGED <<setup, prompt_tokens>>, NEW r \in Ranks,
         DOMAIN req' = Ranks, \A q \in Ranks : q # r => req'[q] = req[q],
         req'[r] \in Requests(setup.ranks[r]),
         store' \in [Participants -> [Keys -> BlockSet \cup {None}]], StoresHold',
         RankHolds(setup, prompt_tokens, setup.ranks[r], req'[r], live', logits'),
         \A p \in Participants : p \notin setup.ranks[r] =>
           live'[p] = live[p] /\ logits'[p] = logits[p]
  PROVE  RequestIInv'
<1>1. RequestTypes /\ RanksHold
  BY DEF RequestIInv
<1>2. Participants' = Participants /\ Ranks' = Ranks
  BY SameSetup
<1>3. RequestTypes'
  BY <1>1, <1>2 DEF RequestTypes
<1>4. ASSUME NEW q \in Ranks
      PROVE  RankHolds(setup, prompt_tokens, setup.ranks[q], req'[q], live', logits')
  <2>1. CASE q = r
    BY <2>1
  <2>2. CASE q # r
    <3>1. RankHolds(setup, prompt_tokens, setup.ranks[q], req'[q], live, logits)
      BY <1>1, <2>2 DEF RanksHold
    <3>2. \A p \in setup.ranks[q] : live'[p] = live[p] /\ logits'[p] = logits[p]
      BY <1>1, <2>2, SetupFacts
    <3> QED
      BY <3>1, <3>2, RankKept
  <2> QED
    BY <2>1, <2>2
<1>5. RanksHold'
  BY <1>2, <1>4 DEF RanksHold
<1> QED
  BY <1>3, <1>5 DEF RequestIInv

LEMMA StepOfAll ==
  ASSUME RequestIInv, UNCHANGED <<setup, store>>,
         prompt_tokens' \in {<< >>} \cup setup.prompts, DOMAIN req' = Ranks,
         \A r \in Ranks :
           /\ req'[r] \in Requests(setup.ranks[r])
           /\ RankHolds(setup, prompt_tokens', setup.ranks[r], req'[r], live', logits')
  PROVE  RequestIInv'
<1>1. RequestTypes
  BY DEF RequestIInv
<1>2. Participants' = Participants /\ Ranks' = Ranks
  BY SameSetup
<1>3. StoresHold' /\ store' \in [Participants -> [Keys -> BlockSet \cup {None}]]
  BY StoresKept
<1>4. RequestTypes'
  BY <1>1, <1>2, <1>3 DEF RequestTypes
<1>5. RanksHold'
  BY <1>2 DEF RanksHold
<1> QED
  BY <1>3, <1>4, <1>5 DEF RequestIInv

(* A rank that has nothing to do yet. *)
LEMMA FirstOfRank ==
  ASSUME RequestTypes, NEW r \in Ranks
  PROVE  First(r) \in setup.ranks[r]
BY SetupFacts, LeastIn DEF First

LEMMA RestingRank ==
  ASSUME RequestTypes, NEW r \in Ranks, NEW prompt \in Seq(Tokens), NEW kv, NEW lg
  PROVE  /\ Idle(r) \in Requests(setup.ranks[r])
         /\ Idle(r).hits = [p \in setup.ranks[r] |-> NoHit]
         /\ RankHolds(setup, prompt, setup.ranks[r], Idle(r), kv, lg)
<1> DEFINE S == setup.ranks[r]
<1>1. First(r) \in S
  BY FirstOfRank
<1>2. NoHit \in Hits /\ \A p : HitHolds(setup, prompt, p, NoHit)
  BY NothingFound
<1>3. Idle(r) = [phase |-> "idle", hits |-> [p \in S |-> NoHit], local |-> NoHit,
                 agreed |-> NoHit, matched |-> 0, failed |-> FALSE, next |-> First(r)]
  BY Zenon DEF Idle
<1>4. Idle(r) \in Requests(S)
  BY <1>1, <1>2, <1>3 DEF Requests, Phases
<1>5. Idle(r).phase = "idle" /\ Idle(r).hits = [p \in S |-> NoHit]
  BY <1>3
<1>6. RankHolds(setup, prompt, S, Idle(r), kv, lg)
  BY <1>2, <1>5 DEF RankHolds
<1> QED
  BY <1>4, <1>5, <1>6

LEMMA SubmittedRank ==
  ASSUME RequestTypes, NEW r \in Ranks, NEW prompt \in setup.prompts, NEW kv, NEW lg
  PROVE  LET x == [Idle(r) EXCEPT !.phase = "lookup"]
         IN /\ x \in Requests(setup.ranks[r])
            /\ RankHolds(setup, prompt, setup.ranks[r], x, kv, lg)
<1> DEFINE S == setup.ranks[r]
           x == [Idle(r) EXCEPT !.phase = "lookup"]
<1>1. prompt \in Seq(Tokens)
  BY SetupFacts
<1>2. Idle(r) \in Requests(S) /\ Idle(r).hits = [p \in S |-> NoHit]
  BY <1>1, RestingRank
<1>3. x \in Requests(S) /\ x.phase = "lookup" /\ x.hits = Idle(r).hits
  BY <1>2 DEF Requests, Phases
<1> HIDE DEF x
<1>4. \A p \in S : HitHolds(setup, prompt, p, x.hits[p])
  BY <1>1, <1>2, <1>3, NothingFound
<1>5. RankHolds(setup, prompt, S, x, kv, lg)
  BY <1>3, <1>4 DEF RankHolds
<1> QED
  BY <1>3, <1>5 DEF x

LEMMA InitHolds ==
  ASSUME Init PROVE RequestIInv
<1>1. /\ setup \in Setups /\ prompt_tokens = << >>
      /\ store = [p \in Participants |-> [k \in Keys |-> None]]
      /\ req = [r \in Ranks |-> Idle(r)]
  BY DEF Init
<1>2. << >> \in Seq(Tokens)
  OBVIOUS
<1>3. ASSUME RequestTypes, NEW r \in Ranks
      PROVE  RankHolds(setup, prompt_tokens, setup.ranks[r], req[r], live, logits)
  BY <1>1, <1>2, <1>3, RestingRank
<1>4. RequestTypes
  <2>1. ASSUME NEW r \in Ranks PROVE req[r] \in Requests(setup.ranks[r])
    <3>1. First(r) \in setup.ranks[r]
      <4>1. setup.ranks \in Seq((SUBSET Nat) \ {{}}) /\ r \in DOMAIN setup.ranks
        BY <1>1, Assumed DEF Ranks
      <4>2. setup.ranks[r] \in SUBSET Nat /\ setup.ranks[r] # {}
        BY <4>1
      <4> QED
        BY <4>2, LeastIn DEF First
    <3>2. NoHit \in Hits
      BY <1>2, NothingFound
    <3>3. req[r] = [phase |-> "idle", hits |-> [p \in setup.ranks[r] |-> NoHit], local |-> NoHit,
                    agreed |-> NoHit, matched |-> 0, failed |-> FALSE, next |-> First(r)]
      BY <1>1 DEF Idle
    <3> QED
      BY <3>1, <3>2, <3>3 DEF Requests, Phases
  <2>2. store \in [Participants -> [Keys -> BlockSet \cup {None}]]
    BY <1>1
  <2> QED
    BY <1>1, <2>1, <2>2 DEF RequestTypes
<1>5. StoresHold
  BY <1>1 DEF StoresHold
<1> QED
  BY <1>3, <1>4, <1>5 DEF RequestIInv, RanksHold

LEMMA SubmitKeeps ==
  ASSUME RequestIInv, UNCHANGED setup, NEW prompt \in setup.prompts, Submit(prompt)
  PROVE  RequestIInv'
<1>1. RequestTypes
  BY DEF RequestIInv
<1>2. /\ prompt_tokens' = prompt /\ UNCHANGED <<store, live, logits>>
      /\ req' = [r \in Ranks |-> [Idle(r) EXCEPT !.phase = "lookup"]]
  BY DEF Submit
<1>4. ASSUME NEW r \in Ranks
      PROVE  /\ req'[r] \in Requests(setup.ranks[r])
             /\ RankHolds(setup, prompt_tokens', setup.ranks[r], req'[r], live', logits')
  BY <1>1, <1>2, SubmittedRank
<1>5. DOMAIN req' = Ranks
  BY <1>2
<1> QED
  BY <1>2, <1>4, <1>5, StepOfAll

LEMMA IdleKeeps ==
  ASSUME RequestIInv, UNCHANGED <<setup, store, live, logits, prompt_tokens>>,
         req' = [r \in Ranks |-> Idle(r)]
  PROVE  RequestIInv'
<1>1. RequestTypes
  BY DEF RequestIInv
<1>2. ASSUME NEW r \in Ranks
      PROVE  /\ req'[r] \in Requests(setup.ranks[r])
             /\ RankHolds(setup, prompt_tokens', setup.ranks[r], req'[r], live', logits')
  BY <1>1, SetupFacts, RestingRank
<1>3. DOMAIN req' = Ranks /\ prompt_tokens' \in {<< >>} \cup setup.prompts
  BY <1>1 DEF RequestTypes
<1> QED
  BY <1>2, <1>3, StepOfAll

LEMMA LookupPrefixKeeps ==
  ASSUME RequestIInv, UNCHANGED setup, NEW r \in Ranks, LookupPrefix(r)
  PROVE  RequestIInv'
<1> DEFINE P == prompt_tokens
           S == setup.ranks[r]
           p == req[r].next
           Found(n) == [i \in 1..n |-> store[p][Key(P, i)]]
<1>1. /\ RequestTypes /\ StoresHold /\ RanksHold /\ UNCHANGED <<live, logits, prompt_tokens>>
      /\ req[r].phase = "lookup"
  BY DEF RequestIInv, LookupPrefix
<1>2. PICK n \in {k \in {0} \cup Blocks(P) : \A i \in 1..k : store[p][Key(P, i)] # None} :
        req' = [req EXCEPT ![r].hits[p] = HitOf(P, Found(n)),
                           ![r].next = IF IsLast(p, r) THEN First(r) ELSE After(p, r),
                           ![r].phase = IF IsLast(p, r) THEN "coordinate" ELSE @]
  BY DEF LookupPrefix
<1>3. PICK left \in Cache!Remains(store[p], {}) : store' = [store EXCEPT ![p] = left]
  BY DEF LookupPrefix
<1>4. /\ req[r] \in Requests(S) /\ DOMAIN req = Ranks
      /\ RankHolds(setup, P, S, req[r], live, logits)
  BY <1>1 DEF RequestTypes, RanksHold
<1>5. p \in S /\ p \in Participants /\ S \in SUBSET Nat /\ P \in Seq(Tokens)
  BY <1>1, <1>4, SetupFacts DEF Requests
<1>6. P \in setup.prompts /\ \A q \in S : HitHolds(setup, P, q, req[r].hits[q])
  BY <1>1, <1>4 DEF RankHolds
<1> DEFINE hit == HitOf(P, Found(n))
           next == IF IsLast(p, r) THEN First(r) ELSE After(p, r)
           phase == IF IsLast(p, r) THEN "coordinate" ELSE "lookup"
<1>7. hit \in Hits /\ HitHolds(setup, P, p, hit)
  BY <1>1, <1>2, <1>5, <1>6, FoundHit
<1>8. next \in S
  <2>1. First(r) \in S
    BY <1>1, FirstOfRank
  <2>2. ASSUME ~IsLast(p, r) PROVE After(p, r) \in S
    <3> DEFINE T == {q \in S : q > p}
    <3>1. T \in SUBSET Nat /\ T # {}
      BY <1>5, <2>2 DEF IsLast
    <3>2. Least(T) \in T
      <4> HIDE DEF T
      <4> QED
        BY <3>1, LeastIn
    <3> QED
      BY <3>2 DEF After
  <2> QED
    BY <2>1, <2>2
<1> HIDE DEF hit, next, p
<1>9. /\ DOMAIN req' = Ranks /\ \A q \in Ranks : q # r => req'[q] = req[q]
      /\ req'[r] = [req[r] EXCEPT !.hits[p] = hit, !.next = next, !.phase = phase]
  BY <1>1, <1>2, <1>4 DEF hit, next, p
<1>10. /\ req'[r] \in Requests(S) /\ req'[r].phase \in {"lookup", "coordinate"}
       /\ \A q \in S : req'[r].hits[q] = IF q = p THEN hit ELSE req[r].hits[q]
  <2>1. req[r].hits \in [S -> Hits]
    BY <1>4 DEF Requests
  <2> DEFINE hits == [req[r].hits EXCEPT ![p] = hit]
  <2>2. hits \in [S -> Hits] /\ \A q \in S : hits[q] = IF q = p THEN hit ELSE req[r].hits[q]
    BY <1>5, <1>7, <2>1
  <2>3. req'[r] = [req[r] EXCEPT !.hits = hits, !.next = next, !.phase = phase]
    BY <1>9
  <2>4. phase \in {"lookup", "coordinate"} /\ phase \in Phases
    BY DEF Phases
  <2> HIDE DEF hits, phase
  <2>5. req'[r] \in Requests(S) /\ req'[r].phase = phase /\ req'[r].hits = hits
    BY <1>4, <1>8, <2>2, <2>3, <2>4 DEF Requests
  <2> QED
    BY <2>2, <2>4, <2>5
<1>11. RankHolds(setup, P, S, req'[r], live', logits')
  <2>1. \A q \in S : HitHolds(setup, P, q, req'[r].hits[q])
    BY <1>6, <1>7, <1>10
  <2> QED
    BY <1>6, <1>10, <2>1 DEF RankHolds
<1>12. StoresHold' /\ store' \in [Participants -> [Keys -> BlockSet \cup {None}]]
  <2>1. store[p] \in [Keys -> BlockSet \cup {None}]
    BY <1>1, <1>5 DEF RequestTypes
  <2>2. /\ left \in [Keys -> BlockSet \cup {None}]
        /\ \A k \in Keys : left[k] = store[p][k] \/ left[k] = None
    BY <1>3, <2>1, Remaining DEF p
  <2>3. \A k \in Keys : left[k] # None => Holds(setup, p, k, left[k])
    BY <1>1, <1>5, <2>2 DEF StoresHold
  <2>4. store' = [store EXCEPT ![p] = left]
    BY <1>3 DEF p
  <2> QED
    BY <1>5, <2>2, <2>3, <2>4, StoreChanged
<1> QED
  BY <1>1, <1>9, <1>10, <1>11, <1>12, StepOfRank

LEMMA EmptyIsLive ==
  ASSUME NEW s, NEW prompt PROVE Empty = LiveTo(s, prompt, 0)
<1>1. RowsTo(prompt, 0) = << >>
  BY DEF RowsTo
<1>2. SubSeq(prompt, 1, 0) = << >>
  BY SubSeqEmpty
<1> QED
  BY <1>1, <1>2 DEF Empty, LiveTo

LEMMA HybridIsAlone ==
  ASSUME RequestTypes, Safe(setup), setup.hybrid
  PROVE  /\ Ranks = {1} /\ setup.terminal
         /\ \E p \in setup.owners : setup.ranks[1] = {p}
<1>1. PICK p \in setup.owners : setup.ranks = <<{p}>>
  BY DEF Safe
<1>2. Ranks = {1} /\ setup.ranks[1] = {p}
  BY <1>1 DEF Ranks
<1>3. setup.terminal
  BY DEF Safe
<1> QED
  BY <1>2, <1>3

(* The reductions found the boundary m, with the ranks' own aggregates.     *)
AgreedAt(local, needing, agreed, m) ==
  /\ agreed.cached = End(prompt_tokens, m) /\ agreed.logits \in BOOLEAN
  /\ agreed \in [cached : Nat, logits : BOOLEAN]
  /\ agreed.logits => setup.terminal /\ m # 0
  /\ \A r \in Ranks :
       /\ local[r] \in Hits /\ Bounded(prompt_tokens, local[r])
       /\ Reaches(setup, local[r], m)
       /\ \A p \in setup.ranks[r] : Reaches(setup, req[r].hits[p], m)
  /\ m # 0 /\ (setup.hybrid \/ (/\ Len(prompt_tokens) % BlockSize # 0
                                /\ End(prompt_tokens, m) = Len(prompt_tokens))) =>
       /\ agreed.logits
       /\ \A r \in Ranks :
            /\ local[r].logits /\ Len(local[r].blocks) = m
            /\ \A p \in RestoringIn(setup) \cap setup.ranks[r] : req[r].hits[p].logits
  /\ agreed.logits => \A r \in needing : local[r].logits
  /\ \A r \in Ranks : local[r].logits =>
       /\ setup.owners \cap setup.ranks[r] # {}
       /\ \A p \in RestoringIn(setup) \cap setup.ranks[r] : req[r].hits[p].logits

(* What the reductions find. Where a full hit must be restorable, it is.   *)
LEMMA CoordinateFinds ==
  ASSUME RequestIInv, Safe(setup), prompt_tokens \in setup.prompts,
         NEW local, NEW needing, NEW agreed,
         local = [r \in Ranks |->
           Aggregate(prompt_tokens, req[r].hits, setup.owners \cap setup.ranks[r])],
         needing = {r \in Ranks : setup.terminal /\
           \E p \in setup.owners \cap setup.ranks[r] : req[r].hits[p].cached > 0},
         agreed = Coordinated(prompt_tokens, local, needing)
  PROVE  \E m \in {0} \cup Blocks(prompt_tokens) : AgreedAt(local, needing, agreed, m)
<1> DEFINE P == prompt_tokens
           n == Len(P)
<1>1. RequestTypes /\ RanksHold /\ P \in Seq(Tokens)
  BY SetupFacts DEF RequestIInv
<1>2. /\ Ranks \in SUBSET Nat /\ Ranks # {}
      /\ setup.hybrid => \A r \in Ranks : \E p \in setup.owners : setup.ranks[r] = {p}
      /\ setup.hybrid => Ranks = {1} /\ setup.terminal
  <2>1. Ranks \in SUBSET Nat /\ Ranks # {}
    BY <1>1, SetupFacts
  <2>2. ASSUME setup.hybrid
        PROVE  /\ \A r \in Ranks : \E p \in setup.owners : setup.ranks[r] = {p}
               /\ Ranks = {1} /\ setup.terminal
    BY <1>1, <2>2, HybridIsAlone
  <2> QED
    BY <2>1, <2>2
<1>3. ASSUME NEW r \in Ranks
      PROVE  /\ req[r].hits \in [setup.ranks[r] -> Hits]
             /\ \A p \in setup.ranks[r] : HitHolds(setup, P, p, req[r].hits[p])
  BY <1>1 DEF RequestTypes, Requests, RanksHold, RankHolds
<1> DEFINE restoring(r) == RestoringIn(setup) \cap setup.ranks[r]
<1>4. ASSUME NEW r \in Ranks
      PROVE  /\ local[r] \in Hits /\ Len(local[r].blocks) \in {0} \cup Blocks(P)
             /\ local[r].cached = End(P, Len(local[r].blocks))
             /\ Reaches(setup, local[r], Len(local[r].blocks))
             /\ \A p \in setup.ranks[r] : Reaches(setup, req[r].hits[p], Len(local[r].blocks))
             /\ \E q \in setup.ranks[r] : Len(local[r].blocks) = Len(req[r].hits[q].blocks)
             /\ local[r].logits <=>
                  /\ Len(local[r].blocks) # 0 /\ restoring(r) # {}
                  /\ \A p \in restoring(r) : req[r].hits[p].logits
  <2>1. setup.hybrid => \E p : setup.ranks[r] = {p}
    BY <1>2
  <2>2. local[r] = Aggregate(P, req[r].hits, setup.owners \cap setup.ranks[r])
    OBVIOUS
  <2> DEFINE hits == req[r].hits
             h == Aggregate(P, hits, setup.owners \cap setup.ranks[r])
  <2>3. hits \in [setup.ranks[r] -> Hits] /\ h = local[r]
        /\ \A p \in setup.ranks[r] : HitHolds(setup, P, p, hits[p])
    BY <1>3, <2>2
  <2> HIDE DEF hits
  <2>4. \E m \in {0} \cup Blocks(P) :
          /\ h \in Hits /\ Len(h.blocks) = m /\ h.cached = End(P, m)
          /\ Reaches(setup, h, m)
          /\ \A p \in setup.ranks[r] : Reaches(setup, hits[p], m)
          /\ \E q \in setup.ranks[r] : m = Len(hits[q].blocks)
          /\ h.logits <=>
               /\ m # 0 /\ RestoringIn(setup) \cap setup.ranks[r] # {}
               /\ \A p \in RestoringIn(setup) \cap setup.ranks[r] : hits[p].logits
    BY ONLY <1>1, <2>1, <2>3, AggregateHit
  <2> HIDE DEF h
  <2> QED
    BY <2>3, <2>4 DEF hits
<1>5. local \in [Ranks -> Hits] /\ \A r \in Ranks : Bounded(P, local[r])
  BY <1>4 DEF Bounded
<1>6. needing \in SUBSET Ranks
  OBVIOUS
<1>7. PICK m \in {0} \cup Blocks(P) :
        /\ \E q \in Ranks : m = Len(local[q].blocks)
        /\ \A r \in Ranks : m <= Len(local[r].blocks)
        /\ agreed = [cached |-> End(P, m),
                     logits |-> m # 0 /\ needing # {} /\ \A r \in needing : local[r].logits]
  <2>1. agreed = Coordinated(P, local, needing)
    OBVIOUS
  <2>0. /\ Ranks \in SUBSET Nat /\ Ranks # {} /\ needing \in SUBSET Ranks
        /\ local \in [Ranks -> Hits] /\ \A r \in Ranks : Bounded(P, local[r])
    BY <1>2, <1>5, <1>6
  <2>2. \E m \in {0} \cup Blocks(P) :
          /\ \E q \in Ranks : m = Len(local[q].blocks)
          /\ \A r \in Ranks : m <= Len(local[r].blocks)
          /\ Coordinated(P, local, needing) =
               [cached |-> End(P, m),
                logits |-> m # 0 /\ needing # {} /\ \A r \in needing : local[r].logits]
    BY ONLY <1>1, <2>0, CoordinatedHit, Zenon
  <2> QED
    BY ONLY <2>1, <2>2
<1>8. m \in Nat /\ End(P, m) \in Nat /\ (End(P, m) = 0 <=> m = 0)
  BY <1>1, Ends, EndsOrdered
<1>9. /\ agreed.cached = End(P, m) /\ agreed.logits \in BOOLEAN
      /\ agreed \in [cached : Nat, logits : BOOLEAN]
      /\ agreed.logits <=> m # 0 /\ needing # {} /\ \A r \in needing : local[r].logits
  <2> DEFINE l == m # 0 /\ needing # {} /\ \A r \in needing : local[r].logits
  <2>1. agreed = [cached |-> End(P, m), logits |-> l] /\ l \in BOOLEAN
    BY <1>7
  <2> HIDE DEF l
  <2>2. agreed.cached = End(P, m) /\ agreed.logits = l
    BY <2>1
  <2>3. agreed \in [cached : Nat, logits : BOOLEAN]
    BY <1>8, <2>1
  <2> QED
    BY <2>1, <2>2, <2>3 DEF l
<1>10. agreed.logits => setup.terminal /\ m # 0
  BY <1>9
<1>11. ASSUME NEW r \in Ranks
       PROVE  /\ Reaches(setup, local[r], m)
              /\ \A p \in setup.ranks[r] : Reaches(setup, req[r].hits[p], m)
              /\ setup.hybrid => Len(local[r].blocks) = m
  <2>1. CASE setup.hybrid
    <3>1. m = Len(local[r].blocks)
      <4>1. PICK q \in Ranks : m = Len(local[q].blocks)
        BY <1>7
      <4>2. q = r
        BY <1>2, <2>1
      <4> QED
        BY <4>1, <4>2
    <3> QED
      BY <1>4, <3>1
  <2>2. CASE ~setup.hybrid
    <3>1. Len(local[r].blocks) \in Nat /\ m <= Len(local[r].blocks)
      BY <1>1, <1>4, <1>7, Ends
    <3>2. ASSUME NEW p \in setup.ranks[r], m # 0 PROVE m <= Len(req[r].hits[p].blocks)
      <4>1. Len(local[r].blocks) # 0
        BY <1>8, <3>1, <3>2
      <4>2. Len(local[r].blocks) <= Len(req[r].hits[p].blocks)
        BY <1>4, <4>1 DEF Reaches
      <4>3. Len(req[r].hits[p].blocks) \in Nat
        BY <1>3, LenProperties DEF Hits
      <4> QED
        BY <1>8, <3>1, <4>2, <4>3
    <3> QED
      BY <2>2, <3>1, <3>2 DEF Reaches
  <2> QED
    BY <2>1, <2>2
<1>12. ASSUME m # 0, setup.hybrid \/ (n % BlockSize # 0 /\ End(P, m) = n)
       PROVE  /\ agreed.logits
              /\ \A r \in Ranks : /\ local[r].logits /\ Len(local[r].blocks) = m
                                  /\ \A p \in restoring(r) : req[r].hits[p].logits
  <2>1. setup.terminal /\ \A r \in Ranks : setup.owners \cap setup.ranks[r] # {}
    BY <1>12 DEF Safe, Ranks
  <2>2. ASSUME NEW r \in Ranks, NEW p \in setup.ranks[r]
        PROVE  /\ Len(req[r].hits[p].blocks) = m /\ Len(local[r].blocks) = m
    <3>1. /\ Len(local[r].blocks) \in {0} \cup Blocks(P) /\ Len(local[r].blocks) \in Nat
          /\ m <= Len(local[r].blocks)
      BY <1>1, <1>4, <1>7, Ends
    <3>2. /\ Len(req[r].hits[p].blocks) \in {0} \cup Blocks(P)
          /\ Len(req[r].hits[p].blocks) \in Nat
      BY <1>1, <1>3, Ends DEF HitHolds, Bounded
    <3>3. Len(local[r].blocks) <= Len(req[r].hits[p].blocks)
      <4>1. Len(local[r].blocks) # 0
        BY <1>8, <1>12, <3>1
      <4>2. Reaches(setup, req[r].hits[p], Len(local[r].blocks))
        BY <1>4
      <4> QED
        BY <4>1, <4>2 DEF Reaches
    <3>5. CASE setup.hybrid
      <4>1. Len(local[r].blocks) = m
        BY <1>11, <3>5
      <4>2. Len(req[r].hits[p].blocks) = m
        <5>1. setup.ranks[r] = {p}
          BY <1>2, <3>5
        <5>2. PICK q \in setup.ranks[r] : Len(local[r].blocks) = Len(req[r].hits[q].blocks)
          BY <1>4
        <5> QED
          BY <4>1, <5>1, <5>2
      <4> QED
        BY <4>1, <4>2
    <3>6. CASE n % BlockSize # 0 /\ End(P, m) = n
      <4>1. PICK k \in {0} \cup Blocks(P) :
              End(P, k) = Len(P) /\ \A j \in {0} \cup Blocks(P) : j <= k
        BY <1>1, EndOfPrompt
      <4>2. m = k
        BY <1>1, <3>6, <4>1, EndsOrdered
      <4> QED
        BY <1>8, <3>1, <3>2, <3>3, <4>1, <4>2
    <3> QED
      BY <1>12, <3>5, <3>6
  <2>3. ASSUME NEW r \in Ranks, NEW p \in setup.owners \cap setup.ranks[r]
        PROVE  req[r].hits[p].logits /\ req[r].hits[p].cached > 0
    <3> DEFINE h == req[r].hits[p]
    <3>1. /\ HitHolds(setup, P, p, h) /\ Len(h.blocks) = m /\ h.blocks \in Seq(BlockSet)
          /\ p \in RestoringIn(setup)
      BY <1>3, <2>1, <2>2 DEF Hits, RestoringIn
    <3> HIDE DEF h
    <3>2. m \in Blocks(P) /\ m \in 1..m
      BY <1>8, <1>12
    <3>3. Holds(setup, p, Key(P, m), h.blocks[m])
      BY <3>1, <3>2 DEF HitHolds
    <3>4. setup.hybrid => HasState(h.blocks[m])
      BY <1>12, <3>1 DEF HitHolds, Reaches
    <3>5. ~setup.hybrid => Len(Key(P, m)) % BlockSize # 0
      BY <1>1, <1>12, <3>2, KeyFacts
    <3>6. HasLogits(h.blocks[m])
      BY <3>1, <3>3, <3>4, <3>5 DEF Holds, Complete
    <3>7. h.blocks # << >>
      BY <1>12, <3>1
    <3>8. h.logits
      BY <3>1, <3>6, <3>7 DEF HitHolds
    <3>9. h.cached > 0
      BY <1>8, <1>12, <3>1 DEF HitHolds, Bounded
    <3> QED
      BY <3>8, <3>9 DEF h
  <2>4. ASSUME NEW r \in Ranks
        PROVE  /\ local[r].logits /\ Len(local[r].blocks) = m /\ r \in needing
               /\ \A p \in restoring(r) : req[r].hits[p].logits
    <3>1. restoring(r) = setup.owners \cap setup.ranks[r] /\ restoring(r) # {}
      BY <2>1 DEF RestoringIn
    <3>2. Len(local[r].blocks) = m
      BY <2>1, <2>2
    <3>3. \A p \in restoring(r) : req[r].hits[p].logits
      BY <2>3, <3>1
    <3>4. local[r].logits
      BY <1>4, <1>12, <3>1, <3>2, <3>3
    <3>5. r \in needing
      BY <2>1, <2>3
    <3> QED
      BY <3>2, <3>3, <3>4, <3>5
  <2>5. agreed.logits
    BY <1>2, <1>6, <1>9, <1>12, <2>4
  <2> QED
    BY <2>4, <2>5
<1>13. ASSUME agreed.logits, NEW r \in needing
       PROVE  local[r].logits
  BY <1>9, <1>13
<1>14. ASSUME NEW r \in Ranks, local[r].logits
       PROVE  /\ setup.owners \cap setup.ranks[r] # {}
              /\ \A p \in restoring(r) : req[r].hits[p].logits
  <2>1. restoring(r) # {} /\ \A p \in restoring(r) : req[r].hits[p].logits
    BY <1>4, <1>14
  <2> QED
    BY <2>1 DEF RestoringIn
<1> QED
  BY <1>5, <1>9, <1>10, <1>11, <1>12, <1>13, <1>14 DEF AgreedAt

(* Giving back a block gives a boundary that is still reached, if the      *)
(* model has no recurrent state.                                           *)
LEMMA ReachesLess ==
  ASSUME NEW s, ~s.hybrid, NEW hit, Len(hit.blocks) \in Nat, NEW i \in Nat, NEW j \in Nat,
         i <= j, Reaches(s, hit, j)
  PROVE  Reaches(s, hit, i)
BY DEF Reaches

LEMMA CoordinateKeeps ==
  ASSUME RequestIInv, Safe(setup), UNCHANGED setup, Coordinate
  PROVE  RequestIInv'
<1> DEFINE P == prompt_tokens
           n == Len(P)
           local == [r \in Ranks |->
             Aggregate(prompt_tokens, req[r].hits, setup.owners \cap setup.ranks[r])]
           needing == {r \in Ranks : setup.terminal /\
             \E p \in setup.owners \cap setup.ranks[r] : req[r].hits[p].cached > 0}
           agreed == Coordinated(prompt_tokens, local, needing)
           Lacks(r) ==
             ~(ClampedTo(prompt_tokens, local[r], agreed.cached).logits /\ agreed.logits)
           matched(r) == IF setup.mtp /\ agreed.cached \in 1..(Len(prompt_tokens) - 1) /\ Lacks(r)
                           THEN StepBack(agreed.cached) ELSE agreed.cached
<1>1. /\ \A r \in Ranks : req[r].phase = "coordinate"
      /\ req' = [r \in Ranks |-> [req[r] EXCEPT
                   !.phase = "populate", !.local = local[r], !.agreed = agreed,
                   !.matched = matched(r)]]
      /\ live' = [p \in Participants |-> Empty]
      /\ UNCHANGED <<store, logits, prompt_tokens>>
  BY DEF Coordinate
<1>2. RequestTypes /\ RanksHold /\ P \in Seq(Tokens) /\ n \in Nat
  BY SetupFacts, LenProperties DEF RequestIInv
<1>3. P \in setup.prompts /\ P # << >> /\ n # 0
  <2>1. 1 \in Ranks
    BY <1>2, SetupFacts
  <2>2. P \in setup.prompts
    BY <1>1, <1>2, <2>1 DEF RanksHold, RankHolds
  <2> QED
    BY <1>2, <2>2, SetupFacts
<1>4. PICK m \in {0} \cup Blocks(P) : AgreedAt(local, needing, agreed, m)
  <2> DEFINE l == local
             d == needing
             a == agreed
  <2>1. /\ l = [r \in Ranks |->
                 Aggregate(prompt_tokens, req[r].hits, setup.owners \cap setup.ranks[r])]
        /\ d = {r \in Ranks : setup.terminal /\
                 \E p \in setup.owners \cap setup.ranks[r] : req[r].hits[p].cached > 0}
        /\ a = Coordinated(prompt_tokens, l, d)
    OBVIOUS
  <2> HIDE DEF l, d, a
  <2>2. \E m \in {0} \cup Blocks(P) : AgreedAt(l, d, a, m)
    BY <1>3, <2>1, CoordinateFinds
  <2> QED
    BY <2>2 DEF l, d, a
<1> HIDE DEF local, needing, agreed
<1>4a. /\ agreed.cached = End(P, m) /\ agreed.logits \in BOOLEAN
       /\ agreed \in [cached : Nat, logits : BOOLEAN]
       /\ agreed.logits => setup.terminal
       /\ \A r \in Ranks :
            /\ local[r] \in Hits /\ Bounded(P, local[r])
            /\ Reaches(setup, local[r], m)
            /\ \A p \in setup.ranks[r] : Reaches(setup, req[r].hits[p], m)
       /\ m # 0 /\ (setup.hybrid \/ (n % BlockSize # 0 /\ End(P, m) = n)) =>
            /\ agreed.logits
            /\ \A r \in Ranks :
                 /\ local[r].logits /\ Len(local[r].blocks) = m
                 /\ \A p \in RestoringIn(setup) \cap setup.ranks[r] : req[r].hits[p].logits
  BY <1>4 DEF AgreedAt
<1>5. m \in Nat /\ End(P, m) \in Nat /\ (End(P, m) = 0 <=> m = 0) /\ End(P, m) <= n
  BY <1>2, Ends, EndsOrdered
<1>6. ASSUME NEW r \in Ranks
      PROVE  /\ matched(r) \in Nat
             /\ matched(r) = n => m # 0 /\ End(P, m) = n
             /\ \E j \in {0} \cup Blocks(P) :
                  /\ matched(r) = End(P, j)
                  /\ Reaches(setup, local[r], j)
                  /\ \A p \in setup.ranks[r] : Reaches(setup, req[r].hits[p], j)
  <2>1. CASE ~(setup.mtp /\ agreed.cached \in 1..(n - 1) /\ Lacks(r))
    <3>1. matched(r) = End(P, m)
      BY <1>4a, <2>1
    <3> QED
      BY <1>3, <1>4a, <1>5, <3>1
  <2>2. CASE setup.mtp /\ agreed.cached \in 1..(n - 1) /\ Lacks(r)
    <3>1. matched(r) = StepBack(End(P, m)) /\ m # 0 /\ m \in Blocks(P) /\ End(P, m) < n
      BY <1>2, <1>4a, <1>5, <2>2
    <3>2. ~setup.hybrid
      <4> SUFFICES ASSUME setup.hybrid PROVE FALSE
        OBVIOUS
      <4>1. agreed.logits /\ local[r].logits /\ Len(local[r].blocks) = m
        BY <1>4a, <3>1
      <4>2. ClampedTo(P, local[r], End(P, m)) =
              [cached |-> End(P, m), blocks |-> SubSeq(local[r].blocks, 1, m),
               logits |-> m # 0 /\ m = Len(local[r].blocks) /\ local[r].logits]
        BY <1>2, <1>4a, Clamped
      <4>3. ClampedTo(P, local[r], End(P, m)).logits
        <5> DEFINE l == m # 0 /\ m = Len(local[r].blocks) /\ local[r].logits
        <5>1. l
          BY <3>1, <4>1
        <5>2. ClampedTo(P, local[r], End(P, m)) =
                [cached |-> End(P, m), blocks |-> SubSeq(local[r].blocks, 1, m), logits |-> l]
          BY <4>2
        <5> HIDE DEF l
        <5> QED
          BY <5>1, <5>2
      <4> QED
        BY <1>4a, <2>2, <4>1, <4>3
    <3>3. End(P, m) = m * BlockSize
      BY <1>2, <3>1, Ends
    <3>4. matched(r) = End(P, m - 1) /\ m - 1 \in {0} \cup Blocks(P)
      BY <1>2, <3>1, <3>3, StepsBackToBoundary
    <3>5. m - 1 \in Nat /\ m - 1 < m /\ m - 1 <= m
      BY <1>5, <3>1
    <3>6. End(P, m - 1) \in Nat /\ End(P, m - 1) <= End(P, m)
      BY <1>2, <3>4, <3>5, Ends, EndsOrdered
    <3>7. Reaches(setup, local[r], m - 1)
      <4>1. Len(local[r].blocks) \in Nat /\ Reaches(setup, local[r], m)
        BY <1>4a, LenProperties DEF Hits
      <4> QED
        BY <1>5, <3>2, <3>5, <4>1, ReachesLess
    <3>8. ASSUME NEW p \in setup.ranks[r] PROVE Reaches(setup, req[r].hits[p], m - 1)
      <4>1. Len(req[r].hits[p].blocks) \in Nat /\ Reaches(setup, req[r].hits[p], m)
        BY <1>2, <1>4a, LenProperties DEF RequestTypes, Requests, Hits
      <4> QED
        BY <1>5, <3>2, <3>5, <4>1, ReachesLess
    <3> HIDE DEF matched, n
    <3>9. matched(r) \in Nat /\ matched(r) # n
      BY <1>2, <1>5, <3>1, <3>4, <3>6
    <3> QED
      BY <3>4, <3>7, <3>8, <3>9
  <2> QED
    BY <2>1, <2>2
<1> HIDE DEF matched
<1>7. ASSUME NEW r \in Ranks
      PROVE  /\ req'[r] \in Requests(setup.ranks[r]) /\ req'[r].phase = "populate"
             /\ req'[r].local = local[r] /\ req'[r].agreed = agreed
             /\ req'[r].matched = matched(r) /\ req'[r].hits = req[r].hits
  <2>1. req[r] \in Requests(setup.ranks[r])
    BY <1>2 DEF RequestTypes
  <2>2. req'[r] = [req[r] EXCEPT !.phase = "populate", !.local = local[r], !.agreed = agreed,
                                 !.matched = matched(r)]
    BY <1>1
  <2>3. matched(r) \in Nat /\ local[r] \in Hits /\ agreed \in [cached : Nat, logits : BOOLEAN]
    BY <1>4a, <1>6
  <2> QED
    BY <2>1, <2>2, <2>3 DEF Requests, Phases
<1>8. ASSUME NEW r \in Ranks
      PROVE  RankHolds(setup, P, setup.ranks[r], req'[r], live', logits')
  <2>1. \A p \in setup.ranks[r] : HitHolds(setup, P, p, req[r].hits[p])
    BY <1>2 DEF RanksHold, RankHolds
  <2>2. \A p \in setup.ranks[r] : live'[p] = LiveTo(setup, P, 0)
    BY <1>1, <1>2, SetupFacts, EmptyIsLive
  <2>3. ASSUME setup.hybrid \/ n % BlockSize # 0, matched(r) = n
        PROVE  Restores(setup, setup.ranks[r], req'[r])
    BY <1>4a, <1>6, <1>7, <2>3 DEF Restores
  <2>4. Goes(setup, P, setup.ranks[r], req'[r])
    BY <1>4a, <1>6, <1>7, <2>3 DEF Goes
  <2> QED
    BY <1>3, <1>7, <2>1, <2>2, <2>4 DEF RankHolds
<1>9. DOMAIN req' = Ranks /\ prompt_tokens' \in {<< >>} \cup setup.prompts
  BY <1>1, <1>3
<1> QED
  BY <1>1, <1>7, <1>8, <1>9, StepOfAll

(* The hits that a rank and its children act on. *)
LEMMA ActingHits ==
  ASSUME RequestIInv, NEW r \in Ranks, req[r].phase \in {"populate", "prefill"}
  PROVE  \E j \in {0} \cup Blocks(prompt_tokens) :
           /\ req[r].matched = End(prompt_tokens, j)
           /\ CommonHit(r).cached = End(prompt_tokens, j)
           /\ CommonHit(r).logits <=>
                /\ j # 0 /\ j = Len(req[r].local.blocks)
                /\ req[r].local.logits /\ req[r].agreed.logits
           /\ \A p \in setup.ranks[r] :
                /\ Reaches(setup, req[r].hits[p], j)
                /\ ChildHit(p, r) \in Hits
                /\ ChildHit(p, r).cached = End(prompt_tokens, j)
                /\ ChildHit(p, r).blocks = SubSeq(req[r].hits[p].blocks, 1, j)
                /\ ChildHit(p, r).logits <=>
                     /\ j # 0 /\ j = Len(req[r].hits[p].blocks) /\ req[r].hits[p].logits
<1> DEFINE P == prompt_tokens
           x == req[r]
           S == setup.ranks[r]
<1>1. RequestTypes /\ x \in Requests(S) /\ RankHolds(setup, P, S, x, live, logits)
      /\ P \in Seq(Tokens)
  BY SetupFacts DEF RequestIInv, RequestTypes, RanksHold
<1>2. Goes(setup, P, S, x) /\ \A p \in S : HitHolds(setup, P, p, x.hits[p])
  BY <1>1 DEF RankHolds
<1>3. PICK j \in {0} \cup Blocks(P) :
        /\ x.matched = End(P, j)
        /\ Reaches(setup, x.local, j)
        /\ \A p \in S : Reaches(setup, x.hits[p], j)
  BY <1>2 DEF Goes
<1>4. End(P, j) \in Nat /\ j \in Nat
  BY <1>1, Ends
<1>5. CommonHit(r).cached = End(P, j)
      /\ (CommonHit(r).logits <=> (/\ j # 0 /\ j = Len(x.local.blocks)
                                   /\ x.local.logits /\ x.agreed.logits))
  <2> DEFINE l == j # 0 /\ j = Len(x.local.blocks) /\ x.local.logits
             h == ClampedTo(P, x.local, x.matched)
  <2>1. x.local \in Hits /\ Bounded(P, x.local)
    BY <1>1, <1>2 DEF Requests, Goes
  <2>2. h = [cached |-> End(P, j), blocks |-> SubSeq(x.local.blocks, 1, j), logits |-> l]
    BY <1>1, <1>3, <2>1, Clamped
  <2>3. CommonHit(r) = [h EXCEPT !.logits = @ /\ x.agreed.logits]
    BY DEF CommonHit
  <2> HIDE DEF h, l
  <2>4. CommonHit(r).cached = End(P, j) /\ (CommonHit(r).logits <=> (l /\ x.agreed.logits))
    BY <2>2, <2>3
  <2> QED
    BY <2>4 DEF l
<1>6. ASSUME NEW p \in S
      PROVE  /\ ChildHit(p, r) \in Hits
             /\ ChildHit(p, r).cached = End(P, j)
             /\ ChildHit(p, r).blocks = SubSeq(x.hits[p].blocks, 1, j)
             /\ ChildHit(p, r).logits <=> j # 0 /\ j = Len(x.hits[p].blocks) /\ x.hits[p].logits
  <2> DEFINE h == x.hits[p]
             l == j # 0 /\ j = Len(h.blocks) /\ h.logits
             b == SubSeq(h.blocks, 1, j)
  <2>1. h \in Hits /\ Bounded(P, h) /\ Reaches(setup, h, j)
    BY <1>1, <1>2, <1>3 DEF Requests, HitHolds
  <2>2. ChildHit(p, r) = ClampedTo(P, h, End(P, j))
    BY <1>5 DEF ChildHit
  <2>3. l \in BOOLEAN /\ b \in Seq(BlockSet)
    <3>1. h.blocks \in Seq(BlockSet) /\ Len(h.blocks) \in Nat
      BY <2>1, LenProperties DEF Hits
    <3>2. j \in 0..Len(h.blocks)
      BY <1>4, <2>1, <3>1 DEF Reaches
    <3> QED
      BY <3>1, <3>2, FirstBlocks
  <2> HIDE DEF h
  <2>4. ClampedTo(P, h, End(P, j)) = [cached |-> End(P, j), blocks |-> b, logits |-> l]
    BY <1>1, <2>1, Clamped
  <2> HIDE DEF l, b
  <2>5. /\ ChildHit(p, r) \in Hits /\ ChildHit(p, r).cached = End(P, j)
        /\ ChildHit(p, r).blocks = b /\ ChildHit(p, r).logits = l
    BY <1>4, <2>2, <2>3, <2>4 DEF Hits
  <2> QED
    BY <2>5 DEF l, b, h
<1> QED
  BY <1>3, <1>5, <1>6

LEMMA PopulatePrefixKeeps ==
  ASSUME RequestIInv, UNCHANGED setup, NEW r \in Ranks, PopulatePrefix(r)
  PROVE  RequestIInv'
<1> DEFINE P == prompt_tokens
           x == req[r]
           S == setup.ranks[r]
           complete == \A p \in S : ChildHit(p, r).cached > 0 => ChildHit(p, r).blocks # << >>
           imported == [p \in Participants |->
                          IF p \in S /\ ChildHit(p, r).cached > 0
                            THEN Imported(ChildHit(p, r)) ELSE live[p]]
<1>1. /\ x.phase = "populate" /\ UNCHANGED <<store, logits, prompt_tokens>>
      /\ \/ live' = imported /\ req' = [req EXCEPT ![r].phase = "prefill"]
         \/ live' = Cleared(r) /\ req' = [req EXCEPT ![r].phase = "prefill", ![r].matched = 0,
                                                          ![r].failed = TRUE]
  BY DEF PopulatePrefix
<1>2. /\ RequestTypes /\ x \in Requests(S) /\ RankHolds(setup, P, S, x, live, logits)
      /\ P \in Seq(Tokens) /\ DOMAIN req = Ranks /\ S \subseteq Participants
  BY SetupFacts DEF RequestIInv, RequestTypes, RanksHold
<1>3. /\ P \in setup.prompts /\ Goes(setup, P, S, x) /\ P # << >>
      /\ \A p \in S : HitHolds(setup, P, p, x.hits[p]) /\ live[p] = LiveTo(setup, P, 0)
  BY <1>1, <1>2, SetupFacts DEF RankHolds
<1>4. PICK j \in {0} \cup Blocks(P) :
           /\ x.matched = End(P, j)
           /\ \A p \in S :
                /\ Reaches(setup, x.hits[p], j)
                /\ ChildHit(p, r) \in Hits
                /\ ChildHit(p, r).cached = End(P, j)
                /\ ChildHit(p, r).blocks = SubSeq(x.hits[p].blocks, 1, j)
  BY <1>1, ActingHits
<1>5. j \in Nat /\ End(P, j) \in Nat /\ (End(P, j) > 0 <=> j # 0)
  BY <1>2, Ends, EndsOrdered
<1>6. StoresHold' /\ store' \in [Participants -> [Keys -> BlockSet \cup {None}]]
  BY <1>1, StoresKept
<1>7. CASE live' = imported /\ req' = [req EXCEPT ![r].phase = "prefill"]
  <2>1. /\ DOMAIN req' = Ranks /\ \A q \in Ranks : q # r => req'[q] = req[q]
        /\ req'[r] = [x EXCEPT !.phase = "prefill"]
    BY <1>2, <1>7
  <2>2. /\ req'[r] \in Requests(S) /\ req'[r].phase = "prefill" /\ req'[r].matched = x.matched
        /\ req'[r].hits = x.hits /\ req'[r].local = x.local /\ req'[r].agreed = x.agreed
    BY <1>2, <2>1 DEF Requests, Phases
  <2>3. ASSUME NEW p \in S PROVE live'[p] = LiveTo(setup, P, x.matched)
    <3>1. CASE j = 0
      <4>1. live'[p] = live[p] /\ x.matched = 0
        BY <1>2, <1>4, <1>5, <1>7, <3>1
      <4> QED
        BY <1>3, <4>1
    <3>2. CASE j # 0
      <4> DEFINE h == ChildHit(p, r)
                 g == x.hits[p]
      <4>1. live'[p] = Imported(h)
        BY <1>2, <1>4, <1>5, <1>7, <3>2
      <4>2. g \in Hits /\ HitHolds(setup, P, p, g) /\ Reaches(setup, g, j)
        BY <1>2, <1>3, <1>4 DEF Requests
      <4>3. h \in Hits /\ h.cached = End(P, j) /\ h.blocks = SubSeq(g.blocks, 1, j)
        BY <1>4
      <4> HIDE DEF h, g
      <4>4. g.blocks \in Seq(BlockSet) /\ Len(g.blocks) \in Nat /\ j <= Len(g.blocks)
            /\ j \in Blocks(P)
        BY <3>2, <4>2, LenProperties DEF Hits, Reaches
      <4>5. Len(h.blocks) = j /\ \A i \in 1..j : h.blocks[i] = g.blocks[i]
        BY <1>5, <4>3, <4>4, FirstBlocks
      <4>6. \A i \in 1..j : Faithful(Key(P, i), h.blocks[i])
        <5> SUFFICES ASSUME NEW i \in 1..j PROVE Faithful(Key(P, i), h.blocks[i])
          OBVIOUS
        <5>1. i \in 1..Len(g.blocks)
          BY <1>5, <4>4
        <5> QED
          BY <4>2, <4>5, <5>1 DEF HitHolds, Holds
      <4>7. setup.hybrid => HasState(h.blocks[j])
        BY <1>5, <3>2, <4>2, <4>5 DEF Reaches
      <4>8. Imported(h) = LiveTo(setup, P, End(P, j))
        BY <1>2, <4>3, <4>4, <4>5, <4>6, <4>7, ImportedHit
      <4> QED
        BY <1>4, <4>1, <4>8
    <3> QED
      BY <3>1, <3>2
  <2>4. Goes(setup, P, S, req'[r])
    BY <1>3, <2>2 DEF Goes, Restores
  <2>5. RankHolds(setup, P, S, req'[r], live', logits')
    BY <1>3, <2>2, <2>3, <2>4 DEF RankHolds
  <2>6. \A p \in Participants : p \notin S => live'[p] = live[p] /\ logits'[p] = logits[p]
    BY <1>1, <1>7
  <2> QED
    BY <1>1, <1>6, <2>1, <2>2, <2>5, <2>6, StepOfRank
<1>8. CASE /\ live' = Cleared(r)
           /\ req' = [req EXCEPT ![r].phase = "prefill", ![r].matched = 0, ![r].failed = TRUE]
  <2>1. /\ DOMAIN req' = Ranks /\ \A q \in Ranks : q # r => req'[q] = req[q]
        /\ req'[r] = [x EXCEPT !.phase = "prefill", !.matched = 0, !.failed = TRUE]
    BY <1>2, <1>8
  <2>2. /\ req'[r] \in Requests(S) /\ req'[r].phase = "prefill" /\ req'[r].matched = 0
        /\ req'[r].hits = x.hits /\ req'[r].local = x.local /\ req'[r].agreed = x.agreed
    <3> DEFINE y == [x EXCEPT !.phase = "prefill"]
    <3>1. /\ y \in Requests(S) /\ y.phase = "prefill"
          /\ y.hits = x.hits /\ y.local = x.local /\ y.agreed = x.agreed
      BY <1>2 DEF Requests, Phases
    <3> DEFINE z == [y EXCEPT !.matched = 0]
    <3>2. req'[r] = [z EXCEPT !.failed = TRUE]
      BY <2>1
    <3> HIDE DEF y, x
    <3>3. /\ z \in Requests(S) /\ z.phase = y.phase /\ z.matched = 0
          /\ z.hits = y.hits /\ z.local = y.local /\ z.agreed = y.agreed
      BY <3>1 DEF Requests
    <3> HIDE DEF z
    <3> QED
      BY <3>1, <3>2, <3>3 DEF Requests
  <2>3. \A p \in S : live'[p] = LiveTo(setup, P, 0)
    BY <1>2, <1>8, EmptyIsLive DEF Cleared
  <2>4. End(P, 0) = 0 /\ Len(P) # 0
    BY <1>2, <1>3, Ends
  <2>5. Goes(setup, P, S, req'[r])
    <3>1. 0 \in {0} \cup Blocks(P) /\ req'[r].matched = End(P, 0)
      BY <2>2, <2>4
    <3>2. Reaches(setup, req'[r].local, 0) /\ \A p \in S : Reaches(setup, req'[r].hits[p], 0)
      BY DEF Reaches
    <3> QED
      BY <1>3, <2>2, <2>4, <3>1, <3>2 DEF Goes
  <2>6. RankHolds(setup, P, S, req'[r], live', logits')
    BY <1>3, <2>2, <2>3, <2>5 DEF RankHolds
  <2>7. \A p \in Participants : p \notin S => live'[p] = live[p] /\ logits'[p] = logits[p]
    BY <1>1, <1>8 DEF Cleared
  <2> QED
    BY <1>1, <1>6, <2>1, <2>2, <2>6, <2>7, StepOfRank
<1> QED
  BY <1>1, <1>7, <1>8

LEMMA ForwardSuffixKeeps ==
  ASSUME RequestIInv, UNCHANGED setup, ForwardSuffix
  PROVE  RequestIInv'
<1> DEFINE P == prompt_tokens
           n == Len(P)
           start == req[1].matched
           fed == [p \in Participants |-> Fed(live[p], Suffix(P, start))]
<1>1. /\ \A r \in Ranks : Forwards(r) /\ req[r].matched = start
      /\ live' = fed
      /\ logits' = [p \in Participants |->
                      IF p \in setup.owners THEN LastRow(fed[p]) ELSE logits[p]]
      /\ req' = [r \in Ranks |-> [req[r] EXCEPT !.phase = "harvest"]]
      /\ UNCHANGED <<store, prompt_tokens>>
  BY DEF ForwardSuffix
<1>2. RequestTypes /\ RanksHold /\ P \in Seq(Tokens) /\ n \in Nat
  BY SetupFacts, LenProperties DEF RequestIInv
<1>3. \A r \in Ranks : req[r].phase = "prefill" /\ req[r].matched = start /\ start < n
  BY <1>1 DEF Forwards
<1>4. P \in setup.prompts /\ P # << >> /\ 1 \in Ranks
  <2>1. 1 \in Ranks
    BY <1>2, SetupFacts
  <2>2. P \in setup.prompts
    BY <1>2, <1>3, <2>1 DEF RanksHold, RankHolds
  <2> QED
    BY <1>2, <2>1, <2>2, SetupFacts
<1>5. start \in 0..n
  <2>1. start \in Nat
    BY <1>2, <1>4 DEF RequestTypes, Requests
  <2> QED
    BY <1>2, <1>3, <1>4, <2>1
<1>6. ASSUME NEW r \in Ranks, NEW p \in setup.ranks[r]
      PROVE  /\ live'[p] = LiveTo(setup, P, n)
             /\ p \in setup.owners => logits'[p] = P
  <2>1. live[p] = LiveTo(setup, P, start)
    BY <1>2, <1>3 DEF RanksHold, RankHolds
  <2>2. p \in Participants
    BY <1>2, SetupFacts
  <2>3. fed[p] = LiveTo(setup, P, n)
    BY <1>2, <1>5, <2>1, <2>2, FedRest
  <2>4. LastRow(LiveTo(setup, P, n)) = P
    BY <1>2, <1>4, LastOfPrompt
  <2> HIDE DEF fed
  <2> QED
    BY <1>1, <2>2, <2>3, <2>4
<1> HIDE DEF fed, start
<1>7. ASSUME NEW r \in Ranks
      PROVE  /\ req'[r] \in Requests(setup.ranks[r])
             /\ RankHolds(setup, prompt_tokens', setup.ranks[r], req'[r], live', logits')
  <2>1. req'[r] = [req[r] EXCEPT !.phase = "harvest"] /\ req[r] \in Requests(setup.ranks[r])
    BY <1>1, <1>2 DEF RequestTypes
  <2>2. /\ req'[r] \in Requests(setup.ranks[r]) /\ req'[r].phase = "harvest"
        /\ req'[r].hits = req[r].hits
    BY <2>1 DEF Requests, Phases
  <2>3. \A p \in setup.ranks[r] : HitHolds(setup, P, p, req[r].hits[p])
    BY <1>2 DEF RanksHold, RankHolds
  <2>4. RankHolds(setup, P, setup.ranks[r], req'[r], live', logits')
    BY <1>4, <1>6, <2>2, <2>3 DEF RankHolds
  <2> QED
    BY <1>1, <2>2, <2>4
<1>8. DOMAIN req' = Ranks /\ prompt_tokens' \in {<< >>} \cup setup.prompts
  BY <1>1, <1>4
<1> QED
  BY <1>1, <1>7, <1>8, StepOfAll

(* A rank whose hit is the whole prompt. *)
LEMMA WholeHit ==
  ASSUME RequestIInv, NEW r \in Ranks, FullHit(r)
  PROVE  \E j \in Blocks(prompt_tokens) :
           /\ prompt_tokens \in setup.prompts /\ req[r].matched = Len(prompt_tokens)
           /\ End(prompt_tokens, j) = Len(prompt_tokens)
           /\ \A p \in setup.ranks[r] :
                /\ live[p] = LiveTo(setup, prompt_tokens, Len(prompt_tokens))
                /\ Len(req[r].hits[p].blocks) = j
                /\ ChildHit(p, r).logits <=> req[r].hits[p].logits
                /\ ChildHit(p, r).logits =>
                     ChildHit(p, r).blocks[Len(ChildHit(p, r).blocks)].tail.logits = prompt_tokens
           /\ Len(req[r].local.blocks) = j
           /\ CommonHit(r).logits <=> req[r].local.logits /\ req[r].agreed.logits
           /\ CommonHit(r).logits => setup.terminal
<1> DEFINE P == prompt_tokens
           x == req[r]
           S == setup.ranks[r]
<1>1. /\ RequestTypes /\ x \in Requests(S) /\ RankHolds(setup, P, S, x, live, logits)
      /\ P \in Seq(Tokens)
  BY SetupFacts DEF RequestIInv, RequestTypes, RanksHold
<1>2. x.phase = "prefill" /\ x.matched = Len(P)
  BY DEF FullHit
<1>3. /\ P \in setup.prompts /\ P # << >> /\ Goes(setup, P, S, x)
      /\ \A p \in S : HitHolds(setup, P, p, x.hits[p]) /\ live[p] = LiveTo(setup, P, Len(P))
  BY <1>1, <1>2, SetupFacts DEF RankHolds
<1>4. PICK j \in {0} \cup Blocks(P) :
           /\ x.matched = End(P, j)
           /\ CommonHit(r).logits <=>
                j # 0 /\ j = Len(x.local.blocks) /\ x.local.logits /\ x.agreed.logits
           /\ \A p \in S :
                /\ Reaches(setup, x.hits[p], j)
                /\ ChildHit(p, r).blocks = SubSeq(x.hits[p].blocks, 1, j)
                /\ ChildHit(p, r).logits <=>
                     /\ j # 0 /\ j = Len(x.hits[p].blocks) /\ x.hits[p].logits
  BY <1>2, ActingHits
<1>5. Len(P) \in Nat /\ Len(P) # 0 /\ End(P, j) = Len(P) /\ j # 0 /\ j \in Blocks(P) /\ j \in Nat
  <2>1. Len(P) \in Nat /\ Len(P) # 0 /\ End(P, j) = Len(P)
    <3>1. Len(P) \in Nat /\ Len(P) # 0
      BY <1>1, <1>3, EmptySeq
    <3>2. End(P, j) = x.matched
      BY <1>4
    <3> QED
      BY <3>1, <3>2, <1>2
  <2>2. j # 0
    BY <1>1, <2>1, Ends
  <2> QED
    BY <1>1, <2>1, <2>2, Ends
<1>6. \A i \in {0} \cup Blocks(P) : i >= j => i = j
  <2>1. PICK k \in {0} \cup Blocks(P) :
          End(P, k) = Len(P) /\ \A i \in {0} \cup Blocks(P) : i <= k
    BY <1>1, EndOfPrompt
  <2>2. k = j
    BY <1>1, <1>5, <2>1, EndsOrdered
  <2>3. \A i \in {0} \cup Blocks(P) : i \in Nat
    BY <1>1, Ends
  <2> QED
    BY <1>5, <2>1, <2>2, <2>3
<1>7. Len(x.local.blocks) = j
  <2>1. Len(x.local.blocks) \in {0} \cup Blocks(P)
    BY <1>3 DEF Goes, Bounded
  <2>2. PICK i \in {0} \cup Blocks(P) : x.matched = End(P, i) /\ Reaches(setup, x.local, i)
    BY <1>3 DEF Goes
  <2>3. i = j
    <3>1. End(P, i) = End(P, j)
      BY <1>4, <2>2
    <3> QED
      BY ONLY <1>1, <3>1, EndsOrdered
  <2>4. j <= Len(x.local.blocks)
    BY <1>5, <2>2, <2>3 DEF Reaches
  <2> QED
    BY <1>5, <1>6, <2>1, <2>4
<1>8. ASSUME NEW p \in S
      PROVE  /\ Len(x.hits[p].blocks) = j
             /\ ChildHit(p, r).logits <=> x.hits[p].logits
             /\ ChildHit(p, r).logits =>
                  ChildHit(p, r).blocks[Len(ChildHit(p, r).blocks)].tail.logits = P
  <2> DEFINE g == x.hits[p]
             b == SubSeq(g.blocks, 1, j)
  <2>1. g \in Hits /\ HitHolds(setup, P, p, g) /\ Reaches(setup, g, j)
    BY <1>1, <1>3, <1>4 DEF Requests
  <2>2. ChildHit(p, r).blocks = b /\ (ChildHit(p, r).logits <=> (j = Len(g.blocks) /\ g.logits))
    BY <1>4, <1>5
  <2> HIDE DEF g
  <2>3. Len(g.blocks) \in {0} \cup Blocks(P) /\ j <= Len(g.blocks) /\ g.blocks \in Seq(BlockSet)
    BY <1>5, <2>1 DEF HitHolds, Bounded, Reaches, Hits
  <2>4. Len(g.blocks) = j
    BY <1>5, <1>6, <2>3
  <2>5. Len(b) = j /\ b[j] = g.blocks[j]
    BY <1>5, <2>3, <2>4, FirstBlocks
  <2> HIDE DEF b
  <2>6. ASSUME g.logits PROVE b[Len(b)].tail.logits = P
    <3>1. HasLogits(g.blocks[j])
      BY <2>1, <2>4, <2>6 DEF HitHolds
    <3>2. Faithful(Key(P, j), g.blocks[j])
      BY <1>5, <2>1, <2>4 DEF HitHolds, Holds
    <3>3. Key(P, j) = P
      BY <1>1, <1>5, RowsAll DEF Key
    <3> QED
      BY <2>5, <3>1, <3>2, <3>3 DEF Faithful
  <2> QED
    BY <2>2, <2>4, <2>6 DEF g
<1>9. CommonHit(r).logits => setup.terminal
  BY <1>3, <1>4 DEF Goes
<1> QED
  BY <1>2, <1>3, <1>4, <1>5, <1>7, <1>8, <1>9

LEMMA RestoreTerminalKeeps ==
  ASSUME RequestIInv, UNCHANGED setup, NEW r \in Ranks, RestoreTerminal(r)
  PROVE  RequestIInv'
<1> DEFINE P == prompt_tokens
           x == req[r]
           S == setup.ranks[r]
<1>1. /\ FullHit(r) /\ CanRestore(r, S) /\ UNCHANGED <<store, live, prompt_tokens>>
      /\ logits' = Restored(r, S) /\ req' = [req EXCEPT ![r].phase = "harvest"]
  BY DEF RestoreTerminal
<1>2. /\ RequestTypes /\ x \in Requests(S) /\ RankHolds(setup, P, S, x, live, logits)
      /\ DOMAIN req = Ranks /\ S \subseteq Participants
  BY SetupFacts DEF RequestIInv, RequestTypes, RanksHold
<1>3. \A p \in S : HitHolds(setup, P, p, x.hits[p])
  BY <1>2 DEF RankHolds
<1>4. /\ P \in setup.prompts /\ setup.terminal
      /\ \A p \in S :
           /\ live[p] = LiveTo(setup, P, Len(P))
           /\ ChildHit(p, r).logits =>
                ChildHit(p, r).blocks[Len(ChildHit(p, r).blocks)].tail.logits = P
  <2>1. CommonHit(r).logits
    BY <1>1 DEF CanRestore
  <2> QED
    BY <1>1, <2>1, WholeHit
<1>5. /\ DOMAIN req' = Ranks /\ \A q \in Ranks : q # r => req'[q] = req[q]
      /\ req'[r] = [x EXCEPT !.phase = "harvest"]
  BY <1>1, <1>2
<1>6. req'[r] \in Requests(S) /\ req'[r].phase = "harvest" /\ req'[r].hits = x.hits
  BY <1>2, <1>5 DEF Requests, Phases
<1>7. ASSUME NEW p \in S, p \in setup.owners PROVE logits'[p] = P
  <2>1. p \in Restoring \cap S /\ p \in Participants
    BY <1>2, <1>4, <1>7 DEF Restoring
  <2>2. ChildHit(p, r).logits
    BY <1>1, <2>1 DEF CanRestore
  <2>3. logits'[p] = ChildHit(p, r).blocks[Len(ChildHit(p, r).blocks)].tail.logits
    BY <1>1, <2>1 DEF Restored
  <2> QED
    BY <1>4, <2>2, <2>3
<1>8. RankHolds(setup, P, S, req'[r], live', logits')
  BY <1>1, <1>3, <1>4, <1>6, <1>7 DEF RankHolds
<1>9. \A p \in Participants : p \notin S => live'[p] = live[p] /\ logits'[p] = logits[p]
  BY <1>1 DEF Restored
<1>10. StoresHold' /\ store' \in [Participants -> [Keys -> BlockSet \cup {None}]]
  BY <1>1, StoresKept
<1> QED
  BY <1>1, <1>5, <1>6, <1>8, <1>9, <1>10, StepOfRank

(* Where recomputing the last block would go wrong, a full hit restores.   *)
LEMMA RestoresFull ==
  ASSUME RequestIInv, NEW r \in Ranks, FullHit(r),
         Restores(setup, setup.ranks[r], req[r]), NEW children \in SUBSET setup.ranks[r]
  PROVE  CanRestore(r, children)
<1>1. PICK j \in Blocks(prompt_tokens) :
           /\ \A p \in setup.ranks[r] : ChildHit(p, r).logits <=> req[r].hits[p].logits
           /\ CommonHit(r).logits <=> req[r].local.logits /\ req[r].agreed.logits
  BY WholeHit
<1>2. Restoring = RestoringIn(setup)
  BY DEF Restoring, RestoringIn
<1> QED
  BY <1>1, <1>2 DEF CanRestore, Restores

LEMMA RecomputeLastBlockKeeps ==
  ASSUME RequestIInv, Safe(setup), UNCHANGED setup, NEW r \in Ranks, RecomputeLastBlock(r)
  PROVE  RequestIInv'
<1> DEFINE P == prompt_tokens
           x == req[r]
           S == setup.ranks[r]
<1>1. /\ FullHit(r) /\ UNCHANGED <<store, prompt_tokens>> /\ live' = Cleared(r)
      /\ req' = [req EXCEPT ![r].phase = "populate", ![r].matched = StepBack(@),
                            ![r].failed = @ \/ CanRestore(r, S)]
  BY DEF RecomputeLastBlock
<1>2. PICK failed \in S :
        LET before == {p \in S : p < failed}
        IN /\ setup.ioFails \/ ~CanRestore(r, before \cup {failed})
           /\ logits' = Restored(r, before)
  BY DEF RecomputeLastBlock
<1>3. /\ RequestTypes /\ x \in Requests(S) /\ RankHolds(setup, P, S, x, live, logits)
      /\ DOMAIN req = Ranks /\ S \subseteq Participants /\ P \in Seq(Tokens)
  BY SetupFacts DEF RequestIInv, RequestTypes, RanksHold
<1>4. x.phase = "prefill" /\ x.matched = Len(P)
  BY <1>1 DEF FullHit
<1>5. /\ P \in setup.prompts /\ Goes(setup, P, S, x)
      /\ \A p \in S : HitHolds(setup, P, p, x.hits[p])
  BY <1>3, <1>4 DEF RankHolds
<1>6. ~setup.hybrid /\ Len(P) % BlockSize = 0
  <2> SUFFICES ASSUME setup.hybrid \/ Len(P) % BlockSize # 0 PROVE FALSE
    OBVIOUS
  <2>1. ~setup.ioFails
    BY <1>5 DEF Safe
  <2>2. Restores(setup, S, x)
    BY <1>4, <1>5 DEF Goes
  <2>3. {p \in S : p < failed} \cup {failed} \in SUBSET S
    OBVIOUS
  <2>4. CanRestore(r, {p \in S : p < failed} \cup {failed})
    BY <1>1, <2>2, <2>3, RestoresFull
  <2> QED
    BY <1>2, <2>1, <2>4
<1>7. PICK j \in Blocks(P) :
        /\ End(P, j) = Len(P) /\ Len(x.local.blocks) = j
        /\ \A p \in S : Len(x.hits[p].blocks) = j
  BY <1>1, WholeHit
<1>8. j \in Nat /\ j # 0 /\ j \in {0} \cup Blocks(P) /\ j - 1 \in Nat /\ j - 1 <= j
  BY <1>3, Ends DEF Blocks
<1>9. End(P, j) = j * BlockSize
  <2>1. /\ End(P, j) <= (j - 1) * BlockSize + BlockSize /\ (j - 1) * BlockSize < End(P, j)
        /\ (j - 1) * BlockSize \in Nat /\ End(P, j) \in Nat
    BY <1>3, <1>8, Ends
  <2>2. BlockSize \in Nat /\ BlockSize > 0 /\ j * BlockSize = (j - 1) * BlockSize + BlockSize
        /\ j * BlockSize \in Nat
    BY <1>8, Assumed
  <2> SUFFICES ASSUME End(P, j) < j * BlockSize PROVE FALSE
    BY <2>1, <2>2
  <2>3. End(P, j) % BlockSize = End(P, j) - (j - 1) * BlockSize
    <3>1. (j - 1) * BlockSize <= End(P, j) /\ End(P, j) < (j - 1) * BlockSize + BlockSize
      BY <2>1, <2>2
    <3> HIDE DEF End
    <3> QED
      BY <1>8, <2>1, <3>1, DivisionIs
  <2> QED
    BY <1>6, <1>7, <2>1, <2>3
<1>10. StepBack(x.matched) = End(P, j - 1) /\ j - 1 \in {0} \cup Blocks(P)
  BY <1>3, <1>4, <1>7, <1>9, StepsBackToBoundary
<1>11. End(P, j - 1) \in Nat /\ End(P, j - 1) # Len(P)
  BY <1>3, <1>7, <1>8, <1>10, Ends, EndsOrdered
<1>12. /\ DOMAIN req' = Ranks /\ \A q \in Ranks : q # r => req'[q] = req[q]
       /\ req'[r] = [x EXCEPT !.phase = "populate", !.matched = StepBack(x.matched),
                              !.failed = x.failed \/ CanRestore(r, S)]
  BY <1>1, <1>3
<1>13. /\ req'[r] \in Requests(S) /\ req'[r].phase = "populate"
       /\ req'[r].matched = End(P, j - 1)
       /\ req'[r].hits = x.hits /\ req'[r].local = x.local /\ req'[r].agreed = x.agreed
  <2> DEFINE y == [x EXCEPT !.phase = "populate"]
             e == End(P, j - 1)
             f == x.failed \/ CanRestore(r, S)
  <2>1. /\ y \in Requests(S) /\ y.phase = "populate"
        /\ y.hits = x.hits /\ y.local = x.local /\ y.agreed = x.agreed
    BY <1>3 DEF Requests, Phases
  <2> DEFINE z == [y EXCEPT !.matched = e]
  <2>2. req'[r] = [z EXCEPT !.failed = f] /\ e \in Nat /\ f \in BOOLEAN
    BY <1>10, <1>11, <1>12
  <2> HIDE DEF y, x, e, f
  <2>3. /\ z \in Requests(S) /\ z.phase = y.phase /\ z.matched = e
        /\ z.hits = y.hits /\ z.local = y.local /\ z.agreed = y.agreed
    BY <2>1, <2>2 DEF Requests
  <2> HIDE DEF z
  <2>4. /\ req'[r] \in Requests(S) /\ req'[r].phase = z.phase /\ req'[r].matched = z.matched
        /\ req'[r].hits = z.hits /\ req'[r].local = z.local /\ req'[r].agreed = z.agreed
    BY <2>2, <2>3 DEF Requests
  <2> QED
    BY <2>1, <2>3, <2>4 DEF e
<1>14. \A p \in S : live'[p] = LiveTo(setup, P, 0)
  BY <1>1, <1>3, EmptyIsLive DEF Cleared
<1>15. Goes(setup, P, S, req'[r])
  <2>1. Reaches(setup, req'[r].local, j - 1) /\ \A p \in S : Reaches(setup, req'[r].hits[p], j - 1)
    BY <1>6, <1>7, <1>8, <1>13 DEF Reaches
  <2>2. Bounded(P, req'[r].local) /\ (req'[r].agreed.logits => setup.terminal)
    BY <1>5, <1>13 DEF Goes
  <2> QED
    BY <1>10, <1>11, <1>13, <2>1, <2>2 DEF Goes
<1>16. RankHolds(setup, P, S, req'[r], live', logits')
  BY <1>5, <1>13, <1>14, <1>15 DEF RankHolds
<1>17. \A p \in Participants : p \notin S => live'[p] = live[p] /\ logits'[p] = logits[p]
  BY <1>1, <1>2 DEF Cleared, Restored
<1>18. StoresHold' /\ store' \in [Participants -> [Keys -> BlockSet \cup {None}]]
  BY <1>1, StoresKept
<1> QED
  BY <1>1, <1>12, <1>13, <1>16, <1>17, <1>18, StepOfRank

LEMMA HarvestPrefixKeeps ==
  ASSUME RequestIInv, UNCHANGED setup, NEW r \in Ranks, HarvestPrefix(r)
  PROVE  RequestIInv'
<1> DEFINE P == prompt_tokens
           x == req[r]
           S == setup.ranks[r]
           p == x.next
<1>1. /\ x.phase = "harvest" /\ UNCHANGED <<live, logits, prompt_tokens>>
      /\ req' = IF IsLast(p, r) THEN [req EXCEPT ![r].phase = "ready"]
                                ELSE [req EXCEPT ![r].next = After(p, r)]
  BY DEF HarvestPrefix
<1>2. PICK before \in Cache!Remains(store[p], {}), upTo \in {0} \cup Blocks(P) :
        LET added == {i \in Blocks(P) : i <= upTo /\ before[Key(P, i)] = None}
            after == [k \in Keys |->
                        IF \E i \in added : Key(P, i) = k
                          THEN Exported(p, CHOOSE i \in added : Key(P, i) = k)
                          ELSE before[k]]
        IN \E left \in Cache!Remains(after, {}) : store' = [store EXCEPT ![p] = left]
  BY DEF HarvestPrefix
<1> DEFINE added == {i \in Blocks(P) : i <= upTo /\ before[Key(P, i)] = None}
           after == [k \in Keys |->
                      IF \E i \in added : Key(P, i) = k
                        THEN Exported(p, CHOOSE i \in added : Key(P, i) = k)
                        ELSE before[k]]
<1>3. PICK left \in Cache!Remains(after, {}) : store' = [store EXCEPT ![p] = left]
  BY <1>2
<1>4. /\ RequestTypes /\ StoresHold /\ x \in Requests(S)
      /\ RankHolds(setup, P, S, x, live, logits)
      /\ DOMAIN req = Ranks /\ S \subseteq Participants /\ S \in SUBSET Nat
  BY SetupFacts DEF RequestIInv, RequestTypes, RanksHold
<1>5. p \in S /\ p \in Participants
  BY <1>4 DEF Requests
<1>6. /\ P \in setup.prompts
      /\ \A q \in S : /\ HitHolds(setup, P, q, x.hits[q])
                      /\ live[q] = LiveTo(setup, P, Len(P))
                      /\ q \in setup.owners => logits[q] = P
  BY <1>1, <1>4 DEF RankHolds
<1>7. /\ before \in [Keys -> BlockSet \cup {None}]
      /\ \A k \in Keys : before[k] = store[p][k] \/ before[k] = None
  <2>1. store[p] \in [Keys -> BlockSet \cup {None}]
    BY <1>4, <1>5 DEF RequestTypes
  <2> HIDE DEF p
  <2> QED
    BY <2>1, Remaining
<1>8. ASSUME NEW k \in Keys
      PROVE  /\ after[k] \in BlockSet \cup {None}
             /\ after[k] # None => Holds(setup, p, k, after[k])
  <2>1. CASE \E i \in added : Key(P, i) = k
    <3> DEFINE i == CHOOSE i \in added : Key(P, i) = k
    <3>1. i \in added /\ Key(P, i) = k /\ after[k] = Exported(p, i)
      BY <2>1
    <3> HIDE DEF i, after
    <3>2. i \in Blocks(P)
      BY <3>1
    <3>3. Exported(p, i) \in BlockSet /\ Holds(setup, p, Key(P, i), Exported(p, i))
      BY <1>4, <1>5, <1>6, <3>2, ExportedBlock
    <3> QED
      BY <3>1, <3>3
  <2>2. CASE ~\E i \in added : Key(P, i) = k
    <3>1. after[k] = before[k]
      BY <2>2
    <3> HIDE DEF after
    <3> QED
      BY <1>4, <1>5, <1>7, <3>1 DEF StoresHold
  <2> QED
    BY <2>1, <2>2
<1>9. after \in [Keys -> BlockSet \cup {None}]
  BY <1>8
<1> HIDE DEF after, p
<1>10. StoresHold' /\ store' \in [Participants -> [Keys -> BlockSet \cup {None}]]
  <2>1. /\ left \in [Keys -> BlockSet \cup {None}]
        /\ \A k \in Keys : left[k] = after[k] \/ left[k] = None
    BY <1>3, <1>9, Remaining
  <2>2. \A k \in Keys : left[k] # None => Holds(setup, p, k, left[k])
    BY <1>8, <2>1
  <2> QED
    BY <1>3, <1>5, <2>1, <2>2, StoreChanged
<1>11. /\ DOMAIN req' = Ranks /\ \A q \in Ranks : q # r => req'[q] = req[q]
       /\ req'[r] \in Requests(S) /\ req'[r].phase \in {"harvest", "ready"}
       /\ req'[r].hits = x.hits
  <2>1. CASE IsLast(p, r)
    <3>1. /\ DOMAIN req' = Ranks /\ \A q \in Ranks : q # r => req'[q] = req[q]
          /\ req'[r] = [x EXCEPT !.phase = "ready"]
      BY <1>1, <1>4, <2>1 DEF p
    <3> QED
      BY <1>4, <3>1 DEF Requests, Phases
  <2>2. CASE ~IsLast(p, r)
    <3> DEFINE T == {q \in S : q > p}
    <3>1. After(p, r) \in S
      <4>1. T \in SUBSET Nat /\ T # {}
        BY <1>4, <1>5, <2>2 DEF IsLast
      <4>2. Least(T) \in T
        <5> HIDE DEF T
        <5> QED
          BY <4>1, LeastIn
      <4> QED
        BY <4>2 DEF After
    <3>2. /\ DOMAIN req' = Ranks /\ \A q \in Ranks : q # r => req'[q] = req[q]
          /\ req'[r] = [x EXCEPT !.next = After(p, r)]
      BY <1>1, <1>4, <2>2 DEF p
    <3>3. req'[r] \in Requests(S) /\ req'[r].phase = x.phase /\ req'[r].hits = x.hits
      BY <1>4, <3>1, <3>2 DEF Requests
    <3> QED
      BY <1>1, <3>2, <3>3
  <2> QED
    BY <2>1, <2>2
<1>12. RankHolds(setup, P, S, req'[r], live', logits')
  BY <1>1, <1>6, <1>11 DEF RankHolds
<1> QED
  BY <1>1, <1>10, <1>11, <1>12, StepOfRank

-----------------------------------------------------------------------------
(* The invariant, and what it says of every run. *)

LEMMA StandingKeeps ==
  ASSUME RequestIInv, UNCHANGED <<setup, store, live, logits, prompt_tokens, req>>
  PROVE  RequestIInv'
<1>1. Ranks' = Ranks /\ Participants' = Participants
  BY SameSetup
<1>2. StoresHold' /\ store' \in [Participants -> [Keys -> BlockSet \cup {None}]]
  BY StoresKept
<1> QED
  BY <1>1, <1>2 DEF RequestIInv, RequestTypes, RanksHold

LEMMA StepKeeps ==
  ASSUME RequestIInv, Safe(setup), [Next]_vars
  PROVE  RequestIInv' /\ UNCHANGED setup
<1>1. CASE UNCHANGED vars
  <2>1. UNCHANGED <<setup, store, live, logits, prompt_tokens, req>>
    BY <1>1 DEF vars
  <2> QED
    BY <2>1, StandingKeeps
<1>2. CASE Next
  <2>1. UNCHANGED setup
    BY <1>2 DEF Next
  <2>2. ASSUME NEW prompt \in setup.prompts, Submit(prompt) PROVE RequestIInv'
    BY <2>1, <2>2, SubmitKeeps
  <2>3. ASSUME NEW r \in Ranks, LookupPrefix(r) PROVE RequestIInv'
    BY <2>1, <2>3, LookupPrefixKeeps
  <2>4. ASSUME NEW r \in Ranks, PopulatePrefix(r) PROVE RequestIInv'
    BY <2>1, <2>4, PopulatePrefixKeeps
  <2>5. ASSUME NEW r \in Ranks, RestoreTerminal(r) PROVE RequestIInv'
    BY <2>1, <2>5, RestoreTerminalKeeps
  <2>6. ASSUME NEW r \in Ranks, RecomputeLastBlock(r) PROVE RequestIInv'
    BY <2>1, <2>6, RecomputeLastBlockKeeps
  <2>7. ASSUME NEW r \in Ranks, HarvestPrefix(r) PROVE RequestIInv'
    BY <2>1, <2>7, HarvestPrefixKeeps
  <2>8. CASE Coordinate
    BY <2>1, <2>8, CoordinateKeeps
  <2>9. CASE ForwardSuffix
    BY <2>1, <2>9, ForwardSuffixKeeps
  <2>10. CASE ForwardFails
    BY <2>1, <2>10, IdleKeeps DEF ForwardFails
  <2>11. CASE Finish
    BY <2>1, <2>11, IdleKeeps DEF Finish
  <2>12. CASE StuckApart
    <3>1. UNCHANGED <<setup, store, live, logits, prompt_tokens, req>>
      BY <2>1, <2>12 DEF StuckApart
    <3> QED
      BY <3>1, StandingKeeps
  <2> QED
    BY <1>2, <2>1, <2>2, <2>3, <2>4, <2>5, <2>6, <2>7, <2>8, <2>9, <2>10, <2>11, <2>12
       DEF Next
<1> QED
  BY <1>1, <1>2

LEMMA Invariance ==
  ASSUME \A s \in Setups : Safe(s)
  PROVE  Spec => []RequestIInv
<1>1. Init => RequestIInv
  BY InitHolds
<1>2. RequestIInv /\ [Next]_vars => RequestIInv'
  <2>1. RequestIInv => Safe(setup)
    BY DEF RequestIInv, RequestTypes
  <2> QED
    BY <2>1, StepKeeps
<1> QED
  BY <1>1, <1>2, PTL DEF Spec

(* Whatever of a prompt comes from the prefix cache, and whatever fails on *)
(* the way, a prefill that has its logits has the KV rows, the recurrent   *)
(* state and the logits of the whole prompt, on every participant, with    *)
(* any block size, any prompts and any number of devices and ranks.        *)
THEOREM PrefillComputesPromptHolds ==
  ASSUME \A s \in Setups : Safe(s)
  PROVE  Spec => []PrefillComputesPrompt
<1>1. RequestIInv => PrefillComputesPrompt
  <2> SUFFICES ASSUME RequestIInv, NEW r \in Ranks, Computed(r), NEW p \in setup.ranks[r]
               PROVE  /\ live[p].rows = Rows(prompt_tokens)
                      /\ setup.hybrid => live[p].state = prompt_tokens
                      /\ p \in setup.owners => logits[p] = prompt_tokens
    BY DEF PrefillComputesPrompt
  <2>1. prompt_tokens \in Seq(Tokens)
    BY SetupFacts DEF RequestIInv
  <2>2. /\ live[p] = LiveTo(setup, prompt_tokens, Len(prompt_tokens))
        /\ p \in setup.owners => logits[p] = prompt_tokens
    BY DEF RequestIInv, RanksHold, RankHolds, Computed
  <2>3. /\ live[p].rows = RowsTo(prompt_tokens, Len(prompt_tokens))
        /\ setup.hybrid => live[p].state = SubSeq(prompt_tokens, 1, Len(prompt_tokens))
    BY <2>2 DEF LiveTo
  <2> QED
    BY <2>1, <2>2, <2>3, RowsAll
<1> QED
  BY <1>1, Invariance, PTL

(* No block in any cache holds anything but what its key says, whatever    *)
(* requests the caches have served, whatever they have forgotten and       *)
(* whatever failed: no request poisons a later one.                        *)
THEOREM StoreIsHonestHolds ==
  ASSUME \A s \in Setups : Safe(s)
  PROVE  Spec => []StoreIsHonest
<1>1. RequestIInv => StoreIsHonest
  BY DEF RequestIInv, StoresHold, Holds, Faithful, StoreIsHonest
<1> QED
  BY <1>1, Invariance, PTL

-----------------------------------------------------------------------------
(* What the ranks feed. *)

(* Where a rank that failed at nothing ends up starting its suffix: it     *)
(* gives a block back if, of a full hit or, with MTP, of any, the logits   *)
(* are not all there or its own hit was longer.                            *)
GivesBack(x) ==
  ~(x.agreed.logits /\ x.local.logits /\ x.local.cached = x.agreed.cached)
Final(s, prompt, x) ==
  IF GivesBack(x) /\ (x.agreed.cached = Len(prompt) \/ s.mtp)
    THEN StepBack(x.agreed.cached) ELSE x.agreed.cached

(* What the reductions left a rank with ... *)
Agrees(s, prompt, S, x) ==
  /\ x.agreed.cached \in Nat /\ x.local.cached \in Nat
  /\ x.agreed.cached <= x.local.cached /\ x.local.cached <= Len(prompt)
  /\ x.agreed.logits /\ s.owners \cap S # {} => x.local.logits
  /\ x.local.logits => /\ s.owners \cap S # {}
                       /\ \A p \in RestoringIn(s) \cap S : x.hits[p].logits

(* ... and where it is with that, if it failed at nothing since. *)
Proceeds(s, prompt, x) ==
  \/ x.failed
  \/ x.matched = Final(s, prompt, x)
  \/ /\ x.phase \in {"populate", "prefill"}
     /\ x.matched = x.agreed.cached /\ x.agreed.cached = Len(prompt)

Follows(s, prompt, S, x) ==
  x.phase \in {"populate", "prefill", "harvest", "ready"} =>
    Agrees(s, prompt, S, x) /\ Proceeds(s, prompt, x)

RanksFollow ==
  /\ \A q, r \in Ranks : req[q].agreed = req[r].agreed
  /\ \A r \in Ranks : Follows(setup, prompt_tokens, setup.ranks[r], req[r])

LEMMA RankFollowsOn ==
  ASSUME RanksFollow, UNCHANGED <<setup, prompt_tokens>>, NEW r \in Ranks,
         \A q \in Ranks : q # r => req'[q] = req[q],
         req'[r].agreed = req[r].agreed,
         Follows(setup, prompt_tokens, setup.ranks[r], req'[r])
  PROVE  RanksFollow'
<1>1. Ranks' = Ranks
  BY SameSetup
<1>2. \A q \in Ranks : req'[q].agreed = req[q].agreed
  OBVIOUS
<1>3. \A p, q \in Ranks : req'[p].agreed = req'[q].agreed
  BY <1>2 DEF RanksFollow
<1>4. \A q \in Ranks : Follows(setup, prompt_tokens, setup.ranks[q], req'[q])
  BY DEF RanksFollow
<1> QED
  BY <1>1, <1>3, <1>4 DEF RanksFollow

(* Once agreed, nothing of the agreement changes during the request. *)
LEMMA AgreesOn ==
  ASSUME NEW s, NEW prompt, NEW S, NEW x, NEW y, Agrees(s, prompt, S, x),
         y.agreed = x.agreed, y.local = x.local, y.hits = x.hits
  PROVE  Agrees(s, prompt, S, y) /\ Final(s, prompt, y) = Final(s, prompt, x)
BY DEF Agrees, Final, GivesBack

LEMMA IdleFollows ==
  ASSUME NEW r, NEW s, NEW prompt, NEW S
  PROVE  /\ Idle(r).agreed = NoHit /\ Follows(s, prompt, S, Idle(r))
         /\ [Idle(r) EXCEPT !.phase = "lookup"].agreed = NoHit
         /\ Follows(s, prompt, S, [Idle(r) EXCEPT !.phase = "lookup"])
<1>1. Idle(r) = [phase |-> "idle", hits |-> [p \in setup.ranks[r] |-> NoHit], local |-> NoHit,
                 agreed |-> NoHit, matched |-> 0, failed |-> FALSE, next |-> First(r)]
  BY Zenon DEF Idle
<1>2. /\ Idle(r).agreed = NoHit /\ Idle(r).phase = "idle"
      /\ [Idle(r) EXCEPT !.phase = "lookup"].agreed = NoHit
      /\ [Idle(r) EXCEPT !.phase = "lookup"].phase = "lookup"
  <2> DEFINE f == First(r)
             g == [p \in setup.ranks[r] |-> NoHit]
  <2>1. Idle(r) = [phase |-> "idle", hits |-> g, local |-> NoHit,
                   agreed |-> NoHit, matched |-> 0, failed |-> FALSE, next |-> f]
    BY <1>1
  <2> HIDE DEF f, g
  <2> QED
    BY <2>1
<1> QED
  BY <1>2 DEF Follows

LEMMA LookupPrefixFollows ==
  ASSUME RequestIInv, RanksFollow, UNCHANGED setup, NEW r \in Ranks, LookupPrefix(r)
  PROVE  RanksFollow'
<1>1. UNCHANGED prompt_tokens /\ req[r].phase = "lookup"
  BY DEF LookupPrefix
<1>2. PICK hits, next, phase :
        req' = [req EXCEPT ![r] = [@ EXCEPT !.hits = hits, !.next = next, !.phase = phase]]
        /\ phase \in {"lookup", "coordinate"}
  <2> DEFINE p == req[r].next
             phase == IF IsLast(p, r) THEN "coordinate" ELSE "lookup"
             next == IF IsLast(p, r) THEN First(r) ELSE After(p, r)
  <2>1. PICK hit : req' = [req EXCEPT ![r].hits[p] = hit,
                                      ![r].next = next,
                                      ![r].phase = IF IsLast(p, r) THEN "coordinate" ELSE @]
    BY DEF LookupPrefix
  <2> DEFINE hits == [req[r].hits EXCEPT ![p] = hit]
  <2>2. req[r] \in Requests(setup.ranks[r]) /\ DOMAIN req = Ranks
    BY DEF RequestIInv, RequestTypes
  <2>3. req' = [req EXCEPT ![r] = [@ EXCEPT !.hits = hits, !.next = next, !.phase = phase]]
    BY <1>1, <2>1, <2>2 DEF Requests
  <2>4. phase \in {"lookup", "coordinate"}
    OBVIOUS
  <2> QED
    BY <2>3, <2>4
<1>3. /\ \A q \in Ranks : q # r => req'[q] = req[q]
      /\ req'[r] = [req[r] EXCEPT !.hits = hits, !.next = next, !.phase = phase]
      /\ req[r] \in Requests(setup.ranks[r])
  BY <1>2 DEF RequestIInv, RequestTypes
<1>4. req'[r].agreed = req[r].agreed /\ req'[r].phase = phase
  BY <1>3 DEF Requests
<1>5. Follows(setup, prompt_tokens, setup.ranks[r], req'[r])
  BY <1>2, <1>4 DEF Follows
<1> QED
  BY <1>1, <1>3, <1>4, <1>5, RankFollowsOn

(* The reductions set all ranks to the agreed hit; only MTP sets a rank    *)
(* back, and for what it gives back by in any case.                        *)
LEMMA CoordinateFollows ==
  ASSUME RequestIInv, Safe(setup), RanksFollow, UNCHANGED setup, Coordinate
  PROVE  RanksFollow'
<1> DEFINE P == prompt_tokens
           n == Len(P)
           local == [r \in Ranks |->
             Aggregate(prompt_tokens, req[r].hits, setup.owners \cap setup.ranks[r])]
           needing == {r \in Ranks : setup.terminal /\
             \E p \in setup.owners \cap setup.ranks[r] : req[r].hits[p].cached > 0}
           agreed == Coordinated(prompt_tokens, local, needing)
           Lacks(r) ==
             ~(ClampedTo(prompt_tokens, local[r], agreed.cached).logits /\ agreed.logits)
           matched(r) == IF setup.mtp /\ agreed.cached \in 1..(Len(prompt_tokens) - 1) /\ Lacks(r)
                           THEN StepBack(agreed.cached) ELSE agreed.cached
<1>1. /\ \A r \in Ranks : req[r].phase = "coordinate"
      /\ req' = [r \in Ranks |-> [req[r] EXCEPT
                   !.phase = "populate", !.local = local[r], !.agreed = agreed,
                   !.matched = matched(r)]]
      /\ UNCHANGED prompt_tokens
  BY DEF Coordinate
<1>2. RequestTypes /\ RanksHold /\ P \in Seq(Tokens) /\ 1 \in Ranks
  BY SetupFacts DEF RequestIInv
<1>3. P \in setup.prompts /\ n # 0 /\ n \in Nat
  <2>1. P \in setup.prompts
    BY <1>1, <1>2 DEF RanksHold, RankHolds
  <2> QED
    BY <1>2, <2>1, SetupFacts, EmptySeq, LenProperties
<1>4. PICK m \in {0} \cup Blocks(P) : AgreedAt(local, needing, agreed, m)
  <2> DEFINE l == local
             d == needing
             a == agreed
  <2>1. /\ l = [r \in Ranks |->
                 Aggregate(prompt_tokens, req[r].hits, setup.owners \cap setup.ranks[r])]
        /\ d = {r \in Ranks : setup.terminal /\
                 \E p \in setup.owners \cap setup.ranks[r] : req[r].hits[p].cached > 0}
        /\ a = Coordinated(prompt_tokens, l, d)
    OBVIOUS
  <2> HIDE DEF l, d, a
  <2>2. \E m \in {0} \cup Blocks(P) : AgreedAt(l, d, a, m)
    BY <1>3, <2>1, CoordinateFinds
  <2> QED
    BY <2>2 DEF l, d, a
<1> HIDE DEF local, agreed
<1>5. /\ agreed.cached = End(P, m) /\ agreed.logits \in BOOLEAN
      /\ agreed.logits => setup.terminal
      /\ agreed.logits => \A r \in needing : local[r].logits
      /\ agreed.logits => m # 0
      /\ \A r \in Ranks :
           /\ local[r] \in Hits /\ Bounded(P, local[r]) /\ Reaches(setup, local[r], m)
           /\ \A p \in setup.ranks[r] : Reaches(setup, req[r].hits[p], m)
           /\ local[r].logits =>
                /\ setup.owners \cap setup.ranks[r] # {}
                /\ \A p \in RestoringIn(setup) \cap setup.ranks[r] : req[r].hits[p].logits
  BY <1>4 DEF AgreedAt
<1>6. m \in Nat /\ End(P, m) \in Nat /\ End(P, m) <= n /\ (End(P, m) = 0 <=> m = 0)
  BY <1>2, <1>3, Ends, EndsOrdered
<1>7. ASSUME NEW r \in Ranks, agreed.logits, setup.owners \cap setup.ranks[r] # {}
      PROVE  local[r].logits
  <2>1. PICK p \in setup.owners \cap setup.ranks[r] : TRUE
    BY <1>7
  <2> DEFINE h == req[r].hits[p]
  <2>2. h \in Hits /\ HitHolds(setup, P, p, h) /\ Reaches(setup, h, m) /\ m # 0
    BY <1>2, <1>5, <1>7, <2>1 DEF RequestTypes, Requests, RanksHold, RankHolds
  <2>3. h.cached > 0
    <3> HIDE DEF h
    <3>1. /\ Len(h.blocks) \in {0} \cup Blocks(P) /\ h.cached = End(P, Len(h.blocks))
          /\ m <= Len(h.blocks)
      BY <2>2 DEF HitHolds, Bounded, Reaches
    <3>2. End(P, m) <= h.cached /\ h.cached \in Nat
      BY <1>2, <3>1, Ends, EndsOrdered
    <3> QED
      BY <1>6, <2>2, <3>2
  <2>4. r \in needing
    BY <1>5, <1>7, <2>1, <2>3
  <2> QED
    BY <1>5, <1>7, <2>4
<1> HIDE DEF needing, matched
<1>8. ASSUME NEW r \in Ranks
      PROVE  /\ local[r].cached \in Nat /\ local[r].cached <= n
             /\ End(P, m) <= local[r].cached
             /\ m # 0 => (Lacks(r) <=> ~(/\ agreed.logits /\ local[r].logits
                                         /\ local[r].cached = agreed.cached))
  <2> DEFINE h == local[r]
             k == Len(h.blocks)
             l == m # 0 /\ m = k /\ h.logits
  <2>1. /\ h \in Hits /\ Bounded(P, h) /\ Reaches(setup, h, m)
        /\ k \in {0} \cup Blocks(P) /\ h.cached = End(P, k) /\ h.logits \in BOOLEAN
        /\ m # 0 => m <= k
    BY <1>5 DEF Bounded, Reaches, Hits
  <2> HIDE DEF h
  <2>2. k \in Nat /\ End(P, k) \in Nat /\ End(P, k) <= n
    BY <1>2, <2>1, Ends
  <2>3. m <= k
    BY <1>6, <2>1, <2>2
  <2>4. End(P, m) <= End(P, k) /\ (End(P, m) = End(P, k) <=> m = k)
    BY <1>2, <2>1, <2>3, EndsOrdered
  <2>5. ClampedTo(P, h, End(P, m)) =
          [cached |-> End(P, m), blocks |-> SubSeq(h.blocks, 1, m), logits |-> l]
    BY <1>2, <2>1, Clamped
  <2>6. ClampedTo(P, h, End(P, m)).logits <=> l
    <3> HIDE DEF l
    <3> QED
      BY <2>5
  <2>7. Lacks(r) <=> ~(ClampedTo(P, h, End(P, m)).logits /\ agreed.logits)
    BY <1>5 DEF h
  <2>8. m # 0 => (Lacks(r) <=> ~(agreed.logits /\ h.logits /\ h.cached = agreed.cached))
    <3>1. h.cached = agreed.cached <=> m = k
      BY <1>5, <2>1, <2>4
    <3> HIDE DEF Lacks
    <3> QED
      BY <2>6, <2>7, <3>1
  <2> HIDE DEF Lacks, k
  <2>9. h.cached \in Nat /\ h.cached <= n /\ End(P, m) <= h.cached
    BY <2>1, <2>2, <2>4
  <2> QED
    BY <2>8, <2>9 DEF h
<1> HIDE DEF Lacks
<1>9. ASSUME NEW r \in Ranks
      PROVE  /\ req'[r].phase = "populate" /\ req'[r].local = local[r]
             /\ req'[r].agreed = agreed /\ req'[r].matched = matched(r)
             /\ req'[r].hits = req[r].hits
  <2>1. req[r] \in Requests(setup.ranks[r])
    BY <1>2 DEF RequestTypes
  <2>2. req'[r] = [req[r] EXCEPT !.phase = "populate", !.local = local[r], !.agreed = agreed,
                                 !.matched = matched(r)]
    BY <1>1
  <2> QED
    BY <2>1, <2>2 DEF Requests
<1>10. ASSUME NEW r \in Ranks
       PROVE  Follows(setup, P, setup.ranks[r], req'[r])
  <2> DEFINE x == req'[r]
             c == agreed.cached
  <2>1. Agrees(setup, P, setup.ranks[r], x)
    BY <1>5, <1>6, <1>7, <1>8, <1>9 DEF Agrees
  <2>2. /\ m # 0 => (Lacks(r) <=> GivesBack(x))
        /\ x.agreed.cached = c /\ x.matched = matched(r) /\ x.phase = "populate"
    BY <1>8, <1>9 DEF GivesBack
  <2>3. c \in Nat /\ c <= n /\ (c = 0 <=> m = 0)
    BY <1>5, <1>6
  <2>4. StepBack(0) = 0
    BY Assumed DEF StepBack, AtMost
  <2> HIDE DEF x, c
  <2>5. matched(r) = IF setup.mtp /\ c \in 1..(n - 1) /\ Lacks(r) THEN StepBack(c) ELSE c
    BY DEF matched, c
  <2>6. CASE c = n
    <3>1. matched(r) = c
      BY <1>3, <2>5, <2>6
    <3> QED
      BY <2>1, <2>2, <2>6, <3>1 DEF Follows, Proceeds, x
  <2>7. CASE c # n /\ c # 0
    <3>1. c \in 1..(n - 1) /\ m # 0
      BY <1>3, <2>3, <2>7
    <3>2. matched(r) = Final(setup, P, x)
      BY <2>2, <2>5, <2>7, <3>1 DEF Final
    <3> QED
      BY <2>1, <2>2, <3>2 DEF Follows, Proceeds, x
  <2>8. CASE c = 0 /\ c # n
    <3>1. matched(r) = 0
      BY <2>5, <2>8
    <3>2. Final(setup, P, x) = 0
      BY <2>2, <2>4, <2>8 DEF Final
    <3> QED
      BY <2>1, <2>2, <3>1, <3>2 DEF Follows, Proceeds, x
  <2> QED
    BY <2>6, <2>7, <2>8
<1>11. Ranks' = Ranks
  BY SameSetup
<1>12. \A q, r \in Ranks : req'[q].agreed = req'[r].agreed
  BY <1>9
<1>13. /\ \A r \in Ranks : Follows(setup, P, setup.ranks[r], req'[r])
       /\ setup' = setup /\ prompt_tokens' = P
  BY <1>1, <1>10
<1> QED
  BY ONLY <1>11, <1>12, <1>13 DEF RanksFollow

LEMMA PopulatePrefixFollows ==
  ASSUME RequestIInv, RanksFollow, UNCHANGED setup, NEW r \in Ranks, PopulatePrefix(r)
  PROVE  RanksFollow'
<1> DEFINE P == prompt_tokens
           x == req[r]
           S == setup.ranks[r]
<1>1. /\ x.phase = "populate" /\ UNCHANGED prompt_tokens
      /\ \/ req' = [req EXCEPT ![r].phase = "prefill"]
         \/ req' = [req EXCEPT ![r].phase = "prefill", ![r].matched = 0, ![r].failed = TRUE]
  BY DEF PopulatePrefix
<1>2. x \in Requests(S) /\ DOMAIN req = Ranks /\ Follows(setup, P, S, x)
  BY DEF RequestIInv, RequestTypes, RanksFollow
<1>3. /\ \A q \in Ranks : q # r => req'[q] = req[q]
      /\ \/ req'[r] = [x EXCEPT !.phase = "prefill"]
         \/ req'[r] = [x EXCEPT !.phase = "prefill", !.matched = 0, !.failed = TRUE]
  BY <1>1, <1>2
<1>4. /\ req'[r].phase = "prefill"
      /\ req'[r].hits = x.hits /\ req'[r].local = x.local /\ req'[r].agreed = x.agreed
      /\ req'[r].failed \/ (req'[r].failed = x.failed /\ req'[r].matched = x.matched)
  <2>1. CASE req'[r] = [x EXCEPT !.phase = "prefill"]
    BY <1>2, <2>1 DEF Requests
  <2>2. CASE req'[r] = [x EXCEPT !.phase = "prefill", !.matched = 0, !.failed = TRUE]
    BY <1>2, <2>2 DEF Requests
  <2> QED
    BY <1>3, <2>1, <2>2
<1>5. Agrees(setup, P, S, x) /\ Proceeds(setup, P, x)
  BY <1>1, <1>2 DEF Follows
<1>6. Agrees(setup, P, S, req'[r]) /\ Final(setup, P, req'[r]) = Final(setup, P, x)
  BY <1>4, <1>5, AgreesOn
<1>7. Proceeds(setup, P, req'[r])
  BY <1>1, <1>4, <1>5, <1>6 DEF Proceeds
<1>8. Follows(setup, P, S, req'[r])
  BY <1>6, <1>7 DEF Follows
<1> QED
  BY <1>1, <1>3, <1>4, <1>8, RankFollowsOn

LEMMA ForwardSuffixFollows ==
  ASSUME RequestIInv, RanksFollow, UNCHANGED setup, ForwardSuffix
  PROVE  RanksFollow'
<1> DEFINE P == prompt_tokens
<1>1. /\ UNCHANGED prompt_tokens /\ \A r \in Ranks : Forwards(r)
      /\ req' = [r \in Ranks |-> [req[r] EXCEPT !.phase = "harvest"]]
  BY SetupFacts DEF ForwardSuffix, RequestIInv
<1>2. ASSUME NEW r \in Ranks
      PROVE  /\ req'[r].agreed = req[r].agreed
             /\ Follows(setup, P, setup.ranks[r], req'[r])
  <2> DEFINE x == req[r]
             S == setup.ranks[r]
  <2>1. /\ x \in Requests(S) /\ Follows(setup, P, S, x)
        /\ x.phase = "prefill" /\ x.matched < Len(P)
        /\ req'[r] = [x EXCEPT !.phase = "harvest"]
    BY <1>1 DEF RequestIInv, RequestTypes, RanksFollow, Forwards
  <2> HIDE DEF x
  <2>2. /\ req'[r].agreed = x.agreed /\ req'[r].local = x.local /\ req'[r].hits = x.hits
        /\ req'[r].matched = x.matched /\ req'[r].failed = x.failed
        /\ req'[r].phase = "harvest"
    BY <2>1 DEF Requests
  <2>3. Agrees(setup, P, S, x) /\ Proceeds(setup, P, x)
    BY <2>1 DEF Follows
  <2>4. Agrees(setup, P, S, req'[r]) /\ Final(setup, P, req'[r]) = Final(setup, P, x)
    BY <2>2, <2>3, AgreesOn
  <2>5. x.matched # Len(P)
    <3>1. x.matched \in Nat /\ Len(P) \in Nat
      BY <2>1, SetupFacts, LenProperties DEF Requests, RequestIInv
    <3> QED
      BY <2>1, <3>1
  <2>6. Proceeds(setup, P, req'[r])
    BY <2>2, <2>3, <2>4, <2>5 DEF Proceeds
  <2> QED
    BY <2>2, <2>4, <2>6 DEF Follows, x
<1>3. Ranks' = Ranks
  BY SameSetup
<1> QED
  BY <1>1, <1>2, <1>3 DEF RanksFollow

(* A full hit that is restored was of the agreed length and has its logits. *)
LEMMA RestoreTerminalFollows ==
  ASSUME RequestIInv, RanksFollow, UNCHANGED setup, NEW r \in Ranks, RestoreTerminal(r)
  PROVE  RanksFollow'
<1> DEFINE P == prompt_tokens
           x == req[r]
           S == setup.ranks[r]
<1>1. /\ FullHit(r) /\ CommonHit(r).logits /\ UNCHANGED prompt_tokens
      /\ req' = [req EXCEPT ![r].phase = "harvest"]
  BY DEF RestoreTerminal, CanRestore
<1>2. x \in Requests(S) /\ DOMAIN req = Ranks /\ Follows(setup, P, S, x)
  BY DEF RequestIInv, RequestTypes, RanksFollow
<1>3. /\ x.agreed.logits /\ x.local.logits
      /\ x.phase = "prefill" /\ x.matched = Len(P)
  BY <1>1, WholeHit DEF FullHit
<1>4. /\ \A q \in Ranks : q # r => req'[q] = req[q]
      /\ req'[r] = [x EXCEPT !.phase = "harvest"]
  BY <1>1, <1>2
<1>5. /\ req'[r].phase = "harvest" /\ req'[r].matched = x.matched
      /\ req'[r].failed = x.failed /\ req'[r].agreed = x.agreed
      /\ req'[r].local = x.local /\ req'[r].hits = x.hits
  BY <1>2, <1>4 DEF Requests
<1>6. Agrees(setup, P, S, x) /\ Proceeds(setup, P, x)
  BY <1>2, <1>3 DEF Follows
<1>7. Agrees(setup, P, S, req'[r]) /\ Final(setup, P, req'[r]) = Final(setup, P, x)
  BY <1>5, <1>6, AgreesOn
<1>8. x.agreed.cached = Len(P) => Final(setup, P, x) = Len(P)
  <2> SUFFICES ASSUME x.agreed.cached = Len(P) PROVE Final(setup, P, x) = Len(P)
    OBVIOUS
  <2>1. x.local.cached = x.agreed.cached
    <3>1. /\ x.agreed.cached \in Nat /\ x.local.cached \in Nat
          /\ x.agreed.cached <= x.local.cached /\ x.local.cached <= x.agreed.cached
      BY <1>6 DEF Agrees
    <3> QED
      BY <3>1
  <2> QED
    BY <1>3, <2>1 DEF Final, GivesBack
<1>9. Proceeds(setup, P, req'[r])
  BY <1>3, <1>5, <1>6, <1>7, <1>8 DEF Proceeds
<1>10. Follows(setup, P, S, req'[r])
  BY <1>7, <1>9 DEF Follows
<1> QED
  BY <1>1, <1>4, <1>5, <1>10, RankFollowsOn

(* A rank turns back only if its restore fails or was not to be had.       *)
LEMMA RecomputeLastBlockFollows ==
  ASSUME RequestIInv, RanksFollow, UNCHANGED setup, NEW r \in Ranks, RecomputeLastBlock(r)
  PROVE  RanksFollow'
<1> DEFINE P == prompt_tokens
           x == req[r]
           S == setup.ranks[r]
<1>1. /\ FullHit(r) /\ UNCHANGED prompt_tokens /\ x.phase = "prefill" /\ x.matched = Len(P)
      /\ req' = [req EXCEPT ![r].phase = "populate", ![r].matched = StepBack(@),
                            ![r].failed = @ \/ CanRestore(r, S)]
  BY DEF RecomputeLastBlock, FullHit
<1>2. x \in Requests(S) /\ DOMAIN req = Ranks /\ Follows(setup, P, S, x)
  BY DEF RequestIInv, RequestTypes, RanksFollow
<1>3. Agrees(setup, P, S, x) /\ Proceeds(setup, P, x)
  BY <1>1, <1>2 DEF Follows
<1>4. /\ \A q \in Ranks : q # r => req'[q] = req[q]
      /\ req'[r] = [x EXCEPT !.phase = "populate", !.matched = StepBack(x.matched),
                             !.failed = x.failed \/ CanRestore(r, S)]
  BY <1>1, <1>2
<1>5. /\ req'[r].phase = "populate" /\ req'[r].matched = StepBack(x.matched)
      /\ req'[r].failed <=> x.failed \/ CanRestore(r, S)
      /\ req'[r].agreed = x.agreed /\ req'[r].local = x.local /\ req'[r].hits = x.hits
  <2> DEFINE b == StepBack(x.matched)
             f == x.failed \/ CanRestore(r, S)
  <2>1. req'[r] = [x EXCEPT !.phase = "populate", !.matched = b, !.failed = f]
    BY <1>4
  <2> HIDE DEF b, f
  <2>2. /\ req'[r].phase = "populate" /\ req'[r].matched = b /\ req'[r].failed = f
        /\ req'[r].agreed = x.agreed /\ req'[r].local = x.local /\ req'[r].hits = x.hits
    BY <1>2, <2>1 DEF Requests
  <2> QED
    BY <2>2 DEF b, f
<1>6. Agrees(setup, P, S, req'[r]) /\ Final(setup, P, req'[r]) = Final(setup, P, x)
  BY <1>3, <1>5, AgreesOn
<1>7. ASSUME ~x.failed, ~CanRestore(r, S)
      PROVE  StepBack(x.matched) = Final(setup, P, x)
  <2>1. x.agreed.cached = Len(P)
    <3>1. CASE x.matched = Final(setup, P, x)
      <4>1. /\ x.agreed.cached \in Nat /\ x.agreed.cached <= Len(P)
            /\ StepBack(x.agreed.cached) <= x.agreed.cached
        <5>1. /\ x.agreed.cached \in Nat /\ x.local.cached \in Nat
              /\ x.agreed.cached <= x.local.cached /\ x.local.cached <= Len(P)
          BY <1>3 DEF Agrees
        <5>2. Len(P) \in Nat
          BY SetupFacts, LenProperties DEF RequestIInv
        <5>3. StepBack(x.agreed.cached) <= x.agreed.cached
          BY <5>1, Assumed DEF StepBack, AtMost
        <5> QED
          BY <5>1, <5>2, <5>3
      <4>2. x.agreed.cached = Len(P) \/ Len(P) = StepBack(x.agreed.cached)
        BY <1>1, <3>1 DEF Final
      <4> QED
        BY <4>1, <4>2
    <3> QED
      BY <1>3, <1>7, <3>1 DEF Proceeds
  <2>2. GivesBack(x)
    <3> SUFFICES ASSUME ~GivesBack(x) PROVE FALSE
      OBVIOUS
    <3>1. Restores(setup, S, x)
      BY <1>3 DEF GivesBack, Agrees, Restores
    <3>2. S \in SUBSET S
      OBVIOUS
    <3> QED
      BY <1>1, <1>7, <3>1, <3>2, RestoresFull
  <2> QED
    BY <1>1, <2>1, <2>2 DEF Final
<1>8. Proceeds(setup, P, req'[r])
  BY <1>5, <1>6, <1>7 DEF Proceeds
<1>9. Follows(setup, P, S, req'[r])
  BY <1>6, <1>8 DEF Follows
<1> QED
  BY <1>1, <1>4, <1>5, <1>9, RankFollowsOn

LEMMA HarvestPrefixFollows ==
  ASSUME RequestIInv, RanksFollow, UNCHANGED setup, NEW r \in Ranks, HarvestPrefix(r)
  PROVE  RanksFollow'
<1> DEFINE P == prompt_tokens
           x == req[r]
           S == setup.ranks[r]
<1>1. /\ x.phase = "harvest" /\ UNCHANGED prompt_tokens
      /\ \/ req' = [req EXCEPT ![r].phase = "ready"]
         \/ req' = [req EXCEPT ![r].next = After(x.next, r)]
  BY DEF HarvestPrefix
<1>2. x \in Requests(S) /\ DOMAIN req = Ranks /\ Follows(setup, P, S, x)
  BY DEF RequestIInv, RequestTypes, RanksFollow
<1>3. /\ \A q \in Ranks : q # r => req'[q] = req[q]
      /\ \/ req'[r] = [x EXCEPT !.phase = "ready"]
         \/ req'[r] = [x EXCEPT !.next = After(x.next, r)]
  BY <1>1, <1>2
<1>4. /\ req'[r].phase \in {"harvest", "ready"} /\ req'[r].hits = x.hits
      /\ req'[r].matched = x.matched /\ req'[r].failed = x.failed
      /\ req'[r].agreed = x.agreed /\ req'[r].local = x.local
  BY <1>1, <1>2, <1>3 DEF Requests
<1>5. Agrees(setup, P, S, x) /\ Proceeds(setup, P, x)
  BY <1>1, <1>2 DEF Follows
<1>6. Agrees(setup, P, S, req'[r]) /\ Final(setup, P, req'[r]) = Final(setup, P, x)
  BY <1>4, <1>5, AgreesOn
<1>7. Proceeds(setup, P, req'[r])
  BY <1>1, <1>4, <1>5, <1>6 DEF Proceeds
<1>8. Follows(setup, P, S, req'[r])
  BY <1>6, <1>7 DEF Follows
<1> QED
  BY <1>1, <1>3, <1>4, <1>8, RankFollowsOn

LEMMA StepFollows ==
  ASSUME RequestIInv, Safe(setup), RanksFollow, [Next]_vars
  PROVE  RanksFollow'
<1>1. ASSUME UNCHANGED <<setup, prompt_tokens, req>> PROVE RanksFollow'
  <2>1. Ranks' = Ranks
    BY <1>1, SameSetup
  <2> QED
    BY <1>1, <2>1 DEF RanksFollow
<1>2. CASE UNCHANGED vars
  BY <1>1, <1>2 DEF vars
<1>3. CASE Next
  <2>1. UNCHANGED setup
    BY <1>3 DEF Next
  <2>2. Ranks' = Ranks
    BY <2>1, SameSetup
  <2>3. ASSUME NEW prompt \in setup.prompts, Submit(prompt) PROVE RanksFollow'
    <3>1. req' = [r \in Ranks |-> [Idle(r) EXCEPT !.phase = "lookup"]]
      BY <2>3 DEF Submit
    <3> QED
      BY <2>2, <3>1, IdleFollows DEF RanksFollow
  <2>4. ASSUME NEW r \in Ranks, LookupPrefix(r) PROVE RanksFollow'
    BY <2>1, <2>4, LookupPrefixFollows
  <2>5. ASSUME NEW r \in Ranks, PopulatePrefix(r) PROVE RanksFollow'
    BY <2>1, <2>5, PopulatePrefixFollows
  <2>6. ASSUME NEW r \in Ranks, RestoreTerminal(r) PROVE RanksFollow'
    BY <2>1, <2>6, RestoreTerminalFollows
  <2>7. ASSUME NEW r \in Ranks, RecomputeLastBlock(r) PROVE RanksFollow'
    BY <2>1, <2>7, RecomputeLastBlockFollows
  <2>8. ASSUME NEW r \in Ranks, HarvestPrefix(r) PROVE RanksFollow'
    BY <2>1, <2>8, HarvestPrefixFollows
  <2>9. CASE Coordinate
    BY <2>1, <2>9, CoordinateFollows
  <2>10. CASE ForwardSuffix
    BY <2>1, <2>10, ForwardSuffixFollows
  <2>11. CASE StuckApart
    BY <1>1, <2>1, <2>11 DEF StuckApart
  <2>12. ASSUME req' = [r \in Ranks |-> Idle(r)] PROVE RanksFollow'
    BY <2>2, <2>12, IdleFollows DEF RanksFollow
  <2>13. CASE ForwardFails
    BY <2>12, <2>13 DEF ForwardFails
  <2>14. CASE Finish
    BY <2>12, <2>14 DEF Finish
  <2> QED
    BY <1>3, <2>1, <2>3, <2>4, <2>5, <2>6, <2>7, <2>8, <2>9, <2>10, <2>11, <2>13, <2>14
       DEF Next
<1> QED
  BY <1>2, <1>3

(* Of two ranks that part though neither failed, one gives back a block    *)
(* and the other does not: with logits on both, their own hits differ.     *)
LEMMA PartedRanks ==
  ASSUME RequestIInv, RanksFollow, Alike(setup), NEW q \in Ranks, NEW r \in Ranks,
         Agrees(setup, prompt_tokens, setup.ranks[q], req[q]),
         Agrees(setup, prompt_tokens, setup.ranks[r], req[r]),
         GivesBack(req[q]), ~GivesBack(req[r]),
         req[q].agreed.cached = Len(prompt_tokens) \/ setup.mtp
  PROVE  setup.mtp /\ req[q].local.cached # req[r].local.cached
<1> DEFINE x == req[q]
           y == req[r]
           n == Len(prompt_tokens)
<1>1. y.agreed.logits /\ y.local.logits /\ y.local.cached = y.agreed.cached
  BY DEF GivesBack
<1>2. x.agreed = y.agreed
  BY DEF RanksFollow
<1>3. setup.owners \cap setup.ranks[q] # {}
  BY <1>1 DEF Agrees, Alike, Ranks
<1>4. x.local.logits
  BY <1>1, <1>2, <1>3 DEF Agrees
<1>5. x.local.cached # x.agreed.cached
  BY <1>1, <1>2, <1>4 DEF GivesBack
<1>6. x.agreed.cached # n
  <2>1. /\ x.agreed.cached \in Nat /\ x.local.cached \in Nat /\ n \in Nat
        /\ x.agreed.cached <= x.local.cached /\ x.local.cached <= n
    BY SetupFacts, LenProperties DEF Agrees, RequestIInv
  <2> QED
    BY <1>5, <2>1
<1> QED
  BY <1>1, <1>2, <1>5, <1>6

(* Ranks that have decided what to forward feed the same suffix unless one *)
(* failed an import or a restore, or MTP made one of them step back from a *)
(* hit that it alone had more of: in every configuration whose full hits   *)
(* can be restored where they must be, with failing transfers and with MTP *)
(* too, whatever each rank found and forgot, for any number of ranks of    *)
(* any size of which all keep terminal logits or none does.                *)
THEOREM RanksPartOnlyForCauseHolds ==
  ASSUME \A s \in Setups : Safe(s) /\ Alike(s)
  PROVE  Spec => []RanksPartOnlyForCause
<1>1. Init => RanksFollow
  <2> SUFFICES ASSUME Init PROVE RanksFollow
    OBVIOUS
  <2>1. req = [r \in Ranks |-> Idle(r)]
    BY DEF Init
  <2> QED
    BY <2>1, IdleFollows DEF RanksFollow
<1>2. RequestIInv /\ RanksFollow /\ [Next]_vars => RanksFollow'
  <2> SUFFICES ASSUME RequestIInv, RanksFollow, [Next]_vars PROVE RanksFollow'
    OBVIOUS
  <2>1. Safe(setup)
    BY DEF RequestIInv, RequestTypes
  <2> QED
    BY <2>1, StepFollows
<1>3. RequestIInv /\ RanksFollow => RanksPartOnlyForCause
  <2> SUFFICES ASSUME RequestIInv, RanksFollow, NEW q \in Ranks, NEW r \in Ranks,
                      Decided(q), Decided(r), req[q].matched # req[r].matched,
                      ~req[q].failed, ~req[r].failed
               PROVE  setup.mtp /\ req[q].local.cached # req[r].local.cached
    BY DEF RanksPartOnlyForCause
  <2> DEFINE P == prompt_tokens
  <2>1. Alike(setup)
    BY DEF RequestIInv, RequestTypes
  <2>2. ASSUME NEW p \in Ranks, Decided(p), ~req[p].failed
        PROVE  /\ Agrees(setup, P, setup.ranks[p], req[p])
               /\ req[p].matched = Final(setup, P, req[p])
    <3>1. Follows(setup, P, setup.ranks[p], req[p])
      BY DEF RanksFollow
    <3>2. CASE req[p].phase \in {"harvest", "ready"}
      BY <2>2, <3>1, <3>2 DEF Follows, Proceeds
    <3>3. CASE Forwards(p)
      <4>1. req[p].matched # Len(P)
        <5>1. req[p].matched \in Nat /\ Len(P) \in Nat /\ req[p].matched < Len(P)
          BY <3>3, SetupFacts, LenProperties
             DEF RequestIInv, RequestTypes, Requests, Forwards
        <5> QED
          BY <5>1
      <4> QED
        BY <2>2, <3>1, <3>3, <4>1 DEF Forwards, Follows, Proceeds
    <3> QED
      BY <2>2, <3>2, <3>3 DEF Decided
  <2>3. req[q].agreed = req[r].agreed
    BY DEF RanksFollow
  <2>4. /\ GivesBack(req[q]) # GivesBack(req[r])
        /\ req[q].agreed.cached = Len(P) \/ setup.mtp
    BY <2>2, <2>3 DEF Final
  <2>5. CASE GivesBack(req[q])
    BY <2>1, <2>2, <2>3, <2>4, <2>5, PartedRanks
  <2>6. CASE GivesBack(req[r])
    BY <2>1, <2>2, <2>3, <2>4, <2>6, PartedRanks
  <2> QED
    BY <2>4, <2>5, <2>6 DEF GivesBack
<1>4. Spec => []RequestIInv
  BY Invariance
<1> QED
  BY <1>1, <1>2, <1>3, <1>4, PTL DEF Spec
=============================================================================
