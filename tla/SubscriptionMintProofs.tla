----------------------- MODULE SubscriptionMintProofs -----------------------
(***************************************************************************)
(* Proofs about subscription minting over one store, for any batches and   *)
(* sizes, replicas, caps, windows, lifetimes and combination of failures.  *)
(***************************************************************************)
EXTENDS SubscriptionMint, FiniteSetTheorems, WellFoundedInduction, TLAPS

-----------------------------------------------------------------------------
(* Sums of batch sizes *)

\* A set of natural numbers has a least one, which stands in for induction.
LEMMA Least ==
    ASSUME NEW N \in SUBSET Nat, N # {}
    PROVE  \E n \in N : \A m \in N : n <= m
<1>1. PICK n \in N : \A m \in N : ~ (<<m, n>> \in OpToRel(<, Nat))
    BY Zenon, WFMin, NatLessThanWellFounded
<1>2. \A m \in N : ~(m < n)
    BY Zenon, <1>1 DEF OpToRel
<1> QED
    BY <1>2

First(s) == CHOOSE x \in s : TRUE

\* A function that adds up costs in whatever order, and the one the fold uses.
Adds(F, S) ==
    /\ F \in [SUBSET S -> Nat] /\ F[{}] = 0
    /\ \A s \in SUBSET S : \A x \in s : F[s] = CostOf[x] + F[s \ {x}]
FoldsTo(f, S) == f = [s \in SUBSET S |-> IF s = {} THEN 0 ELSE CostOf[First(s)] + f[s \ {First(s)}]]

\* The sum of batch sizes is the fold of the library, written out.
LEMMA CostIsFold ==
    ASSUME NEW S
    PROVE  Cost(S) = (CHOOSE f : FoldsTo(f, S))[S]
BY Zenon DEF Cost, MapThenSumSet, MapThenFoldSet, FoldsTo, First

\* A function that adds up in every order solves the equation of the fold.
LEMMA AddsFolds ==
    ASSUME NEW S, NEW F, Adds(F, S)
    PROVE  FoldsTo(F, S)
<1>1. \A s \in SUBSET S : F[s] = IF s = {} THEN 0 ELSE CostOf[First(s)] + F[s \ {First(s)}]
    BY Zenon DEF Adds, First
<1>2. F = [s \in SUBSET S |-> F[s]]
    BY Zenon DEF Adds
<1> QED
    BY Zenon, <1>1, <1>2 DEF FoldsTo

\* One more batch can be added to a function that adds up.
LEMMA OneMoreAdds ==
    ASSUME NEW S, NEW x, x \notin S, NEW F, Adds(F, S), \A y \in S \cup {x} : CostOf[y] \in Nat
    PROVE  \E G : Adds(G, S \cup {x})
<1> DEFINE T == S \cup {x}
           G == [s \in SUBSET T |-> IF x \in s THEN CostOf[x] + F[s \ {x}] ELSE F[s]]
<1>1. \A s \in SUBSET T : s \ {x} \in SUBSET S /\ (x \notin s => s \in SUBSET S)
    OBVIOUS
<1>2. G \in [SUBSET T -> Nat] /\ G[{}] = 0
    BY <1>1 DEF Adds
<1>3. ASSUME NEW s \in SUBSET T, NEW y \in s PROVE G[s] = CostOf[y] + G[s \ {y}]
  <2>1. CASE y = x
      BY <1>1, <2>1 DEF Adds
  <2>2. CASE y # x /\ x \notin s
      BY <1>1, <2>2 DEF Adds
  <2>3. CASE y # x /\ x \in s
    <3>1. F[s \ {x}] = CostOf[y] + F[(s \ {x}) \ {y}]
        BY Zenon, <1>1, <2>3 DEF Adds
    <3>2. G[s] = CostOf[x] + F[s \ {x}]
        BY <2>3
    <3>3. G[s \ {y}] = CostOf[x] + F[(s \ {y}) \ {x}]
        BY <2>3
    <3>4. (s \ {y}) \ {x} = (s \ {x}) \ {y}
        OBVIOUS
    <3>5. F[(s \ {x}) \ {y}] \in Nat /\ F[s \ {x}] \in Nat
        BY <1>1 DEF Adds
    <3>6. CostOf[y] \in Nat /\ CostOf[x] \in Nat
        OBVIOUS
    <3>7. G[s \ {y}] = CostOf[x] + F[(s \ {x}) \ {y}]
        BY Zenon, <3>3, <3>4
    <3> HIDE DEF G
    <3> QED
        BY <3>1, <3>2, <3>5, <3>6, <3>7
  <2> QED
      BY <2>1, <2>2, <2>3
<1>4. Adds(G, T)
  <2> HIDE DEF G, T
  <2> QED
    BY Zenon, <1>2, <1>3 DEF Adds
<1> QED
    BY Zenon, <1>4

\* Every finite set of priced requests has such a function.
LEMMA SumExists ==
    ASSUME NEW S, IsFiniteSet(S), \A y \in S : CostOf[y] \in Nat
    PROVE  \E F : Adds(F, S)
<1> DEFINE Bad == {n \in Nat : \E T \in SUBSET S : Cardinality(T) = n /\ ~\E F : Adds(F, T)}
<1>1. ASSUME Bad # {} PROVE FALSE
  <2>1. PICK n \in Bad : \A m \in Bad : n <= m
      BY Zenon, <1>1, Least
  <2>2. PICK T \in SUBSET S : Cardinality(T) = n /\ ~\E F : Adds(F, T)
      OBVIOUS
  <2>3. IsFiniteSet(T)
      BY Zenon, FS_Subset
  <2>4. CASE T = {}
    <3>1. Adds([s \in SUBSET T |-> 0], T)
        BY <2>4 DEF Adds
    <3> QED
        BY Zenon, <2>2, <3>1
  <2>5. CASE T # {}
    <3>1. PICK x : x \in T
        BY Zenon, <2>5
    <3>2. Cardinality(T \ {x}) = n - 1 /\ n - 1 \in Nat
      <4>1. IsFiniteSet(T \ {x}) /\ Cardinality(T \ {x}) = Cardinality(T) - 1
          BY <2>3, <3>1, FS_RemoveElement
      <4>2. Cardinality(T \ {x}) \in Nat
          BY <4>1, FS_CardinalityType
      <4> QED
          BY <2>2, <4>1, <4>2
    <3>3. n - 1 \notin Bad
        BY <2>1
    <3>4. PICK F : Adds(F, T \ {x})
        BY <3>2, <3>3
    <3>5. \A y \in (T \ {x}) \cup {x} : CostOf[y] \in Nat
        BY <3>1
    <3>6. \E G : Adds(G, (T \ {x}) \cup {x})
        BY Zenon, <3>4, <3>5, OneMoreAdds
    <3>7. (T \ {x}) \cup {x} = T
        BY <3>1
    <3> QED
        BY Zenon, <2>2, <3>6, <3>7
  <2> QED
      BY Zenon, <2>4, <2>5
<1>2. Cardinality(S) \in Nat
    BY FS_CardinalityType
<1>3. Cardinality(S) \notin Bad
    BY Zenon, <1>1
<1> QED
    BY Zenon, <1>2, <1>3

\* The order in which the fold takes the elements makes no difference.
LEMMA FoldIsSum ==
    ASSUME NEW S, IsFiniteSet(S), NEW F, Adds(F, S), NEW f, FoldsTo(f, S)
    PROVE  f[S] = F[S]
<1> DEFINE Bad == {n \in Nat : \E s \in SUBSET S : Cardinality(s) = n /\ f[s] # F[s]}
<1>1. ASSUME Bad # {} PROVE FALSE
  <2>1. PICK n \in Bad : \A m \in Bad : n <= m
      BY Zenon, <1>1, Least
  <2>2. PICK s \in SUBSET S : Cardinality(s) = n /\ f[s] # F[s]
      OBVIOUS
  <2>3. IsFiniteSet(s)
      BY Zenon, FS_Subset
  <2>4. f[s] = IF s = {} THEN 0 ELSE CostOf[First(s)] + f[s \ {First(s)}]
      BY Zenon DEF FoldsTo
  <2>5. s # {}
      BY Zenon, <2>2, <2>4 DEF Adds
  <2>6. First(s) \in s
      BY Zenon, <2>5 DEF First
  <2>7. Cardinality(s \ {First(s)}) = n - 1 /\ n - 1 \in Nat
    <3>1. IsFiniteSet(s \ {First(s)}) /\ Cardinality(s \ {First(s)}) = Cardinality(s) - 1
        BY <2>3, <2>6, FS_RemoveElement
    <3>2. Cardinality(s \ {First(s)}) \in Nat
        BY <3>1, FS_CardinalityType
    <3> QED
        BY <2>2, <3>1, <3>2
  <2>8. n - 1 \notin Bad
      BY <2>1
  <2>9. s \ {First(s)} \in SUBSET S
      OBVIOUS
  <2>10. f[s \ {First(s)}] = F[s \ {First(s)}]
      BY Zenon, <2>7, <2>8, <2>9
  <2>11. F[s] = CostOf[First(s)] + F[s \ {First(s)}]
      BY Zenon, <2>6 DEF Adds
  <2> QED
      BY Zenon, <2>2, <2>4, <2>5, <2>10, <2>11
<1>2. Cardinality(S) \in Nat
    BY FS_CardinalityType
<1>3. Cardinality(S) \notin Bad
    BY Zenon, <1>1
<1> QED
    BY Zenon, <1>2, <1>3

\* A sum can be read off any function that adds up.
LEMMA CostIsSum ==
    ASSUME NEW S, IsFiniteSet(S), NEW F, Adds(F, S)
    PROVE  Cost(S) = F[S]
<1>1. FoldsTo(F, S)
    BY Zenon, AddsFolds
<1>2. FoldsTo(CHOOSE f : FoldsTo(f, S), S)
    BY Zenon, <1>1
<1>3. (CHOOSE f : FoldsTo(f, S))[S] = F[S]
    BY Zenon, <1>2, FoldIsSum
<1> QED
    BY Zenon, <1>3, CostIsFold

\* Nobody costs nothing.
LEMMA CostOfNobody == Cost({}) = 0
<1>1. Adds([s \in SUBSET {} |-> 0], {})
    BY DEF Adds
<1>2. Cost({}) = [s \in SUBSET {} |-> 0][{}]
    BY Zenon, <1>1, FS_EmptySet, CostIsSum
<1> QED
    BY <1>2

\* Each batch adds its size, whichever is taken out first.
LEMMA CostOfOneMore ==
    ASSUME NEW S, IsFiniteSet(S), \A y \in S : CostOf[y] \in Nat, NEW x \in S
    PROVE  /\ Cost(S) \in Nat /\ Cost(S \ {x}) \in Nat
           /\ Cost(S) = Cost(S \ {x}) + CostOf[x]
<1>1. PICK F : Adds(F, S)
    BY Zenon, SumExists
<1> DEFINE T == S \ {x}
           G == [s \in SUBSET T |-> F[s]]
<1>2. Adds(G, T)
  <2>1. G \in [SUBSET T -> Nat] /\ G[{}] = 0
      BY <1>1 DEF Adds
  <2>2. ASSUME NEW s \in SUBSET T, NEW y \in s PROVE G[s] = CostOf[y] + G[s \ {y}]
    <3>1. s \in SUBSET S /\ s \ {y} \in SUBSET T
        OBVIOUS
    <3>2. F[s] = CostOf[y] + F[s \ {y}]
        BY Zenon, <1>1, <3>1 DEF Adds
    <3> QED
        BY <3>1, <3>2
  <2> HIDE DEF G, T
  <2> QED
      BY Zenon, <2>1, <2>2 DEF Adds
<1>3. IsFiniteSet(T)
    BY Zenon, FS_Subset
<1>4. Cost(S) = F[S]
    BY Zenon, <1>1, CostIsSum
<1>5. Cost(T) = G[T]
    BY Zenon, <1>2, <1>3, CostIsSum
<1>6. G[T] = F[T] /\ F[T] \in Nat /\ F[S] \in Nat /\ F[S] = CostOf[x] + F[T]
    BY <1>1 DEF Adds
<1>7. CostOf[x] \in Nat
    OBVIOUS
<1> HIDE DEF G
<1> QED
    BY <1>4, <1>5, <1>6, <1>7

-----------------------------------------------------------------------------
(* Batches, windows, rows and buckets *)

\* Costs are positive, so that only nobody costs nothing.
LEMMA CostOfBatches ==
    ASSUME NEW S \in SUBSET Batches, IsFiniteSet(S)
    PROVE  /\ Cost(S) \in Nat
           /\ \A x \in S : Cost(S) = Cost(S \ {x}) + CostOf[x] /\ Cost(S \ {x}) \in Nat
           /\ \A x \in Batches \ S : Cost(S \cup {x}) = Cost(S) + CostOf[x]
           /\ Cost(S) <= 0 => S = {}
<1>1. \A y \in Batches : CostOf[y] \in Nat /\ CostOf[y] > 0
    BY MintAssumption
<1>2. ASSUME NEW x \in S
      PROVE  /\ Cost(S) = Cost(S \ {x}) + CostOf[x]
             /\ Cost(S) \in Nat /\ Cost(S \ {x}) \in Nat
  <2>1. \A y \in S : CostOf[y] \in Nat
      BY Zenon, <1>1
  <2> QED
      BY Zenon, <2>1, CostOfOneMore
<1>3. Cost(S) \in Nat
  <2>1. CASE S = {}
    <3>1. 0 \in Nat
        OBVIOUS
    <3> QED
        BY Zenon, <2>1, <3>1, CostOfNobody
  <2>2. CASE S # {}
      BY Zenon, <1>2, <2>2
  <2> QED
      BY Zenon, <2>1, <2>2
<1>4. ASSUME NEW x \in Batches \ S PROVE Cost(S \cup {x}) = Cost(S) + CostOf[x]
  <2>1. IsFiniteSet(S \cup {x})
      BY Zenon, FS_AddElement
  <2>2. \A y \in S \cup {x} : CostOf[y] \in Nat
      BY Zenon, <1>1
  <2>3. Cost(S \cup {x}) = Cost((S \cup {x}) \ {x}) + CostOf[x]
      BY Zenon, <2>1, <2>2, CostOfOneMore
  <2>4. (S \cup {x}) \ {x} = S
      OBVIOUS
  <2> QED
      BY Zenon, <2>3, <2>4
<1>5. ASSUME Cost(S) <= 0, NEW x \in S PROVE FALSE
  <2>1. \A a, b, d \in Nat : a = b + d /\ a <= 0 => ~(d > 0)
      OBVIOUS
  <2>2. Cost(S) = Cost(S \ {x}) + CostOf[x] /\ Cost(S) \in Nat /\ Cost(S \ {x}) \in Nat
      BY Zenon, <1>2
  <2>3. CostOf[x] \in Nat /\ CostOf[x] > 0
      BY Zenon, <1>1
  <2> QED
      BY Zenon, <1>5, <2>1, <2>2, <2>3
<1> QED
    BY Zenon, <1>2, <1>3, <1>4, <1>5

\* A request's window holds the time it read.
LEMMA WindowOfTime ==
    ASSUME NEW t \in 0..Horizon
    PROVE  /\ WindowOf(t) \in Windows /\ WindowOf(t) \in Int
           /\ WindowOf(t) + Window > t
<1>1. Window \in Nat \ {0} /\ t \in Nat
    BY MintAssumption
<1>2. t % Window \in 0..(Window - 1)
    BY <1>1
<1>3. WindowOf(t) \in Windows
    BY Zenon DEF Windows
<1>4. t - (t % Window) \in Int /\ t - (t % Window) + Window > t
    BY <1>1, <1>2
<1> QED
    BY Zenon, <1>3, <1>4 DEF WindowOf

\* What a request finds of its key: a live result, or nothing that is still good.
LEMMA RowOfKey ==
    ASSUME MintTypeOK, NEW r \in Batches
    PROVE  /\ KeyOf[r] \in Keys /\ Row(r) \in Batches \cup {"nobody"}
           /\ \/ Row(r) = results[KeyOf[r]]
              \/ /\ Row(r) = "nobody" /\ results[KeyOf[r]] \in Batches
                 /\ ExpiresAt(results[KeyOf[r]]) <= at[r]
<1>1. KeyOf[r] \in Keys
    BY Zenon, MintAssumption DEF Keys
<1>2. results[KeyOf[r]] \in Batches \cup {"nobody"}
    BY Zenon, <1>1 DEF MintTypeOK
<1> QED
    BY Zenon, <1>1, <1>2 DEF Row

MintBuckets == [start : 0..Horizon \cup {Free}, used : Nat]
GoodBucket(b) == b \in MintBuckets /\ (b.start # Free => b.used > 0)

\* charge_n opens a window now, or adds to the one it is in.
LEMMA ChargedBucket ==
    ASSUME time \in 0..Horizon, NEW b, GoodBucket(b), NEW n \in Nat \ {0}
    PROVE  LET new == Charged(b, n)
           IN  /\ GoodBucket(new) /\ new.start \in 0..Horizon
               /\ \/ new.start = time /\ new.used = n /\ b.start # time
                  \/ new.start = b.start /\ new.used = b.used + n
<1>1. Window \in Nat \ {0} /\ Horizon \in Nat
    BY MintAssumption
<1>2. CASE b.start = Free \/ time - b.start >= Window
  <2>1. Charged(b, n) = [start |-> time, used |-> n]
      BY Zenon, <1>2 DEF Charged
  <2>2. b.start # time
      BY <1>1, <1>2 DEF Free
  <2> QED
      BY <2>1, <2>2 DEF GoodBucket, MintBuckets
<1>3. CASE ~(b.start = Free \/ time - b.start >= Window)
  <2>1. Charged(b, n) = [b EXCEPT !.used = @ + n]
      BY Zenon, <1>3 DEF Charged
  <2>2. b = [start |-> b.start, used |-> b.used] /\ b.used \in Nat /\ b.start \in 0..Horizon
      BY <1>3 DEF GoodBucket, MintBuckets
  <2>3. Charged(b, n) = [start |-> b.start, used |-> b.used + n]
      BY <2>1, <2>2
  <2> QED
      BY <2>2, <2>3 DEF GoodBucket, MintBuckets
<1> QED
    BY Zenon, <1>2, <1>3

\* refund gives back to the window that was charged, and to no other.
LEMMA RefundedBucket ==
    ASSUME NEW b, GoodBucket(b), NEW s, NEW n \in Nat \ {0}
    PROVE  LET new == Refunded(b, s, n)
           IN  /\ GoodBucket(new)
               /\ \/ new = b /\ (b.start # s \/ b.start = Free)
                  \/ b.start = s /\ new.start = s /\ new.used = b.used - n
                  \/ b.start = s /\ new.start = Free /\ b.used <= n
<1>1. b = [start |-> b.start, used |-> b.used] /\ b.used \in Nat /\ b.start \in 0..Horizon \cup {Free}
    BY DEF GoodBucket, MintBuckets
<1>2. CASE b.start = Free \/ b.start # s
    BY Zenon, <1>2 DEF Refunded
<1>3. CASE b.start # Free /\ b.start = s /\ b.used > n
  <2>1. b.used - n \in Nat \ {0}
      BY <1>1, <1>3
  <2>2. Refunded(b, s, n) = [start |-> b.start, used |-> b.used - n]
      BY <1>1, <1>3, <2>1 DEF Refunded
  <2> QED
      BY <1>1, <1>3, <2>1, <2>2 DEF GoodBucket, MintBuckets
<1>4. CASE b.start # Free /\ b.start = s /\ ~(b.used > n)
  <2>1. Refunded(b, s, n) = [start |-> Free, used |-> 0]
      BY <1>4 DEF Refunded, AbsentBucket
  <2> QED
      BY <1>1, <1>4, <2>1 DEF GoodBucket, MintBuckets
<1> QED
    BY Zenon, <1>2, <1>3, <1>4


-----------------------------------------------------------------------------
(* What was stored *)

InTable == StoredInOrder /\ ReplacedOnlyExpired

\* No step but a commit adds a result; a lookup and the pruning take away expired ones.
LEMMA TableStays ==
    ASSUME MintTypeOK, InTable, storedAt' = storedAt,
           time' \in Nat, time <= time',
           \A q \in Batches : step[q] = "done" => step'[q] = "done",
           \A q \in Batches : at'[q] <= time',
           \A q \in Batches : step[q] = "done" => at'[q] = at[q],
           \A k \in Keys :
              \/ results'[k] = results[k]
              \/ /\ results'[k] = "nobody" /\ results[k] \in Batches
                 /\ ExpiresAt(results[k]) <= time
    PROVE  InTable'
<1>1. time \in Nat /\ ResultTtl \in Nat /\ \A q \in Batches : at[q] \in Nat /\ KeyOf[q] \in Keys
    BY MintAssumption DEF MintTypeOK, Keys
<1>2. ASSUME NEW q \in Batches, storedAt[q] # Free
      PROVE  /\ step[q] = "done" /\ step'[q] = "done" /\ at'[q] = at[q]
             /\ ExpiresAt(q)' = ExpiresAt(q) /\ ExpiresAt(q) \in Nat
             /\ at[q] <= storedAt[q] /\ storedAt[q] <= time
             /\ results[KeyOf[q]] = q \/ ExpiresAt(q) <= time
    BY <1>1, <1>2 DEF InTable, StoredInOrder, ExpiresAt
<1>3. ASSUME NEW q \in Batches, storedAt[q] # Free
      PROVE  /\ at'[q] <= storedAt'[q] /\ storedAt'[q] <= time'
             /\ results'[KeyOf[q]] = q \/ ExpiresAt(q)' <= time'
  <2>1. storedAt[q] \in 0..Horizon \cup {Free}
      BY Zenon DEF MintTypeOK
  <2>2. storedAt[q] \in Int
      BY <1>1, <1>3, <2>1
  <2>3. results'[KeyOf[q]] = q \/ ExpiresAt(q) <= time
      BY Zenon, <1>1, <1>2, <1>3
  <2> QED
      BY <1>1, <1>2, <1>3, <2>2, <2>3
<1>4. StoredInOrder'
  <2>1. \A k \in Keys : results'[k] # "nobody" =>
            KeyOf[results'[k]] = k /\ storedAt'[results'[k]] # Free
      BY Zenon DEF InTable, StoredInOrder
  <2> QED
      BY Zenon, <1>2, <1>3, <2>1 DEF StoredInOrder, Free
<1>5. ReplacedOnlyExpired'
    BY Zenon, <1>2 DEF InTable, ReplacedOnlyExpired, Free
<1> QED
    BY Zenon, <1>4, <1>5 DEF InTable

\* commit_mint stores a result where none is live: whatever the key had before is past.
LEMMA TableGrows ==
    ASSUME MintTypeOK, InTable, NEW r \in Batches, step[r] = "commit",
           Row(r) = "nobody", Store(r), UNCHANGED <<time, at>>, step'[r] = "done",
           \A q \in Batches : step[q] = "done" => step'[q] = "done"
    PROVE  InTable'
<1>1. time \in Nat /\ ResultTtl \in Nat /\ \A q \in Batches : at[q] \in Nat /\ KeyOf[q] \in Keys
    BY MintAssumption DEF MintTypeOK, Keys
<1>2. \A q \in Batches : ExpiresAt(q)' = ExpiresAt(q) /\ ExpiresAt(q) \in Nat
    BY <1>1 DEF ExpiresAt
<1>3. /\ storedAt' = [storedAt EXCEPT ![r] = time] /\ results' = [results EXCEPT ![KeyOf[r]] = r]
      /\ at' = at /\ time' = time /\ KeyOf[r] \in Keys
    BY Zenon, <1>1 DEF Store
<1>4. /\ storedAt'[r] = time /\ time # Free
      /\ \A q \in Batches : q # r => storedAt'[q] = storedAt[q]
      /\ results'[KeyOf[r]] = r /\ \A k \in Keys : k # KeyOf[r] => results'[k] = results[k]
    BY <1>1, <1>3 DEF MintTypeOK, Free
<1>5. storedAt[r] = Free
    BY DEF InTable, StoredInOrder
<1>6. at[r] <= time
    BY Zenon DEF InTable, StoredInOrder
<1>7. ASSUME NEW q \in Batches, storedAt[q] # Free, KeyOf[q] = KeyOf[r]
      PROVE  ExpiresAt(q) <= time
  <2>1. results[KeyOf[q]] = q \/ ExpiresAt(q) <= time
      BY Zenon, <1>7 DEF InTable, StoredInOrder
  <2>2. CASE results[KeyOf[r]] = q
    <3>1. q # "nobody"
        BY Zenon, MintAssumption
    <3>2. ExpiresAt(q) <= at[r]
        BY Zenon, <2>2, <3>1, RowOfKey
    <3> QED
        BY <1>1, <1>2, <1>6, <3>2
  <2> QED
      BY Zenon, <1>7, <2>1, <2>2
<1>8. StoredInOrder'
  <2>1. ASSUME NEW q \in Batches, storedAt'[q] # Free
        PROVE  /\ step'[q] = "done" /\ at'[q] <= storedAt'[q] /\ storedAt'[q] <= time'
               /\ results'[KeyOf[q]] = q \/ ExpiresAt(q)' <= time'
    <3>1. CASE q = r
        BY <1>1, <1>3, <1>4, <1>6, <3>1
    <3>2. CASE q # r
      <4>1. /\ storedAt[q] # Free /\ step[q] = "done" /\ at[q] <= storedAt[q]
            /\ storedAt[q] <= time
            /\ results[KeyOf[q]] = q \/ ExpiresAt(q) <= time
          BY Zenon, <1>4, <2>1, <3>2 DEF InTable, StoredInOrder
      <4>2. step'[q] = "done" /\ at'[q] <= storedAt'[q] /\ storedAt'[q] <= time'
          BY Zenon, <1>3, <1>4, <3>2, <4>1
      <4>3. CASE KeyOf[q] = KeyOf[r]
        <5>1. ExpiresAt(q) <= time
            BY Zenon, <1>7, <4>1, <4>3
        <5> QED
            BY Zenon, <1>2, <1>3, <4>2, <5>1
      <4>4. CASE KeyOf[q] # KeyOf[r]
        <5>1. results'[KeyOf[q]] = results[KeyOf[q]]
            BY Zenon, <1>1, <1>4, <4>4
        <5> QED
            BY Zenon, <1>2, <1>3, <4>1, <4>2, <5>1
      <4> QED
          BY Zenon, <4>3, <4>4
    <3> QED
        BY Zenon, <3>1, <3>2
  <2>2. ASSUME NEW k \in Keys, results'[k] # "nobody"
        PROVE  KeyOf[results'[k]] = k /\ storedAt'[results'[k]] # Free
    <3>1. CASE k = KeyOf[r]
        BY Zenon, <1>4, <3>1
    <3>2. CASE k # KeyOf[r]
      <4>1. results'[k] = results[k] /\ results[k] \in Batches
          BY Zenon, <1>4, <2>2, <3>2 DEF MintTypeOK
      <4>2. KeyOf[results[k]] = k /\ storedAt[results[k]] # Free
          BY Zenon, <2>2, <4>1 DEF InTable, StoredInOrder
      <4>3. storedAt'[results[k]] = storedAt[results[k]]
          BY Zenon, <1>4, <3>2, <4>1, <4>2
      <4> QED
          BY Zenon, <4>1, <4>2, <4>3
    <3> QED
        BY Zenon, <3>1, <3>2
  <2>3. \A q \in Batches : at'[q] <= time'
      BY Zenon, <1>3 DEF InTable, StoredInOrder
  <2> QED
      BY Zenon, <2>1, <2>2, <2>3 DEF StoredInOrder, Free
<1>9. ReplacedOnlyExpired'
  <2> SUFFICES ASSUME NEW p \in Batches, NEW q \in Batches, p # q, KeyOf[p] = KeyOf[q],
                      storedAt'[p] # Free, storedAt'[q] # Free
               PROVE  storedAt'[p] >= ExpiresAt(q) \/ storedAt'[q] >= ExpiresAt(p)
      BY Zenon, <1>2 DEF ReplacedOnlyExpired, Free
  <2>1. CASE p = r
      BY <1>1, <1>2, <1>4, <1>7, <2>1
  <2>2. CASE q = r
      BY <1>1, <1>2, <1>4, <1>7, <2>2
  <2>3. CASE p # r /\ q # r
      BY Zenon, <1>4, <2>3 DEF InTable, ReplacedOnlyExpired
  <2> QED
      BY Zenon, <2>1, <2>2, <2>3
<1> QED
    BY Zenon, <1>8, <1>9 DEF InTable


-----------------------------------------------------------------------------
(* What was charged *)

Stored == {r \in Batches : storedAt[r] # Free}
InQuota == QuotaHolds /\ ChargedOnce /\ RowsGoLast /\ IsFiniteSet(Stored)

\* No step but a commit and the pruning touches a quota row.
LEMMA QuotaStays ==
    ASSUME MintTypeOK, InQuota, UNCHANGED <<storedAt, quotas, mintScenario>>,
           time' \in 0..Horizon, time <= time',
           \A q \in Batches : storedAt[q] # Free => at'[q] = at[q],
           \A q \in Batches : step'[q] \notin {"idle", "done"} =>
              (step[q] \notin {"idle", "done"} /\ at'[q] = at[q]) \/ at'[q] = time'
    PROVE  InQuota'
<1>1. Stored' = Stored /\ \A w : Minted(w)' = Minted(w)
    BY Zenon DEF Stored, Minted, WindowOf, Free
<1>2. QuotaHolds' /\ ChargedOnce'
  <2>1. \A w : Cost(Minted(w)') = Cost(Minted(w))
      BY Zenon, <1>1
  <2> QED
      BY Zenon, <2>1 DEF InQuota, QuotaHolds, ChargedOnce, MintFaults, Windows,
          WindowOf, Free
<1>3. RowsGoLast'
  <2> SUFFICES ASSUME "late" \notin MintFaults, NEW w \in Windows, quotas[w] = Free,
                      Minted(w) # {}
               PROVE  /\ ~LiveWindow(w)'
                      /\ \A q \in Batches : step'[q] \notin {"idle", "done"} => WindowOf(at'[q]) # w
      BY Zenon, <1>1 DEF RowsGoLast, MintFaults, Windows, WindowOf, Free, InFlight
  <2>1. ~LiveWindow(w) /\ \A q \in InFlight : WindowOf(at[q]) # w
      BY Zenon DEF InQuota, RowsGoLast
  <2>2. w \in Int /\ Window \in Nat /\ time \in Int /\ time' \in Int
    <3>1. PICK t \in 0..Horizon : w = WindowOf(t)
        BY Zenon DEF Windows
    <3> QED
        BY <3>1, WindowOfTime, MintAssumption DEF MintTypeOK
  <2>3. ~(w + Window > time')
      BY <2>1, <2>2 DEF LiveWindow
  <2>4. ASSUME NEW q \in Batches, step'[q] \notin {"idle", "done"}, WindowOf(at'[q]) = w
        PROVE  FALSE
    <3>1. at'[q] = time'
        BY Zenon, <2>1, <2>4 DEF InFlight
    <3>2. PICK t \in 0..Horizon : t = time'
        BY Zenon
    <3>3. w + Window > time'
        BY Zenon, <2>4, <3>1, <3>2, WindowOfTime
    <3> QED
        BY Zenon, <2>3, <3>3
  <2> QED
      BY Zenon, <2>3, <2>4 DEF LiveWindow
<1> QED
    BY Zenon, <1>1, <1>2, <1>3 DEF InQuota

\* prune_mint_results: a row goes with its window, and with everyone who could charge it.
LEMMA QuotaPruned ==
    ASSUME MintTypeOK, InQuota, PruneMint, mintScenario' = mintScenario
    PROVE  InQuota'
<1>1. /\ UNCHANGED <<time, step, at, storedAt>>
      /\ quotas' = [w \in Windows |-> IF LiveWindow(w) THEN quotas[w] ELSE Free]
      /\ "late" \in MintFaults \/ Timely
    BY Zenon DEF PruneMint
<1>2. /\ Stored' = Stored /\ \A w : Minted(w)' = Minted(w)
      /\ \A w \in Windows : quotas'[w] = IF LiveWindow(w) THEN quotas[w] ELSE Free
    BY Zenon, <1>1 DEF Stored, Minted, WindowOf, Free
<1>c. \A w : Cost(Minted(w)') = Cost(Minted(w))
    BY Zenon, <1>2
<1>3. QuotaHolds'
    BY Zenon, <1>c DEF InQuota, QuotaHolds, MintFaults, Windows, WindowOf
<1>4. ChargedOnce'
    BY Zenon, <1>2, <1>c DEF InQuota, ChargedOnce, MintFaults, Windows, WindowOf, Free
<1>5. RowsGoLast'
  <2> SUFFICES ASSUME "late" \notin MintFaults, NEW w \in Windows, quotas'[w] = Free,
                      Minted(w) # {}
               PROVE  ~LiveWindow(w) /\ \A q \in InFlight : WindowOf(at[q]) # w
      BY Zenon, <1>1, <1>2 DEF RowsGoLast, MintFaults, Windows, WindowOf, Free,
          InFlight, LiveWindow
  <2>1. CASE LiveWindow(w)
      BY Zenon, <1>2, <2>1 DEF InQuota, RowsGoLast
  <2>2. CASE ~LiveWindow(w)
      BY Zenon, <1>1, <2>2 DEF Timely
  <2> QED
      BY Zenon, <2>1, <2>2
<1> QED
    BY Zenon, <1>2, <1>3, <1>4, <1>5 DEF InQuota

\* commit_mint charges the batch to a row that has all charges of its window.
LEMMA QuotaCharged ==
    ASSUME MintTypeOK, InQuota, NEW r \in Batches, step[r] = "commit",
           storedAt[r] = Free, Fits(r), Store(r), UNCHANGED <<time, at, mintScenario>>,
           \A q \in Batches : step'[q] \notin {"idle", "done"} => step[q] \notin {"idle", "done"}
    PROVE  InQuota'
<1>1. PICK w0 : w0 = WindowOf(at[r])
    BY Zenon
<1>2. /\ w0 \in Windows /\ time \in 0..Horizon /\ time # Free /\ CostOf[r] \in Nat
      /\ MaxTokens \in Nat /\ quotas[w0] \in 0..MaxTokens \cup {Free}
  <2>1. at[r] \in 0..Horizon /\ time \in 0..Horizon
      BY Zenon DEF MintTypeOK
  <2>2. PICK t \in 0..Horizon : t = at[r]
      BY Zenon, <2>1
  <2>3. w0 \in Windows
      BY Zenon, <1>1, <2>2, WindowOfTime
  <2> QED
      BY <2>1, <2>3, MintAssumption DEF MintTypeOK, Free
<1>3. /\ storedAt' = [storedAt EXCEPT ![r] = time] /\ time' = time /\ at' = at
      /\ quotas' = [quotas EXCEPT ![w0] = Used(w0) + CostOf[r]]
      /\ Used(w0) + CostOf[r] <= MaxTokens
    BY Zenon, <1>1 DEF Store, Fits
<1>4. /\ \A q \in Batches : storedAt'[q] # Free <=> storedAt[q] # Free \/ q = r
      /\ quotas'[w0] = Used(w0) + CostOf[r]
      /\ \A w \in Windows : w # w0 => quotas'[w] = quotas[w]
    BY <1>2, <1>3 DEF MintTypeOK
<1>5. /\ Minted(w0)' = Minted(w0) \cup {r} /\ r \notin Minted(w0)
      /\ \A w : w # w0 => Minted(w)' = Minted(w)
      /\ Stored' = Stored \cup {r}
    BY Zenon, <1>1, <1>3, <1>4 DEF Minted, WindowOf, Free, Stored
<1>6. IsFiniteSet(Stored')
    BY Zenon, <1>5, FS_AddElement DEF InQuota
<1>7. ASSUME "late" \notin MintFaults
      PROVE  /\ quotas'[w0] # Free /\ quotas'[w0] = Cost(Minted(w0)')
             /\ Cost(Minted(w0)') <= MaxTokens
  <2>1. PICK M \in SUBSET Batches : M = Minted(w0)
      BY Zenon DEF Minted
  <2>2. IsFiniteSet(M)
    <3>1. M \subseteq Stored
        BY Zenon, <2>1 DEF Minted, Stored
    <3> QED
        BY Zenon, <3>1, FS_Subset DEF InQuota
  <2>3. Cost(M \cup {r}) = Cost(M) + CostOf[r] /\ Cost(M) \in Nat
      BY Zenon, <1>5, <2>1, <2>2, CostOfBatches
  <2>4. Used(w0) = Cost(M)
    <3>1. CASE quotas[w0] = Free
      <4>1. M = {}
          BY Zenon, <1>1, <1>2, <1>7, <2>1, <3>1 DEF InQuota, RowsGoLast, InFlight
      <4> QED
          BY Zenon, <3>1, <4>1, CostOfNobody DEF Used
    <3>2. CASE quotas[w0] # Free
        BY Zenon, <1>2, <1>7, <2>1, <3>2 DEF InQuota, ChargedOnce, Used
    <3> QED
        BY Zenon, <3>1, <3>2
  <2>5. quotas'[w0] = Cost(M \cup {r}) /\ Cost(M \cup {r}) <= MaxTokens
      BY Zenon, <1>3, <1>4, <2>3, <2>4
  <2>6. quotas'[w0] # Free
    <3>1. \A a, b \in Nat : a + b # 0 - 1
        OBVIOUS
    <3> QED
        BY Zenon, <1>2, <2>3, <2>5, <3>1 DEF Free
  <2> QED
      BY Zenon, <1>5, <2>1, <2>5, <2>6
<1>8. \A w : w # w0 => Cost(Minted(w)') = Cost(Minted(w))
    BY Zenon, <1>5
<1>9. QuotaHolds'
    BY Zenon, <1>7, <1>8 DEF InQuota, QuotaHolds, MintFaults, Windows, WindowOf
<1>10. ChargedOnce'
    BY Zenon, <1>4, <1>7, <1>8 DEF InQuota, ChargedOnce, MintFaults, Windows, WindowOf, Free
<1>11. RowsGoLast'
    BY Zenon, <1>3, <1>4, <1>5, <1>7 DEF InQuota, RowsGoLast, MintFaults, Windows, WindowOf,
        Free, LiveWindow, InFlight
<1> QED
    BY Zenon, <1>6, <1>9, <1>10, <1>11 DEF InQuota


-----------------------------------------------------------------------------
(* What was admitted *)

Admitted == {r \in Batches : reserved[r] # Free}
Held(p, s) == {r \in Batches : PortalOf[r] = p /\ reserved[r] = s}
Bounded(p, s) ==
    Cost(Held(p, s)) <= MaxTokens /\ (bucket[p].start = s => Cost(Held(p, s)) <= bucket[p].used)
InLimits ==
    /\ \A p \in Portals, s \in 0..Horizon : Bounded(p, s)
    /\ AdmissionsInOrder /\ IsFiniteSet(Admitted)

\* The admissions of one window of one limiter are finitely many.
LEMMA HeldIsFinite ==
    ASSUME IsFiniteSet(Admitted), NEW p, NEW s \in 0..Horizon
    PROVE  IsFiniteSet(Held(p, s)) /\ Held(p, s) \in SUBSET Batches
<1>1. s # Free
    BY DEF Free
<1>2. Held(p, s) \subseteq Admitted
    BY Zenon, <1>1 DEF Held, Admitted
<1> QED
    BY Zenon, <1>2, FS_Subset DEF Held

\* No step but admission, a refund and a restart touches a limiter.
LEMMA LimitsStay ==
    ASSUME MintTypeOK, InLimits, UNCHANGED <<reserved, bucket>>,
           time' \in Int, time <= time',
           \A q \in Batches : step[q] \in {"commit", "done"} => step'[q] \in {"commit", "done"}
    PROVE  InLimits'
<1>1. Admitted' = Admitted /\ \A p, s : Held(p, s)' = Held(p, s)
    BY Zenon DEF Admitted, Held, Free
<1>2. \A p \in Portals, s \in 0..Horizon : Bounded(p, s)'
    BY Zenon, <1>1 DEF InLimits, Bounded
<1>3. AdmissionsInOrder'
  <2>1. time \in Int /\ \A p \in Portals : bucket[p].start \in Int
      BY DEF MintTypeOK, Free
  <2>2. \A p \in Portals : bucket[p].start <= time'
      BY <2>1 DEF InLimits, AdmissionsInOrder
  <2>3. ASSUME NEW q \in Batches, reserved[q] # Free
        PROVE  /\ step'[q] \in {"commit", "done"}
               /\ reserved[q] = bucket[PortalOf[q]].start \/ reserved[q] < time'
    <3>1. /\ step[q] \in {"commit", "done"}
          /\ reserved[q] = bucket[PortalOf[q]].start \/ reserved[q] < time
        BY Zenon, <2>3 DEF InLimits, AdmissionsInOrder
    <3>2. reserved[q] \in Int
        BY DEF MintTypeOK, Free
    <3> QED
        BY <2>1, <3>1, <3>2
  <2> QED
      BY Zenon, <2>2, <2>3 DEF AdmissionsInOrder, Free, Portals
<1> QED
    BY Zenon, <1>1, <1>2, <1>3 DEF InLimits

\* reserve_n: what it admits it has charged to the bucket of this window.
LEMMA LimitsReserve ==
    ASSUME MintTypeOK, InLimits, NEW r \in Batches, Reserve(r)
    PROVE  InLimits'
<1>0. PICK p0 : p0 = PortalOf[r]
    BY Zenon
<1>1. PICK b : b = bucket[p0]
    BY Zenon
<1>2. PICK new : new = Charged(b, CostOf[r])
    BY Zenon
<1>3. /\ p0 \in Portals /\ GoodBucket(b) /\ CostOf[r] \in Nat \ {0} /\ time \in 0..Horizon
      /\ \A q \in Batches : reserved[q] \in 0..Horizon \cup {Free} /\ PortalOf[q] \in Portals
      /\ Horizon \in Nat /\ MaxTokens \in Nat
  <2>1. p0 \in Portals /\ \A q \in Batches : PortalOf[q] \in Portals
      BY Zenon, <1>0 DEF Portals
  <2>2. GoodBucket(b)
      BY Zenon, <1>1, <2>1 DEF GoodBucket, MintBuckets, MintTypeOK
  <2> QED
      BY <2>1, <2>2, MintAssumption DEF MintTypeOK
<1>4. /\ GoodBucket(new) /\ new.start \in 0..Horizon
      /\ \/ new.start = time /\ new.used = CostOf[r] /\ b.start # time
         \/ new.start = b.start /\ new.used = b.used + CostOf[r]
    BY Zenon, <1>2, <1>3, ChargedBucket
<1>5. /\ step[r] = "admit" /\ bucket' = [bucket EXCEPT ![p0] = new] /\ time' = time
      /\ \/ /\ new.used <= MaxTokens /\ reserved' = [reserved EXCEPT ![r] = new.start]
            /\ step' = [step EXCEPT ![r] = "commit"]
         \/ /\ reserved' = reserved /\ step' = [step EXCEPT ![r] = "done"]
    BY Zenon, <1>0, <1>1, <1>2 DEF Reserve, Told
<1>6. bucket'[p0] = new /\ \A p \in Portals : p # p0 => bucket'[p] = bucket[p]
    BY Zenon, <1>3, <1>5 DEF MintTypeOK
<1>7. reserved[r] = Free
    BY Zenon, <1>5 DEF InLimits, AdmissionsInOrder
<1>8. b.start # time => Held(p0, time) = {}
  <2> SUFFICES ASSUME b.start # time, NEW q \in Held(p0, time) PROVE FALSE
      BY Zenon
  <2>1. q \in Batches /\ PortalOf[q] = p0 /\ reserved[q] = time /\ reserved[q] # Free
      BY <1>3 DEF Held, Free
  <2>2. reserved[q] < time
      BY Zenon, <1>1, <2>1 DEF InLimits, AdmissionsInOrder
  <2> QED
      BY <1>3, <2>1, <2>2
<1>9. Cost(Held(p0, new.start)) + CostOf[r] <= new.used
  <2>1. PICK H : H = Held(p0, new.start)
      BY Zenon
  <2>2. IsFiniteSet(H) /\ H \in SUBSET Batches
      BY Zenon, <1>4, <2>1, HeldIsFinite DEF InLimits
  <2>3. Cost(H) \in Nat
      BY Zenon, <2>2, CostOfBatches
  <2>4. CASE new.start = time /\ new.used = CostOf[r] /\ b.start # time
    <3>1. Cost(H) = 0
        BY Zenon, <1>8, <2>1, <2>4, CostOfNobody
    <3> QED
        BY <1>3, <2>1, <2>4, <3>1
  <2>5. CASE new.start = b.start /\ new.used = b.used + CostOf[r]
    <3>1. Cost(H) <= b.used
        BY Zenon, <1>1, <1>3, <1>4, <2>1, <2>5 DEF InLimits, Bounded
    <3>2. b.used \in Nat
        BY <1>3 DEF GoodBucket, MintBuckets
    <3> QED
        BY <1>3, <2>1, <2>3, <2>5, <3>1, <3>2
  <2> QED
      BY Zenon, <1>4, <2>4, <2>5
<1>10. /\ \A p \in Portals : bucket'[p].start <= time
       /\ \A q \in Batches : reserved[q] # Free =>
             /\ step[q] \in {"commit", "done"} /\ step'[q] = step[q]
             /\ reserved[q] = bucket'[PortalOf[q]].start \/ reserved[q] < time
  <2>1. \A p \in Portals : bucket[p].start \in Int /\ bucket[p].start <= time
      BY DEF InLimits, AdmissionsInOrder, MintTypeOK, Free
  <2>2. new.start = time \/ new.start = b.start
      BY Zenon, <1>4
  <2>3. new.start <= time
      BY <1>1, <1>3, <2>1, <2>2
  <2>4. ASSUME NEW q \in Batches, reserved[q] # Free
        PROVE  /\ step[q] \in {"commit", "done"} /\ step'[q] = step[q]
               /\ reserved[q] = bucket'[PortalOf[q]].start \/ reserved[q] < time
    <3>1. /\ step[q] \in {"commit", "done"} /\ q # r
          /\ reserved[q] = bucket[PortalOf[q]].start \/ reserved[q] < time
        BY Zenon, <1>7, <2>4 DEF InLimits, AdmissionsInOrder
    <3>2. step'[q] = step[q]
        BY Zenon, <1>5, <3>1 DEF MintTypeOK
    <3>3. CASE PortalOf[q] # p0
        BY Zenon, <1>3, <1>6, <3>1, <3>2, <3>3
    <3>4. CASE PortalOf[q] = p0
      <4>1. b.start = time \/ b.start < time
          BY <1>1, <1>3, <2>1
      <4> QED
          BY Zenon, <1>1, <1>6, <2>2, <3>1, <3>2, <3>4, <4>1
    <3> QED
        BY Zenon, <3>3, <3>4
  <2> QED
      BY Zenon, <1>6, <2>1, <2>3, <2>4
<1>11. CASE /\ new.used <= MaxTokens /\ reserved' = [reserved EXCEPT ![r] = new.start]
            /\ step' = [step EXCEPT ![r] = "commit"]
  <2>1. /\ reserved'[r] = new.start /\ \A q \in Batches : q # r => reserved'[q] = reserved[q]
        /\ step'[r] = "commit"
      BY Zenon, <1>11 DEF MintTypeOK
  <2>2. /\ Held(p0, new.start)' = Held(p0, new.start) \cup {r} /\ r \notin Held(p0, new.start)
        /\ \A p, s : s # Free /\ (p # p0 \/ s # new.start) => Held(p, s)' = Held(p, s)
        /\ Admitted' = Admitted \cup {r}
    <3>1. new.start # Free
        BY <1>4 DEF Free
    <3>2. Held(p0, new.start)' = Held(p0, new.start) \cup {r} /\ r \notin Held(p0, new.start)
        BY Zenon, <1>0, <1>7, <2>1, <3>1 DEF Held
    <3>3. \A p, s : s # Free /\ (p # p0 \/ s # new.start) => Held(p, s)' = Held(p, s)
        BY Zenon, <1>0, <1>7, <2>1 DEF Held
    <3>4. Admitted' = Admitted \cup {r}
        BY Zenon, <2>1, <3>1 DEF Admitted, Free
    <3> QED
        BY Zenon, <3>2, <3>3, <3>4
  <2>3. IsFiniteSet(Admitted')
      BY Zenon, <2>2, FS_AddElement DEF InLimits
  <2>4. Cost(Held(p0, new.start)') <= new.used /\ Cost(Held(p0, new.start)') <= MaxTokens
    <3>1. PICK H : H = Held(p0, new.start)
        BY Zenon
    <3>2. IsFiniteSet(H) /\ H \in SUBSET Batches
        BY Zenon, <1>4, <3>1, HeldIsFinite DEF InLimits
    <3>3. Cost(H \cup {r}) = Cost(H) + CostOf[r] /\ Cost(H) \in Nat
        BY Zenon, <2>2, <3>1, <3>2, CostOfBatches
    <3>4. Cost(H) + CostOf[r] <= new.used /\ new.used \in Nat
        BY <1>4, <1>9, <3>1 DEF GoodBucket, MintBuckets
    <3>5. Cost(H) + CostOf[r] <= MaxTokens
        BY <1>3, <1>11, <3>3, <3>4
    <3> QED
        BY Zenon, <2>2, <3>1, <3>3, <3>4, <3>5
  <2>5. ASSUME NEW p \in Portals, NEW s \in 0..Horizon PROVE Bounded(p, s)'
    <3>1. s # Free
        BY DEF Free
    <3>2. CASE p = p0 /\ s = new.start
        BY Zenon, <1>6, <2>4, <3>2 DEF Bounded
    <3>3. CASE p # p0
        BY Zenon, <1>6, <2>2, <3>1, <3>3 DEF InLimits, Bounded
    <3>4. CASE p = p0 /\ s # new.start
        BY Zenon, <1>6, <2>2, <3>1, <3>4 DEF InLimits, Bounded
    <3> QED
        BY Zenon, <3>2, <3>3, <3>4
  <2>6. AdmissionsInOrder'
    <3>1. ASSUME NEW q \in Batches, reserved'[q] # Free
          PROVE  /\ step'[q] \in {"commit", "done"}
                 /\ reserved'[q] = bucket'[PortalOf[q]].start \/ reserved'[q] < time
      <4>1. CASE q = r
          BY Zenon, <1>0, <1>6, <2>1, <4>1
      <4>2. CASE q # r
          BY Zenon, <1>10, <2>1, <3>1, <4>2
      <4> QED
          BY Zenon, <4>1, <4>2
    <3> QED
        BY Zenon, <1>5, <1>10, <3>1 DEF AdmissionsInOrder, Free, Portals
  <2> QED
      BY Zenon, <2>3, <2>5, <2>6 DEF InLimits
<1>12. CASE reserved' = reserved /\ step' = [step EXCEPT ![r] = "done"]
  <2>1. Admitted' = Admitted /\ \A p, s : Held(p, s)' = Held(p, s)
      BY Zenon, <1>12 DEF Admitted, Held, Free
  <2>2. Cost(Held(p0, new.start)) <= new.used
    <3>1. PICK H : H = Held(p0, new.start)
        BY Zenon
    <3>2. Cost(H) \in Nat
        BY Zenon, <1>4, <3>1, HeldIsFinite, CostOfBatches DEF InLimits
    <3>3. Cost(H) + CostOf[r] <= new.used /\ new.used \in Nat
        BY <1>4, <1>9, <3>1 DEF GoodBucket, MintBuckets
    <3> QED
        BY <1>3, <3>1, <3>2, <3>3
  <2>3. ASSUME NEW p \in Portals, NEW s \in 0..Horizon PROVE Bounded(p, s)'
    <3>1. Cost(Held(p, s)) <= MaxTokens
        BY Zenon DEF InLimits, Bounded
    <3>2. CASE p = p0
        BY Zenon, <1>6, <2>1, <2>2, <3>1, <3>2 DEF Bounded
    <3>3. CASE p # p0
        BY Zenon, <1>6, <2>1, <3>3 DEF InLimits, Bounded
    <3> QED
        BY Zenon, <3>2, <3>3
  <2>4. AdmissionsInOrder'
      BY Zenon, <1>5, <1>10, <1>12 DEF AdmissionsInOrder, Free, Portals
  <2> QED
      BY Zenon, <2>1, <2>3, <2>4 DEF InLimits
<1> QED
    BY Zenon, <1>5, <1>11, <1>12


\* Dropping a reservation gives back what it charged, if its window is still the bucket's;
\* the bucket goes when nobody else holds an admission of the window.
LEMMA LimitsRefund ==
    ASSUME MintTypeOK, InLimits, NEW r \in Batches, Refund(r),
           time' = time,
           \A q \in Batches : step[q] \in {"commit", "done"} => step'[q] \in {"commit", "done"}
    PROVE  InLimits' /\ bucket' \in [Portals -> MintBuckets] /\ \A p \in Portals : GoodBucket(bucket'[p])
<1>0. PICK p0, s0 : p0 = PortalOf[r] /\ s0 = reserved[r]
    BY Zenon
<1>1. PICK b : b = bucket[p0]
    BY Zenon
<1>2. PICK new : new = Refunded(b, s0, CostOf[r])
    BY Zenon
<1>3. /\ p0 \in Portals /\ GoodBucket(b) /\ CostOf[r] \in Nat \ {0} /\ time \in Int
      /\ \A q \in Batches : PortalOf[q] \in Portals
      /\ \A p \in Portals : GoodBucket(bucket[p])
  <2>1. p0 \in Portals /\ \A q \in Batches : PortalOf[q] \in Portals
      BY Zenon, <1>0 DEF Portals
  <2>2. \A p \in Portals : GoodBucket(bucket[p])
      BY Zenon DEF GoodBucket, MintBuckets, MintTypeOK
  <2> QED
      BY <1>1, <2>1, <2>2, MintAssumption DEF MintTypeOK
<1>4. /\ GoodBucket(new)
      /\ \/ new = b /\ (b.start # s0 \/ b.start = Free)
         \/ b.start = s0 /\ new.start = s0 /\ new.used = b.used - CostOf[r]
         \/ b.start = s0 /\ new.start = Free /\ b.used <= CostOf[r]
  <2>1. LET back == Refunded(b, s0, CostOf[r])
        IN  /\ GoodBucket(back)
            /\ \/ back = b /\ (b.start # s0 \/ b.start = Free)
               \/ b.start = s0 /\ back.start = s0 /\ back.used = b.used - CostOf[r]
               \/ b.start = s0 /\ back.start = Free /\ b.used <= CostOf[r]
      BY Zenon, <1>3, RefundedBucket
  <2> QED
      BY Zenon, <1>2, <2>1
<1>5. bucket' = [bucket EXCEPT ![p0] = new] /\ reserved' = [reserved EXCEPT ![r] = Free]
    BY Zenon, <1>0, <1>1, <1>2 DEF Refund
<1>6. /\ bucket'[p0] = new /\ \A p \in Portals : p # p0 => bucket'[p] = bucket[p]
      /\ reserved'[r] = Free /\ \A q \in Batches : q # r => reserved'[q] = reserved[q]
    BY Zenon, <1>3, <1>5 DEF MintTypeOK
<1>7. bucket' \in [Portals -> MintBuckets] /\ \A p \in Portals : GoodBucket(bucket'[p])
  <2>1. new \in MintBuckets /\ bucket \in [Portals -> MintBuckets]
      BY Zenon, <1>4 DEF GoodBucket, MintBuckets, MintTypeOK
  <2> QED
      BY Zenon, <1>3, <1>4, <1>5, <1>6, <2>1
<1>8. /\ \A p, s : s # Free => Held(p, s)' = IF p = p0 /\ s = s0 THEN Held(p, s) \ {r} ELSE Held(p, s)
      /\ Admitted' = Admitted \ {r}
      /\ s0 # Free => r \in Held(p0, s0)
  <2>1. ASSUME NEW p, NEW s, s # Free
        PROVE  Held(p, s)' = IF p = p0 /\ s = s0 THEN Held(p, s) \ {r} ELSE Held(p, s)
    <3>1. CASE p = p0 /\ s = s0
        BY Zenon, <1>0, <1>6, <2>1, <3>1 DEF Held
    <3>2. CASE ~(p = p0 /\ s = s0)
        BY Zenon, <1>0, <1>6, <2>1, <3>2 DEF Held
    <3> QED
        BY Zenon, <3>1, <3>2
  <2>2. Admitted' = Admitted \ {r}
      BY Zenon, <1>6 DEF Admitted, Free
  <2>3. r \in Held(p0, s0)
      BY Zenon, <1>0 DEF Held
  <2> QED
      BY Zenon, <2>1, <2>2, <2>3
<1>9. IsFiniteSet(Admitted')
    BY Zenon, <1>8, FS_Subset DEF InLimits
<1>10. ASSUME NEW s \in 0..Horizon
       PROVE  /\ Cost(Held(p0, s)') <= MaxTokens
              /\ new.start = s => Cost(Held(p0, s)') <= new.used
              /\ b.start = s /\ new.start = Free => Held(p0, s)' = {}
  <2>1. s # Free /\ MaxTokens \in Nat
      BY MintAssumption DEF Free
  <2>2. PICK H : H = Held(p0, s)
      BY Zenon
  <2>3. IsFiniteSet(H) /\ H \in SUBSET Batches
      BY Zenon, <2>2, HeldIsFinite DEF InLimits
  <2>4. Cost(H) <= MaxTokens /\ (b.start = s => Cost(H) <= b.used) /\ Cost(H) \in Nat
      BY Zenon, <1>1, <1>3, <2>2, <2>3, CostOfBatches DEF InLimits, Bounded
  <2>5. CASE s # s0
    <3>1. Held(p0, s)' = H
        BY Zenon, <1>8, <2>1, <2>2, <2>5
    <3>2. b.start = s => new = b
        BY Zenon, <1>4, <2>5
    <3>3. new.start = s => new = b
        BY Zenon, <1>4, <2>1, <2>5
    <3>4. ~(b.start = s /\ new.start = Free)
        BY Zenon, <2>1, <3>2
    <3> QED
        BY Zenon, <2>4, <3>1, <3>3, <3>4
  <2>6. CASE s = s0
    <3>1. Held(p0, s)' = H \ {r} /\ r \in H
        BY Zenon, <1>8, <2>1, <2>2, <2>6
    <3>2. Cost(H) = Cost(H \ {r}) + CostOf[r] /\ Cost(H \ {r}) \in Nat
        BY Zenon, <2>3, <3>1, CostOfBatches
    <3>3. PICK n \in Nat : n = Cost(H \ {r})
        BY Zenon, <3>2
    <3>4. n + CostOf[r] <= MaxTokens /\ (b.start = s => n + CostOf[r] <= b.used)
        BY Zenon, <2>4, <3>2, <3>3
    <3>5. n <= MaxTokens
        BY <1>3, <2>1, <3>4
    <3>6. new.start = s => n <= new.used
      <4>1. ASSUME new.start = s PROVE b.start = s /\ new.used = b.used - CostOf[r]
          BY Zenon, <1>4, <2>1, <2>6, <4>1
      <4>2. b.used \in Nat
          BY <1>3 DEF GoodBucket, MintBuckets
      <4> QED
          BY <1>3, <3>4, <4>1, <4>2
    <3>7. b.start = s /\ new.start = Free => H \ {r} = {}
      <4>1. ASSUME b.start = s, new.start = Free PROVE n <= 0
        <5>1. b.used <= CostOf[r] /\ b.used \in Nat
            BY <1>3, <1>4, <2>1, <2>6, <4>1 DEF GoodBucket, MintBuckets
        <5> QED
            BY <1>3, <3>4, <4>1, <5>1
      <4>2. IsFiniteSet(H \ {r}) /\ H \ {r} \in SUBSET Batches
          BY Zenon, <2>3, FS_Subset
      <4> QED
          BY Zenon, <3>3, <4>1, <4>2, CostOfBatches
    <3> QED
        BY Zenon, <3>1, <3>3, <3>5, <3>6, <3>7
  <2> QED
      BY Zenon, <2>5, <2>6
<1>11. ASSUME NEW p \in Portals, NEW s \in 0..Horizon PROVE Bounded(p, s)'
  <2>1. s # Free
      BY DEF Free
  <2>2. CASE p = p0
      BY Zenon, <1>6, <1>10, <2>2 DEF Bounded
  <2>3. CASE p # p0
      BY Zenon, <1>6, <1>8, <2>1, <2>3 DEF InLimits, Bounded
  <2> QED
      BY Zenon, <2>2, <2>3
<1>12. AdmissionsInOrder'
  <2>1. \A p \in Portals : bucket'[p].start <= time
    <3>1. \A p \in Portals : bucket[p].start <= time
        BY Zenon DEF InLimits, AdmissionsInOrder
    <3>2. new.start = b.start \/ new.start = Free
        BY Zenon, <1>4
    <3>3. Free <= time
        BY DEF MintTypeOK, Free
    <3> QED
        BY Zenon, <1>1, <1>3, <1>6, <3>1, <3>2, <3>3
  <2>2. ASSUME NEW q \in Batches, reserved'[q] # Free
        PROVE  /\ step'[q] \in {"commit", "done"}
               /\ reserved'[q] = bucket'[PortalOf[q]].start \/ reserved'[q] < time
    <3>1. q # r /\ reserved'[q] = reserved[q]
        BY Zenon, <1>6, <2>2
    <3>2. /\ step[q] \in {"commit", "done"}
          /\ reserved[q] = bucket[PortalOf[q]].start \/ reserved[q] < time
        BY Zenon, <2>2, <3>1 DEF InLimits, AdmissionsInOrder
    <3>3. CASE PortalOf[q] # p0
        BY Zenon, <1>3, <1>6, <3>1, <3>2, <3>3
    <3>4. CASE PortalOf[q] = p0 /\ new.start = b.start
        BY Zenon, <1>1, <1>6, <3>1, <3>2, <3>4
    <3>5. CASE PortalOf[q] = p0 /\ new.start = Free /\ reserved[q] = b.start
      <4>1. reserved[q] \in 0..Horizon
          BY Zenon, <2>2, <3>1 DEF MintTypeOK
      <4>2. q \in Held(p0, reserved[q])'
          BY Zenon, <3>1, <3>5 DEF Held
      <4>3. PICK s \in 0..Horizon : s = reserved[q]
          BY Zenon, <4>1
      <4>4. Held(p0, s)' = {}
          BY Zenon, <1>10, <3>5, <4>3
      <4>5. q \in Held(p0, s)'
          BY Zenon, <3>1, <3>5, <4>3 DEF Held
      <4> QED
          BY Zenon, <4>4, <4>5
    <3>6. new.start = b.start \/ new.start = Free
        BY Zenon, <1>4
    <3> QED
        BY Zenon, <1>1, <3>1, <3>2, <3>3, <3>4, <3>5, <3>6
  <2> QED
      BY Zenon, <2>1, <2>2 DEF AdmissionsInOrder, Free, Portals
<1> QED
    BY Zenon, <1>7, <1>9, <1>11, <1>12 DEF InLimits

\* A restarted replica has an empty limiter, and nobody it admitted is left.
LEMMA LimitsRestart ==
    ASSUME MintTypeOK, InLimits, NEW p0 \in Portals, Restart(p0),
           \A q \in Batches : step[q] \in {"commit", "done"} => step'[q] \in {"commit", "done"}
    PROVE  InLimits'
<1>1. /\ reserved' = [r \in Batches |-> IF PortalOf[r] = p0 THEN Free ELSE reserved[r]]
      /\ bucket' = [bucket EXCEPT ![p0] = AbsentBucket] /\ time' = time
    BY Zenon DEF Restart
<1>2. /\ \A q \in Batches : reserved'[q] = IF PortalOf[q] = p0 THEN Free ELSE reserved[q]
      /\ bucket'[p0] = AbsentBucket /\ \A p \in Portals : p # p0 => bucket'[p] = bucket[p]
    BY Zenon, <1>1 DEF MintTypeOK
<1>3. /\ \A s : s # Free => Held(p0, s)' = {}
      /\ \A p, s : p # p0 => Held(p, s)' = Held(p, s)
      /\ Admitted' \subseteq Admitted
    BY Zenon, <1>2 DEF Held, Admitted, Free
<1>4. IsFiniteSet(Admitted')
    BY Zenon, <1>3, FS_Subset DEF InLimits
<1>5. AbsentBucket.start = Free /\ MaxTokens \in Nat /\ 0 <= MaxTokens /\ Free <= time
    BY MintAssumption DEF AbsentBucket, Free, MintTypeOK
<1>6. ASSUME NEW p \in Portals, NEW s \in 0..Horizon PROVE Bounded(p, s)'
  <2>1. s # Free
      BY DEF Free
  <2>2. CASE p = p0
    <3>1. Cost(Held(p, s)') <= MaxTokens
        BY Zenon, <1>3, <1>5, <2>1, <2>2, CostOfNobody
    <3> QED
        BY Zenon, <1>2, <1>5, <2>1, <2>2, <3>1 DEF Bounded
  <2>3. CASE p # p0
      BY Zenon, <1>2, <1>3, <2>3 DEF InLimits, Bounded
  <2> QED
      BY Zenon, <2>2, <2>3
<1>7. AdmissionsInOrder'
  <2>1. \A p \in Portals : bucket'[p].start <= time
      BY Zenon, <1>2, <1>5 DEF InLimits, AdmissionsInOrder
  <2>2. ASSUME NEW q \in Batches, reserved'[q] # Free
        PROVE  /\ step'[q] \in {"commit", "done"}
               /\ reserved'[q] = bucket'[PortalOf[q]].start \/ reserved'[q] < time
    <3>1. PortalOf[q] # p0 /\ reserved'[q] = reserved[q] /\ PortalOf[q] \in Portals
        BY Zenon, <1>2, <2>2 DEF Portals
    <3> QED
        BY Zenon, <1>2, <2>2, <3>1 DEF InLimits, AdmissionsInOrder
  <2> QED
      BY Zenon, <1>1, <2>1, <2>2 DEF AdmissionsInOrder, Free, Portals
<1> QED
    BY Zenon, <1>4, <1>6, <1>7 DEF InLimits


-----------------------------------------------------------------------------
(* The handler's steps *)

MintAll == MintTypeOK /\ InTable /\ InQuota /\ InLimits /\ AnswersArePaidFor

\* An answer is a refusal, or the signatures of a stored batch with the same request hash.
LEMMA AnswersStay ==
    ASSUME AnswersArePaidFor,
           \A q \in Batches : storedAt[q] # Free => storedAt'[q] # Free,
           \A q \in Batches :
              \/ reply'[q] = reply[q] \/ reply'[q] \notin Batches
              \/ HashOf[reply'[q]] = HashOf[q] /\ storedAt'[reply'[q]] # Free
    PROVE  AnswersArePaidFor'
BY Zenon DEF AnswersArePaidFor, Free

\* What a live row answers.
LEMMA AnswerOfRow ==
    ASSUME MintTypeOK, InTable, NEW r \in Batches, Row(r) # "nobody"
    PROVE  \/ FromRow(r) = "conflict"
           \/ /\ FromRow(r) \in Batches /\ HashOf[FromRow(r)] = HashOf[r]
              /\ storedAt[FromRow(r)] # Free
<1>1. /\ KeyOf[r] \in Keys /\ Row(r) = results[KeyOf[r]] /\ Row(r) \in Batches
      /\ results[KeyOf[r]] # "nobody"
    BY Zenon, RowOfKey
<1>2. storedAt[Row(r)] # Free
    BY Zenon, <1>1 DEF InTable, StoredInOrder
<1> QED
    BY Zenon, <1>1, <1>2 DEF FromRow

\* The names of refusals are no requests.
LEMMA RefusalNames ==
    /\ \A a \in {"nobody", "none", "conflict", "unpaid", "limited", "failed"} : a \notin Batches
    /\ \A a \in {"none", "conflict", "unpaid", "limited", "failed"} : a \in MintRefusals
BY MintAssumption DEF MintRefusals

\* The clock is read.
LEMMA BeginKeeps ==
    ASSUME MintAll, NEW r \in Batches, Begin(r), mintScenario' = mintScenario
    PROVE  MintAll'
<1>1. /\ step[r] = "idle" /\ step' = [step EXCEPT ![r] = "lookup"] /\ at' = [at EXCEPT ![r] = time]
      /\ UNCHANGED <<time, reserved, bucket, results, quotas, reply, storedAt>>
    BY Zenon DEF Begin, stored
<1>2. MintTypeOK /\ InTable /\ InQuota /\ InLimits /\ AnswersArePaidFor
    BY Zenon DEF MintAll
<1>3. /\ step'[r] = "lookup" /\ at'[r] = time /\ time \in 0..Horizon /\ Horizon \in Nat
      /\ \A q \in Batches : q # r => step'[q] = step[q] /\ at'[q] = at[q]
    BY Zenon, <1>1, <1>2, MintAssumption DEF MintTypeOK
<1>4. time <= time' /\ time' \in Nat /\ time' \in 0..Horizon /\ time' \in Int
    BY <1>1, <1>3
<1>5. /\ \A q \in Batches : step[q] = "done" => step'[q] = "done" /\ at'[q] = at[q]
      /\ \A q \in Batches : step[q] \in {"commit", "done"} => step'[q] \in {"commit", "done"}
    BY Zenon, <1>1, <1>3
<1>6. MintTypeOK'
    BY Zenon, <1>1, <1>2, <1>3 DEF MintTypeOK, Keys, Portals, Free, Windows, WindowOf,
        MintRefusals
<1>7. InTable'
  <2>1. \A q \in Batches : at[q] <= time
      BY Zenon, <1>2 DEF InTable, StoredInOrder
  <2>2. \A q \in Batches : at'[q] <= time'
      BY Zenon, <1>1, <1>3, <1>4, <2>1
  <2> QED
      BY Zenon, <1>1, <1>2, <1>4, <1>5, <2>2, TableStays
<1>8. InQuota'
  <2>1. \A q \in Batches : storedAt[q] # Free => at'[q] = at[q]
      BY Zenon, <1>1, <1>2, <1>3 DEF InTable, StoredInOrder
  <2>2. \A q \in Batches : step'[q] \notin {"idle", "done"} =>
            (step[q] \notin {"idle", "done"} /\ at'[q] = at[q]) \/ at'[q] = time'
      BY Zenon, <1>1, <1>3
  <2> QED
      BY Zenon, <1>1, <1>2, <1>4, <2>1, <2>2, QuotaStays
<1>9. InLimits'
    BY Zenon, <1>1, <1>2, <1>4, <1>5, LimitsStay
<1>10. AnswersArePaidFor'
    BY Zenon, <1>1, <1>2, AnswersStay
<1> QED
    BY Zenon, <1>6, <1>7, <1>8, <1>9, <1>10 DEF MintAll

\* A step of one request that stores nothing: what is left to show of it.
LEMMA NothingStored ==
    ASSUME MintAll, NEW r \in Batches, step[r] \notin {"idle", "done"},
           UNCHANGED <<time, at, quotas, storedAt, mintScenario>>,
           results' \in {results, [results EXCEPT ![KeyOf[r]] = Row(r)]},
           NEW next \in {"admit", "commit", "done"}, step' = [step EXCEPT ![r] = next],
           NEW a \in Batches \cup MintRefusals, reply' = [reply EXCEPT ![r] = a],
           \/ a = reply[r] \/ a \notin Batches
           \/ HashOf[a] = HashOf[r] /\ storedAt[a] # Free,
           InLimits', reserved' \in [Batches -> 0..Horizon \cup {Free}],
           bucket' \in [Portals -> MintBuckets], \A p \in Portals : GoodBucket(bucket'[p])
    PROVE  MintAll'
<1>1. MintTypeOK /\ InTable /\ InQuota /\ AnswersArePaidFor
    BY Zenon DEF MintAll
<1>2. /\ step'[r] = next /\ \A q \in Batches : q # r => step'[q] = step[q]
      /\ reply'[r] = a /\ \A q \in Batches : q # r => reply'[q] = reply[q]
      /\ time \in 0..Horizon /\ KeyOf[r] \in Keys /\ Row(r) \in Batches \cup {"nobody"}
    BY Zenon, <1>1, RowOfKey DEF MintTypeOK
<1>3. time <= time' /\ time' \in Nat /\ time' \in 0..Horizon
    BY <1>2, MintAssumption
<1>4. \A q \in Batches : step[q] = "done" => step'[q] = "done" /\ at'[q] = at[q]
    BY Zenon, <1>2
<1>5. \A q \in Batches : at'[q] <= time'
    BY Zenon, <1>1 DEF InTable, StoredInOrder
<1>6. \A k \in Keys :
          \/ results'[k] = results[k]
          \/ results'[k] = "nobody" /\ results[k] \in Batches /\ ExpiresAt(results[k]) <= time
  <2> SUFFICES ASSUME NEW k \in Keys, results'[k] # results[k]
               PROVE  results'[k] = "nobody" /\ results[k] \in Batches /\ ExpiresAt(results[k]) <= time
      BY Zenon
  <2>1. k = KeyOf[r] /\ results'[k] = Row(r)
      BY Zenon, <1>1, <1>2 DEF MintTypeOK
  <2>2. Row(r) = "nobody" /\ results[k] \in Batches /\ ExpiresAt(results[k]) <= at[r]
      BY Zenon, <1>1, <2>1, RowOfKey
  <2>3. at[r] <= time /\ at[r] \in Int /\ time \in Int /\ ExpiresAt(results[k]) \in Int
    <3>1. at[r] <= time
        BY Zenon, <1>1 DEF InTable, StoredInOrder
    <3> QED
        BY <1>1, <2>2, <3>1, MintAssumption DEF MintTypeOK, ExpiresAt
  <2> QED
      BY <2>1, <2>2, <2>3
<1>7. InTable'
    BY Zenon, <1>1, <1>3, <1>4, <1>5, <1>6, TableStays
<1>8. InQuota'
  <2>1. \A q \in Batches : step'[q] \notin {"idle", "done"} =>
            (step[q] \notin {"idle", "done"} /\ at'[q] = at[q]) \/ at'[q] = time'
      BY Zenon, <1>2
  <2> QED
      BY Zenon, <1>1, <1>3, <2>1, QuotaStays
<1>9. AnswersArePaidFor'
  <2>1. \A q \in Batches :
            \/ reply'[q] = reply[q] \/ reply'[q] \notin Batches
            \/ HashOf[reply'[q]] = HashOf[q] /\ storedAt'[reply'[q]] # Free
      BY Zenon, <1>2
  <2> QED
      BY Zenon, <1>1, <2>1, AnswersStay
<1>10. MintTypeOK'
  <2>1. results' \in [Keys -> Batches \cup {"nobody"}]
      BY Zenon, <1>1, <1>2 DEF MintTypeOK
  <2>2. step' \in [Batches -> {"idle", "lookup", "admit", "commit", "done"}]
      BY Zenon, <1>1 DEF MintTypeOK
  <2>3. reply' \in [Batches -> Batches \cup MintRefusals]
      BY Zenon, <1>1 DEF MintTypeOK
  <2> QED
      BY Zenon, <1>1, <2>1, <2>2, <2>3 DEF MintTypeOK, Keys, Portals, Free, Windows,
          WindowOf, MintRefusals, GoodBucket, MintBuckets
<1> QED
    BY Zenon, <1>7, <1>8, <1>9, <1>10 DEF MintAll


\* A commit that stores the batch and its charge, whether the caller is told so or not.
LEMMA BatchStored ==
    ASSUME MintAll, NEW r \in Batches, step[r] = "commit",
           Row(r) = "nobody", Fits(r), Store(r),
           UNCHANGED <<time, at, mintScenario>>, NEW a \in {r, "failed"}, Told(r, a),
           InLimits', reserved' \in [Batches -> 0..Horizon \cup {Free}],
           bucket' \in [Portals -> MintBuckets], \A p \in Portals : GoodBucket(bucket'[p])
    PROVE  MintAll'
<1>1. MintTypeOK /\ InTable /\ InQuota /\ AnswersArePaidFor
    BY Zenon DEF MintAll
<1>2. /\ step' = [step EXCEPT ![r] = "done"] /\ reply' = [reply EXCEPT ![r] = a]
      /\ storedAt' = [storedAt EXCEPT ![r] = time] /\ results' = [results EXCEPT ![KeyOf[r]] = r]
      /\ quotas' = [quotas EXCEPT ![WindowOf(at[r])] = Used(WindowOf(at[r])) + CostOf[r]]
      /\ Used(WindowOf(at[r])) + CostOf[r] <= MaxTokens
    BY Zenon DEF Told, Store, Fits
<1>3. /\ step'[r] = "done" /\ \A q \in Batches : q # r => step'[q] = step[q]
      /\ reply'[r] = a /\ \A q \in Batches : q # r => reply'[q] = reply[q]
      /\ storedAt'[r] = time /\ \A q \in Batches : q # r => storedAt'[q] = storedAt[q]
      /\ time \in 0..Horizon /\ KeyOf[r] \in Keys
    BY Zenon, <1>1, <1>2, RowOfKey DEF MintTypeOK
<1>4. /\ \A q \in Batches : step[q] = "done" => step'[q] = "done"
      /\ \A q \in Batches : step'[q] \notin {"idle", "done"} => step[q] \notin {"idle", "done"}
    BY Zenon, <1>3
<1>5. time # Free
    BY <1>3 DEF Free
<1>6. InTable'
    BY Zenon, <1>1, <1>3, <1>4, TableGrows
<1>7. InQuota'
  <2>1. storedAt[r] = Free
      BY <1>1 DEF InTable, StoredInOrder
  <2> QED
      BY Zenon, <1>1, <1>4, <2>1, QuotaCharged
<1>8. AnswersArePaidFor'
  <2>1. \A q \in Batches :
            \/ reply'[q] = reply[q] \/ reply'[q] \notin Batches
            \/ HashOf[reply'[q]] = HashOf[q] /\ storedAt'[reply'[q]] # Free
      BY Zenon, <1>3, <1>5, RefusalNames
  <2>2. \A q \in Batches : storedAt[q] # Free => storedAt'[q] # Free
      BY Zenon, <1>3, <1>5
  <2> QED
      BY Zenon, <1>1, <2>1, <2>2, AnswersStay
<1>9. MintTypeOK'
  <2>1. results' \in [Keys -> Batches \cup {"nobody"}]
      BY Zenon, <1>1, <1>2, <1>3 DEF MintTypeOK
  <2>2. step' \in [Batches -> {"idle", "lookup", "admit", "commit", "done"}]
      BY Zenon, <1>1, <1>2 DEF MintTypeOK
  <2>3. reply' \in [Batches -> Batches \cup MintRefusals]
      BY Zenon, <1>1, <1>2, RefusalNames DEF MintTypeOK
  <2>4. storedAt' \in [Batches -> 0..Horizon \cup {Free}]
      BY Zenon, <1>1, <1>2, <1>3 DEF MintTypeOK
  <2>5. quotas' \in [Windows -> 0..MaxTokens \cup {Free}]
    <3>1. PICK w \in Windows : w = WindowOf(at[r])
      <4>1. PICK t \in 0..Horizon : t = at[r]
          BY Zenon, <1>1 DEF MintTypeOK
      <4> QED
          BY Zenon, <4>1, WindowOfTime
    <3>2. CostOf[r] \in Nat /\ MaxTokens \in Nat /\ quotas[w] \in 0..MaxTokens \cup {Free}
        BY <1>1, MintAssumption DEF MintTypeOK
    <3>3. Used(w) + CostOf[r] \in 0..MaxTokens
      <4>1. Used(w) \in Nat
          BY <3>2 DEF Used
      <4>2. Used(w) + CostOf[r] <= MaxTokens
          BY Zenon, <1>2, <3>1
      <4> QED
          BY <3>2, <4>1, <4>2
    <3> QED
        BY Zenon, <1>1, <1>2, <3>1, <3>3 DEF MintTypeOK
  <2> QED
      BY Zenon, <1>1, <2>1, <2>2, <2>3, <2>4, <2>5 DEF MintTypeOK, Keys, Portals, Free,
          Windows, WindowOf, MintRefusals, GoodBucket, MintBuckets
<1> QED
    BY Zenon, <1>6, <1>7, <1>8, <1>9 DEF MintAll

\* A step that leaves the limiter alone, or gives a reservation back to it.
LEMMA LimiterSteps ==
    ASSUME MintAll, NEW r \in Batches, time' = time,
           NEW next, step[r] \in {"commit", "done"} => next \in {"commit", "done"},
           step' = [step EXCEPT ![r] = next],
           Keep \/ Refund(r)
    PROVE  /\ InLimits' /\ reserved' \in [Batches -> 0..Horizon \cup {Free}]
           /\ bucket' \in [Portals -> MintBuckets] /\ \A p \in Portals : GoodBucket(bucket'[p])
<1>1. MintTypeOK /\ InLimits
    BY Zenon DEF MintAll
<1>2. \A q \in Batches : step[q] \in {"commit", "done"} => step'[q] \in {"commit", "done"}
    BY Zenon, <1>1 DEF MintTypeOK
<1>3. time' \in Int /\ time <= time'
    BY <1>1 DEF MintTypeOK
<1>4. CASE Keep
  <2>1. UNCHANGED <<reserved, bucket>>
      BY Zenon, <1>4 DEF Keep
  <2>2. InLimits'
      BY Zenon, <1>1, <1>2, <1>3, <2>1, LimitsStay
  <2> QED
      BY Zenon, <1>1, <2>1, <2>2 DEF MintTypeOK, GoodBucket, MintBuckets
<1>5. CASE Refund(r)
  <2>1. /\ InLimits' /\ bucket' \in [Portals -> MintBuckets]
        /\ \A p \in Portals : GoodBucket(bucket'[p])
      BY Zenon, <1>1, <1>2, <1>5, LimitsRefund
  <2>2. reserved' \in [Batches -> 0..Horizon \cup {Free}]
      BY Zenon, <1>1, <1>5 DEF Refund, MintTypeOK
  <2> QED
      BY Zenon, <2>1, <2>2
<1> QED
    BY Zenon, <1>4, <1>5

\* lookup_mint, and the entitlement gate.
LEMMA LookupKeeps ==
    ASSUME MintAll, NEW r \in Batches, Lookup(r), mintScenario' = mintScenario
    PROVE  MintAll'
<1>1. MintTypeOK /\ InTable
    BY Zenon DEF MintAll
<1>2. /\ step[r] = "lookup" /\ results' = [results EXCEPT ![KeyOf[r]] = Row(r)]
      /\ UNCHANGED <<time, at, quotas, reserved, bucket, storedAt>> /\ Keep
    BY Zenon DEF Lookup, Keep
<1>3. \E next \in {"admit", "done"}, a \in Batches \cup MintRefusals :
         /\ step' = [step EXCEPT ![r] = next] /\ reply' = [reply EXCEPT ![r] = a]
         /\ \/ a = reply[r] \/ a \notin Batches
            \/ HashOf[a] = HashOf[r] /\ storedAt[a] # Free
  <2>1. CASE Row(r) # "nobody" /\ Told(r, FromRow(r))
    <3>1. /\ FromRow(r) \in Batches \cup MintRefusals
          /\ \/ FromRow(r) \notin Batches
             \/ HashOf[FromRow(r)] = HashOf[r] /\ storedAt[FromRow(r)] # Free
        BY Zenon, <1>1, <2>1, AnswerOfRow, RefusalNames
    <3> QED
        BY Zenon, <2>1, <3>1 DEF Told
  <2>2. CASE Told(r, "unpaid")
      BY Zenon, <2>2, RefusalNames DEF Told
  <2>3. CASE step' = [step EXCEPT ![r] = "admit"] /\ reply' = reply
    <3>1. reply[r] \in Batches \cup MintRefusals /\ reply' = [reply EXCEPT ![r] = reply[r]]
        BY Zenon, <1>1, <2>3 DEF MintTypeOK
    <3> QED
        BY Zenon, <2>3, <3>1
  <2> QED
      BY Zenon, <2>1, <2>2, <2>3 DEF Lookup
<1>4. PICK next \in {"admit", "done"}, a \in Batches \cup MintRefusals :
         /\ step' = [step EXCEPT ![r] = next] /\ reply' = [reply EXCEPT ![r] = a]
         /\ \/ a = reply[r] \/ a \notin Batches
            \/ HashOf[a] = HashOf[r] /\ storedAt[a] # Free
    BY Zenon, <1>3
<1>5. /\ InLimits' /\ reserved' \in [Batches -> 0..Horizon \cup {Free}]
      /\ bucket' \in [Portals -> MintBuckets] /\ \A p \in Portals : GoodBucket(bucket'[p])
    BY Zenon, <1>2, <1>4, LimiterSteps
<1>6. next \in {"admit", "commit", "done"} /\ step[r] \notin {"idle", "done"}
    BY <1>2
<1> QED
    BY Zenon, <1>2, <1>4, <1>5, <1>6, NothingStored

\* reserve_n admits or refuses.
LEMMA ReserveKeeps ==
    ASSUME MintAll, NEW r \in Batches, Reserve(r), mintScenario' = mintScenario
    PROVE  MintAll'
<1>1. MintTypeOK /\ InLimits
    BY Zenon DEF MintAll
<1>2. PICK b : b = bucket[PortalOf[r]]
    BY Zenon
<1>3. PICK new : new = Charged(b, CostOf[r])
    BY Zenon
<1>4. /\ step[r] = "admit" /\ bucket' = [bucket EXCEPT ![PortalOf[r]] = new]
      /\ UNCHANGED <<time, at, results, quotas, storedAt>>
      /\ \/ /\ reserved' = [reserved EXCEPT ![r] = new.start] /\ step' = [step EXCEPT ![r] = "commit"]
            /\ reply' = reply
         \/ /\ reserved' = reserved /\ step' = [step EXCEPT ![r] = "done"]
            /\ reply' = [reply EXCEPT ![r] = "limited"]
    BY Zenon, <1>2, <1>3 DEF Reserve, Told, stored
<1>5. GoodBucket(new) /\ new.start \in 0..Horizon
  <2>1. PortalOf[r] \in Portals
      BY Zenon DEF Portals
  <2>2. GoodBucket(b)
      BY Zenon, <1>1, <1>2, <2>1 DEF GoodBucket, MintBuckets, MintTypeOK
  <2>3. time \in 0..Horizon /\ CostOf[r] \in Nat \ {0}
      BY Zenon, <1>1, MintAssumption DEF MintTypeOK
  <2> QED
      BY Zenon, <1>3, <2>2, <2>3, ChargedBucket
<1>6. /\ reserved' \in [Batches -> 0..Horizon \cup {Free}]
      /\ bucket' \in [Portals -> MintBuckets] /\ \A p \in Portals : GoodBucket(bucket'[p])
  <2>1. bucket \in [Portals -> MintBuckets] /\ \A p \in Portals : GoodBucket(bucket[p])
      BY Zenon, <1>1 DEF GoodBucket, MintBuckets, MintTypeOK
  <2>2. reserved' \in [Batches -> 0..Horizon \cup {Free}]
      BY Zenon, <1>1, <1>4, <1>5 DEF MintTypeOK
  <2>3. new \in MintBuckets
      BY Zenon, <1>5 DEF GoodBucket
  <2> QED
      BY Zenon, <1>4, <1>5, <2>1, <2>2, <2>3
<1>7. InLimits'
    BY Zenon, <1>1, LimitsReserve
<1>8. step[r] \notin {"idle", "done"} /\ results' = results
    BY <1>4
<1>9. CASE step' = [step EXCEPT ![r] = "commit"] /\ reply' = reply
  <2>1. reply[r] \in Batches \cup MintRefusals /\ reply' = [reply EXCEPT ![r] = reply[r]]
      BY Zenon, <1>1, <1>9 DEF MintTypeOK
  <2>2. PICK a \in Batches \cup MintRefusals : a = reply[r]
      BY Zenon, <2>1
  <2> QED
      BY Zenon, <1>4, <1>6, <1>7, <1>8, <1>9, <2>1, <2>2, NothingStored
<1>10. CASE step' = [step EXCEPT ![r] = "done"] /\ reply' = [reply EXCEPT ![r] = "limited"]
    BY Zenon, <1>4, <1>6, <1>7, <1>8, <1>10, RefusalNames, NothingStored
<1> QED
    BY Zenon, <1>4, <1>9, <1>10


\* A request that ends without storing: its reservation is kept or given back.
LEMMA EndsUnstored ==
    ASSUME MintAll, NEW r \in Batches, step[r] = "commit",
           UNCHANGED <<time, at, quotas, storedAt, mintScenario>>,
           results' \in {results, [results EXCEPT ![KeyOf[r]] = Row(r)]},
           NEW a \in Batches \cup MintRefusals, Told(r, a),
           \/ a \notin Batches
           \/ HashOf[a] = HashOf[r] /\ storedAt[a] # Free,
           Keep \/ Refund(r)
    PROVE  MintAll'
<1>1. step' = [step EXCEPT ![r] = "done"] /\ reply' = [reply EXCEPT ![r] = a]
    BY Zenon DEF Told
<1>2. /\ InLimits' /\ reserved' \in [Batches -> 0..Horizon \cup {Free}]
      /\ bucket' \in [Portals -> MintBuckets] /\ \A p \in Portals : GoodBucket(bucket'[p])
    BY Zenon, <1>1, LimiterSteps
<1>3. step[r] \notin {"idle", "done"}
    OBVIOUS
<1> QED
    BY Zenon, <1>1, <1>2, <1>3, NothingStored

\* A batch that is stored, and its reservation kept or given back.
LEMMA EndsStored ==
    ASSUME MintAll, NEW r \in Batches, step[r] = "commit",
           Row(r) = "nobody", Fits(r), Store(r),
           UNCHANGED <<time, at, mintScenario>>, NEW a \in {r, "failed"}, Told(r, a),
           Keep \/ Refund(r)
    PROVE  MintAll'
<1>1. step' = [step EXCEPT ![r] = "done"]
    BY Zenon DEF Told
<1>2. /\ InLimits' /\ reserved' \in [Batches -> 0..Horizon \cup {Free}]
      /\ bucket' \in [Portals -> MintBuckets] /\ \A p \in Portals : GoodBucket(bucket'[p])
    BY Zenon, <1>1, LimiterSteps
<1> QED
    BY Zenon, <1>2, BatchStored

\* blind_sign fails.
LEMMA SignFailsKeeps ==
    ASSUME MintAll, NEW r \in Batches, SignFails(r), mintScenario' = mintScenario
    PROVE  MintAll'
<1>1. /\ step[r] = "commit" /\ UNCHANGED <<time, at, results, quotas, storedAt>>
      /\ Told(r, "failed") /\ Refund(r)
    BY Zenon DEF SignFails, stored
<1> QED
    BY Zenon, <1>1, RefusalNames, EndsUnstored

\* commit_mint replays, refuses or stores.
LEMMA CommitKeeps ==
    ASSUME MintAll, NEW r \in Batches, Commit(r), mintScenario' = mintScenario
    PROVE  MintAll'
<1>1. step[r] = "commit" /\ UNCHANGED <<time, at>> /\ MintTypeOK /\ InTable
    BY Zenon DEF Commit, MintAll
<1>2. CASE Row(r) # "nobody" /\ StoreNothing(r) /\ Told(r, FromRow(r)) /\ Refund(r)
  <2>1. PICK a \in Batches \cup MintRefusals :
            /\ a = FromRow(r)
            /\ a \notin Batches \/ (HashOf[a] = HashOf[r] /\ storedAt[a] # Free)
      BY Zenon, <1>1, <1>2, AnswerOfRow, RefusalNames
  <2>2. Told(r, a)
      BY Zenon, <1>2, <2>1
  <2>3. results' = [results EXCEPT ![KeyOf[r]] = Row(r)] /\ UNCHANGED <<quotas, storedAt>>
      BY Zenon, <1>2 DEF StoreNothing
  <2> QED
      BY Zenon, <1>1, <1>2, <2>1, <2>2, <2>3, EndsUnstored
<1>3. CASE StoreNothing(r) /\ Told(r, "limited") /\ Keep
  <2>1. results' = [results EXCEPT ![KeyOf[r]] = Row(r)] /\ UNCHANGED <<quotas, storedAt>>
      BY Zenon, <1>3 DEF StoreNothing
  <2> QED
      BY Zenon, <1>1, <1>3, <2>1, RefusalNames, EndsUnstored
<1>4. CASE Row(r) = "nobody" /\ Fits(r) /\ Store(r) /\ Told(r, r) /\ Keep
    BY Zenon, <1>1, <1>4, EndsStored
<1> QED
    BY Zenon, <1>2, <1>3, <1>4 DEF Commit

\* commit_mint reports an error, stored or not.
LEMMA CommitFailsKeeps ==
    ASSUME MintAll, NEW r \in Batches, CommitFails(r), mintScenario' = mintScenario
    PROVE  MintAll'
<1>1. step[r] = "commit" /\ UNCHANGED <<time, at>> /\ Told(r, "failed") /\ Refund(r)
    BY Zenon DEF CommitFails
<1>2. CASE UNCHANGED <<results, quotas, storedAt>>
    BY Zenon, <1>1, <1>2, RefusalNames, EndsUnstored
<1>3. CASE Row(r) = "nobody" /\ Fits(r) /\ Store(r)
    BY Zenon, <1>1, <1>3, EndsStored
<1> QED
    BY Zenon, <1>2, <1>3 DEF CommitFails, stored

\* prune_mint_results.
LEMMA PruneKeeps ==
    ASSUME MintAll, PruneMint, mintScenario' = mintScenario
    PROVE  MintAll'
<1>1. MintTypeOK /\ InTable /\ InQuota /\ InLimits /\ AnswersArePaidFor
    BY Zenon DEF MintAll
<1>2. /\ UNCHANGED <<time, step, at, reserved, bucket, reply, storedAt>>
      /\ results' = [k \in Keys |-> IF results[k] # "nobody" /\ ExpiresAt(results[k]) <= time
                                         THEN "nobody" ELSE results[k]]
      /\ quotas' = [w \in Windows |-> IF LiveWindow(w) THEN quotas[w] ELSE Free]
    BY Zenon DEF PruneMint
<1>3. time' \in Nat /\ time' \in Int /\ time <= time'
    BY <1>1, <1>2 DEF MintTypeOK
<1>4. \A k \in Keys :
         \/ results'[k] = results[k]
         \/ /\ results'[k] = "nobody" /\ results[k] \in Batches
            /\ ExpiresAt(results[k]) <= time
    BY Zenon, <1>1, <1>2 DEF MintTypeOK
<1>5. InTable'
  <2>1. \A q \in Batches : at'[q] <= time'
      BY <1>1, <1>2 DEF InTable, StoredInOrder
  <2> QED
      BY Zenon, <1>1, <1>2, <1>3, <1>4, <2>1, TableStays
<1>6. InQuota'
    BY Zenon, <1>1, QuotaPruned
<1>7. InLimits'
    BY Zenon, <1>1, <1>2, <1>3, LimitsStay
<1>8. AnswersArePaidFor'
    BY Zenon, <1>1, <1>2, AnswersStay
<1>9. MintTypeOK'
  <2>1. results' \in [Keys -> Batches \cup {"nobody"}]
      BY Zenon, <1>1, <1>2 DEF MintTypeOK
  <2>2. quotas' \in [Windows -> 0..MaxTokens \cup {Free}]
      BY Zenon, <1>1, <1>2 DEF MintTypeOK
  <2> QED
      BY Zenon, <1>1, <1>2, <2>1, <2>2 DEF MintTypeOK, Keys, Portals, Free,
          Windows, WindowOf, MintRefusals
<1> QED
    BY Zenon, <1>5, <1>6, <1>7, <1>8, <1>9 DEF MintAll

\* Time passes, or nothing happens.
LEMMA TimeKeeps ==
    ASSUME MintAll, time' \in 0..Horizon, time <= time',
           UNCHANGED <<step, at, reserved, bucket, results, quotas, reply, storedAt, mintScenario>>
    PROVE  MintAll'
<1>1. MintTypeOK /\ InTable /\ InQuota /\ InLimits /\ AnswersArePaidFor
    BY Zenon DEF MintAll
<1>2. time' \in Nat /\ time' \in Int
    OBVIOUS
<1>3. InTable'
  <2>1. \A q \in Batches : at'[q] <= time'
    <3>1. \A q \in Batches : at[q] <= time /\ at[q] \in Int
        BY <1>1 DEF InTable, StoredInOrder, MintTypeOK
    <3>2. time \in Int
        BY <1>1 DEF MintTypeOK
    <3> QED
        BY <1>2, <3>1, <3>2
  <2> QED
      BY Zenon, <1>1, <1>2, <2>1, TableStays
<1>4. InQuota'
    BY Zenon, <1>1, QuotaStays
<1>5. InLimits'
    BY Zenon, <1>1, <1>2, LimitsStay
<1>6. AnswersArePaidFor'
    BY Zenon, <1>1, AnswersStay
<1>7. MintTypeOK'
    BY Zenon, <1>1 DEF MintTypeOK, Keys, Portals, Free, Windows, WindowOf,
        MintRefusals
<1> QED
    BY Zenon, <1>3, <1>4, <1>5, <1>6, <1>7 DEF MintAll


\* A replica restarts.
LEMMA RestartKeeps ==
    ASSUME MintAll, NEW p0 \in Portals, Restart(p0), mintScenario' = mintScenario
    PROVE  MintAll'
<1>1. MintTypeOK /\ InTable /\ InQuota /\ InLimits /\ AnswersArePaidFor
    BY Zenon DEF MintAll
<1>2. PICK gone : gone = {r \in InFlight : PortalOf[r] = p0}
    BY Zenon
<1>3. /\ UNCHANGED <<time, at, results, quotas, storedAt>>
      /\ step' = [r \in Batches |-> IF r \in gone THEN "done" ELSE step[r]]
      /\ reply' = [r \in Batches |-> IF r \in gone THEN "failed" ELSE reply[r]]
      /\ reserved' = [r \in Batches |-> IF PortalOf[r] = p0 THEN Free ELSE reserved[r]]
      /\ bucket' = [bucket EXCEPT ![p0] = AbsentBucket]
    BY Zenon, <1>2 DEF Restart, stored
<1>4. \A q \in Batches : step'[q] \in {step[q], "done"} /\ reply'[q] \in {reply[q], "failed"}
    BY Zenon, <1>3
<1>5. /\ \A q \in Batches : step[q] = "done" => step'[q] = "done"
      /\ \A q \in Batches : step[q] \in {"commit", "done"} => step'[q] \in {"commit", "done"}
      /\ \A q \in Batches : step'[q] \notin {"idle", "done"} => step[q] \notin {"idle", "done"}
    BY Zenon, <1>4
<1>6. time' \in Nat /\ time' \in Int /\ time <= time' /\ time' \in 0..Horizon
    BY <1>1, <1>3 DEF MintTypeOK
<1>7. InTable'
  <2>1. \A q \in Batches : at'[q] <= time'
      BY <1>1, <1>3 DEF InTable, StoredInOrder
  <2> QED
      BY Zenon, <1>1, <1>3, <1>5, <1>6, <2>1, TableStays
<1>8. InQuota'
    BY Zenon, <1>1, <1>3, <1>5, <1>6, QuotaStays
<1>9. InLimits'
    BY Zenon, <1>1, <1>5, LimitsRestart
<1>10. AnswersArePaidFor'
    BY Zenon, <1>1, <1>3, <1>4, RefusalNames, AnswersStay
<1>11. MintTypeOK'
  <2>1. step' \in [Batches -> {"idle", "lookup", "admit", "commit", "done"}]
      BY Zenon, <1>1, <1>3 DEF MintTypeOK
  <2>2. reply' \in [Batches -> Batches \cup MintRefusals]
      BY Zenon, <1>1, <1>3, RefusalNames DEF MintTypeOK
  <2>3. reserved' \in [Batches -> 0..Horizon \cup {Free}]
      BY Zenon, <1>1, <1>3 DEF MintTypeOK
  <2>4. /\ bucket' \in [Portals -> MintBuckets]
        /\ \A p \in Portals : bucket'[p].start # Free => bucket'[p].used > 0
    <3>1. AbsentBucket \in MintBuckets /\ AbsentBucket.start = Free
        BY DEF AbsentBucket, MintBuckets, Free
    <3>2. bucket \in [Portals -> MintBuckets]
        BY Zenon, <1>1 DEF MintTypeOK, MintBuckets
    <3>3. bucket' \in [Portals -> MintBuckets]
        BY Zenon, <1>3, <3>1, <3>2
    <3>4. \A p \in Portals : bucket'[p] = AbsentBucket \/ bucket'[p] = bucket[p]
        BY Zenon, <1>3, <3>2
    <3> QED
        BY Zenon, <1>1, <3>1, <3>3, <3>4 DEF MintTypeOK
  <2> QED
      BY Zenon, <1>1, <1>3, <2>1, <2>2, <2>3, <2>4 DEF MintTypeOK, Keys, Portals, Free,
          Windows, WindowOf, MintRefusals, MintBuckets
<1> QED
    BY Zenon, <1>7, <1>8, <1>9, <1>10, <1>11 DEF MintAll

\* Before the first request nothing is stored, charged or admitted.
LEMMA FirstMintAll ==
    ASSUME MintInit
    PROVE  MintAll
<1>1. /\ mintScenario \in MintScenarios /\ time = 0
      /\ step = [r \in Batches |-> "idle"] /\ at = [r \in Batches |-> 0]
      /\ reserved = [r \in Batches |-> Free] /\ bucket = [p \in Portals |-> AbsentBucket]
      /\ results = [k \in Keys |-> "nobody"] /\ quotas = [w \in Windows |-> Free]
      /\ reply = [r \in Batches |-> "none"] /\ storedAt = [r \in Batches |-> Free]
    BY Zenon DEF MintInit
<1>2. 0 \in 0..Horizon /\ MaxTokens \in Nat /\ 0 <= MaxTokens
    BY MintAssumption
<1>3. /\ \A r \in Batches : at[r] = 0 /\ storedAt[r] = Free /\ reserved[r] = Free /\ reply[r] = "none"
      /\ \A k \in Keys : results[k] = "nobody"
      /\ \A p \in Portals : bucket[p] = AbsentBucket
      /\ \A w \in Windows : quotas[w] = Free
    BY Zenon, <1>1
<1>4. AbsentBucket \in MintBuckets /\ AbsentBucket.start = Free /\ Free <= 0
    BY DEF AbsentBucket, MintBuckets, Free
<1>5. MintTypeOK
  <2>1. bucket \in [Portals -> MintBuckets]
      BY Zenon, <1>1, <1>4
  <2>2. reply \in [Batches -> Batches \cup MintRefusals]
      BY Zenon, <1>1, RefusalNames
  <2>3. /\ step \in [Batches -> {"idle", "lookup", "admit", "commit", "done"}]
        /\ at \in [Batches -> 0..Horizon] /\ reserved \in [Batches -> 0..Horizon \cup {Free}]
        /\ results \in [Keys -> Batches \cup {"nobody"}]
        /\ quotas \in [Windows -> 0..MaxTokens \cup {Free}]
        /\ storedAt \in [Batches -> 0..Horizon \cup {Free}]
      BY Zenon, <1>1, <1>2
  <2> QED
      BY Zenon, <1>1, <1>2, <1>3, <1>4, <2>1, <2>2, <2>3 DEF MintTypeOK, MintBuckets
<1>6. InTable
  <2>1. \A r \in Batches : at[r] <= time
      BY <1>1, <1>3
  <2> QED
      BY Zenon, <1>3, <2>1 DEF InTable, StoredInOrder, ReplacedOnlyExpired
<1>7. AnswersArePaidFor
    BY Zenon, <1>3, RefusalNames DEF AnswersArePaidFor
<1>8. InQuota
  <2>1. Stored = {} /\ \A w : Minted(w) = {}
      BY Zenon, <1>3 DEF Stored, Minted
  <2>2. \A w : Cost(Minted(w)) = 0
      BY Zenon, <2>1, CostOfNobody
  <2>3. \A w : Cost(Minted(w)) <= MaxTokens
      BY <1>2, <2>2
  <2>4. QuotaHolds
      BY Zenon, <2>3 DEF QuotaHolds
  <2>5. ChargedOnce /\ RowsGoLast
      BY Zenon, <1>3, <2>1 DEF ChargedOnce, RowsGoLast
  <2> QED
      BY Zenon, <2>1, <2>4, <2>5, FS_EmptySet DEF InQuota
<1>9. InLimits
  <2>1. Admitted = {} /\ \A p, s : s # Free => Held(p, s) = {}
      BY Zenon, <1>3 DEF Admitted, Held
  <2>2. \A s \in 0..Horizon : s # Free
      BY DEF Free
  <2>3. \A p \in Portals, s \in 0..Horizon : Bounded(p, s)
    <3>1. ASSUME NEW p \in Portals, NEW s \in 0..Horizon
          PROVE  Cost(Held(p, s)) = 0 /\ bucket[p].start # s
        BY Zenon, <1>3, <1>4, <2>1, <2>2, CostOfNobody
    <3>2. ASSUME NEW p \in Portals, NEW s \in 0..Horizon
          PROVE  Cost(Held(p, s)) <= MaxTokens
        BY <1>2, <3>1
    <3> QED
        BY Zenon, <3>1, <3>2 DEF Bounded
  <2>4. AdmissionsInOrder
      BY Zenon, <1>1, <1>3, <1>4 DEF AdmissionsInOrder
  <2> QED
      BY Zenon, <2>1, <2>3, <2>4, FS_EmptySet DEF InLimits
<1> QED
    BY Zenon, <1>5, <1>6, <1>7, <1>8, <1>9 DEF MintAll

\* Every step of the mint keeps it.
LEMMA NextMintAll ==
    ASSUME MintAll, [MintNext]_mintVars
    PROVE  MintAll'
<1>1. \A r \in mintScenario.requests : r \in Batches
    BY Zenon, MintAssumption DEF MintAll, MintTypeOK
<1>2. time \in 0..Horizon
    BY Zenon DEF MintAll, MintTypeOK
<1>3. ASSUME NEW r \in mintScenario.requests, mintScenario' = mintScenario, Begin(r) \/ Step(r)
      PROVE  MintAll'
    BY Zenon, <1>1, <1>3, BeginKeeps, LookupKeeps, ReserveKeeps, SignFailsKeeps, CommitKeeps,
        CommitFailsKeeps DEF Step
<1>4. CASE PruneMint /\ mintScenario' = mintScenario
    BY Zenon, <1>4, PruneKeeps
<1>5. CASE MintTick /\ mintScenario' = mintScenario
  <2>1. /\ time < Horizon /\ time' = time + 1
        /\ UNCHANGED <<step, at, reserved, bucket, results, quotas, reply, storedAt, mintScenario>>
      BY Zenon, <1>5 DEF MintTick, stored
  <2>2. time' \in 0..Horizon /\ time <= time'
      BY <1>2, <2>1, MintAssumption
  <2> QED
      BY Zenon, <2>1, <2>2, TimeKeeps
<1>6. ASSUME NEW p \in Portals, Restart(p), mintScenario' = mintScenario
      PROVE  MintAll'
    BY Zenon, <1>6, RestartKeeps
<1>7. CASE UNCHANGED mintVars
  <2>1. UNCHANGED <<time, step, at, reserved, bucket, results, quotas, reply, storedAt, mintScenario>>
      BY Zenon, <1>7 DEF mintVars, stored
  <2>2. time' \in 0..Horizon /\ time <= time'
      BY <1>2, <2>1
  <2> QED
      BY Zenon, <2>1, <2>2, TimeKeeps
<1> QED
    BY Zenon, <1>3, <1>4, <1>5, <1>6, <1>7 DEF MintNext

\* What was shown is what the run checks.
LEMMA MintAllSuffices ==
    ASSUME MintAll
    PROVE  MintInv
<1>1. AdmissionsBounded
    BY Zenon DEF MintAll, InLimits, Bounded, Held, AdmissionsBounded
<1>2. FinitelyMany
    BY Zenon DEF MintAll, InQuota, InLimits, Stored, Admitted, FinitelyMany, IsFiniteSet, IsFiniteSet
<1> QED
    BY Zenon, <1>1, <1>2 DEF MintAll, InTable, InQuota, InLimits, MintInv

\* Batch issuance over any number of replicas (mint, lookup_mint, commit_mint, RateLimiter).
THEOREM MintIsCharged == MintSpec => []MintInv
<1>1. MintInit => MintAll
    BY Zenon, FirstMintAll
<1>2. MintAll /\ [MintNext]_mintVars => MintAll'
    BY Zenon, NextMintAll
<1>3. MintAll => MintInv
    BY Zenon, MintAllSuffices
<1> QED
    BY <1>1, <1>2, <1>3, PTL DEF MintSpec
=============================================================================
