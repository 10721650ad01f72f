--------------------------- MODULE QueryPoolProofs ---------------------------
(***************************************************************************)
(* For any records, rewards, capacities and low fraction: the pool keeps   *)
(* its capacity, its totals account for every record, and a record is in   *)
(* one place.  The conjuncts of the invariant need one another: the        *)
(* capacity follows from counting, counting needs that no record is in two *)
(* places, and an eviction that forgets only what left needs both.         *)
(*                                                                         *)
(* The pool implements BoundedPool, the set that is as full as it may be.  *)
(* And its steps: cold records leave oldest first, the boundary between    *)
(* the sides is kept, shrinking evicts the hardest first, and a sample     *)
(* comes from the window around the boundary.                              *)
(***************************************************************************)
EXTENDS QueryPool, FiniteSetTheorems, SequenceTheorems, TLAPS

IInv ==
  /\ TypeOK
  /\ OnePlace
  /\ SidesScored
  /\ WithinCapacity
  /\ Accounted
  /\ PooledIndexed

-----------------------------------------------------------------------------
(* Counting.                                                               *)
LEMMA FiniteRecords ==
  ASSUME NEW S \in SUBSET Record
  PROVE  IsFiniteSet(S) /\ Cardinality(S) \in Nat
  BY RecordAssumption, FS_Subset, FS_CardinalityType

(* The size of a union of disjoint sets of records.                        *)
LEMMA CountDisjoint ==
  ASSUME NEW S \in SUBSET Record, NEW T \in SUBSET Record, S \cap T = {}
  PROVE  Cardinality(S \cup T) = Cardinality(S) + Cardinality(T)
<1>1. IsFiniteSet(S) /\ IsFiniteSet(T) /\ Cardinality(S) \in Nat /\ Cardinality(T) \in Nat
  BY FiniteRecords
<1>2. Cardinality(S \cup T) = Cardinality(S) + Cardinality(T) - Cardinality(S \cap T)
  BY <1>1, FS_Union
<1>3. Cardinality(S \cap T) = 0
  BY FS_EmptySet
<1>4. QED
  BY <1>1, <1>2, <1>3

(* Removing a subset takes its size off.                                   *)
LEMMA CountRemoved ==
  ASSUME NEW S \in SUBSET Record, NEW T \in SUBSET S
  PROVE  Cardinality(S \ T) = Cardinality(S) - Cardinality(T)
<1>1. (S \ T) \cup T = S /\ (S \ T) \cap T = {}
  OBVIOUS
<1>2. Cardinality(S) = Cardinality(S \ T) + Cardinality(T)
  BY <1>1, CountDisjoint
<1>3. QED
  BY <1>2, FiniteRecords

(* Adding a new record adds one.                                           *)
LEMMA CountAdded ==
  ASSUME NEW S \in SUBSET Record, NEW r \in Record, r \notin S
  PROVE  Cardinality(S \cup {r}) = Cardinality(S) + 1
  BY FiniteRecords, FS_AddElement

(* The size of the pool is the number of scored records plus the length of *)
(* the cold queue.                                                         *)
LEMMA TotalCountsScored ==
  ASSUME TypeOK, OnePlace
  PROVE  Total = Cardinality(low \cup high) + Len(cold)
  BY CountDisjoint DEF TypeOK, OnePlace, Total

-----------------------------------------------------------------------------
(* What the helpers of the pool return.                                    *)
LEMMA LeastIsSubset ==
  ASSUME NEW rew, NEW S, NEW k, NEW L \in Least(rew, S, k)
  PROVE  L \subseteq S /\ Cardinality(L) = k
  BY DEF Least

(* Greatest picks k records of the set, the easiest.                       *)
LEMMA GreatestIsSubset ==
  ASSUME NEW rew, NEW S, NEW k, NEW G \in Greatest(rew, S, k)
  PROVE  G \subseteq S /\ Cardinality(G) = k
  BY DEF Greatest

(* A rebalance moves records over the boundary and loses none.             *)
LEMMA RebalanceMoves ==
  ASSUME NEW rew, NEW l \in SUBSET Record, NEW h \in SUBSET Record, l \cap h = {},
         NEW side \in Rebalanced(rew, l, h)
  PROVE  /\ side.low \cup side.high = l \cup h
         /\ side.low \cap side.high = {}
<1>1. CASE side = [low |-> l, high |-> h]
  BY <1>1
<1>2. ASSUME NEW M \in SUBSET h, side = [low |-> l \cup M, high |-> h \ M]
      PROVE  side.low \cup side.high = l \cup h /\ side.low \cap side.high = {}
  BY <1>2
<1>3. ASSUME NEW M \in SUBSET l, side = [low |-> l \ M, high |-> h \cup M]
      PROVE  side.low \cup side.high = l \cup h /\ side.low \cap side.high = {}
  BY <1>3
<1>4. QED
  BY <1>1, <1>2, <1>3 DEF Rebalanced, Least, Greatest

(* The candidates of a medium sample come from the two sides, and a medium *)
(* sample removes what it chose and nothing else.                          *)
LEMMA CandidatesAreScored ==
  ASSUME NEW l, NEW h, NEW k, NEW candidates \in MediumCandidates(l, h, k)
  PROVE  candidates \subseteq l \cup h
  BY DEF MediumCandidates, Least, Greatest

(* ... and what it does not choose goes back to a side.                    *)
LEMMA MediumRemoves ==
  ASSUME NEW l \in SUBSET Record, NEW h \in SUBSET Record, l \cap h = {},
         NEW chosen \in SUBSET (l \cup h), NEW side \in AfterMedium(l, h, chosen)
  PROVE  /\ side.low \cup side.high = (l \cup h) \ chosen
         /\ side.low \cap side.high = {}
<1>1. CASE chosen = {}
  BY <1>1 DEF AfterMedium
<1>2. CASE chosen # {}
  <2>1. side \in Rebalanced(reward, l \ chosen, h \ chosen)
    BY <1>2 DEF AfterMedium
  <2>2. (l \ chosen) \in SUBSET Record /\ (h \ chosen) \in SUBSET Record
        /\ (l \ chosen) \cap (h \ chosen) = {}
    OBVIOUS
  <2>3. /\ side.low \cup side.high = (l \ chosen) \cup (h \ chosen)
        /\ side.low \cap side.high = {}
    BY <2>1, <2>2, RebalanceMoves
  <2>4. QED
    BY <2>3
<1>3. QED
  BY <1>1, <1>2

-----------------------------------------------------------------------------
(* Sequences.  The cold queue loses records at its head and gains them at  *)
(* its tail.                                                               *)
Entries(c) == {c[i] : i \in DOMAIN c}
Dropped(c, n) == SubSeq(c, n + 1, Len(c))
Oldest(c, n) == {c[i] : i \in 1 .. n}
Distinct(c) == \A i, j \in DOMAIN c : c[i] = c[j] => i = j

(* A record appended to the cold queue is its only new entry.              *)
LEMMA ColdAppend ==
  ASSUME NEW c \in Seq(Record), NEW r \in Record, NEW d, d = Append(c, r)
  PROVE  /\ d \in Seq(Record)
         /\ Len(d) = Len(c) + 1
         /\ Entries(d) = Entries(c) \cup {r}
         /\ r \notin Entries(c) /\ Distinct(c) => Distinct(d)
<1>1. /\ d \in Seq(Record) /\ Len(c) \in Nat /\ Len(d) = Len(c) + 1
      /\ DOMAIN c = 1 .. Len(c) /\ DOMAIN d = 1 .. (Len(c) + 1)
      /\ \A i \in DOMAIN c : d[i] = c[i]
      /\ d[Len(c) + 1] = r
  OBVIOUS
<1>2. DOMAIN d = DOMAIN c \cup {Len(c) + 1}
  BY <1>1
<1>3. QED
  BY <1>1, <1>2 DEF Entries, Distinct

(* Dropping the n oldest entries removes n records and keeps the others.   *)
LEMMA ColdDrop ==
  ASSUME NEW c \in Seq(Record), NEW n \in Nat, n <= Len(c),
         Distinct(c)
  PROVE  /\ Dropped(c, n) \in Seq(Record)
         /\ Len(Dropped(c, n)) = Len(c) - n
         /\ Entries(Dropped(c, n)) = Entries(c) \ Oldest(c, n)
         /\ Distinct(Dropped(c, n))
<1> DEFINE m == Len(c)
           d == Dropped(c, n)
<1>1. /\ m \in Nat /\ DOMAIN c = 1 .. m /\ \A i \in 1 .. m : c[i] \in Record
      /\ n <= m /\ d = SubSeq(c, n + 1, m)
      /\ \A i, j \in 1 .. m : c[i] = c[j] => i = j
  BY DEF Distinct, Dropped
<1> HIDE DEF m, d
<1>2. \A i \in (n + 1) .. m : c[i] \in Record
  BY <1>1
<1>3. /\ d \in Seq(Record)
      /\ Len(d) = IF n + 1 <= m THEN m - (n + 1) + 1 ELSE 0
      /\ \A i \in 1 .. (m - (n + 1) + 1) : d[i] = c[(n + 1) + i - 1]
  BY <1>1, <1>2, SubSeqProperties
<1>4. Len(d) = m - n /\ DOMAIN d = 1 .. (m - n)
  <2>1. Len(d) = m - n
    BY <1>1, <1>3
  <2>2. DOMAIN d = 1 .. Len(d)
    BY <1>3
  <2>3. QED
    BY <2>1, <2>2
<1>5. ASSUME NEW i \in DOMAIN d
      PROVE  d[i] = c[n + i] /\ n + i \in (n + 1) .. m
  <2>1. i \in 1 .. (m - n) /\ (m - n) = m - (n + 1) + 1 /\ (n + 1) + i - 1 = n + i
    BY <1>1, <1>4
  <2>2. d[i] = c[(n + 1) + i - 1]
    BY <1>3, <2>1
  <2>3. QED
    BY <1>1, <2>1, <2>2
<1>6. ASSUME NEW i \in (n + 1) .. m
      PROVE  i - n \in DOMAIN d /\ d[i - n] = c[i]
  <2>1. i - n \in DOMAIN d /\ n + (i - n) = i
    BY <1>1, <1>4
  <2>2. QED
    BY <1>5, <2>1
<1>7. Entries(d) = {c[i] : i \in (n + 1) .. m}
  <2>1. {d[i] : i \in DOMAIN d} \subseteq {c[i] : i \in (n + 1) .. m}
    BY <1>5
  <2>2. {c[i] : i \in (n + 1) .. m} \subseteq {d[i] : i \in DOMAIN d}
    BY <1>6
  <2>3. QED
    BY <2>1, <2>2 DEF Entries
<1>8. {c[i] : i \in (n + 1) .. m} = Entries(c) \ {c[i] : i \in 1 .. n}
  <2>1. \A i \in (n + 1) .. m : i \in 1 .. m /\ i \notin 1 .. n
    BY <1>1
  <2>2. \A i \in 1 .. m : i \in 1 .. n \/ i \in (n + 1) .. m
    BY <1>1
  <2>3. \A i \in 1 .. n : i \in 1 .. m
    BY <1>1
  <2>4. Entries(c) = {c[i] : i \in 1 .. m}
    BY <1>1 DEF Entries
  <2>5. \A i \in (n + 1) .. m, j \in 1 .. n : c[i] # c[j]
    BY <1>1, <2>1, <2>3
  <2>6. QED
    BY <2>1, <2>2, <2>4, <2>5
<1>9. Distinct(d)
  <2>1. SUFFICES ASSUME NEW i \in DOMAIN d, NEW j \in DOMAIN d, d[i] = d[j]
                 PROVE  i = j
    BY DEF Distinct
  <2>2. c[n + i] = c[n + j] /\ n + i \in 1 .. m /\ n + j \in 1 .. m
    BY <1>1, <1>5, <2>1
  <2>3. n + i = n + j
    BY <1>1, <2>2
  <2>4. QED
    BY <1>1, <1>4, <2>3
<1>10. QED
  BY <1>3, <1>4, <1>7, <1>8, <1>9 DEF m, d, Oldest

(* ColdRecords are the entries of the cold queue.                          *)
LEMMA ColdEntries == ColdRecords = Entries(cold) /\ ColdRecords' = Entries(cold')
  BY DEF ColdRecords, Entries

-----------------------------------------------------------------------------
(* The empty pool satisfies the invariant.                                 *)
LEMMA InitInvariant == Init => IInv
<1> SUFFICES ASSUME Init PROVE IInv
  OBVIOUS
<1>1. Cardinality({}) = 0
  BY FS_EmptySet
<1>2. ColdRecords = {} /\ Len(cold) = 0 /\ cold \in Seq(Record) /\ DOMAIN cold = {}
  BY DEF Init, ColdRecords
<1>3. Total = 0
  BY <1>1, <1>2 DEF Init, Total
<1>4. TypeOK
  BY <1>2 DEF Init, TypeOK
<1>5. OnePlace /\ SidesScored /\ PooledIndexed
  BY <1>2 DEF Init, OnePlace, SidesScored, PooledIndexed, Pooled
<1>6. WithinCapacity /\ Accounted
  BY <1>3, CapacityAssumption DEF Init, WithinCapacity, Accounted
<1>7. QED
  BY <1>4, <1>5, <1>6 DEF IInv

(* add_many takes the lock; its records are registered and not yet pooled. *)
LEMMA BeginAddInvariant ==
  ASSUME IInv, NEW batch \in SUBSET (Record \ Pooled), BeginAdd(batch)
  PROVE  IInv'
<1>1. /\ low' = low /\ high' = high /\ cold' = cold /\ reward' = reward
      /\ maxSize' = maxSize /\ fresh' = fresh /\ added' = added
      /\ sampled' = sampled /\ evicted' = evicted
      /\ adding' = TRUE /\ todo' = batch
      /\ index' = index \cup batch /\ taken' = taken \ batch
  BY DEF BeginAdd
<1>2. TypeOK'
  BY <1>1 DEF IInv, TypeOK
<1>3. ColdRecords' = ColdRecords /\ Total' = Total
  BY <1>1 DEF ColdRecords, Total
<1>4. OnePlace' /\ PooledIndexed'
  BY <1>1, <1>3 DEF IInv, OnePlace, PooledIndexed, Pooled
<1>5. SidesScored' /\ WithinCapacity' /\ Accounted'
  BY <1>1, <1>3 DEF IInv, SidesScored, WithinCapacity, Accounted
<1>6. QED
  BY <1>2, <1>4, <1>5 DEF IInv

(* A rejected item leaves the batch and nothing else changes.              *)
LEMMA RejectItemInvariant ==
  ASSUME IInv, NEW r \in Record, RejectItem(r)
  PROVE  IInv'
<1>1. /\ UNCHANGED <<low, high, cold, reward, maxSize, adding, fresh, added,
                     sampled, evicted, index, taken>>
      /\ todo' = todo \ {r}
  BY DEF RejectItem
<1>2. ColdRecords' = ColdRecords /\ Total' = Total
  BY <1>1 DEF ColdRecords, Total
<1>3. QED
  BY <1>1, <1>2 DEF IInv, TypeOK, OnePlace, SidesScored, WithinCapacity, Accounted,
                    PooledIndexed, Pooled

-----------------------------------------------------------------------------
(* What every accepted item does, wherever it lands.                       *)
LEMMA AcceptEffect ==
  ASSUME IInv, NEW r \in Record, NEW x \in Reward \cup {None}, Accept(r, x)
  PROVE  /\ r \in todo /\ r \notin Pooled /\ r \notin taken /\ r \in index
         /\ todo' = todo \ {r}
         /\ reward' \in [Record -> Reward \cup {None}]
         /\ reward'[r] = x
         /\ \A o \in Record \ {r} : reward'[o] = reward[o]
         /\ fresh' = fresh + 1
         /\ maxSize' = maxSize /\ adding' = adding /\ added' = added
         /\ sampled' = sampled /\ taken' = taken
<1>1. /\ r \in todo
      /\ todo' = todo \ {r}
      /\ reward' = [reward EXCEPT ![r] = x]
      /\ fresh' = fresh + 1
      /\ UNCHANGED <<maxSize, adding, added, sampled, taken>>
  BY DEF Accept
<1>2. r \notin Pooled /\ r \notin taken /\ r \in index
  BY <1>1 DEF IInv, OnePlace, PooledIndexed
<1>3. reward \in [Record -> Reward \cup {None}]
  BY DEF IInv, TypeOK
<1>4. QED
  BY <1>1, <1>2, <1>3

(* The invariant after an accepted item, from where the records are: gone  *)
(* are the records it evicted (none, or one).                              *)
LEMMA AcceptInvariant ==
  ASSUME IInv, NEW r \in Record, NEW x \in Reward \cup {None}, Accept(r, x),
         NEW gone \in SUBSET (Pooled \cup {r}), evicted' \in Nat,
         index' \subseteq index, index \ gone \subseteq index',
         low' \subseteq Record, high' \subseteq Record, low' \cap high' = {},
         x = None => low' \cup high' = (low \cup high) \ gone /\ r \notin gone,
         x # None => low' \cup high' = ((low \cup high) \cup {r}) \ gone,
         cold' \in Seq(Record),
         Distinct(cold'),
         ColdRecords' = IF x = None THEN (ColdRecords \ gone) \cup {r} ELSE ColdRecords \ gone,
         Cardinality(low' \cup high') + Len(cold') <= maxSize,
         added + fresh + 1
           = Cardinality(low' \cup high') + Len(cold') + sampled + evicted'
  PROVE  IInv'
<1>1. /\ r \in todo /\ r \notin Pooled /\ r \notin taken /\ r \in index
      /\ todo' = todo \ {r}
      /\ reward' \in [Record -> Reward \cup {None}]
      /\ reward'[r] = x
      /\ \A o \in Record \ {r} : reward'[o] = reward[o]
      /\ fresh' = fresh + 1
      /\ maxSize' = maxSize /\ adding' = adding /\ added' = added
      /\ sampled' = sampled /\ taken' = taken
  BY AcceptEffect
<1>2. TypeOK'
  BY <1>1 DEF IInv, TypeOK
<1>3. Total' = Cardinality(low' \cup high') + Len(cold')
  BY CountDisjoint DEF Total
<1>4. WithinCapacity' /\ Accounted'
  BY <1>1, <1>3 DEF IInv, TypeOK, WithinCapacity, Accounted
<1>5. Pooled' = (Pooled \cup {r}) \ gone
  <2>1. Pooled' = (low' \cup high') \cup ColdRecords'
    BY DEF Pooled
  <2>2. Pooled = (low \cup high) \cup ColdRecords
    BY DEF Pooled
  <2>3. QED
    BY <2>1, <2>2
<1>6. OnePlace'
  BY <1>1, <1>5 DEF IInv, OnePlace, Pooled, Distinct
<1>7. SidesScored'
  <2>1. /\ \A o \in low \cup high : reward[o] \in Reward
        /\ \A o \in ColdRecords : reward[o] = None
        /\ low \cup high \subseteq Record /\ r \notin low \cup high
        /\ ColdRecords \subseteq Record /\ r \notin ColdRecords
    BY <1>1 DEF IInv, TypeOK, SidesScored, Pooled, ColdRecords
  <2>2. \A o \in low' \cup high' : reward'[o] \in Reward
    BY <1>1, <2>1
  <2>3. \A o \in ColdRecords' : reward'[o] = None
    BY <1>1, <2>1
  <2>4. QED
    BY <2>2, <2>3 DEF SidesScored
<1>8. PooledIndexed'
  BY <1>1, <1>5 DEF IInv, OnePlace, PooledIndexed
<1>9. QED
  BY <1>2, <1>4, <1>6, <1>7, <1>8 DEF IInv

-----------------------------------------------------------------------------
(* Facts about the state before an item is added, for the counting below.  *)
LEMMA Counts ==
  ASSUME IInv
  PROVE  /\ low \in SUBSET Record /\ high \in SUBSET Record /\ low \cap high = {}
         /\ cold \in Seq(Record) /\ Len(cold) \in Nat
         /\ Distinct(cold)
         /\ Cardinality(low) \in Nat /\ Cardinality(high) \in Nat
         /\ Total = Cardinality(low) + Cardinality(high) + Len(cold)
         /\ Total = Cardinality(low \cup high) + Len(cold)
         /\ Cardinality(low \cup high) \in Nat
         /\ Total <= maxSize
         /\ maxSize \in Nat \ {0}
         /\ added + fresh = Total + sampled + evicted
         /\ added \in Nat /\ fresh \in Nat /\ sampled \in Nat /\ evicted \in Nat
<1>1. low \in SUBSET Record /\ high \in SUBSET Record /\ low \cap high = {}
  BY DEF IInv, TypeOK, OnePlace
<1>2. Cardinality(low) \in Nat /\ Cardinality(high) \in Nat /\ Cardinality(low \cup high) \in Nat
  BY <1>1, FiniteRecords
<1>3. QED
  BY <1>1, <1>2, TotalCountsScored, CapacityAssumption
     DEF IInv, TypeOK, OnePlace, Total, WithinCapacity, Accounted, Distinct

(* An unscored item and room for it: the queue grows by one.               *)
LEMMA AddColdWithSpaceInvariant ==
  ASSUME IInv, NEW r \in Record, AddColdWithSpace(r)
  PROVE  IInv'
<1>1. /\ Total < maxSize /\ Accept(r, None) /\ cold' = Append(cold, r)
      /\ evicted' = evicted /\ index' = index
  BY DEF AddColdWithSpace
<1>2. PICK side \in Rebalanced(reward', low, high) : low' = side.low /\ high' = side.high
  BY DEF AddColdWithSpace
<1>3. low' \cup high' = low \cup high /\ low' \cap high' = {}
  <2>1. side.low \cup side.high = low \cup high /\ side.low \cap side.high = {}
    BY Counts, RebalanceMoves
  <2>2. QED
    BY <1>2, <2>1
<1>4. r \notin ColdRecords
  BY <1>1, AcceptEffect DEF Pooled
<1>5. /\ cold' \in Seq(Record) /\ Len(cold') = Len(cold) + 1
      /\ ColdRecords' = ColdRecords \cup {r}
      /\ Distinct(cold')
  <2>1. cold \in Seq(Record) /\ Distinct(cold) /\ r \notin Entries(cold)
    BY <1>4, Counts, ColdEntries
  <2>2. QED
    BY <1>1, <2>1, ColdAppend, ColdEntries
<1>6. Cardinality(low' \cup high') + Len(cold') = Total + 1
  <2>1. Cardinality(low' \cup high') = Cardinality(low \cup high)
    BY <1>3
  <2>2. QED
    BY <2>1, <1>5, Counts
<1>7. /\ Cardinality(low' \cup high') + Len(cold') <= maxSize
      /\ added + fresh + 1 = Cardinality(low' \cup high') + Len(cold') + sampled + evicted'
  BY <1>1, <1>6, Counts
<1>8. /\ low' \cup high' = (low \cup high) \ {} /\ r \notin {}
      /\ ColdRecords' = (ColdRecords \ {}) \cup {r}
      /\ index' \subseteq index /\ index \ {} \subseteq index'
      /\ {} \in SUBSET (Pooled \cup {r}) /\ None \in Reward \cup {None}
  BY <1>1, <1>3, <1>5
<1>9. low' \subseteq Record /\ high' \subseteq Record /\ evicted' \in Nat
  BY <1>1, <1>3, Counts
<1>10. QED
  BY <1>1, <1>3, <1>5, <1>7, <1>8, <1>9, AcceptInvariant

(* A scored item and room for it: one side grows by one.                   *)
LEMMA AddScoredWithSpaceInvariant ==
  ASSUME IInv, NEW r \in Record, NEW x \in Reward, AddScoredWithSpace(r, x)
  PROVE  IInv'
<1>1. /\ Total < maxSize /\ Accept(r, x) /\ cold' = cold
      /\ evicted' = evicted /\ index' = index
  BY DEF AddScoredWithSpace
<1>2. r \notin low \cup high /\ x \in Reward \cup {None} /\ x # None
  BY <1>1, AcceptEffect, RewardAssumption DEF Pooled
<1>3. /\ low \cup {r} \in SUBSET Record /\ high \cup {r} \in SUBSET Record
      /\ (low \cup {r}) \cap high = {} /\ low \cap (high \cup {r}) = {}
  BY <1>2, Counts
<1>4. low' \cup high' = (low \cup high) \cup {r} /\ low' \cap high' = {}
  <2>1. CASE BeatsHighFront(x)
    <3>1. PICK side \in Rebalanced(reward', low, high \cup {r}) :
             low' = side.low /\ high' = side.high
      BY <2>1 DEF AddScoredWithSpace
    <3>2. side.low \cup side.high = low \cup (high \cup {r}) /\ side.low \cap side.high = {}
      BY <1>3, <3>1, Counts, RebalanceMoves
    <3>3. QED
      BY <3>1, <3>2
  <2>2. CASE ~BeatsHighFront(x)
    <3>1. PICK side \in Rebalanced(reward', low \cup {r}, high) :
             low' = side.low /\ high' = side.high
      BY <2>2 DEF AddScoredWithSpace
    <3>2. side.low \cup side.high = (low \cup {r}) \cup high /\ side.low \cap side.high = {}
      BY <1>3, <3>1, Counts, RebalanceMoves
    <3>3. QED
      BY <3>1, <3>2
  <2>3. QED
    BY <2>1, <2>2
<1>5. low \cup high \in SUBSET Record
  BY Counts
<1>6. Cardinality(low' \cup high') = Cardinality(low \cup high) + 1
  BY <1>2, <1>4, <1>5, CountAdded
<1>7. Cardinality(low' \cup high') + Len(cold') = Total + 1
  BY <1>1, <1>6, Counts
<1>8. /\ Cardinality(low' \cup high') + Len(cold') <= maxSize
      /\ added + fresh + 1 = Cardinality(low' \cup high') + Len(cold') + sampled + evicted'
  BY <1>1, <1>7, Counts
<1>9. /\ low' \cup high' = ((low \cup high) \cup {r}) \ {}
      /\ ColdRecords' = ColdRecords \ {}
      /\ index' \subseteq index /\ index \ {} \subseteq index'
      /\ {} \in SUBSET (Pooled \cup {r})
  BY <1>1, <1>4 DEF ColdRecords
<1>10. /\ low' \subseteq Record /\ high' \subseteq Record /\ evicted' \in Nat
       /\ cold' \in Seq(Record)
       /\ Distinct(cold')
  BY <1>1, <1>2, <1>4, <1>5, Counts
<1>11. ColdRecords' = IF x = None THEN (ColdRecords \ {}) \cup {r} ELSE ColdRecords \ {}
  BY <1>2, <1>9
<1>12. low' \cup high' = ((low \cup high) \cup {r}) \ {}
  BY <1>4
<1>13. index' \subseteq index /\ index \ {} \subseteq index' /\ {} \in SUBSET (Pooled \cup {r})
  BY <1>9
<1>14. x # None => low' \cup high' = ((low \cup high) \cup {r}) \ {}
  BY <1>12
<1>15. x = None => low' \cup high' = (low \cup high) \ {} /\ r \notin {}
  BY <1>2
<1>16. QED
  BY <1>1, <1>2, <1>4, <1>8, <1>10, <1>11, <1>13, <1>14, <1>15, AcceptInvariant

(* A full pool that drops one scored record for an unscored one.           *)
LEMMA DropScoredForCold ==
  ASSUME IInv, NEW r \in Record, Total >= maxSize, Accept(r, None),
         NEW G \in SUBSET (low \cup high), Cardinality(G) = 1,
         low' = low \ G, high' = high \ G, cold' = Append(cold, r),
         evicted' = evicted + 1, index' \subseteq index, index \ G \subseteq index'
  PROVE  IInv'
<1>1. r \notin ColdRecords /\ r \notin low \cup high
  BY AcceptEffect DEF Pooled
<1>2. /\ cold' \in Seq(Record) /\ Len(cold') = Len(cold) + 1
      /\ ColdRecords' = ColdRecords \cup {r}
      /\ Distinct(cold')
  <2>1. cold \in Seq(Record) /\ Distinct(cold) /\ r \notin Entries(cold)
    BY <1>1, Counts, ColdEntries
  <2>2. QED
    BY <2>1, ColdAppend, ColdEntries
<1>3. G \cap ColdRecords = {}
  BY DEF IInv, OnePlace
<1>4. low' \cup high' = (low \cup high) \ G /\ low' \cap high' = {}
  BY Counts
<1>5. Cardinality(low' \cup high') = Cardinality(low \cup high) - 1
  BY <1>4, Counts, CountRemoved
<1>6. Cardinality(low' \cup high') + Len(cold') = Total
  BY <1>2, <1>5, Counts
<1>7. /\ Cardinality(low' \cup high') + Len(cold') <= maxSize
      /\ added + fresh + 1 = Cardinality(low' \cup high') + Len(cold') + sampled + evicted'
  BY <1>6, Counts
<1>8. /\ ColdRecords' = (ColdRecords \ G) \cup {r} /\ r \notin G
      /\ G \in SUBSET (Pooled \cup {r}) /\ None \in Reward \cup {None}
  BY <1>1, <1>2, <1>3 DEF Pooled
<1>9. low' \subseteq Record /\ high' \subseteq Record /\ evicted' \in Nat
  BY Counts
<1>10. QED
  BY <1>2, <1>4, <1>7, <1>8, <1>9, AcceptInvariant

(* An unscored item in a full pool, on each of its three paths.            *)
LEMMA AddColdWhenFullInvariant ==
  ASSUME IInv, NEW r \in Record, AddColdWhenFull(r)
  PROVE  IInv'
<1>1. Total >= maxSize /\ Accept(r, None) /\ evicted' = evicted + 1
  BY DEF AddColdWhenFull
<1>2. ASSUME NEW G \in Greatest(reward, high, 1), high' = high \ G, index' = index \ G,
             cold' = Append(cold, r), low' = low
      PROVE  IInv'
  <2>1. G \subseteq high /\ Cardinality(G) = 1
    BY GreatestIsSubset
  <2>2. low' = low \ G
    BY <1>2, <2>1, Counts
  <2>3. G \in SUBSET (low \cup high) /\ index' \subseteq index /\ index \ G \subseteq index'
    BY <1>2, <2>1
  <2>4. QED
    BY <1>1, <1>2, <2>1, <2>2, <2>3, DropScoredForCold
<1>3. ASSUME NEW G \in Greatest(reward, low, 1), low' = low \ G, high' = high, index' = index,
             cold' = Append(cold, r)
      PROVE  IInv'
  <2>1. G \subseteq low /\ Cardinality(G) = 1
    BY GreatestIsSubset
  <2>2. high' = high \ G
    BY <1>3, <2>1, Counts
  <2>3. G \in SUBSET (low \cup high) /\ index' \subseteq index /\ index \ G \subseteq index'
    BY <1>3, <2>1
  <2>4. QED
    BY <1>1, <1>3, <2>1, <2>2, <2>3, DropScoredForCold
<1>4. ASSUME high = {}, low = {}, cold' = Append(Tail(cold), r),
             low' = low, high' = high, index' = index
      PROVE  IInv'
  <2> DEFINE rest == Tail(cold)
             gone == Oldest(cold, 1)
  <2>1. /\ cold \in Seq(Record) /\ Len(cold) \in Nat /\ Distinct(cold)
        /\ Total = Len(cold) /\ Len(cold) >= 1
    <3>1. Cardinality(low) = 0 /\ Cardinality(high) = 0
      BY <1>4, FS_EmptySet
    <3>2. QED
      BY <1>1, <3>1, Counts
  <2>2. rest = Dropped(cold, 1)
    BY <2>1 DEF Dropped
  <2> HIDE DEF rest
  <2>3. /\ rest \in Seq(Record) /\ Len(rest) = Len(cold) - 1
        /\ Entries(rest) = Entries(cold) \ gone /\ Distinct(rest)
    BY <2>1, <2>2, ColdDrop
  <2>4. r \notin ColdRecords /\ ColdRecords = Entries(cold) /\ ColdRecords' = Entries(cold')
    BY <1>1, AcceptEffect, ColdEntries DEF Pooled
  <2>5. cold' = Append(rest, r)
    BY <1>4 DEF rest
  <2>6. /\ cold' \in Seq(Record) /\ Len(cold') = Len(rest) + 1
        /\ Entries(cold') = Entries(rest) \cup {r} /\ Distinct(cold')
    BY <2>3, <2>4, <2>5, ColdAppend
  <2>7. ColdRecords' = (ColdRecords \ gone) \cup {r}
    BY <2>3, <2>4, <2>6
  <2>8. gone \subseteq ColdRecords
    <3>1. 1 .. 1 \subseteq DOMAIN cold
      BY <2>1
    <3>2. QED
      BY <3>1 DEF ColdRecords, Oldest
  <2>9. Cardinality(low' \cup high') = 0
    BY <1>4, FS_EmptySet
  <2>10. /\ Cardinality(low' \cup high') + Len(cold') <= maxSize
         /\ added + fresh + 1 = Cardinality(low' \cup high') + Len(cold') + sampled + evicted'
    BY <1>1, <2>1, <2>3, <2>6, <2>9, Counts
  <2>11. /\ gone \in SUBSET (Pooled \cup {r}) /\ r \notin gone
         /\ low' \cup high' = (low \cup high) \ gone /\ low' \cap high' = {}
         /\ index' \subseteq index /\ index \ gone \subseteq index'
         /\ low' \subseteq Record /\ high' \subseteq Record
         /\ None \in Reward \cup {None}
    <3> HIDE DEF gone
    <3>1. QED
      BY <1>4, <2>4, <2>8 DEF Pooled
  <2>12. evicted' \in Nat
    BY <1>1, Counts
  <2> HIDE DEF gone
  <2>13. QED
    BY <1>1, <2>6, <2>7, <2>10, <2>11, <2>12, AcceptInvariant
<1>5. QED
  BY <1>2, <1>3, <1>4 DEF AddColdWhenFull

-----------------------------------------------------------------------------
(* Operations that only remove: scored records gone, and the n oldest cold *)
(* ones.                                                                   *)
LEMMA RemovalEffect ==
  ASSUME IInv, NEW gone \in SUBSET (low \cup high), NEW n \in Nat, n <= Len(cold),
         low' \cup high' = (low \cup high) \ gone, low' \cap high' = {},
         cold' = Dropped(cold, n)
  PROVE  /\ low' \in SUBSET Record /\ high' \in SUBSET Record
         /\ cold' \in Seq(Record) /\ Distinct(cold')
         /\ ColdRecords' = ColdRecords \ Oldest(cold, n)
         /\ Oldest(cold, n) \subseteq ColdRecords
         /\ Pooled' = Pooled \ (gone \cup Oldest(cold, n))
         /\ Cardinality(gone) \in Nat
         /\ Total' = Total - (Cardinality(gone) + n)
<1>1. low' \in SUBSET Record /\ high' \in SUBSET Record
  BY Counts
<1>2. cold \in Seq(Record) /\ Distinct(cold)
  BY Counts
<1>3. /\ cold' \in Seq(Record) /\ Len(cold') = Len(cold) - n
      /\ Entries(cold') = Entries(cold) \ Oldest(cold, n) /\ Distinct(cold')
  BY <1>2, ColdDrop
<1>4. ColdRecords' = ColdRecords \ Oldest(cold, n)
  BY <1>3, ColdEntries
<1>5. Oldest(cold, n) \subseteq ColdRecords
  <2>1. 1 .. n \subseteq DOMAIN cold
    BY <1>2
  <2>2. QED
    BY <2>1 DEF Oldest, ColdRecords
<1>6. Pooled' = Pooled \ (gone \cup Oldest(cold, n))
  <2>1. Pooled' = (low' \cup high') \cup ColdRecords' /\ Pooled = (low \cup high) \cup ColdRecords
    BY DEF Pooled
  <2>2. (low \cup high) \cap ColdRecords = {}
    BY DEF IInv, OnePlace
  <2>3. QED
    BY <1>4, <1>5, <2>1, <2>2
<1>7. low \cup high \in SUBSET Record /\ Len(cold) \in Nat
      /\ Cardinality(low \cup high) \in Nat /\ Total = Cardinality(low \cup high) + Len(cold)
  BY Counts
<1>8. Cardinality(gone) \in Nat
  BY <1>7, FiniteRecords
<1>9. Cardinality(low' \cup high') = Cardinality(low \cup high) - Cardinality(gone)
  BY <1>7, CountRemoved
<1>10. Total' = Cardinality(low' \cup high') + Len(cold')
  BY <1>1, CountDisjoint DEF Total
<1>11. Total' = Total - (Cardinality(gone) + n)
  BY <1>3, <1>7, <1>8, <1>9, <1>10
<1>12. QED
  BY <1>1, <1>3, <1>4, <1>5, <1>6, <1>8, <1>11

(* Evicting to a capacity removes exactly the surplus.                     *)
LEMMA EvictEffect ==
  ASSUME IInv, NEW capacity \in Nat, EvictToCapacity(capacity)
  PROVE  \E gone \in SUBSET (low \cup high), n \in Nat :
            /\ n <= Len(cold)
            /\ low' \cup high' = (low \cup high) \ gone /\ low' \cap high' = {}
            /\ cold' = Dropped(cold, n)
            /\ index' = index \ gone
            /\ Cardinality(gone) + n = AtLeast(0, Total - capacity)
            /\ evicted' = evicted + (Cardinality(gone) + n)
<1> DEFINE need == AtLeast(0, Total - capacity)
           fromLow == AtMost(need, Cardinality(low))
           fromHigh == AtMost(need - fromLow, Cardinality(high))
           fromCold == need - fromLow - fromHigh
<1>1. PICK L \in Least(reward, low, fromLow), H \in Least(reward, high, fromHigh) :
         /\ low' = low \ L /\ high' = high \ H
         /\ cold' = SubSeq(cold, fromCold + 1, Len(cold))
         /\ index' = index \ (L \cup H)
         /\ evicted' = evicted + need
  BY DEF EvictToCapacity
<1>2. /\ need \in Nat /\ fromLow \in Nat /\ fromHigh \in Nat
      /\ fromCold \in Nat /\ fromCold <= Len(cold)
      /\ fromLow + fromHigh + fromCold = need
  <2>1. /\ Cardinality(low) \in Nat /\ Cardinality(high) \in Nat /\ Len(cold) \in Nat
        /\ Total = Cardinality(low) + Cardinality(high) + Len(cold)
    BY Counts
  <2>2. need \in Nat /\ need <= Total
    BY <2>1 DEF AtLeast
  <2> HIDE DEF need
  <2>3. fromLow \in Nat /\ fromLow <= need /\ (fromLow = need \/ fromLow = Cardinality(low))
    BY <2>1, <2>2 DEF AtMost
  <2> HIDE DEF fromLow
  <2>4. /\ fromHigh \in Nat /\ fromHigh <= need - fromLow
        /\ fromHigh = need - fromLow \/ fromHigh = Cardinality(high)
    BY <2>1, <2>2, <2>3 DEF AtMost
  <2> HIDE DEF fromHigh
  <2>5. QED
    BY <2>1, <2>2, <2>3, <2>4
<1>3. /\ L \subseteq low /\ Cardinality(L) = fromLow
      /\ H \subseteq high /\ Cardinality(H) = fromHigh
  BY <1>1, LeastIsSubset
<1> HIDE DEF need, fromLow, fromHigh, fromCold
<1>4. low \in SUBSET Record /\ high \in SUBSET Record /\ low \cap high = {}
  BY Counts
<1>5. /\ L \cup H \in SUBSET (low \cup high)
      /\ low' \cup high' = (low \cup high) \ (L \cup H) /\ low' \cap high' = {}
  BY <1>1, <1>3, <1>4
<1>6. Cardinality(L \cup H) = fromLow + fromHigh
  <2>1. L \in SUBSET Record /\ H \in SUBSET Record /\ L \cap H = {}
    BY <1>3, <1>4
  <2>2. QED
    BY <1>3, <2>1, CountDisjoint
<1>7. Cardinality(L \cup H) + fromCold = need
  BY <1>2, <1>6
<1>8. cold' = Dropped(cold, fromCold)
  BY <1>1 DEF Dropped
<1>9. evicted' = evicted + (Cardinality(L \cup H) + fromCold)
  BY <1>1, <1>7
<1>10. need = AtLeast(0, Total - capacity)
  BY DEF need
<1>11. Cardinality(L \cup H) + fromCold = AtLeast(0, Total - capacity)
  BY <1>7, <1>10
<1>12. QED
  BY <1>1, <1>2, <1>5, <1>8, <1>9, <1>11

(* Whatever the capacity was and becomes, evicting keeps the accounts and  *)
(* every record that stays, and brings the pool down to the capacity.      *)
LEMMA EvictInvariant ==
  ASSUME IInv, NEW capacity \in Capacities, EvictToCapacity(capacity),
         maxSize' = capacity, adding' \in BOOLEAN, todo' = todo, taken' = taken,
         reward' = reward, sampled' = sampled, added' \in Nat, fresh' \in Nat,
         added' + fresh' = added + fresh
  PROVE  IInv'
<1>1. capacity \in Nat
  BY CapacityAssumption
<1>2. PICK gone \in SUBSET (low \cup high), n \in Nat :
         /\ n <= Len(cold)
         /\ low' \cup high' = (low \cup high) \ gone /\ low' \cap high' = {}
         /\ cold' = Dropped(cold, n)
         /\ index' = index \ gone
         /\ Cardinality(gone) + n = AtLeast(0, Total - capacity)
         /\ evicted' = evicted + (Cardinality(gone) + n)
  BY <1>1, EvictEffect
<1>3. /\ low' \in SUBSET Record /\ high' \in SUBSET Record
      /\ cold' \in Seq(Record) /\ Distinct(cold')
      /\ ColdRecords' = ColdRecords \ Oldest(cold, n)
      /\ Oldest(cold, n) \subseteq ColdRecords
      /\ Pooled' = Pooled \ (gone \cup Oldest(cold, n))
      /\ Cardinality(gone) \in Nat
      /\ Total' = Total - (Cardinality(gone) + n)
  BY <1>2, RemovalEffect
<1>4. /\ Total \in Nat /\ added + fresh = Total + sampled + evicted
      /\ evicted \in Nat /\ sampled \in Nat /\ added \in Nat /\ fresh \in Nat
  <2>1. /\ Cardinality(low) \in Nat /\ Cardinality(high) \in Nat /\ Len(cold) \in Nat
        /\ Total = Cardinality(low) + Cardinality(high) + Len(cold)
    BY Counts
  <2>2. Total \in Nat
    BY <2>1
  <2>3. QED
    BY <2>2, Counts
<1>5. TypeOK'
  <2>1. evicted' \in Nat
    BY <1>2, <1>3, <1>4
  <2>2. index' \subseteq Record
    BY <1>2 DEF IInv, TypeOK
  <2>3. QED
    BY <1>3, <2>1, <2>2 DEF IInv, TypeOK
<1>6. WithinCapacity'
  BY <1>1, <1>2, <1>3, <1>4 DEF AtLeast, WithinCapacity
<1>7. Accounted'
  <2> DEFINE surplus == Cardinality(gone) + n
  <2>1. surplus \in Nat /\ Total' = Total - surplus /\ evicted' = evicted + surplus
    BY <1>2, <1>3
  <2> HIDE DEF surplus
  <2>2. Total' + sampled' + evicted' = Total + sampled + evicted
    BY <1>4, <2>1
  <2>3. QED
    BY <1>4, <2>2 DEF Accounted
<1>8. OnePlace'
  BY <1>2, <1>3 DEF IInv, OnePlace, Distinct, Pooled
<1>9. SidesScored'
  BY <1>2, <1>3 DEF IInv, SidesScored
<1>10. PooledIndexed'
  <2>1. /\ gone \subseteq Pooled /\ Pooled' \cap gone = {}
        /\ todo \cap gone = {} /\ taken \cap gone = {}
    BY <1>2, <1>3 DEF IInv, OnePlace, Pooled
  <2>2. QED
    BY <1>2, <1>3, <2>1 DEF IInv, PooledIndexed
<1>11. QED
  BY <1>5, <1>6, <1>7, <1>8, <1>9, <1>10 DEF IInv

(* The end of add_many: what it counted is added, the surplus evicted.     *)
LEMMA FinishAddInvariant ==
  ASSUME IInv, FinishAdd
  PROVE  IInv'
<1>1. /\ EvictToCapacity(maxSize) /\ maxSize' = maxSize /\ adding' = FALSE
      /\ added' = added + fresh /\ fresh' = 0
      /\ reward' = reward /\ todo' = todo /\ sampled' = sampled /\ taken' = taken
  BY DEF FinishAdd
<1>2. maxSize \in Capacities /\ added \in Nat /\ fresh \in Nat
  BY DEF IInv, TypeOK
<1>3. added' \in Nat /\ fresh' \in Nat /\ added' + fresh' = added + fresh
  BY <1>1, <1>2
<1>4. QED
  BY <1>1, <1>2, <1>3, EvictInvariant

(* A new max_size: the surplus is evicted.                                 *)
LEMMA SetMaxSizeInvariant ==
  ASSUME IInv, NEW capacity \in Capacities, SetMaxSize(capacity)
  PROVE  IInv'
<1>1. /\ EvictToCapacity(capacity) /\ maxSize' = capacity
      /\ reward' = reward /\ adding' = adding /\ todo' = todo /\ fresh' = fresh
      /\ added' = added /\ sampled' = sampled /\ taken' = taken
  BY DEF SetMaxSize
<1>2. adding \in BOOLEAN /\ added \in Nat /\ fresh \in Nat
  BY DEF IInv, TypeOK
<1>3. adding' \in BOOLEAN /\ added' \in Nat /\ fresh' \in Nat /\ added' + fresh' = added + fresh
  BY <1>1, <1>2
<1>4. QED
  BY <1>1, <1>3, EvictInvariant

(* A sample leaves the pool whole: exactly as many records are gone as the *)
(* sample has, whatever was put back and moved over the boundary.          *)
LEMMA SampleEffect ==
  ASSUME IInv, NEW k \in Nat, NEW mixed \in BOOLEAN, SampleBatch(k, mixed)
  PROVE  \E gone \in SUBSET (low \cup high), n \in Nat :
            /\ n <= Len(cold)
            /\ low' \cup high' = (low \cup high) \ gone /\ low' \cap high' = {}
            /\ cold' = Dropped(cold, n)
            /\ sampled' = sampled + (Cardinality(gone) + n)
            /\ taken' = taken \cup Oldest(cold, n) \cup gone
<1> DEFINE actual == AtMost(k, Total)
           coldTake == AtMost(actual, Len(cold))
           need == actual - coldTake
           easyTake == IF mixed THEN AtMost(need \div 2, Cardinality(high)) ELSE 0
           mediumTake == need - easyTake
<1>1. PICK easy \in Greatest(reward, high, easyTake) :
      \E candidates \in MediumCandidates(low, high \ easy, mediumTake) :
      \E medium \in {C \in SUBSET candidates : Cardinality(C) = mediumTake} :
      \E first \in AfterMedium(low, high \ easy, medium) :
      \E side \in IF mixed /\ need > 0
                    THEN Rebalanced(reward, first.low, first.high)
                    ELSE {first} :
        /\ low' = side.low
        /\ high' = side.high
        /\ taken' = taken \cup {cold[i] : i \in 1 .. coldTake} \cup easy \cup medium
  BY DEF SampleBatch
<1>2. PICK candidates \in MediumCandidates(low, high \ easy, mediumTake) :
      \E medium \in {C \in SUBSET candidates : Cardinality(C) = mediumTake} :
      \E first \in AfterMedium(low, high \ easy, medium) :
      \E side \in IF mixed /\ need > 0
                    THEN Rebalanced(reward, first.low, first.high)
                    ELSE {first} :
        /\ low' = side.low
        /\ high' = side.high
        /\ taken' = taken \cup {cold[i] : i \in 1 .. coldTake} \cup easy \cup medium
  BY <1>1
<1>3. PICK medium \in SUBSET candidates :
      /\ Cardinality(medium) = mediumTake
      /\ \E first \in AfterMedium(low, high \ easy, medium) :
         \E side \in IF mixed /\ need > 0
                       THEN Rebalanced(reward, first.low, first.high)
                       ELSE {first} :
           /\ low' = side.low
           /\ high' = side.high
           /\ taken' = taken \cup {cold[i] : i \in 1 .. coldTake} \cup easy \cup medium
  BY <1>2
<1>4. PICK first \in AfterMedium(low, high \ easy, medium) :
      \E side \in IF mixed /\ need > 0
                    THEN Rebalanced(reward, first.low, first.high)
                    ELSE {first} :
        /\ low' = side.low
        /\ high' = side.high
        /\ taken' = taken \cup {cold[i] : i \in 1 .. coldTake} \cup easy \cup medium
  BY <1>3
<1>5. PICK side \in IF mixed /\ need > 0
                    THEN Rebalanced(reward, first.low, first.high)
                    ELSE {first} :
        /\ low' = side.low
        /\ high' = side.high
        /\ taken' = taken \cup {cold[i] : i \in 1 .. coldTake} \cup easy \cup medium
  BY <1>4
<1>6. sampled' = sampled + actual /\ cold' = SubSeq(cold, coldTake + 1, Len(cold))
  BY DEF SampleBatch
<1>7. /\ actual \in Nat /\ coldTake \in Nat /\ coldTake <= Len(cold)
      /\ easyTake + mediumTake + coldTake = actual
      /\ easyTake \in Int /\ mediumTake \in Int
  <2>1. /\ Cardinality(low) \in Nat /\ Cardinality(high) \in Nat /\ Len(cold) \in Nat
        /\ Total = Cardinality(low) + Cardinality(high) + Len(cold)
    BY Counts
  <2>2. actual \in Nat
    BY <2>1 DEF AtMost
  <2> HIDE DEF actual
  <2>3. coldTake \in Nat /\ coldTake <= Len(cold)
    BY <2>1, <2>2 DEF AtMost
  <2> HIDE DEF coldTake
  <2>4. need \in Int /\ need + coldTake = actual
    BY <2>2, <2>3
  <2> HIDE DEF need
  <2>5. easyTake \in Int
    BY <2>1, <2>4 DEF AtMost
  <2> HIDE DEF easyTake
  <2>6. QED
    BY <2>2, <2>3, <2>4, <2>5
<1> HIDE DEF actual, coldTake, need, easyTake, mediumTake
<1>8. /\ low \in SUBSET Record /\ high \in SUBSET Record /\ low \cap high = {}
      /\ easy \subseteq high /\ Cardinality(easy) = easyTake
  BY <1>1, Counts, GreatestIsSubset
<1>9. medium \subseteq low \cup (high \ easy)
  BY <1>2, <1>3, CandidatesAreScored
<1> DEFINE gone == easy \cup medium
<1>10. gone \in SUBSET (low \cup high) /\ easy \cap medium = {}
  BY <1>8, <1>9
<1>11. Cardinality(gone) = easyTake + mediumTake
  <2>1. easy \in SUBSET Record /\ medium \in SUBSET Record
    BY <1>8, <1>9
  <2>2. QED
    BY <1>3, <1>8, <1>10, <2>1, CountDisjoint
<1>12. /\ first.low \cup first.high = (low \cup high) \ gone
       /\ first.low \cap first.high = {}
  <2>1. (high \ easy) \in SUBSET Record /\ low \cap (high \ easy) = {}
        /\ medium \in SUBSET (low \cup (high \ easy))
    BY <1>8, <1>9
  <2>2. /\ first.low \cup first.high = (low \cup (high \ easy)) \ medium
        /\ first.low \cap first.high = {}
    BY <1>4, <1>8, <2>1, MediumRemoves
  <2>3. QED
    BY <1>8, <2>2
<1>13. side.low \cup side.high = (low \cup high) \ gone /\ side.low \cap side.high = {}
  <2>1. CASE mixed /\ need > 0
    <3>1. first.low \in SUBSET Record /\ first.high \in SUBSET Record
      BY <1>8, <1>12
    <3>2. side \in Rebalanced(reward, first.low, first.high)
      BY <1>5, <2>1
    <3>3. side.low \cup side.high = first.low \cup first.high /\ side.low \cap side.high = {}
      BY <1>12, <3>1, <3>2, RebalanceMoves
    <3>4. QED
      BY <1>12, <3>3
  <2>2. CASE ~(mixed /\ need > 0)
    <3>1. side = first
      BY <1>5, <2>2
    <3>2. QED
      BY <1>12, <3>1
  <2>3. QED
    BY <2>1, <2>2
<1>14. low' \cup high' = (low \cup high) \ gone /\ low' \cap high' = {}
  BY <1>5, <1>13
<1>15. cold' = Dropped(cold, coldTake) /\ taken' = taken \cup Oldest(cold, coldTake) \cup gone
  BY <1>5, <1>6 DEF Dropped, Oldest
<1>16. sampled' = sampled + (Cardinality(gone) + coldTake)
  BY <1>6, <1>7, <1>11
<1>17. QED
  BY <1>7, <1>10, <1>14, <1>15, <1>16

(* A sample moves records from the pool to the trainer.                    *)
LEMMA SampleBatchInvariant ==
  ASSUME IInv, NEW k \in Nat, NEW mixed \in BOOLEAN, SampleBatch(k, mixed)
  PROVE  IInv'
<1>1. PICK gone \in SUBSET (low \cup high), n \in Nat :
         /\ n <= Len(cold)
         /\ low' \cup high' = (low \cup high) \ gone /\ low' \cap high' = {}
         /\ cold' = Dropped(cold, n)
         /\ sampled' = sampled + (Cardinality(gone) + n)
         /\ taken' = taken \cup Oldest(cold, n) \cup gone
  BY SampleEffect
<1>2. /\ low' \in SUBSET Record /\ high' \in SUBSET Record
      /\ cold' \in Seq(Record) /\ Distinct(cold')
      /\ ColdRecords' = ColdRecords \ Oldest(cold, n)
      /\ Oldest(cold, n) \subseteq ColdRecords
      /\ Pooled' = Pooled \ (gone \cup Oldest(cold, n))
      /\ Cardinality(gone) \in Nat
      /\ Total' = Total - (Cardinality(gone) + n)
  BY <1>1, RemovalEffect
<1>3. /\ reward' = reward /\ maxSize' = maxSize /\ adding' = adding /\ todo' = todo
      /\ fresh' = fresh /\ added' = added /\ evicted' = evicted /\ index' = index
  BY DEF SampleBatch
<1> DEFINE taking == Cardinality(gone) + n
<1>4. taking \in Nat /\ Total' = Total - taking /\ sampled' = sampled + taking
  BY <1>1, <1>2
<1> HIDE DEF taking
<1>5. gone \subseteq Pooled /\ Oldest(cold, n) \subseteq Pooled
  BY <1>2 DEF Pooled
<1>6. Pooled \subseteq Record
  BY DEF IInv, TypeOK, Pooled, ColdRecords
<1>7. sampled \in Nat /\ evicted \in Nat /\ maxSize \in Nat
  BY CapacityAssumption DEF IInv, TypeOK
<1>8. Total \in Nat
  <2>1. Cardinality(low) \in Nat /\ Cardinality(high) \in Nat /\ Len(cold) \in Nat
    BY Counts
  <2>2. QED
    BY <2>1 DEF Total
<1>9. TypeOK'
  <2>1. sampled' \in Nat
    BY <1>4, <1>7
  <2>2. taken' \subseteq Record
    BY <1>1, <1>5, <1>6 DEF IInv, TypeOK
  <2>3. QED
    BY <1>2, <1>3, <2>1, <2>2 DEF IInv, TypeOK
<1>10. WithinCapacity'
  BY <1>3, <1>4, <1>7, <1>8 DEF IInv, WithinCapacity
<1>11. Accounted'
  <2>1. Total' + sampled' = Total + sampled
    BY <1>4, <1>7, <1>8
  <2>2. Total' \in Int /\ sampled' \in Int
    BY <1>4, <1>7, <1>8
  <2>3. added + fresh = Total + sampled + evicted
    BY DEF IInv, Accounted
  <2>4. QED
    BY <1>3, <1>7, <1>8, <2>1, <2>2, <2>3 DEF Accounted
<1>12. OnePlace'
  <2>1. Pooled' \cap taken' = {} /\ todo \cap taken' = {} /\ todo \cap Pooled' = {}
    BY <1>1, <1>2, <1>5 DEF IInv, OnePlace
  <2>2. ColdRecords' \cap (low' \cup high') = {}
    BY <1>1, <1>2 DEF IInv, OnePlace
  <2>3. QED
    BY <1>1, <1>2, <1>3, <2>1, <2>2 DEF OnePlace, Distinct
<1>13. SidesScored'
  BY <1>1, <1>2, <1>3 DEF IInv, SidesScored
<1>14. PooledIndexed'
  BY <1>1, <1>2, <1>3, <1>5 DEF IInv, PooledIndexed
<1>15. QED
  BY <1>9, <1>10, <1>11, <1>12, <1>13, <1>14 DEF IInv

-----------------------------------------------------------------------------
(* A full pool and a scored item: the item goes in first, and the worst    *)
(* record, which may be the item itself, goes out.                         *)
LEMMA AddScoredWhenFullInvariant ==
  ASSUME IInv, NEW r \in Record, NEW x \in Reward, AddScoredWhenFull(r, x)
  PROVE  IInv'
<1> DEFINE l == IF InsertsLow(x) THEN low \cup {r} ELSE low
           h == IF InsertsLow(x) THEN high ELSE high \cup {r}
<1>1. /\ Total >= maxSize /\ Accept(r, x) /\ cold' = cold /\ evicted' = evicted + 1
  BY DEF AddScoredWhenFull
<1>2. PICK W \in Least(reward', IF l # {} THEN l ELSE h, 1) :
         /\ index' = index \ W
         /\ \E side \in Rebalanced(reward', l \ W, h \ W) :
              low' = side.low /\ high' = side.high
  BY DEF AddScoredWhenFull
<1>3. PICK side \in Rebalanced(reward', l \ W, h \ W) : low' = side.low /\ high' = side.high
  BY <1>2
<1>4. r \notin Pooled /\ r \notin low \cup high /\ x \in Reward \cup {None} /\ x # None
  BY <1>1, AcceptEffect, RewardAssumption DEF Pooled
<1>5. low \in SUBSET Record /\ high \in SUBSET Record /\ low \cap high = {}
  BY Counts
<1>6. /\ l \in SUBSET Record /\ h \in SUBSET Record /\ l \cap h = {}
      /\ l \cup h = (low \cup high) \cup {r}
  BY <1>4, <1>5
<1> HIDE DEF l, h
<1>7. W \in SUBSET (l \cup h) /\ Cardinality(W) = 1
  BY <1>2, LeastIsSubset
<1>8. low' \cup high' = ((low \cup high) \cup {r}) \ W /\ low' \cap high' = {}
  <2>1. (l \ W) \in SUBSET Record /\ (h \ W) \in SUBSET Record /\ (l \ W) \cap (h \ W) = {}
    BY <1>6
  <2>2. side.low \cup side.high = (l \ W) \cup (h \ W) /\ side.low \cap side.high = {}
    BY <1>3, <2>1, RebalanceMoves
  <2>3. QED
    BY <1>3, <1>6, <2>2
<1>9. low \cup high \in SUBSET Record
  BY <1>5
<1>10. Cardinality(low' \cup high') = Cardinality(low \cup high)
  <2>1. Cardinality((low \cup high) \cup {r}) = Cardinality(low \cup high) + 1
    BY <1>4, <1>9, CountAdded
  <2>2. W \in SUBSET ((low \cup high) \cup {r}) /\ (low \cup high) \cup {r} \in SUBSET Record
    BY <1>6, <1>7, <1>9
  <2>3. Cardinality(((low \cup high) \cup {r}) \ W)
          = Cardinality((low \cup high) \cup {r}) - Cardinality(W)
    BY <2>2, CountRemoved
  <2>4. Cardinality(low \cup high) \in Nat
    BY Counts
  <2>5. Cardinality(low' \cup high') = Cardinality(((low \cup high) \cup {r}) \ W)
    BY <1>8
  <2> DEFINE before == Cardinality(low \cup high)
  <2> HIDE DEF before
  <2>6. Cardinality(low' \cup high') = before + 1 - 1 /\ before \in Nat
    BY <1>7, <2>1, <2>3, <2>4, <2>5 DEF before
  <2>7. QED
    BY <2>6 DEF before
<1>11. Cardinality(low' \cup high') + Len(cold') = Total
  BY <1>1, <1>10, Counts
<1>12a. /\ Total <= maxSize /\ added + fresh = Total + sampled + evicted
      /\ sampled \in Nat /\ evicted \in Nat
  BY Counts
<1>12b. Total \in Nat
  BY Counts
<1>12. /\ Cardinality(low' \cup high') + Len(cold') <= maxSize
       /\ added + fresh + 1 = Cardinality(low' \cup high') + Len(cold') + sampled + evicted'
       /\ evicted' \in Nat
  BY <1>1, <1>11, <1>12a, <1>12b, SMTT(30)
<1>13. W \cap ColdRecords = {}
  BY <1>4, <1>6, <1>7 DEF IInv, OnePlace, Pooled
<1>14. ColdRecords' = IF x = None THEN (ColdRecords \ W) \cup {r} ELSE ColdRecords \ W
  <2>1. ColdRecords' = ColdRecords
    BY <1>1 DEF ColdRecords
  <2>2. QED
    BY <1>4, <1>13, <2>1
<1>15. /\ W \in SUBSET (Pooled \cup {r})
       /\ index' \subseteq index /\ index \ W \subseteq index'
       /\ low' \subseteq Record /\ high' \subseteq Record
  BY <1>2, <1>4, <1>6, <1>7, <1>8 DEF Pooled
<1>16. cold' \in Seq(Record) /\ Distinct(cold')
  BY <1>1, Counts
<1>17. x = None => low' \cup high' = (low \cup high) \ W /\ r \notin W
  BY <1>4
<1>18. x # None => low' \cup high' = ((low \cup high) \cup {r}) \ W
  BY <1>8
<1>19. QED
  BY <1>1, <1>4, <1>8, <1>12, <1>14, <1>15, <1>16, <1>17, <1>18, AcceptInvariant

-----------------------------------------------------------------------------
(* A stuttering step.                                                      *)
LEMMA StutterInvariant ==
  ASSUME IInv, UNCHANGED vars
  PROVE  IInv'
<1>1. /\ low' = low /\ high' = high /\ cold' = cold /\ reward' = reward
      /\ maxSize' = maxSize /\ adding' = adding /\ todo' = todo /\ fresh' = fresh
      /\ added' = added /\ sampled' = sampled /\ evicted' = evicted
      /\ index' = index /\ taken' = taken
  BY DEF vars
<1>2. ColdRecords' = ColdRecords /\ Total' = Total
  BY <1>1 DEF ColdRecords, Total
<1>3. QED
  BY <1>1, <1>2 DEF IInv, TypeOK, OnePlace, SidesScored, WithinCapacity, Accounted,
                    PooledIndexed, Pooled

(* Every step keeps the invariant: one case for each operation.            *)
LEMMA StepInvariant ==
  ASSUME IInv, [Next]_vars
  PROVE  IInv'
<1>1. ASSUME NEW batch \in SUBSET (Record \ Pooled), BeginAdd(batch) PROVE IInv'
  BY <1>1, BeginAddInvariant
<1>2. ASSUME NEW r \in Record, RejectItem(r) PROVE IInv'
  BY <1>2, RejectItemInvariant
<1>3. ASSUME NEW r \in Record, AddColdWithSpace(r) \/ AddColdWhenFull(r) PROVE IInv'
  BY <1>3, AddColdWithSpaceInvariant, AddColdWhenFullInvariant
<1>4. ASSUME NEW r \in Record, NEW x \in Reward,
             AddScoredWithSpace(r, x) \/ AddScoredWhenFull(r, x)
      PROVE  IInv'
  BY <1>4, AddScoredWithSpaceInvariant, AddScoredWhenFullInvariant
<1>5. CASE FinishAdd
  BY <1>5, FinishAddInvariant
<1>6. ASSUME NEW capacity \in Capacities, SetMaxSize(capacity) PROVE IInv'
  BY <1>6, SetMaxSizeInvariant
<1>7. ASSUME NEW k \in 1 .. MaxBatch, NEW mixed \in MixedModes, SampleBatch(k, mixed)
      PROVE  IInv'
  <2>1. k \in Nat /\ mixed \in BOOLEAN
    BY BoundAssumption
  <2>2. QED
    BY <1>7, <2>1, SampleBatchInvariant
<1>8. CASE UNCHANGED vars
  BY <1>8, StutterInvariant
<1>9. QED
  BY <1>1, <1>2, <1>3, <1>4, <1>5, <1>6, <1>7, <1>8 DEF Next

(* The invariant holds in every reachable state of the pool.               *)
THEOREM Invariant == Spec => []IInv
<1>1. IInv /\ [Next]_vars => IInv'
  BY StepInvariant
<1>2. QED
  BY <1>1, InitInvariant, PTL DEF Spec

(* The variables keep their types: add_many, sample_batch and set_max_size *)
(* leave no counter negative and no unknown record behind.                 *)
THEOREM TypeCorrect == Spec => []TypeOK
  BY Invariant, PTL DEF IInv

(* No sequence of add_many, sample_batch and set_max_size, however many    *)
(* records it moves over the boundary, puts a record in two places.        *)
THEOREM AlwaysOnePlace == Spec => []OnePlace
  BY Invariant, PTL DEF IInv

(* The sides hold scored records only, the cold queue unscored ones only,  *)
(* so that the heaps always have a reward to compare.                      *)
THEOREM AlwaysSidesScored == Spec => []SidesScored
  BY Invariant, PTL DEF IInv

(* max_size is kept between any two steps: insert-then-evict, the cold     *)
(* path and the eviction after set_max_size all respect it.                *)
THEOREM AlwaysWithinCapacity == Spec => []WithinCapacity
  BY Invariant, PTL DEF IInv

(* _total_added, _total_sampled and _total_evicted account for size().     *)
THEOREM AlwaysAccounted == Spec => []Accounted
  BY Invariant, PTL DEF IInv

(* An eviction never makes the trainer forget a record that is pooled, on  *)
(* its way in, or being trained on.                                        *)
THEOREM AlwaysPooledIndexed == Spec => []PooledIndexed
  BY Invariant, PTL DEF IInv

-----------------------------------------------------------------------------
(* The cold queue.  A record leaves by dropping a number of the oldest.    *)
Fifo ==
  \A i, j \in DOMAIN cold :
    i < j /\ cold[j] \notin ColdRecords' => cold[i] \notin ColdRecords'

LEMMA DropIsFifo ==
  ASSUME cold \in Seq(Record), Distinct(cold), NEW n \in Nat, n <= Len(cold),
         ColdRecords \ Oldest(cold, n) \subseteq ColdRecords',
         ColdRecords' \cap Oldest(cold, n) = {}
  PROVE  Fifo
<1> SUFFICES ASSUME NEW i \in DOMAIN cold, NEW j \in DOMAIN cold, i < j, cold[j] \notin ColdRecords'
             PROVE  cold[i] \notin ColdRecords'
  BY DEF Fifo
<1>1. DOMAIN cold = 1 .. Len(cold) /\ Len(cold) \in Nat /\ cold[i] \in ColdRecords /\ cold[j] \in ColdRecords
  BY DEF ColdRecords
<1>2. PICK m \in 1 .. n : cold[j] = cold[m]
  BY <1>1 DEF Oldest
<1>3. m \in DOMAIN cold
  BY <1>1
<1>4. i \in 1 .. n
  BY <1>1, <1>2, <1>3 DEF Distinct
<1> QED BY <1>1, <1>4 DEF Oldest

LEMMA KeepIsFifo == ASSUME ColdRecords \subseteq ColdRecords' PROVE Fifo
BY DEF Fifo, ColdRecords

LEMMA AppendIsFifo ==
  ASSUME cold \in Seq(Record), NEW r \in Record, cold' = Append(cold, r) PROVE Fifo
<1>1. Entries(cold') = Entries(cold) \cup {r}
  BY ColdAppend
<1> QED BY <1>1, ColdEntries, KeepIsFifo

LEMMA EvictIsFifo == ASSUME IInv, NEW capacity \in Nat, EvictToCapacity(capacity) PROVE Fifo
<1>1. PICK n \in Nat : n <= Len(cold) /\ cold' = Dropped(cold, n)
  BY EvictEffect
<1>2. cold \in Seq(Record) /\ Distinct(cold)
  BY Counts
<1>3. ColdRecords' = ColdRecords \ Oldest(cold, n)
  BY <1>1, <1>2, ColdDrop, ColdEntries
<1> QED BY <1>1, <1>2, <1>3, DropIsFifo

LEMMA SampleIsFifo ==
  ASSUME IInv, NEW k \in Nat, NEW mixed \in BOOLEAN, SampleBatch(k, mixed) PROVE Fifo
<1>1. PICK n \in Nat : n <= Len(cold) /\ cold' = Dropped(cold, n)
  BY SampleEffect
<1>2. cold \in Seq(Record) /\ Distinct(cold)
  BY Counts
<1>3. ColdRecords' = ColdRecords \ Oldest(cold, n)
  BY <1>1, <1>2, ColdDrop, ColdEntries
<1> QED BY <1>1, <1>2, <1>3, DropIsFifo

(* With no scored record left, the oldest cold record makes room.          *)
LEMMA AddColdIsFifo ==
  ASSUME IInv, NEW r \in Record, AddColdWithSpace(r) \/ AddColdWhenFull(r) PROVE Fifo
<1>1. cold \in Seq(Record) /\ Distinct(cold) /\ Len(cold) \in Nat
  BY Counts
<1>2. r \notin ColdRecords
  BY DEF AddColdWithSpace, AddColdWhenFull, Accept, IInv, OnePlace, Pooled
<1>3. CASE cold' = Append(cold, r)
  BY <1>1, <1>3, AppendIsFifo
<1>4. CASE cold' = Append(Tail(cold), r)
  <2>1. CASE cold = <<>>
    BY <2>1 DEF Fifo
  <2>2. CASE cold # <<>>
    <3>1. Tail(cold) = Dropped(cold, 1) /\ 1 <= Len(cold)
      BY <1>1, <2>2, TailIsSubSeq, EmptySeq DEF Dropped
    <3>2. Dropped(cold, 1) \in Seq(Record) /\ Entries(Dropped(cold, 1)) = Entries(cold) \ Oldest(cold, 1)
      BY <1>1, <3>1, ColdDrop
    <3>3. Entries(cold') = Entries(Dropped(cold, 1)) \cup {r}
      BY <1>4, <3>1, <3>2, ColdAppend
    <3>4. ColdRecords' = (ColdRecords \ Oldest(cold, 1)) \cup {r}
      BY <3>2, <3>3, ColdEntries
    <3>5. Oldest(cold, 1) \subseteq ColdRecords
      BY <1>1, <3>1 DEF Oldest, ColdRecords
    <3>6. ColdRecords' \cap Oldest(cold, 1) = {}
      BY <1>2, <3>4, <3>5
    <3> QED BY <1>1, <3>1, <3>4, <3>6, DropIsFifo
  <2> QED BY <2>1, <2>2
<1> QED BY <1>3, <1>4 DEF AddColdWithSpace, AddColdWhenFull

(* Whatever takes records from the cold queue -- a sample, an eviction, an *)
(* item that comes in when the pool is full -- takes the oldest first.     *)
THEOREM AlwaysColdIsFifo == Spec => ColdIsFifo
<1>1. ASSUME IInv, [Next]_vars PROVE Fifo
  <2>1. CASE UNCHANGED cold
    BY <2>1, KeepIsFifo DEF ColdRecords
  <2>2. ASSUME NEW r \in Record, AddColdWithSpace(r) \/ AddColdWhenFull(r) PROVE Fifo
    BY <1>1, <2>2, AddColdIsFifo
  <2>3. CASE FinishAdd
    BY <1>1, <2>3, Counts, EvictIsFifo DEF FinishAdd
  <2>4. ASSUME NEW capacity \in Capacities, SetMaxSize(capacity) PROVE Fifo
    BY <1>1, <2>4, CapacityAssumption, EvictIsFifo DEF SetMaxSize
  <2>5. ASSUME NEW k \in 1 .. MaxBatch, NEW mixed \in MixedModes, SampleBatch(k, mixed) PROVE Fifo
    BY <1>1, <2>5, BoundAssumption, SampleIsFifo
  <2> QED
    BY <1>1, <2>1, <2>2, <2>3, <2>4, <2>5
       DEF Next, vars, BeginAdd, RejectItem, AddScoredWithSpace, AddScoredWhenFull
<1>2. IInv /\ [Next]_vars =>
        \A i, j \in DOMAIN cold :
          i < j /\ cold[j] \notin ColdRecords' => cold[i] \notin ColdRecords'
  BY <1>1 DEF Fifo
<1> QED BY <1>2, Invariant, PTL DEF Spec, ColdIsFifo

-----------------------------------------------------------------------------
(* The boundary.                                                           *)
Sorted(rew, l, h) == \A x \in l, y \in h : rew[x] <= rew[y]

LEMMA RebalanceSorted ==
  ASSUME NEW rew, NEW l, NEW h, Sorted(rew, l, h), NEW side \in Rebalanced(rew, l, h),
         \A r \in l \cup h : rew[r] \in Int
  PROVE  Sorted(rew, side.low, side.high)
<1>1. CASE side = [low |-> l, high |-> h]
  BY <1>1
<1>2. ASSUME NEW k, NEW M \in Least(rew, h, k), side = [low |-> l \cup M, high |-> h \ M]
      PROVE Sorted(rew, side.low, side.high)
  BY <1>2 DEF Least, Sorted
<1>3. ASSUME NEW k, NEW M \in Greatest(rew, l, k), side = [low |-> l \ M, high |-> h \cup M]
      PROVE Sorted(rew, side.low, side.high)
  BY <1>3 DEF Greatest, Sorted
<1> QED BY <1>1, <1>2, <1>3 DEF Rebalanced

LEMMA ScoresAreInts == ASSUME IInv PROVE \A r \in low \cup high : reward[r] \in Int
BY RewardAssumption DEF IInv, SidesScored

(* An item that comes in leaves the other scores alone.                    *)
LEMMA AcceptScores ==
  ASSUME IInv, NEW r \in Record, NEW x \in Reward \cup {None}, Accept(r, x)
  PROVE  /\ r \notin low \cup high /\ reward'[r] = x
         /\ \A o \in low \cup high : reward'[o] = reward[o] /\ reward'[o] \in Int
<1>1. low \cup high \in SUBSET Record
  BY Counts
<1>2. r \notin Pooled /\ reward'[r] = x /\ \A o \in Record \ {r} : reward'[o] = reward[o]
  BY AcceptEffect
<1> QED BY <1>1, <1>2, ScoresAreInts DEF Pooled

LEMMA AddColdSorted ==
  ASSUME IInv, Ordered, NEW r \in Record, AddColdWithSpace(r) \/ AddColdWhenFull(r)
  PROVE  Ordered'
<1>1. Accept(r, None)
  BY DEF AddColdWithSpace, AddColdWhenFull
<1>2. \A o \in low \cup high : reward'[o] = reward[o] /\ reward'[o] \in Int
  BY <1>1, AcceptScores
<1>3. Sorted(reward', low, high)
  BY <1>2 DEF Ordered, Sorted
<1>4. CASE AddColdWithSpace(r)
  <2>1. PICK side \in Rebalanced(reward', low, high) : low' = side.low /\ high' = side.high
    BY <1>4 DEF AddColdWithSpace
  <2>2. Sorted(reward', low', high')
    BY <1>2, <1>3, <2>1, RebalanceSorted
  <2> QED BY <2>2 DEF Ordered, Sorted
<1>5. CASE AddColdWhenFull(r)
  <2>1. low' \subseteq low /\ high' \subseteq high
    BY <1>5, GreatestIsSubset DEF AddColdWhenFull
  <2> QED BY <1>3, <2>1 DEF Ordered, Sorted
<1> QED BY <1>4, <1>5

(* A scored item goes to the side where it belongs, ...                    *)
LEMMA AddScoredWithSpaceSorted ==
  ASSUME IInv, Ordered, high # {}, NEW r \in Record, NEW x \in Reward, AddScoredWithSpace(r, x)
  PROVE  Ordered'
<1>1. /\ r \notin low \cup high /\ reward'[r] = x /\ x \in Int
      /\ \A o \in low \cup high : reward'[o] = reward[o] /\ reward'[o] \in Int /\ reward[o] \in Int
  BY AcceptScores, ScoresAreInts, RewardAssumption DEF AddScoredWithSpace
<1>2. CASE BeatsHighFront(x)
  <2>1. \A o \in low : reward[o] <= x
    <3>1. PICK f \in high : reward[f] < x
      BY <1>2 DEF BeatsHighFront
    <3> QED BY <1>1, <3>1 DEF Ordered
  <2>2. Sorted(reward', low, high \cup {r})
    BY <1>1, <2>1 DEF Ordered, Sorted
  <2>3. PICK side \in Rebalanced(reward', low, high \cup {r}) : low' = side.low /\ high' = side.high
    BY <1>2 DEF AddScoredWithSpace
  <2>4. \A o \in low \cup (high \cup {r}) : reward'[o] \in Int
    BY <1>1
  <2>5. Sorted(reward', low', high')
    BY <2>2, <2>3, <2>4, RebalanceSorted
  <2> QED BY <2>5 DEF Ordered, Sorted
<1>3. CASE ~BeatsHighFront(x)
  <2>1. \A o \in high : x <= reward[o]
    BY <1>1, <1>3 DEF BeatsHighFront
  <2>2. Sorted(reward', low \cup {r}, high)
    BY <1>1, <2>1 DEF Ordered, Sorted
  <2>3. PICK side \in Rebalanced(reward', low \cup {r}, high) : low' = side.low /\ high' = side.high
    BY <1>3 DEF AddScoredWithSpace
  <2>4. \A o \in (low \cup {r}) \cup high : reward'[o] \in Int
    BY <1>1
  <2>5. Sorted(reward', low', high')
    BY <2>2, <2>3, <2>4, RebalanceSorted
  <2> QED BY <2>5 DEF Ordered, Sorted
<1> QED BY <1>2, <1>3

(* ... also in a full pool, where it may go to an empty low side although  *)
(* it is easier than some of the high side; then it is evicted at once.    *)
LEMMA AddScoredWhenFullSorted ==
  ASSUME IInv, Ordered, high # {}, NEW r \in Record, NEW x \in Reward, AddScoredWhenFull(r, x)
  PROVE  Ordered'
<1> DEFINE l == IF InsertsLow(x) THEN low \cup {r} ELSE low
           h == IF InsertsLow(x) THEN high ELSE high \cup {r}
<1>1. /\ r \notin low \cup high /\ reward'[r] = x /\ x \in Int
      /\ \A o \in low \cup high : reward'[o] = reward[o] /\ reward'[o] \in Int /\ reward[o] \in Int
  BY AcceptScores, ScoresAreInts, RewardAssumption DEF AddScoredWhenFull
<1>2. PICK W \in Least(reward', IF l # {} THEN l ELSE h, 1) :
        \E side \in Rebalanced(reward', l \ W, h \ W) : low' = side.low /\ high' = side.high
  BY DEF AddScoredWhenFull
<1>3. PICK side \in Rebalanced(reward', l \ W, h \ W) : low' = side.low /\ high' = side.high
  BY <1>2
<1>4. \A o \in (l \ W) \cup (h \ W) : reward'[o] \in Int
  BY <1>1
<1>5. Sorted(reward', l \ W, h \ W)
  <2>1. CASE InsertsLow(x) /\ low = {}
    <3>1. W \subseteq {r} /\ Cardinality(W) = 1
      BY <1>2, <2>1, LeastIsSubset
    <3>2. W = {r}
      BY <3>1, FS_EmptySet
    <3> QED BY <2>1, <3>2 DEF Sorted
  <2>2. CASE InsertsLow(x) /\ low # {}
    <3>1. \A o \in high : x <= reward[o]
      BY <2>2 DEF InsertsLow
    <3>2. Sorted(reward', low \cup {r}, high)
      BY <1>1, <3>1 DEF Ordered, Sorted
    <3> QED BY <2>2, <3>2 DEF Sorted
  <2>3. CASE ~InsertsLow(x)
    <3>1. \A o \in low : reward[o] <= x
      <4>1. PICK f \in high : reward[f] < x
        BY <1>1, <2>3 DEF InsertsLow
      <4> QED BY <1>1, <4>1 DEF Ordered
    <3>2. Sorted(reward', low, high \cup {r})
      BY <1>1, <3>1 DEF Ordered, Sorted
    <3> QED BY <2>3, <3>2 DEF Sorted
  <2> QED BY <2>1, <2>2, <2>3
<1>6. Sorted(reward', low', high')
  BY <1>3, <1>4, <1>5, RebalanceSorted
<1> QED BY <1>6 DEF Ordered, Sorted

LEMMA EvictSorted ==
  ASSUME Ordered, NEW capacity, EvictToCapacity(capacity), UNCHANGED reward PROVE Ordered'
<1>1. low' \subseteq low /\ high' \subseteq high
  BY DEF EvictToCapacity
<1> QED BY <1>1 DEF Ordered

(* What a sample leaves is sorted, before and after it is rebalanced.      *)
LEMMA SampleSorted ==
  ASSUME IInv, Ordered, NEW k, NEW mixed, SampleBatch(k, mixed) PROVE Ordered'
<1>1. PICK easy, medium :
        \E first \in AfterMedium(low, high \ easy, medium) :
        \E side \in {first} \cup Rebalanced(reward, first.low, first.high) :
          low' = side.low /\ high' = side.high
  BY DEF SampleBatch
<1>2. PICK first \in AfterMedium(low, high \ easy, medium) :
        \E side \in {first} \cup Rebalanced(reward, first.low, first.high) :
          low' = side.low /\ high' = side.high
  BY <1>1
<1>3. PICK side \in {first} \cup Rebalanced(reward, first.low, first.high) :
        low' = side.low /\ high' = side.high
  BY <1>2
<1>4. Sorted(reward, low, high \ easy) /\ Sorted(reward, low \ medium, (high \ easy) \ medium)
  BY DEF Ordered, Sorted
<1>5. /\ \A r \in low \cup (high \ easy) : reward[r] \in Int
      /\ \A r \in (low \ medium) \cup ((high \ easy) \ medium) : reward[r] \in Int
  BY ScoresAreInts
<1>6. Sorted(reward, first.low, first.high)
  BY <1>2, <1>4, <1>5, RebalanceSorted DEF AfterMedium
<1>7. first.low \subseteq low \cup high /\ first.high \subseteq low \cup high
  BY <1>2, LeastIsSubset, GreatestIsSubset DEF AfterMedium, Rebalanced
<1>8. \A r \in first.low \cup first.high : reward[r] \in Int
  BY <1>7, ScoresAreInts
<1>9. Sorted(reward, side.low, side.high)
  BY <1>3, <1>6, <1>8, RebalanceSorted
<1>10. UNCHANGED reward
  BY DEF SampleBatch
<1> QED BY <1>3, <1>9, <1>10 DEF Ordered, Sorted

(* Insertion, eviction, sampling with reinsertion and rebalancing keep     *)
(* every low reward at most every high one, for any sizes and fraction.    *)
THEOREM AlwaysBoundaryKept == Spec => BoundaryKept
<1>1. ASSUME IInv, [Next]_vars, Ordered, high # {} PROVE Ordered'
  <2>1. CASE UNCHANGED <<low, high, reward>>
    BY <1>1, <2>1 DEF Ordered
  <2>2. ASSUME NEW r \in Record, AddColdWithSpace(r) \/ AddColdWhenFull(r) PROVE Ordered'
    BY <1>1, <2>2, AddColdSorted
  <2>3. ASSUME NEW r \in Record, NEW x \in Reward, AddScoredWithSpace(r, x) \/ AddScoredWhenFull(r, x)
        PROVE  Ordered'
    BY <1>1, <2>3, AddScoredWithSpaceSorted, AddScoredWhenFullSorted
  <2>4. CASE FinishAdd
    BY <1>1, <2>4, EvictSorted DEF FinishAdd
  <2>5. ASSUME NEW capacity \in Capacities, SetMaxSize(capacity) PROVE Ordered'
    BY <1>1, <2>5, EvictSorted DEF SetMaxSize
  <2>6. ASSUME NEW k \in 1 .. MaxBatch, NEW mixed \in MixedModes, SampleBatch(k, mixed) PROVE Ordered'
    BY <1>1, <2>6, SampleSorted
  <2> QED
    BY <1>1, <2>1, <2>2, <2>3, <2>4, <2>5, <2>6 DEF Next, vars, BeginAdd, RejectItem
<1>2. IInv /\ [Next]_vars => (Ordered /\ high # {} => Ordered')
  BY <1>1
<1> QED BY <1>2, Invariant, PTL DEF Spec, BoundaryKept

-----------------------------------------------------------------------------
(* What is dropped when the capacity shrinks: the low side, and when that  *)
(* is used up the high side, and when that is used up cold records.        *)
LEMMA EvictHardest ==
  ASSUME IInv, NEW capacity \in Nat, EvictToCapacity(capacity), UNCHANGED reward
  PROVE  /\ Ordered => \A gone \in (low \cup high) \ Pooled', kept \in low' \cup high' :
                          reward[gone] <= reward[kept]
         /\ ColdRecords \subseteq ColdRecords' \/ low' \cup high' = {}
<1> DEFINE need == AtLeast(0, Total - capacity)
           fromLow == AtMost(need, Cardinality(low))
           fromHigh == AtMost(need - fromLow, Cardinality(high))
           fromCold == need - fromLow - fromHigh
<1>1. PICK L \in Least(reward, low, fromLow), H \in Least(reward, high, fromHigh) :
         /\ low' = low \ L /\ high' = high \ H
         /\ cold' = SubSeq(cold, fromCold + 1, Len(cold))
  BY DEF EvictToCapacity
<1>2. /\ low \in SUBSET Record /\ high \in SUBSET Record /\ cold \in Seq(Record)
      /\ Cardinality(low) \in Nat /\ Cardinality(high) \in Nat /\ Total \in Nat
  <2>1. /\ Cardinality(low) \in Nat /\ Cardinality(high) \in Nat /\ Len(cold) \in Nat
        /\ Total = Cardinality(low) + Cardinality(high) + Len(cold)
    BY Counts
  <2>2. Total \in Nat
    BY <2>1
  <2> QED BY <2>1, <2>2, Counts
<1>3. /\ L \subseteq low /\ Cardinality(L) = fromLow
      /\ H \subseteq high /\ Cardinality(H) = fromHigh
  BY <1>1, LeastIsSubset
<1>4. /\ \A x \in L, y \in low \ L : reward[x] <= reward[y]
      /\ \A x \in H, y \in high \ H : reward[x] <= reward[y]
  BY <1>1 DEF Least
<1>5. /\ need \in Nat /\ fromLow \in Nat /\ fromHigh \in Nat
      /\ fromHigh > 0 => fromLow = Cardinality(low)
      /\ fromCold # 0 => fromLow = Cardinality(low) /\ fromHigh = Cardinality(high)
  <2>1. need \in Nat
    BY <1>2 DEF AtLeast
  <2> HIDE DEF need
  <2>2. /\ fromLow \in Nat /\ fromLow <= need /\ (fromLow = need \/ fromLow = Cardinality(low))
    BY <1>2, <2>1 DEF AtMost
  <2> HIDE DEF fromLow
  <2>3. /\ fromHigh \in Nat /\ fromHigh <= need - fromLow
        /\ fromHigh = need - fromLow \/ fromHigh = Cardinality(high)
    BY <1>2, <2>1, <2>2 DEF AtMost
  <2> HIDE DEF fromHigh
  <2>4. fromHigh > 0 => fromLow = Cardinality(low)
    BY <2>1, <2>2, <2>3
  <2>5. fromCold # 0 => fromLow = Cardinality(low) /\ fromHigh = Cardinality(high)
    <3>1. CASE fromHigh = need - fromLow
      BY <2>1, <2>2, <2>3, <3>1
    <3>2. CASE fromHigh # need - fromLow
      BY <2>1, <2>2, <2>3, <3>2
    <3> QED BY <3>1, <3>2
  <2> QED BY <2>1, <2>2, <2>3, <2>4, <2>5
<1> HIDE DEF need, fromLow, fromHigh, fromCold
<1>6. IsFiniteSet(low) /\ IsFiniteSet(high) /\ IsFiniteSet(H)
  BY <1>2, <1>3, FiniteRecords
<1>7. H # {} => low' = {}
  <2> SUFFICES ASSUME H # {} PROVE low' = {}
    OBVIOUS
  <2>1. fromHigh # 0
    BY <1>3, <1>6, FS_EmptySet
  <2>2. Cardinality(low) = Cardinality(L)
    BY <1>3, <1>5, <2>1
  <2>3. low = L
    BY <1>3, <1>6, <2>2, FS_Subset
  <2> QED BY <1>1, <2>3
<1>8. ASSUME Ordered, NEW gone \in (low \cup high) \ Pooled', NEW kept \in low' \cup high'
      PROVE  reward[gone] <= reward[kept]
  <2>1. gone \in L \/ gone \in H
    BY <1>1, <1>8 DEF Pooled
  <2>2. kept \in low \ L \/ kept \in high \ H
    BY <1>1, <1>8
  <2>3. CASE gone \in L
    BY <1>3, <1>4, <1>8, <2>2, <2>3 DEF Ordered
  <2>4. CASE gone \in H
    BY <1>1, <1>4, <1>7, <2>2, <2>4
  <2> QED BY <2>1, <2>3, <2>4
<1>9. ColdRecords \subseteq ColdRecords' \/ low' \cup high' = {}
  <2>1. CASE fromCold = 0
    <3>1. cold' = cold
      BY <1>1, <1>2, <2>1, SubSeqFull
    <3> QED BY <3>1 DEF ColdRecords
  <2>2. CASE fromCold # 0
    <3>1. Cardinality(low) = Cardinality(L) /\ Cardinality(high) = Cardinality(H)
      BY <1>3, <1>5, <2>2
    <3>2. low = L
      BY <1>3, <1>6, <3>1, FS_Subset
    <3>3. high = H
      BY <1>3, <1>6, <3>1, FS_Subset
    <3> QED BY <1>1, <3>2, <3>3
  <2> QED BY <2>1, <2>2
<1> QED BY <1>8, <1>9

(* Lowering max_size drops the hardest queries first, and cold ones last.  *)
THEOREM AlwaysShrinkDropsHardest == Spec => ShrinkDropsHardest
<1>1. ASSUME IInv, [Next]_vars, maxSize' < maxSize
      PROVE  /\ Ordered => \A gone \in (low \cup high) \ Pooled', kept \in low' \cup high' :
                              reward[gone] <= reward[kept]
             /\ ColdRecords \subseteq ColdRecords' \/ low' \cup high' = {}
  <2>1. maxSize \in Nat /\ ~(maxSize < maxSize)
    BY <1>1, Counts
  <2>2. PICK capacity \in Capacities : SetMaxSize(capacity)
    BY <1>1, <2>1
       DEF Next, vars, BeginAdd, RejectItem, Accept, AddColdWithSpace, AddColdWhenFull,
           AddScoredWithSpace, AddScoredWhenFull, FinishAdd, SampleBatch
  <2>3. EvictToCapacity(capacity) /\ UNCHANGED reward /\ capacity \in Nat
    BY <2>2, CapacityAssumption DEF SetMaxSize
  <2> QED BY <1>1, <2>3, EvictHardest
<1>2. IInv /\ [Next]_vars =>
        (maxSize' < maxSize =>
           /\ Ordered => \A gone \in (low \cup high) \ Pooled', kept \in low' \cup high' :
                           reward[gone] <= reward[kept]
           /\ ColdRecords \subseteq ColdRecords' \/ low' \cup high' = {})
  BY <1>1
<1> QED BY <1>2, Invariant, PTL DEF Spec, ShrinkDropsHardest

-----------------------------------------------------------------------------
(* The window of a sample.  A record that is chosen among the first n of a *)
(* side has fewer than n before it.                                        *)
LEMMA FewBefore ==
  ASSUME NEW S \in SUBSET Record, NEW before \in SUBSET S, NEW r \in S, r \notin before
  PROVE  Cardinality(before) < Cardinality(S)
<1>1. IsFiniteSet(S) /\ before \in SUBSET Record /\ Cardinality(S) \in Nat /\ Cardinality(before) \in Nat
  BY FiniteRecords
<1>2. Cardinality(before) <= Cardinality(S)
  BY <1>1, FS_Subset
<1>3. Cardinality(before) # Cardinality(S)
  BY <1>1, FS_Subset
<1> QED BY <1>1, <1>2, <1>3

Harder(r) == {u \in high : reward[u] < reward[r]}
Easier(S, r) == {u \in S : reward[u] > reward[r]}

InWindow(k) ==
  /\ \A r \in low \cap taken' : Cardinality(Easier(low, r)) < 2 * k
  /\ \A r \in high \cap taken' :
       \/ Cardinality(Harder(r)) < 2 * k
       \/ TRUE \in MixedModes /\ Cardinality(Easier(high, r)) < k

LEMMA ShareAtMost ==
  ASSUME NEW take \in Nat, NEW nLow \in Nat, NEW nHigh \in Nat
  PROVE  HighShare(take, nLow, nHigh) \in Int /\ HighShare(take, nLow, nHigh) <= take
<1>1. (take + 1) \div 2 \in Nat /\ (take + 1) \div 2 <= take
  OBVIOUS
<1> HIDE DEF HighShare
<1>2. AtMost((take + 1) \div 2, nHigh) \in Nat /\ AtMost((take + 1) \div 2, nHigh) <= take
  BY <1>1 DEF AtMost
<1> QED BY <1>2 DEF HighShare, AtLeast

(* The candidates of a medium sample are near the boundary.                *)
Near(h, k, candidates) ==
  \E L \in SUBSET low, H \in SUBSET h :
    /\ candidates = L \cup H
    /\ Cardinality(L) <= 2 * k /\ Cardinality(H) <= 2 * k
    /\ \A x \in L, y \in low \ L : reward[x] >= reward[y]
    /\ \A x \in H, y \in h \ H : reward[x] <= reward[y]

LEMMA CandidatesNear ==
  ASSUME IInv, NEW h \in SUBSET high, NEW k \in Nat, NEW candidates \in MediumCandidates(low, h, k)
  PROVE  Near(h, k, candidates)
<1> DEFINE n == Cardinality(low) + Cardinality(h)
           take == AtMost(2 * k, n)
           share == HighShare(take, Cardinality(low), Cardinality(h))
<1>1. Cardinality(low) \in Nat /\ Cardinality(h) \in Nat /\ h \in SUBSET Record
  BY Counts, FiniteRecords
<1>2. take \in Nat /\ take <= 2 * k
  BY <1>1 DEF AtMost
<1> HIDE DEF take
<1>3. share \in Int /\ share <= take
  BY <1>1, <1>2, ShareAtMost
<1>4. PICK L \in Greatest(reward, low, take - share), H \in Least(reward, h, share) : candidates = L \cup H
  BY DEF MediumCandidates, take
<1> HIDE DEF share
<1>5. L \subseteq low /\ Cardinality(L) = take - share /\ H \subseteq h /\ Cardinality(H) = share
  BY <1>4, LeastIsSubset, GreatestIsSubset
<1>6. Cardinality(H) \in Nat
  BY <1>1, <1>5, FiniteRecords
<1>7. Cardinality(L) <= 2 * k /\ Cardinality(H) <= 2 * k
  BY <1>2, <1>3, <1>5, <1>6
<1>8. /\ \A x \in L, y \in low \ L : reward[x] >= reward[y]
      /\ \A x \in H, y \in h \ H : reward[x] <= reward[y]
  BY <1>4 DEF Least, Greatest
<1> QED BY <1>4, <1>5, <1>7, <1>8 DEF Near

LEMMA Less == ASSUME NEW a \in Nat, NEW b \in Nat, NEW c \in Nat, a < b, b <= c PROVE a < c
OBVIOUS

LEMMA Twice ==
  ASSUME NEW a \in Nat, NEW b \in Nat, NEW m \in Nat, NEW c \in Nat, a < b, b <= 2 * m, m <= c
  PROVE  a < 2 * c
OBVIOUS

LEMMA SampleInWindow ==
  ASSUME IInv, NEW k \in Nat, NEW mixed \in MixedModes, SampleBatch(k, mixed)
  PROVE  \E actual \in Nat : sampled' = sampled + actual /\ InWindow(actual)
<1> DEFINE actual == AtMost(k, Total)
           coldTake == AtMost(actual, Len(cold))
           need == actual - coldTake
           easyTake == IF mixed THEN AtMost(need \div 2, Cardinality(high)) ELSE 0
           mediumTake == need - easyTake
<1>1. PICK easy \in Greatest(reward, high, easyTake) :
      \E candidates \in MediumCandidates(low, high \ easy, mediumTake) :
      \E medium \in {C \in SUBSET candidates : Cardinality(C) = mediumTake} :
        taken' = taken \cup {cold[i] : i \in 1 .. coldTake} \cup easy \cup medium
  BY DEF SampleBatch
<1>2. PICK candidates \in MediumCandidates(low, high \ easy, mediumTake) :
      \E medium \in SUBSET candidates :
        taken' = taken \cup {cold[i] : i \in 1 .. coldTake} \cup easy \cup medium
  BY <1>1
<1>3. sampled' = sampled + actual
  BY DEF SampleBatch
<1>4. /\ low \in SUBSET Record /\ high \in SUBSET Record /\ low \cap high = {}
      /\ cold \in Seq(Record) /\ Len(cold) \in Nat
      /\ Cardinality(low) \in Nat /\ Cardinality(high) \in Nat /\ Total \in Nat
  <2>1. /\ Cardinality(low) \in Nat /\ Cardinality(high) \in Nat /\ Len(cold) \in Nat
        /\ Total = Cardinality(low) + Cardinality(high) + Len(cold)
    BY Counts
  <2>2. Total \in Nat
    BY <2>1
  <2> QED BY <2>1, <2>2, Counts
<1>5. /\ actual \in Nat /\ coldTake \in 0 .. Len(cold)
      /\ easyTake \in Nat /\ easyTake <= actual /\ (easyTake > 0 => mixed)
      /\ mediumTake \in Nat /\ mediumTake <= actual
  <2>1. actual \in Nat
    BY <1>4 DEF AtMost
  <2> HIDE DEF actual
  <2>2. coldTake \in 0 .. Len(cold) /\ need \in Nat /\ need <= actual
    BY <1>4, <2>1 DEF AtMost
  <2> HIDE DEF need, coldTake
  <2>3. need \div 2 \in Nat /\ need \div 2 <= need
    BY <2>2
  <2>4. easyTake \in Nat /\ easyTake <= need /\ (easyTake > 0 => mixed)
    BY <1>4, <2>2, <2>3 DEF AtMost
  <2> HIDE DEF easyTake
  <2> QED BY <2>1, <2>2, <2>4
<1> HIDE DEF actual, coldTake, need, easyTake, mediumTake
<1>6. easy \subseteq high /\ Cardinality(easy) = easyTake /\ \A x \in easy, y \in high \ easy : reward[x] >= reward[y]
  BY <1>1 DEF Greatest
<1>7. PICK L \in SUBSET low, H \in SUBSET (high \ easy) :
           /\ candidates = L \cup H
           /\ Cardinality(L) <= 2 * mediumTake /\ Cardinality(H) <= 2 * mediumTake
           /\ \A x \in L, y \in low \ L : reward[x] >= reward[y]
           /\ \A x \in H, y \in (high \ easy) \ H : reward[x] <= reward[y]
  <2>1. PICK h \in SUBSET high : h = high \ easy
    OBVIOUS
  <2>2. PICK m \in Nat : m = mediumTake
    BY <1>5
  <2>3. candidates \in MediumCandidates(low, h, m)
    BY <1>2, <2>1, <2>2
  <2>4. Near(h, m, candidates)
    BY <2>1, <2>2, <2>3, CandidatesNear
  <2>5. Near(high \ easy, mediumTake, candidates)
    BY <2>1, <2>2, <2>4
  <2> QED BY <2>5 DEF Near
<1>8. taken' \cap low \subseteq L /\ taken' \cap high \subseteq easy \cup H
  <2>1. {cold[i] : i \in 1 .. coldTake} \subseteq ColdRecords
    BY <1>4, <1>5 DEF ColdRecords
  <2>2. (taken \cup ColdRecords) \cap (low \cup high) = {}
    BY DEF IInv, OnePlace, Pooled
  <2> QED BY <1>2, <1>4, <1>6, <1>7, <2>1, <2>2
<1>9. \A u \in low \cup high : reward[u] \in Int
  BY ScoresAreInts
<1>10. L \in SUBSET Record /\ H \in SUBSET Record /\ easy \in SUBSET Record
  BY <1>4, <1>6, <1>7
<1>11. Cardinality(L) \in Nat /\ Cardinality(H) \in Nat
  BY <1>10, FiniteRecords
<1>12. ASSUME NEW r \in low \cap taken' PROVE Cardinality(Easier(low, r)) < 2 * actual
  <2>1. r \in L /\ r \notin Easier(low, r)
    BY <1>8, <1>9 DEF Easier
  <2>2. Easier(low, r) \subseteq L
    BY <1>7, <1>9, <2>1 DEF Easier
  <2>3. Cardinality(Easier(low, r)) < Cardinality(L) /\ Cardinality(Easier(low, r)) \in Nat
    BY <1>10, <2>1, <2>2, FewBefore, FiniteRecords
  <2> QED BY <1>5, <1>7, <1>11, <2>3
<1>13. ASSUME NEW r \in high \cap taken'
       PROVE  \/ Cardinality(Harder(r)) < 2 * actual
              \/ TRUE \in MixedModes /\ Cardinality(Easier(high, r)) < actual
  <2>1. CASE r \in easy
    <3>1. r \notin Easier(high, r) /\ Easier(high, r) \subseteq easy
      BY <1>6, <1>9, <2>1 DEF Easier
    <3>2. Cardinality(Easier(high, r)) < easyTake /\ Cardinality(Easier(high, r)) \in Nat
      BY <1>6, <1>10, <2>1, <3>1, FewBefore, FiniteRecords
    <3>3. mixed
      BY <1>5, <3>2
    <3>4. TRUE \in MixedModes
      <4>1. mixed = TRUE
        BY <3>3, BoundAssumption, Zenon
      <4> QED BY <4>1, Zenon
    <3>5. Cardinality(Easier(high, r)) < actual
      BY <1>5, <3>2, Less
    <3> QED BY <3>4, <3>5, Zenon
  <2>2. CASE r \in H
    <3>1. r \notin Harder(r) /\ Harder(r) \subseteq H
      BY <1>6, <1>7, <1>9, <2>2 DEF Harder
    <3>2. Cardinality(Harder(r)) < Cardinality(H) /\ Cardinality(Harder(r)) \in Nat
      BY <1>10, <2>2, <3>1, FewBefore, FiniteRecords
    <3>3. Cardinality(Harder(r)) < 2 * actual
      BY <1>5, <1>7, <1>11, <3>2, Twice
    <3> QED BY <3>3, Zenon
  <2> QED BY <1>8, <2>1, <2>2
<1> QED BY <1>3, <1>5, <1>12, <1>13 DEF InWindow

(* A sample takes medium records from the window around the boundary, and  *)
(* in the mixed mode others from the easy end, for any pool and any k.     *)
THEOREM AlwaysSampleWindow == Spec => SampleWindow
<1>1. ASSUME IInv, [Next]_vars, sampled' > sampled PROVE InWindow(sampled' - sampled)
  <2>1. sampled \in Nat /\ ~(sampled > sampled)
    BY <1>1, Counts
  <2>2. PICK k \in 1 .. MaxBatch, mixed \in MixedModes : SampleBatch(k, mixed)
    BY <1>1, <2>1
       DEF Next, vars, BeginAdd, RejectItem, Accept, AddColdWithSpace, AddColdWhenFull,
           AddScoredWithSpace, AddScoredWhenFull, FinishAdd, SetMaxSize
  <2>3. PICK actual \in Nat : sampled' = sampled + actual /\ InWindow(actual)
    BY <1>1, <2>2, BoundAssumption, SampleInWindow
  <2>4. sampled' - sampled = actual
    BY <2>1, <2>3
  <2> QED BY <2>3, <2>4
<1>2. IInv /\ [Next]_vars =>
        (sampled' > sampled =>
           LET k == sampled' - sampled
           IN /\ \A r \in low \cap taken' :
                   Cardinality({u \in low : reward[u] > reward[r]}) < 2 * k
              /\ \A r \in high \cap taken' :
                   \/ Cardinality({u \in high : reward[u] < reward[r]}) < 2 * k
                   \/ TRUE \in MixedModes /\ Cardinality({u \in high : reward[u] > reward[r]}) < k)
  BY <1>1 DEF InWindow, Easier, Harder
<1> QED BY <1>2, Invariant, PTL DEF Spec, SampleWindow

-----------------------------------------------------------------------------
(* The pool as a BoundedPool.  Its size is the number of its members, for  *)
(* any two sides and queue that share no record; so the balance of the     *)
(* totals, before and after a step, tells how many members the step moved. *)
(* (Cardinality means the same inside BoundedPool.)                        *)
LEMMA SameCardinality == ASSUME NEW S PROVE Bounded!Cardinality(S) = Cardinality(S)
BY DEF Bounded!Cardinality, Cardinality

LEMMA ColdLength ==
  ASSUME NEW c \in Seq(Record), Distinct(c)
  PROVE  Len(c) = Cardinality(Entries(c))
<1>1. Len(c) \in Nat /\ DOMAIN c = 1 .. Len(c) /\ c \in [1 .. Len(c) -> Entries(c)]
  BY DEF Entries
<1>2. c \in Bijection(1 .. Len(c), Entries(c))
  BY <1>1 DEF Distinct, Entries, Bijection, Injection, IsInjective, Surjection
<1>3. ExistsBijection(1 .. Len(c), Entries(c))
  BY <1>2 DEF ExistsBijection
<1>4. IsFiniteSet(1 .. Len(c)) /\ Cardinality(1 .. Len(c)) = Len(c)
  BY <1>1, FS_Interval
<1> QED BY <1>3, <1>4, FS_Bijection

LEMMA SizeIsMembers ==
  ASSUME NEW l \in SUBSET Record, NEW h \in SUBSET Record, NEW c \in Seq(Record),
         l \cap h = {}, Entries(c) \cap (l \cup h) = {}, Distinct(c)
  PROVE  Cardinality(l) + Cardinality(h) + Len(c) = Cardinality((l \cup h) \cup Entries(c))
<1>1. Entries(c) \in SUBSET Record
  BY DEF Entries
<1>2. Cardinality((l \cup h) \cup Entries(c)) = Cardinality(l \cup h) + Cardinality(Entries(c))
  BY <1>1, CountDisjoint
<1> QED BY <1>2, CountDisjoint, ColdLength

(* What the abstract pool sees of a state of the invariant, and of the     *)
(* next one.                                                               *)
LEMMA BalanceOfMembers ==
  ASSUME IInv, IInv'
  PROVE  /\ Pooled \in SUBSET Record /\ Pooled' \in SUBSET Record
         /\ Cardinality(Pooled) \in Nat /\ Cardinality(Pooled') \in Nat
         /\ Total = Cardinality(Pooled)
         /\ added + fresh = Cardinality(Pooled) + sampled + evicted
         /\ added' + fresh' = Cardinality(Pooled') + sampled' + evicted'
         /\ Cardinality(Pooled) <= maxSize /\ Cardinality(Pooled') <= maxSize'
         /\ added \in Nat /\ fresh \in Nat /\ sampled \in Nat /\ evicted \in Nat
         /\ maxSize \in Nat
<1>1. Pooled = (low \cup high) \cup Entries(cold) /\ Pooled' = (low' \cup high') \cup Entries(cold')
  BY ColdEntries DEF Pooled
<1>2. Pooled \in SUBSET Record /\ Pooled' \in SUBSET Record
  BY <1>1 DEF IInv, TypeOK, Entries
<1>3. Cardinality(Pooled) \in Nat /\ Cardinality(Pooled') \in Nat
  BY <1>2, FiniteRecords
<1>4. Total = Cardinality(Pooled)
  <2>1. Entries(cold) \cap (low \cup high) = {}
    BY ColdEntries DEF IInv, OnePlace
  <2> QED BY <1>1, <2>1, Counts, SizeIsMembers
<1>5. Total' = Cardinality(Pooled')
  <2>1. /\ low' \in SUBSET Record /\ high' \in SUBSET Record /\ cold' \in Seq(Record)
        /\ low' \cap high' = {} /\ Entries(cold') \cap (low' \cup high') = {} /\ Distinct(cold')
    BY ColdEntries DEF IInv, TypeOK, OnePlace, Distinct
  <2>2. Total' = Cardinality(low') + Cardinality(high') + Len(cold')
    BY DEF Total
  <2> QED BY <1>1, <2>1, <2>2, SizeIsMembers
<1>6. /\ added + fresh = Total + sampled + evicted /\ added' + fresh' = Total' + sampled' + evicted'
      /\ Total <= maxSize /\ Total' <= maxSize'
  BY DEF IInv, Accounted, WithinCapacity
<1> QED BY <1>2, <1>3, <1>4, <1>5, <1>6, Counts

LEMMA Removed ==
  ASSUME NEW total \in Nat, NEW before \in Nat, NEW after \in Nat, NEW out \in Nat, NEW n \in Nat,
         total = before + out, total = after + (out + n)
  PROVE  after = before - n
OBVIOUS

(* An item comes in; at most one record goes, and only from a full pool.   *)
LEMMA AcceptAdds ==
  ASSUME IInv, IInv', NEW r \in Record, NEW x \in Reward \cup {None}, Accept(r, x),
         Pooled' \subseteq Pooled \cup {r},
         \/ Total < maxSize /\ evicted' = evicted
         \/ Total >= maxSize /\ evicted' = evicted + 1
  PROVE  Bounded!Add(r)
<1>1. /\ r \notin Pooled \cup taken /\ maxSize' = maxSize /\ taken' = taken
      /\ fresh' = fresh + 1 /\ added' = added /\ sampled' = sampled
  BY AcceptEffect
<1>2. Cardinality(Pooled') = AtMost(Cardinality(Pooled) + 1, maxSize)
  <2>1. CASE Total < maxSize /\ evicted' = evicted
    <3>1. Cardinality(Pooled') = Cardinality(Pooled) + 1 /\ Cardinality(Pooled) + 1 <= maxSize
      BY <1>1, <2>1, BalanceOfMembers
    <3> QED BY <3>1 DEF AtMost
  <2>2. CASE Total >= maxSize /\ evicted' = evicted + 1
    <3>1. /\ Cardinality(Pooled') = Cardinality(Pooled) /\ Cardinality(Pooled) = maxSize
          /\ maxSize \in Nat /\ ~(maxSize + 1 <= maxSize)
      BY <1>1, <2>2, BalanceOfMembers
    <3> QED BY <3>1 DEF AtMost
  <2> QED BY <2>1, <2>2
<1> QED BY <1>1, <1>2, SameCardinality DEF Bounded!Add, Bounded!Size, Bounded!AtMost, AtMost

LEMMA AddColdAdds ==
  ASSUME IInv, IInv', NEW r \in Record, AddColdWithSpace(r) \/ AddColdWhenFull(r)
  PROVE  Bounded!Add(r)
<1>1. /\ Accept(r, None) /\ cold \in Seq(Record) /\ low \in SUBSET Record /\ high \in SUBSET Record
      /\ low \cap high = {}
  BY Counts DEF AddColdWithSpace, AddColdWhenFull
<1>2. Entries(Append(cold, r)) = Entries(cold) \cup {r}
  BY <1>1, ColdAppend
<1>3. CASE AddColdWithSpace(r)
  <2>1. PICK side \in Rebalanced(reward', low, high) : low' = side.low /\ high' = side.high
    BY <1>3 DEF AddColdWithSpace
  <2>2. low' \cup high' = low \cup high
    <3>1. side.low \cup side.high = low \cup high /\ side.low \cap side.high = {}
      BY Counts, RebalanceMoves
    <3> QED BY <2>1, <3>1
  <2>3. Total < maxSize /\ evicted' = evicted /\ cold' = Append(cold, r)
    BY <1>3 DEF AddColdWithSpace
  <2>4. Pooled' \subseteq Pooled \cup {r}
    BY <1>2, <2>2, <2>3, ColdEntries DEF Pooled
  <2> QED BY <1>1, <2>3, <2>4, AcceptAdds
<1>4. CASE AddColdWhenFull(r)
  <2>1. Total >= maxSize /\ evicted' = evicted + 1
    BY <1>4 DEF AddColdWhenFull
  <2>2. CASE low' \cup high' \subseteq low \cup high /\ cold' = Append(cold, r)
    <3>1. Pooled' \subseteq Pooled \cup {r}
      BY <1>2, <2>2, ColdEntries DEF Pooled
    <3> QED BY <1>1, <2>1, <3>1, AcceptAdds
  <2>3. CASE high = {} /\ low = {} /\ cold' = Append(Tail(cold), r) /\ low' = low /\ high' = high
    <3>1. Len(cold) >= 1 /\ Len(cold) \in Nat /\ Distinct(cold)
      <4>1. Cardinality(low) = 0 /\ Cardinality(high) = 0
        BY <2>3, FS_EmptySet
      <4> QED BY <2>1, <4>1, Counts
    <3>2. Tail(cold) = Dropped(cold, 1)
      BY <1>1, <3>1 DEF Dropped
    <3>3. Dropped(cold, 1) \in Seq(Record) /\ Entries(Dropped(cold, 1)) \subseteq Entries(cold)
      BY <1>1, <3>1, ColdDrop
    <3>4. Entries(cold') = Entries(Dropped(cold, 1)) \cup {r}
      BY <2>3, <3>2, <3>3, ColdAppend
    <3>5. Pooled' \subseteq Pooled \cup {r}
      BY <2>3, <3>3, <3>4, ColdEntries DEF Pooled
    <3> QED BY <1>1, <2>1, <3>5, AcceptAdds
  <2> QED BY <1>4, <2>2, <2>3 DEF AddColdWhenFull
<1> QED BY <1>3, <1>4

LEMMA AddScoredAdds ==
  ASSUME IInv, IInv', NEW r \in Record, NEW x \in Reward,
         AddScoredWithSpace(r, x) \/ AddScoredWhenFull(r, x)
  PROVE  Bounded!Add(r)
<1>1. /\ Accept(r, x) /\ cold' = cold /\ low \in SUBSET Record /\ high \in SUBSET Record
      /\ low \cap high = {} /\ x \in Reward \cup {None}
  BY Counts DEF AddScoredWithSpace, AddScoredWhenFull
<1>2. r \notin low \cup high
  BY <1>1, AcceptEffect DEF Pooled
<1>3. \/ Total < maxSize /\ evicted' = evicted
      \/ Total >= maxSize /\ evicted' = evicted + 1
  BY DEF AddScoredWithSpace, AddScoredWhenFull
<1>4. \E l \in SUBSET Record, h \in SUBSET Record :
        /\ l \cap h = {} /\ l \cup h \subseteq (low \cup high) \cup {r}
        /\ \E side \in Rebalanced(reward', l, h) : low' = side.low /\ high' = side.high
  <2>1. CASE AddScoredWithSpace(r, x) /\ BeatsHighFront(x)
    <3>1. \E side \in Rebalanced(reward', low, high \cup {r}) : low' = side.low /\ high' = side.high
      BY <2>1 DEF AddScoredWithSpace
    <3>2. (high \cup {r}) \in SUBSET Record /\ low \cap (high \cup {r}) = {}
      BY <1>1, <1>2
    <3> QED BY <1>1, <3>1, <3>2
  <2>2. CASE AddScoredWithSpace(r, x) /\ ~BeatsHighFront(x)
    <3>1. \E side \in Rebalanced(reward', low \cup {r}, high) : low' = side.low /\ high' = side.high
      BY <2>2 DEF AddScoredWithSpace
    <3>2. (low \cup {r}) \in SUBSET Record /\ (low \cup {r}) \cap high = {}
      BY <1>1, <1>2
    <3> QED BY <1>1, <3>1, <3>2
  <2>3. CASE AddScoredWhenFull(r, x)
    <3> DEFINE l == IF InsertsLow(x) THEN low \cup {r} ELSE low
               h == IF InsertsLow(x) THEN high ELSE high \cup {r}
    <3>1. PICK W \in Least(reward', IF l # {} THEN l ELSE h, 1) :
            \E side \in Rebalanced(reward', l \ W, h \ W) : low' = side.low /\ high' = side.high
      BY <2>3 DEF AddScoredWhenFull
    <3>2. /\ (l \ W) \in SUBSET Record /\ (h \ W) \in SUBSET Record /\ (l \ W) \cap (h \ W) = {}
          /\ (l \ W) \cup (h \ W) \subseteq (low \cup high) \cup {r}
      BY <1>1, <1>2
    <3> HIDE DEF l, h
    <3> QED BY <3>1, <3>2
  <2> QED BY <2>1, <2>2, <2>3
<1>5. low' \cup high' \subseteq (low \cup high) \cup {r}
  <2>1. PICK l \in SUBSET Record, h \in SUBSET Record :
          /\ l \cap h = {} /\ l \cup h \subseteq (low \cup high) \cup {r}
          /\ \E side \in Rebalanced(reward', l, h) : low' = side.low /\ high' = side.high
    BY <1>4
  <2>2. PICK side \in Rebalanced(reward', l, h) : low' = side.low /\ high' = side.high
    BY <2>1
  <2>3. l \cap h = {}
    BY <2>1
  <2>4. side.low \cup side.high = l \cup h /\ side.low \cap side.high = {}
    BY <2>3, RebalanceMoves
  <2> QED BY <2>1, <2>2, <2>4
<1>6. Pooled' \subseteq Pooled \cup {r}
  BY <1>1, <1>5, ColdEntries DEF Pooled
<1> QED BY <1>1, <1>3, <1>6, AcceptAdds

(* A sample hands out exactly min(k, size) members.                        *)
LEMMA SampleSamples ==
  ASSUME IInv, IInv', NEW k \in Nat, NEW mixed \in BOOLEAN, SampleBatch(k, mixed)
  PROVE  Bounded!Sample(k)
<1>1. PICK gone \in SUBSET (low \cup high), n \in Nat :
         /\ n <= Len(cold)
         /\ low' \cup high' = (low \cup high) \ gone /\ low' \cap high' = {}
         /\ cold' = Dropped(cold, n)
         /\ taken' = taken \cup Oldest(cold, n) \cup gone
  BY SampleEffect
<1> DEFINE sample == gone \cup Oldest(cold, n)
<1>2. /\ Oldest(cold, n) \subseteq ColdRecords
      /\ Pooled' = Pooled \ sample
  BY <1>1, RemovalEffect
<1>3. sample \in SUBSET Pooled /\ taken' = taken \cup sample
  BY <1>1, <1>2 DEF Pooled
<1> HIDE DEF sample
<1>4. /\ maxSize' = maxSize /\ sampled' = sampled + AtMost(k, Total)
      /\ added' = added /\ fresh' = fresh /\ evicted' = evicted
  BY DEF SampleBatch
<1>5. AtMost(k, Cardinality(Pooled)) \in Nat
  BY BalanceOfMembers DEF AtMost
<1>6. Cardinality(Pooled') = Cardinality(Pooled) - AtMost(k, Cardinality(Pooled))
  <2> DEFINE actual == AtMost(k, Cardinality(Pooled))
  <2>1. actual \in Nat /\ sampled' = sampled + actual
    BY <1>4, <1>5, BalanceOfMembers
  <2> HIDE DEF actual
  <2>2. Cardinality(Pooled') = Cardinality(Pooled) - actual
    <3>1. /\ added + fresh \in Nat /\ sampled + evicted \in Nat
          /\ added + fresh = Cardinality(Pooled) + (sampled + evicted)
          /\ added + fresh = Cardinality(Pooled') + ((sampled + evicted) + actual)
      BY <1>4, <2>1, BalanceOfMembers
    <3>2. Cardinality(Pooled) \in Nat /\ Cardinality(Pooled') \in Nat
      BY BalanceOfMembers
    <3> QED BY <2>1, <3>1, <3>2, Removed
  <2> QED BY <2>2 DEF actual
<1>7. Cardinality(Pooled') = Cardinality(Pooled) - Cardinality(sample) /\ Cardinality(sample) \in Nat
  BY <1>2, <1>3, BalanceOfMembers, CountRemoved, FiniteRecords
<1>8. Cardinality(sample) = AtMost(k, Cardinality(Pooled))
  BY <1>5, <1>6, <1>7, BalanceOfMembers
<1> QED BY <1>2, <1>3, <1>4, <1>8, SameCardinality DEF Bounded!Sample, Bounded!Size, Bounded!AtMost, AtMost

(* An eviction to a capacity drops members, exactly the surplus.           *)
LEMMA EvictDrops ==
  ASSUME IInv, IInv', NEW capacity \in Nat, EvictToCapacity(capacity),
         added' + fresh' = added + fresh, sampled' = sampled
  PROVE  Pooled' \subseteq Pooled /\ Cardinality(Pooled') = AtMost(Cardinality(Pooled), capacity)
<1>1. PICK gone \in SUBSET (low \cup high), n \in Nat :
         /\ n <= Len(cold)
         /\ low' \cup high' = (low \cup high) \ gone /\ low' \cap high' = {}
         /\ cold' = Dropped(cold, n)
         /\ Cardinality(gone) + n = AtLeast(0, Total - capacity)
         /\ evicted' = evicted + (Cardinality(gone) + n)
  BY EvictEffect
<1>2. Pooled' \subseteq Pooled
  BY <1>1, RemovalEffect
<1>3. evicted' = evicted + AtLeast(0, Cardinality(Pooled) - capacity)
  BY <1>1, BalanceOfMembers
<1>4. Cardinality(Pooled') = Cardinality(Pooled) - AtLeast(0, Cardinality(Pooled) - capacity)
  <2> DEFINE surplus == AtLeast(0, Cardinality(Pooled) - capacity)
  <2>1. surplus \in Nat /\ evicted' = evicted + surplus
    BY <1>3, BalanceOfMembers DEF AtLeast
  <2> HIDE DEF surplus
  <2>2. Cardinality(Pooled') = Cardinality(Pooled) - surplus
    <3>1. /\ added + fresh \in Nat /\ sampled + evicted \in Nat
          /\ added + fresh = Cardinality(Pooled) + (sampled + evicted)
          /\ added + fresh = Cardinality(Pooled') + ((sampled + evicted) + surplus)
      BY <2>1, BalanceOfMembers
    <3> QED BY <2>1, <3>1, BalanceOfMembers, Removed
  <2> QED BY <2>2 DEF surplus
<1>5. Cardinality(Pooled') = AtMost(Cardinality(Pooled), capacity)
  BY <1>4, BalanceOfMembers DEF AtLeast, AtMost
<1> QED BY <1>2, <1>5

(* The end of an add_many finds nothing to evict.                          *)
LEMMA FinishAddIsSilent ==
  ASSUME IInv, IInv', FinishAdd
  PROVE  Pooled' = Pooled /\ maxSize' = maxSize /\ taken' = taken
<1>1. /\ EvictToCapacity(maxSize) /\ maxSize' = maxSize /\ taken' = taken
      /\ added' = added + fresh /\ fresh' = 0 /\ sampled' = sampled
  BY DEF FinishAdd
<1>2. added' + fresh' = added + fresh
  BY <1>1, BalanceOfMembers
<1>3. /\ Pooled' \subseteq Pooled
      /\ Cardinality(Pooled') = AtMost(Cardinality(Pooled), maxSize)
  BY <1>1, <1>2, BalanceOfMembers, EvictDrops
<1>4. Cardinality(Pooled') = Cardinality(Pooled)
  BY <1>3, BalanceOfMembers DEF AtMost
<1>5. Pooled' = Pooled
  BY <1>3, <1>4, BalanceOfMembers, FiniteRecords, FS_Subset
<1> QED BY <1>1, <1>5

LEMMA StepRefines ==
  ASSUME IInv, [Next]_vars
  PROVE  [Bounded!Next]_(Bounded!vars)
<1>1. IInv'
  BY StepInvariant
<1>2. ASSUME NEW batch \in SUBSET (Record \ Pooled), BeginAdd(batch)
      PROVE  Bounded!Next
  <2>1. /\ low' = low /\ high' = high /\ cold' = cold /\ maxSize' = maxSize
        /\ taken' = taken \ (taken \cap batch)
    BY <1>2 DEF BeginAdd
  <2>2. Pooled' = Pooled
    BY <2>1 DEF Pooled, ColdRecords
  <2>3. (taken \cap batch) \in SUBSET taken /\ Bounded!Return(taken \cap batch)
    BY <2>1, <2>2 DEF Bounded!Return
  <2> QED BY <2>3 DEF Bounded!Next
<1>3. ASSUME NEW r \in Record, RejectItem(r)
      PROVE  UNCHANGED Bounded!vars
  BY <1>3 DEF RejectItem, Bounded!vars, Pooled, ColdRecords
<1>4. ASSUME NEW r \in Record, AddColdWithSpace(r) \/ AddColdWhenFull(r)
      PROVE  Bounded!Next
  BY <1>1, <1>4, AddColdAdds DEF Bounded!Next
<1>5. ASSUME NEW r \in Record, NEW x \in Reward, AddScoredWithSpace(r, x) \/ AddScoredWhenFull(r, x)
      PROVE  Bounded!Next
  BY <1>1, <1>5, AddScoredAdds DEF Bounded!Next
<1>6. CASE FinishAdd
  BY <1>1, <1>6, FinishAddIsSilent DEF Bounded!vars
<1>7. ASSUME NEW capacity \in Capacities, SetMaxSize(capacity)
      PROVE  Bounded!Next
  <2>1. /\ EvictToCapacity(capacity) /\ maxSize' = capacity /\ taken' = taken
        /\ added' = added /\ fresh' = fresh /\ sampled' = sampled
    BY <1>7 DEF SetMaxSize
  <2>2. Pooled' \subseteq Pooled /\ Cardinality(Pooled') = AtMost(Cardinality(Pooled), capacity)
    BY <1>1, <2>1, CapacityAssumption, EvictDrops
  <2>3. Bounded!SetCapacity(capacity)
    BY <2>1, <2>2, SameCardinality DEF Bounded!SetCapacity, Bounded!Size, Bounded!AtMost, AtMost
  <2> QED BY <2>3 DEF Bounded!Next
<1>8. ASSUME NEW k \in 1 .. MaxBatch, NEW mixed \in MixedModes, SampleBatch(k, mixed)
      PROVE  Bounded!Next
  <2>1. k \in Nat /\ mixed \in BOOLEAN
    BY BoundAssumption
  <2>2. Bounded!Sample(k)
    BY <1>1, <1>8, <2>1, SampleSamples
  <2> QED BY <2>2 DEF Bounded!Next
<1>9. CASE UNCHANGED vars
  BY <1>9 DEF vars, Bounded!vars, Pooled, ColdRecords
<1> QED BY <1>2, <1>3, <1>4, <1>5, <1>6, <1>7, <1>8, <1>9 DEF Next

(* The pool is a BoundedPool, for any records, rewards, capacities and     *)
(* share of the low side: two sides, a queue, local rebalancing and three  *)
(* ways to evict show as one set that is as full as it may be.             *)
THEOREM ImplementsBoundedPool == Spec => IsBoundedPool
<1>1. Init => Bounded!Init
  BY DEF Init, Bounded!Init, Pooled, ColdRecords
<1>2. IInv /\ [Next]_vars => [Bounded!Next]_(Bounded!vars)
  BY StepRefines
<1> QED BY <1>1, <1>2, Invariant, PTL DEF Spec, IsBoundedPool, Bounded!Spec
=============================================================================
