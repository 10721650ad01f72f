---------------------------- MODULE MultiHeapProofs ----------------------------
(***************************************************************************)
(* What TLAPS proves of the two other pools.  Of MultiHeap, for any number *)
(* of heaps, records and rewards: every record stays in the heap of its    *)
(* reward, round robin is fair, and a sample by any strategy is as large   *)
(* as asked for: no limit of attempts and no rounding of quotas cuts it    *)
(* short.  Of Slime, for any sizes, rollouts and restarts: every group of  *)
(* a rollout finds its record in the index, and a rollout that asks for    *)
(* groups gets some.                                                       *)
(***************************************************************************)
EXTENDS MultiHeap, Slime, FiniteSetTheorems, SequenceTheorems, WellFoundedInduction, TLAPS

Turning == phase \in {"easy", "hard"}

(* After some full rounds, a heap that still has records gave one in each  *)
(* round, and one in this round if it had its turn; a heap that ran empty  *)
(* gave no more than that.  The attempts last for as many rounds as are    *)
(* left, and a heap's share and what is still needed fit in all rounds.    *)
Past(i) == IF i < turn THEN 1 ELSE 0

Rounds(round, left) ==
  /\ \A i \in Heap : taken[i] <= round + Past(i)
  /\ \A i \in Heap : Filled(i) => taken[i] = round + Past(i)
  /\ attempts = left * NumHeaps - turn
  /\ \A i \in Heap : taken[i] + need <= round + left

RoundsInv ==
  Turning =>
    /\ turn \in Heap /\ need \in Nat /\ attempts \in Nat /\ taken \in [Heap -> Int]
    /\ \E round, left \in Nat : Rounds(round, left)

PhaseInv ==
  /\ strategy \in {"easy", "hard", "uniform", "curriculum"}
  /\ phase \in {"idle", "evict", "easy", "hard", "uniform", "curriculum"}
  /\ phase = "uniform" => need \in Nat
  /\ cold \in Nat

(* A set of rewards that is not empty has a lowest and a highest one.      *)
LEMMA Extremes ==
  ASSUME NEW S \in SUBSET Reward, S # {}
  PROVE  Min(S) \in S /\ Max(S) \in S
<1> DEFINE low == {x + Scale : x \in S}
           high == {Scale - x : x \in S}
           R == OpToRel(<, Nat)
<1>1. low \in SUBSET Nat /\ low # {} /\ high \in SUBSET Nat /\ high # {}
  <2>1. \A x \in S : x + Scale \in Nat /\ Scale - x \in Nat
    BY RewardAssumption
  <2> QED BY <2>1
<1>2. \E x \in S : \A y \in S : x <= y
  <2>1. PICK z \in low : \A y \in low : ~(<<y, z>> \in R)
    BY <1>1, WFMin, NatLessThanWellFounded
  <2>2. PICK x \in S : z = x + Scale
    BY <2>1
  <2>3. \A y \in S : ~(y + Scale < x + Scale)
    BY <1>1, <2>1, <2>2 DEF OpToRel
  <2> QED BY <2>3, RewardAssumption
<1>3. \E x \in S : \A y \in S : x >= y
  <2>1. PICK z \in high : \A y \in high : ~(<<y, z>> \in R)
    BY <1>1, WFMin, NatLessThanWellFounded
  <2>2. PICK x \in S : z = Scale - x
    BY <2>1
  <2>3. \A y \in S : ~(Scale - y < Scale - x)
    BY <1>1, <2>1, <2>2 DEF OpToRel
  <2> QED BY <2>3, RewardAssumption
<1> QED BY <1>2, <1>3 DEF Min, Max

LEMMA Ends == ASSUME NEW i \in Heap, Filled(i) PROVE Lowest(i) \in Rewards(i) /\ Highest(i) \in Rewards(i)
BY Extremes DEF Filled, Rewards, Lowest, Highest

(* A record that leaves changes nothing but its own entry.                 *)
LEMMA PoppedInPlace ==
  ASSUME NEW i \in Heap, NEW r \in Rewards(i), InPlace, heaps' = Popped(i, r), UNCHANGED boundaries
  PROVE  InPlace' /\ \A j \in Heap : Filled(j)' => Filled(j)
BY DEF Popped, Rewards, InPlace, Filled, HeapIndex

-----------------------------------------------------------------------------
LEMMA InitPlaced == Init => InPlace /\ RoundsInv /\ PhaseInv
BY StrategyAssumption DEF Init, InPlace, RoundsInv, PhaseInv, Turning

LEMMA NextPlaced == InPlace /\ RoundsInv /\ [Next]_vars => InPlace'
<1> SUFFICES ASSUME InPlace, RoundsInv, [Next]_vars PROVE InPlace'
  OBVIOUS
<1>1. CASE AddMany
  <2>1. PICK batch \in [Reward -> 0 .. MaxItems] :
          \/ Rebalance(Inserted(batch))
          \/ heaps' = Inserted(batch) /\ UNCHANGED boundaries
    BY <1>1 DEF AddMany
  <2>2. \A i \in Heap, r \in Reward :
          Inserted(batch)[i][r] > 0 => HeapIndex(boundaries, r) = i
    BY DEF Inserted, InPlace
  <2>3. CASE heaps' = Inserted(batch) /\ UNCHANGED boundaries
    BY <2>2, <2>3 DEF InPlace, HeapIndex
  <2>4. CASE Rebalance(Inserted(batch))
    <3> DEFINE h == Inserted(batch)
               count == [r \in Reward |-> MapThenSumSet(LAMBDA i : h[i][r], Heap)]
    <3>1. \/ heaps' = Distributed(count, boundaries')
          \/ heaps' = h /\ boundaries' = boundaries
      BY <2>4 DEF Rebalance
    <3>2. CASE heaps' = h /\ boundaries' = boundaries
      BY <2>2, <3>2 DEF InPlace, HeapIndex
    <3>3. CASE heaps' = Distributed(count, boundaries')
      <4> HIDE DEF count
      <4>1. \A i \in Heap, r \in Reward : heaps'[i][r] > 0 => HeapIndex(boundaries', r) = i
        BY <3>3 DEF Distributed
      <4> QED BY <4>1 DEF InPlace, HeapIndex
    <3> QED BY <3>1, <3>2, <3>3
  <2> QED BY <2>1, <2>3, <2>4
<1>2. CASE EvictScored
  BY <1>2, Ends, PoppedInPlace DEF EvictScored
<1>3. CASE RoundRobin
  <2>1. CASE UNCHANGED <<heaps, boundaries>>
    BY <2>1 DEF InPlace, HeapIndex
  <2>2. CASE Filled(turn) /\ Take(turn, IF phase = "easy" THEN Lowest(turn) ELSE Highest(turn))
    <3>1. turn \in Heap
      BY <1>3 DEF RoundRobin, RoundsInv, Turning
    <3> QED BY <2>2, <3>1, Ends, PoppedInPlace DEF Take
  <2> QED BY <1>3, <2>1, <2>2 DEF RoundRobin, store
<1>4. CASE DrawAny
  BY <1>4, PoppedInPlace DEF DrawAny, Take
<1>5. CASE TakeQuota
  <2>1. CASE UNCHANGED <<heaps, boundaries>>
    BY <2>1 DEF InPlace, HeapIndex
  <2>2. CASE Filled(turn) /\ Take(turn, Lowest(turn))
    BY <1>5, <2>2, Ends, PoppedInPlace DEF TakeQuota, Take
  <2> QED BY <1>5, <2>1, <2>2 DEF TakeQuota, store
<1>6. CASE Fill
  BY <1>6, Ends, PoppedInPlace DEF Fill, Take
<1>7. CASE UNCHANGED <<heaps, boundaries>>
  BY <1>7 DEF InPlace, HeapIndex
<1> QED
  BY <1>1, <1>2, <1>3, <1>4, <1>5, <1>6, <1>7
     DEF Next, vars, store, EvictCold, AddDone, SampleBatch, SampleDone

(* A heap in its turn gives a record or is empty; after the last heap a    *)
(* round is over, and one fewer is left.                                   *)
LEMMA TurnRounds ==
  ASSUME InPlace, RoundsInv, RoundRobin
  PROVE  RoundsInv'
<1>1. /\ Turning /\ Turning' /\ need \in Nat \ {0} /\ attempts \in Nat \ {0}
      /\ turn \in Heap /\ taken \in [Heap -> Int]
      /\ attempts' = attempts - 1 /\ turn' = (turn + 1) % NumHeaps
  BY DEF RoundRobin, RoundsInv, Turning, Take
<1>2. PICK round \in Nat, left \in Nat : Rounds(round, left)
  BY <1>1 DEF RoundsInv
<1> DEFINE here == IF Filled(turn) THEN 1 ELSE 0
<1>3. /\ need' = need - here /\ taken' = [taken EXCEPT ![turn] = @ + here]
      /\ \A j \in Heap : Filled(j)' => Filled(j)
  <2>1. CASE Filled(turn) /\ Take(turn, IF phase = "easy" THEN Lowest(turn) ELSE Highest(turn))
    BY <1>1, <2>1, Ends, PoppedInPlace DEF Take
  <2>2. CASE ~Filled(turn) /\ UNCHANGED <<heaps, need, taken>>
    BY <1>1, <2>2 DEF Filled
  <2> QED BY <2>1, <2>2 DEF RoundRobin, store
<1>4. /\ need' \in Nat /\ attempts' \in Nat /\ taken' \in [Heap -> Int]
      /\ \A i \in Heap : taken'[i] = IF i = turn THEN taken[i] + here ELSE taken[i]
  BY <1>1, <1>3
<1>5. CASE turn < NumHeaps - 1
  <2>1. turn' = turn + 1 /\ turn' \in Heap
    BY <1>1, <1>5, HeapsAssumption DEF Heap
  <2>2. \A i \in Heap : taken'[i] <= round + Past(i)'
    <3> TAKE i \in Heap
    <3>1. taken[i] \in Int /\ taken[i] <= round + Past(i)
      BY <1>1, <1>2 DEF Rounds
    <3>2. i = turn => Past(i) = 0 /\ Past(i)' = 1
      BY <1>1, <2>1 DEF Past, Heap
    <3>3. i # turn => Past(i)' = Past(i)
      BY <1>1, <2>1 DEF Past, Heap
    <3>4. Past(i) \in {0, 1}
      BY DEF Past
    <3> QED BY <1>4, <3>1, <3>2, <3>3, <3>4
  <2>3. \A i \in Heap : Filled(i)' => taken'[i] = round + Past(i)'
    BY <1>1, <1>2, <1>3, <1>4, <2>1 DEF Rounds, Past, Heap
  <2>4. attempts' = left * NumHeaps - turn'
    BY <1>1, <1>2, <2>1, HeapsAssumption DEF Rounds, Heap
  <2>5. \A i \in Heap : taken'[i] + need' <= round + left
    BY <1>1, <1>2, <1>3, <1>4 DEF Rounds
  <2>6. Rounds(round, left)'
    BY <2>2, <2>3, <2>4, <2>5 DEF Rounds
  <2> QED BY <1>1, <1>4, <2>1, <2>6 DEF RoundsInv
<1>6. CASE turn = NumHeaps - 1
  <2>1. turn' = 0 /\ turn' \in Heap
    BY <1>1, <1>6, HeapsAssumption DEF Heap
  <2>2. \A i \in Heap : taken'[i] <= (round + 1) + Past(i)'
    <3> TAKE i \in Heap
    <3>1. taken[i] \in Int /\ taken[i] <= round + Past(i)
      BY <1>1, <1>2 DEF Rounds
    <3>2. i = turn => Past(i) = 0
      BY <1>1 DEF Past, Heap
    <3>3. Past(i) \in {0, 1} /\ Past(i)' = 0
      BY <2>1 DEF Past, Heap
    <3> QED BY <1>4, <3>1, <3>2, <3>3
  <2>3. \A i \in Heap : Filled(i)' => taken'[i] = (round + 1) + Past(i)'
    BY <1>1, <1>2, <1>3, <1>4, <1>6, <2>1 DEF Rounds, Past, Heap
  <2>4. left - 1 \in Nat /\ attempts' = (left - 1) * NumHeaps - turn'
    <3>1. left # 0
      BY <1>1, <1>2, <1>6, HeapsAssumption DEF Rounds
    <3>2. (left - 1) * NumHeaps = left * NumHeaps - NumHeaps
      BY HeapsAssumption
    <3> QED BY <1>1, <1>2, <1>6, <2>1, <3>1, <3>2, HeapsAssumption DEF Rounds
  <2>5. \A i \in Heap : taken'[i] + need' <= (round + 1) + (left - 1)
    BY <1>1, <1>2, <1>3, <1>4 DEF Rounds
  <2>6. Rounds(round + 1, left - 1)'
    BY <2>2, <2>3, <2>4, <2>5 DEF Rounds
  <2> QED BY <1>1, <1>4, <2>1, <2>4, <2>6 DEF RoundsInv
<1> QED BY <1>1, <1>5, <1>6, HeapsAssumption DEF Heap

LEMMA NextRounds == InPlace /\ RoundsInv /\ PhaseInv /\ [Next]_vars => RoundsInv' /\ PhaseInv'
<1> SUFFICES ASSUME InPlace, RoundsInv, PhaseInv, [Next]_vars PROVE RoundsInv' /\ PhaseInv'
  OBVIOUS
<1>1. CASE RoundRobin
  <2>1. PhaseInv'
    BY <1>1 DEF RoundRobin, Take, store, PhaseInv
  <2> QED BY <1>1, <2>1, TurnRounds
<1>2. CASE SampleBatch
  <2>1. PICK k \in 1 .. MaxSample :
          LET n == IF cold < k THEN cold ELSE k
          IN /\ cold' = cold - n
             /\ \/ k = n /\ UNCHANGED <<phase, sample>>
                \/ /\ k > n
                   /\ phase' = strategy /\ need' = k - n /\ turn' = 0 /\ taken' = Zero
                   /\ strategy \in {"easy", "hard"} => attempts' = (k - n) * NumHeaps
    BY <1>2 DEF SampleBatch
  <2>2. phase = "idle" /\ UNCHANGED <<strategy, heaps>>
    BY <1>2 DEF SampleBatch
  <2>3. CASE UNCHANGED <<phase, sample>>
    BY <2>1, <2>2, <2>3, SizeAssumption DEF RoundsInv, PhaseInv, Turning
  <2>4. CASE /\ phase' = strategy /\ need' \in Nat \ {0} /\ turn' = 0 /\ taken' = Zero
             /\ strategy \in {"easy", "hard"} => attempts' = need' * NumHeaps
    <3>1. PhaseInv'
      BY <2>1, <2>2, <2>4, SizeAssumption DEF PhaseInv
    <3>2. RoundsInv'
      <4> SUFFICES ASSUME Turning' PROVE RoundsInv'
        BY DEF RoundsInv
      <4>1. PICK n \in Nat \ {0} : need' = n
        BY <2>4
      <4>2. attempts' = n * NumHeaps /\ attempts' \in Nat
        BY <2>4, <4>1, HeapsAssumption DEF Turning
      <4>3. turn' = 0 /\ turn' \in Heap /\ taken' \in [Heap -> Int]
        BY <2>4, HeapsAssumption DEF Heap, Zero
      <4>4. \A i \in Heap : taken'[i] = 0 /\ Past(i)' = 0
        BY <2>4, <4>3 DEF Heap, Zero, Past
      <4>5. attempts' = n * NumHeaps - turn'
        BY <4>2, <4>3, HeapsAssumption
      <4>6. Rounds(0, n)'
        BY <4>1, <4>4, <4>5 DEF Rounds
      <4> QED BY <4>1, <4>2, <4>3, <4>6 DEF RoundsInv
    <3> QED BY <3>1, <3>2
  <2> QED BY <2>1, <2>3, <2>4 DEF PhaseInv
<1>3. CASE AddMany
  <2>1. \E unscored \in 0 .. MaxItems : cold' = cold + unscored
    BY <1>3 DEF AddMany
  <2>2. phase' = "evict" /\ UNCHANGED strategy
    BY <1>3 DEF AddMany
  <2> QED BY <2>1, <2>2, SizeAssumption DEF RoundsInv, PhaseInv, Turning
<1>6. CASE EvictCold \/ EvictScored \/ AddDone \/ SampleDone
  BY <1>6 DEF EvictCold, EvictScored, AddDone, SampleDone, RoundsInv, PhaseInv, Turning, store
<1>4. CASE DrawAny \/ TakeQuota \/ Fill
  BY <1>4 DEF DrawAny, TakeQuota, Fill, Take, RoundsInv, PhaseInv, Turning, store
<1>5. CASE UNCHANGED vars
  BY <1>5 DEF vars, store, sample, RoundsInv, PhaseInv, Turning, Rounds, Past, Filled
<1> QED BY <1>1, <1>2, <1>3, <1>4, <1>5, <1>6 DEF Next

-----------------------------------------------------------------------------
IInv == InPlace /\ RoundsInv /\ PhaseInv

THEOREM Invariant == Spec => []IInv
BY InitPlaced, NextPlaced, NextRounds, PTL DEF Spec, IInv

(* Every record stays in the heap its reward has under the boundaries.     *)
THEOREM AlwaysInPlace == Spec => []InPlace
<1>1. IInv => InPlace
  BY DEF IInv
<1> QED BY <1>1, Invariant, PTL

(* Round robin takes from the heaps in turn and passes over none that has  *)
(* records, whatever their sizes.                                          *)
THEOREM AlwaysFairTurns == Spec => []FairTurns
<1>1. IInv => FairTurns
  <2> SUFFICES ASSUME IInv, Turning, NEW i \in Heap, NEW j \in Heap, Filled(i)
               PROVE  taken[j] <= taken[i] + IF j < i THEN 1 ELSE 0
    BY DEF FairTurns, Turning
  <2>1. PICK round \in Nat, left \in Nat : Rounds(round, left)
    BY DEF IInv, RoundsInv
  <2>2. turn \in Heap /\ taken[i] \in Int /\ taken[j] \in Int
    BY DEF IInv, RoundsInv
  <2>3. taken[j] <= round + Past(j) /\ taken[i] = round + Past(i)
    BY <2>1 DEF Rounds
  <2> QED BY <2>2, <2>3 DEF Past, Heap
<1> QED BY <1>1, Invariant, PTL

(* The limit of attempts never cuts a round-robin sample short: when it    *)
(* ends, it has all its records or the heaps are empty.                    *)
LEMMA EndsWhole == IInv /\ SampleDone /\ Turning => need = 0 \/ Empty
<1> SUFFICES ASSUME IInv, Turning, attempts = 0, NEW i \in Heap, Filled(i) PROVE need = 0
  BY DEF SampleDone, Turning, Empty
<1>1. PICK round \in Nat, left \in Nat : Rounds(round, left)
  BY DEF IInv, RoundsInv
<1>2. turn \in Heap /\ turn \in Int /\ need \in Nat /\ taken[i] \in Int
  BY DEF IInv, RoundsInv, Heap
<1>6. left * NumHeaps = turn
  <2>1. 0 = left * NumHeaps - turn
    BY <1>1 DEF Rounds
  <2> QED BY <1>2, <2>1, HeapsAssumption
<1>3. left = 0
  <2> SUFFICES ASSUME left >= 1 PROVE FALSE
    OBVIOUS
  <2>1. left * NumHeaps >= NumHeaps
    BY HeapsAssumption
  <2> QED BY <1>2, <1>6, <2>1, HeapsAssumption DEF Heap
<1>4. turn = 0
  BY <1>3, <1>6, HeapsAssumption
<1>5. taken[i] = round /\ taken[i] + need <= round + left
  BY <1>1, <1>4 DEF Rounds, Past, Heap
<1> QED BY <1>2, <1>3, <1>5

-----------------------------------------------------------------------------
(* The curriculum.  Its quotas are rounded down from shares of a whole:    *)
(* with all heaps' shares the whole is used up, so what was drawn up to a  *)
(* heap, in units of the whole, is at most the sum of the shares up to it, *)
(* which has a closed form.                                                *)
Whole == TrainingSteps * (NumHeaps - 1) * NumHeaps

Share(k, step, i) == (2 * k) * ((TrainingSteps - step) * (NumHeaps - 1 - i) + step * i)

UpTo(k, step, i) ==
  k * (2 * (TrainingSteps - step) * (NumHeaps - 1) * i + (2 * step - TrainingSteps) * (i * (i - 1)))

Drawn(k, step) ==
  /\ \A i \in Heap : quota[i] * Whole <= Share(k, step, i)
  /\ turn \in Heap => (k - need - taken[turn]) * Whole <= UpTo(k, step, turn)

CurriculumInv ==
  phase = "curriculum" =>
    /\ turn \in 0 .. NumHeaps /\ need \in Int
    /\ taken \in [Heap -> Int] /\ quota \in [Heap -> Int]
    /\ \A i \in Heap : i > turn => taken[i] = 0 /\ quota[i] >= 0
    /\ turn \in Heap => taken[turn] <= quota[turn]
    /\ turn = NumHeaps => need >= 0
    /\ \E k \in Nat, step \in 0 .. TrainingSteps : Drawn(k, step)

LEMMA WholeIsPositive == Whole \in Nat /\ Whole > 0
<1>1. NumHeaps \in Nat /\ NumHeaps - 1 \in Nat /\ NumHeaps - 1 > 0 /\ NumHeaps > 0
  BY HeapsAssumption
<1>2. TrainingSteps * (NumHeaps - 1) \in Nat /\ TrainingSteps * (NumHeaps - 1) > 0
  BY <1>1, StepsAssumption
<1> QED BY <1>1, <1>2 DEF Whole

LEMMA SharesAddUp ==
  ASSUME NEW k \in Nat, NEW step \in 0 .. TrainingSteps
  PROVE  /\ UpTo(k, step, 0) = 0
         /\ \A i \in Heap : UpTo(k, step, i + 1) = UpTo(k, step, i) + Share(k, step, i)
         /\ UpTo(k, step, NumHeaps) = k * Whole
<1>1. PICK t \in Int : t = TrainingSteps
  BY StepsAssumption
<1>2. PICK n \in Int : n = NumHeaps
  BY HeapsAssumption
<1>3. UpTo(k, step, 0) = 0
  BY <1>1, <1>2 DEF UpTo
<1>4. ASSUME NEW i \in Heap PROVE UpTo(k, step, i + 1) = UpTo(k, step, i) + Share(k, step, i)
  <2>1. i \in Int /\ step \in Int
    BY <1>1 DEF Heap
  <2>2. 2 * (t - step) * (n - 1) * (i + 1) = 2 * (t - step) * (n - 1) * i + 2 * (t - step) * (n - 1)
    BY <2>1
  <2>3. (2 * step - t) * ((i + 1) * i) = (2 * step - t) * (i * (i - 1)) + (2 * step - t) * (2 * i)
    BY <2>1
  <2>4. 2 * (t - step) * (n - 1) + (2 * step - t) * (2 * i) = 2 * ((t - step) * (n - 1 - i) + step * i)
    BY <2>1
  <2>5. (i + 1) - 1 = i
    BY <2>1
  <2> QED BY <1>1, <1>2, <2>1, <2>2, <2>3, <2>4, <2>5 DEF UpTo, Share
<1>5. UpTo(k, step, NumHeaps) = k * Whole
  <2>1. step \in Int
    BY <1>1
  <2>2. 2 * (t - step) * (n - 1) * n + (2 * step - t) * (n * (n - 1)) = t * (n - 1) * n
    BY <2>1
  <2> QED BY <1>1, <1>2, <2>2 DEF UpTo, Whole
<1> QED BY <1>3, <1>4, <1>5

(* A quota is no more than the share it was rounded from.                  *)
LEMMA RoundedDown ==
  ASSUME NEW x \in Nat, NEW w \in Nat, w > 0, NEW q \in Int,
         q = x \div w \/ q = (x \div w) - 1
  PROVE  q * w <= x
<1>1. PICK d \in Nat : d = x \div w
  OBVIOUS
<1>2. d * w <= x
  BY <1>1
<1>3. (d - 1) * w <= d * w
  BY <1>1
<1>4. (d - 1) * w \in Int /\ d * w \in Int
  BY <1>1
<1> QED BY <1>1, <1>2, <1>3, <1>4

LEMMA QuotasRoundDown ==
  ASSUME NEW k \in Nat, NEW step \in 0 .. TrainingSteps, NEW q \in Quotas(k, step), NEW i \in Heap
  PROVE  q[i] \in Nat /\ q[i] * Whole <= Share(k, step, i)
<1>1. q \in [Heap -> 0 .. k]
  BY DEF Quotas
<1>2. q[i] = Share(k, step, i) \div Whole \/ q[i] = (Share(k, step, i) \div Whole) - 1
  BY DEF Quotas, Share, Whole
<1>3. Share(k, step, i) \in Nat
  <2>1. /\ TrainingSteps - step \in Nat /\ step \in Nat /\ i \in Nat /\ NumHeaps - 1 - i \in Nat
    BY StepsAssumption, HeapsAssumption DEF Heap
  <2>2. (TrainingSteps - step) * (NumHeaps - 1 - i) \in Nat /\ step * i \in Nat
    BY <2>1
  <2> QED BY <2>2 DEF Share
<1>4. q[i] \in Nat
  BY <1>1
<1> QED BY <1>2, <1>3, <1>4, WholeIsPositive, RoundedDown

(* A sample begins with nothing drawn.                                     *)
LEMMA BeginsCurriculum ==
  ASSUME PhaseInv, CurriculumInv, SampleBatch, phase' = "curriculum" PROVE CurriculumInv'
<1>1. phase = "idle" /\ strategy \in {"easy", "hard", "uniform", "curriculum"} /\ cold \in Nat
  BY DEF SampleBatch, PhaseInv
<1>2. PICK k \in 1 .. MaxSample :
        LET n == IF cold < k THEN cold ELSE k
        IN /\ k > n
           /\ phase' = strategy /\ need' = k - n /\ turn' = 0 /\ taken' = Zero
           /\ \E step \in 0 .. TrainingSteps :
                quota' \in IF strategy = "curriculum" THEN Quotas(k - n, step) ELSE {Zero}
  BY <1>1 DEF SampleBatch
<1>3. PICK m \in Nat, step \in 0 .. TrainingSteps : need' = m /\ quota' \in Quotas(m, step)
  <2> DEFINE n == IF cold < k THEN cold ELSE k
  <2>1. k - n \in Nat
    BY <1>1, <1>2, SizeAssumption
  <2> QED BY <1>2, <2>1
<1>4. turn' = 0 /\ taken' = Zero /\ 0 \in Heap /\ 0 # NumHeaps
  BY <1>2, HeapsAssumption DEF Heap
<1>5. /\ quota' \in [Heap -> 0 .. m]
      /\ \A i \in Heap : quota'[i] \in Nat /\ quota'[i] * Whole <= Share(m, step, i)
  BY <1>3, QuotasRoundDown DEF Quotas
<1>6. (m - m - 0) * Whole <= UpTo(m, step, 0)
  BY SharesAddUp, WholeIsPositive
<1>7. Drawn(m, step)'
  BY <1>3, <1>4, <1>5, <1>6 DEF Drawn, Zero
<1>8. /\ taken' \in [Heap -> Int] /\ quota' \in [Heap -> Int] /\ turn' \in 0 .. NumHeaps
      /\ \A i \in Heap : taken'[i] = 0 /\ quota'[i] >= 0
  BY <1>4, <1>5, HeapsAssumption DEF Zero
<1> QED BY <1>3, <1>4, <1>7, <1>8 DEF CurriculumInv

(* A record from the heap whose turn it is keeps the account, and so does  *)
(* the next turn.                                                          *)
LEMMA QuotaKeeps == ASSUME CurriculumInv, TakeQuota PROVE CurriculumInv'
<1>1. PICK k \in Nat, step \in 0 .. TrainingSteps : Drawn(k, step)
  BY DEF CurriculumInv, TakeQuota
<1>2. /\ phase = "curriculum" /\ phase' = "curriculum" /\ UNCHANGED quota
      /\ turn \in Heap /\ turn \in Int /\ turn < NumHeaps /\ NumHeaps \in Nat /\ need \in Int
      /\ taken \in [Heap -> Int] /\ quota \in [Heap -> Int]
      /\ \A i \in Heap : i > turn => taken[i] = 0 /\ quota[i] >= 0
      /\ taken[turn] <= quota[turn]
  BY HeapsAssumption DEF CurriculumInv, TakeQuota, Take, Heap
<1>3. (k - need - taken[turn]) * Whole <= UpTo(k, step, turn)
  BY <1>1, <1>2 DEF Drawn
<1>4. CASE taken[turn] < quota[turn] /\ Take(turn, Lowest(turn)) /\ UNCHANGED turn
  <2>1. need' = need - 1 /\ taken' = [taken EXCEPT ![turn] = @ + 1]
    BY <1>4 DEF Take
  <2>2. taken'[turn] = taken[turn] + 1 /\ taken' \in [Heap -> Int] /\ \A i \in Heap : i # turn => taken'[i] = taken[i]
    BY <1>2, <2>1
  <2>3. k - need' - taken'[turn] = k - need - taken[turn]
    BY <1>2, <2>1, <2>2
  <2>4. Drawn(k, step)'
    BY <1>1, <1>2, <1>3, <1>4, <2>3 DEF Drawn
  <2> QED BY <1>2, <1>4, <2>1, <2>2, <2>4 DEF CurriculumInv
<1>5. CASE turn' = turn + 1 /\ UNCHANGED <<need, taken>>
  <2>1. quota[turn] * Whole <= Share(k, step, turn)
    BY <1>1, <1>2 DEF Drawn
  <2>2. (k - need) * Whole <= UpTo(k, step, turn + 1)
    <3>1. PICK a \in Int : a = k - need - taken[turn]
      BY <1>2
    <3>2. PICK b \in Int : b = taken[turn]
      BY <1>2
    <3>3. PICK c \in Int : c = quota[turn]
      BY <1>2
    <3>4. k - need = a + b /\ b <= c
      BY <1>2, <3>1, <3>2, <3>3
    <3>5. Whole \in Nat /\ b * Whole <= c * Whole
      BY <3>4, WholeIsPositive
    <3>6. (a + b) * Whole = a * Whole + b * Whole
      BY <3>5
    <3>7. UpTo(k, step, turn) \in Int /\ Share(k, step, turn) \in Int
      BY <1>2, StepsAssumption DEF UpTo, Share
    <3>8. UpTo(k, step, turn + 1) = UpTo(k, step, turn) + Share(k, step, turn)
      BY <1>2, SharesAddUp
    <3>9. a * Whole <= UpTo(k, step, turn) /\ c * Whole <= Share(k, step, turn)
      BY <1>3, <2>1, <3>1, <3>3
    <3>10. a * Whole \in Int /\ b * Whole \in Int /\ c * Whole \in Int
      BY <3>5
    <3> QED BY <3>4, <3>5, <3>6, <3>7, <3>8, <3>9, <3>10
  <2>3. CASE turn + 1 \in Heap
    <3>1. taken[turn + 1] = 0 /\ quota[turn + 1] >= 0
      BY <1>2, <2>3
    <3>2. k - need - 0 = k - need
      BY <1>2
    <3>3. Drawn(k, step)'
      BY <1>1, <1>2, <1>5, <2>2, <3>1, <3>2 DEF Drawn
    <3> QED BY <1>2, <1>5, <2>3, <3>1, <3>3 DEF CurriculumInv, Heap
  <2>4. CASE turn + 1 = NumHeaps
    <3>1. (k - need) * Whole <= k * Whole
      BY <2>2, <2>4, SharesAddUp
    <3>2. need >= 0
      <4>1. ASSUME need < 0 PROVE FALSE
        <5>1. PICK d \in Nat : d = k - need /\ d >= k + 1
          BY <1>2, <4>1
        <5>2. d * Whole >= (k + 1) * Whole
          BY <5>1, WholeIsPositive
        <5>3. (k + 1) * Whole = k * Whole + Whole /\ k * Whole \in Int
          BY WholeIsPositive
        <5>4. d * Whole <= k * Whole /\ d * Whole \in Int
          BY <3>1, <5>1, WholeIsPositive
        <5> QED BY <5>2, <5>3, <5>4, WholeIsPositive
      <4> QED BY <1>2, <4>1
    <3>3. turn' \notin Heap
      BY <1>5, <2>4, HeapsAssumption DEF Heap
    <3>4. Drawn(k, step)'
      BY <1>1, <1>2, <3>3 DEF Drawn
    <3> QED BY <1>2, <1>5, <2>4, <3>2, <3>3, <3>4 DEF CurriculumInv, Heap
  <2>5. turn + 1 \in Heap \/ turn + 1 = NumHeaps
    BY <1>2 DEF Heap
  <2> QED BY <2>3, <2>4, <2>5
<1> QED BY <1>4, <1>5 DEF TakeQuota

(* When the quotas are drawn, no more than what was asked for is missing.  *)
LEMMA FillKeeps == ASSUME CurriculumInv, Fill PROVE CurriculumInv'
<1>1. /\ phase = "curriculum" /\ phase' = "curriculum" /\ UNCHANGED <<turn, quota>>
      /\ turn = NumHeaps /\ need > 0 /\ need' = need - 1
  BY DEF Fill, Take
<1>2. PICK i \in Heap : taken' = [taken EXCEPT ![i] = @ + 1]
  BY DEF Fill, Take
<1>3. PICK k \in Nat, step \in 0 .. TrainingSteps : Drawn(k, step)
  BY <1>1 DEF CurriculumInv
<1>4. turn \notin Heap /\ \A j \in Heap : ~(j > turn)
  BY <1>1, HeapsAssumption DEF Heap
<1>5. Drawn(k, step)'
  BY <1>1, <1>3, <1>4 DEF Drawn
<1>6. taken' \in [Heap -> Int]
  BY <1>1, <1>2 DEF CurriculumInv
<1> QED BY <1>1, <1>4, <1>5, <1>6 DEF CurriculumInv

LEMMA NextCurriculum ==
  ASSUME PhaseInv, CurriculumInv, [Next]_vars PROVE CurriculumInv'
<1>1. CASE TakeQuota BY <1>1, QuotaKeeps
<1>2. CASE Fill BY <1>2, FillKeeps
<1>3. CASE SampleBatch
  <2>1. CASE phase' = "curriculum" BY <1>3, <2>1, BeginsCurriculum
  <2> QED BY <2>1 DEF CurriculumInv
<1>4. CASE AddMany \/ EvictCold \/ EvictScored \/ AddDone \/ RoundRobin \/ DrawAny \/ SampleDone
  <2>1. phase' # "curriculum"
    BY <1>4 DEF AddMany, EvictCold, EvictScored, AddDone, RoundRobin, DrawAny, SampleDone, Take, store
  <2> QED BY <2>1 DEF CurriculumInv
<1>5. CASE UNCHANGED vars
  <2>1. UNCHANGED <<phase, need, turn, quota, taken>>
    BY <1>5 DEF vars, sample
  <2> QED BY <2>1 DEF CurriculumInv, Drawn
<1> QED BY <1>1, <1>2, <1>3, <1>4, <1>5 DEF Next

(* A sample by any strategy ends with all the records it was asked for,    *)
(* and not one more, unless the heaps are empty: for any number of heaps,  *)
(* any progress of the training and any rounding of the quotas.            *)
THEOREM AlwaysServed == Spec => Served
<1>1. Init => CurriculumInv
  BY DEF Init, CurriculumInv
<1>2. PhaseInv /\ CurriculumInv /\ [Next]_vars => CurriculumInv'
  BY NextCurriculum
<1>3. IInv /\ CurriculumInv /\ SampleDone => need = 0 \/ (need > 0 /\ Empty)
  <2> SUFFICES ASSUME IInv, CurriculumInv, SampleDone PROVE need = 0 \/ (need > 0 /\ Empty)
    OBVIOUS
  <2>1. CASE Turning
    <3>1. need \in Nat
      BY <2>1 DEF IInv, RoundsInv
    <3>2. need = 0 \/ Empty
      BY <2>1, EndsWhole
    <3> QED BY <3>1, <3>2
  <2>2. CASE phase = "uniform"
    BY <2>2 DEF SampleDone, IInv, PhaseInv
  <2>3. CASE phase = "curriculum"
    BY <2>3 DEF SampleDone, CurriculumInv
  <2> QED BY <2>1, <2>2, <2>3 DEF SampleDone, Turning
<1>4. IInv /\ CurriculumInv /\ [Next]_vars => (SampleDone => need = 0 \/ (need > 0 /\ Empty))
  BY <1>3
<1>5. IInv => PhaseInv
  BY DEF IInv
<1> QED BY <1>1, <1>2, <1>4, <1>5, Invariant, PTL DEF Spec, Served

-----------------------------------------------------------------------------
(* Slime: sequences of ids without repetition.                             *)
Unique(s) == \A i, j \in 1 .. Len(s) : s[i] = s[j] => i = j

Cut(s, k) == AtMost(k, Len(s))

LEMMA ButRest ==
  ASSUME NEW S, NEW s \in Seq(S), NEW k \in Nat
  PROVE  /\ Cut(s, k) \in 0 .. Len(s)
         /\ But(s, k) \in Seq(S) /\ Len(But(s, k)) = Len(s) - Cut(s, k)
         /\ \A i \in 1 .. Len(s) - Cut(s, k) : But(s, k)[i] = s[i + Cut(s, k)]
<1> DEFINE d == Cut(s, k)
<1>1. Len(s) \in Nat /\ d \in 0 .. Len(s)
  BY LenProperties DEF Cut, AtMost
<1>2. \A i \in d + 1 .. Len(s) : s[i] \in S
  BY <1>1, ElementOfSeq
<1> HIDE DEF d
<1>3. /\ SubSeq(s, d + 1, Len(s)) \in Seq(S)
      /\ Len(SubSeq(s, d + 1, Len(s))) = IF d + 1 <= Len(s) THEN Len(s) - (d + 1) + 1 ELSE 0
      /\ \A i \in 1 .. Len(s) - (d + 1) + 1 : SubSeq(s, d + 1, Len(s))[i] = s[d + 1 + i - 1]
  BY <1>1, <1>2, SubSeqProperties
<1>4. But(s, k) = SubSeq(s, d + 1, Len(s))
  BY DEF But, d, Cut
<1>5. Len(But(s, k)) = Len(s) - d
  BY <1>1, <1>3, <1>4
<1>6. \A i \in 1 .. Len(s) - d : But(s, k)[i] = s[i + d]
  <2> TAKE i \in 1 .. Len(s) - d
  <2>1. i \in 1 .. Len(s) - (d + 1) + 1 /\ d + 1 + i - 1 = i + d
    BY <1>1
  <2> QED BY <1>3, <1>4, <2>1
<1> QED BY <1>1, <1>3, <1>4, <1>5, <1>6 DEF d

LEMMA FirstStart ==
  ASSUME NEW S, NEW s \in Seq(S), NEW k \in Nat
  PROVE  /\ Len(First(s, k)) = Cut(s, k)
         /\ \A i \in 1 .. Cut(s, k) : First(s, k)[i] = s[i]
<1> DEFINE d == Cut(s, k)
<1>1. Len(s) \in Nat /\ d \in 0 .. Len(s)
  BY LenProperties DEF Cut, AtMost
<1>2. \A i \in 1 .. d : s[i] \in S
  BY <1>1, ElementOfSeq
<1> HIDE DEF d
<1>3. /\ Len(SubSeq(s, 1, d)) = IF 1 <= d THEN d - 1 + 1 ELSE 0
      /\ \A i \in 1 .. d - 1 + 1 : SubSeq(s, 1, d)[i] = s[1 + i - 1]
  BY <1>1, <1>2, SubSeqProperties
<1>4. First(s, k) = SubSeq(s, 1, d)
  BY DEF First, d, Cut
<1>5. \A i \in 1 .. d : First(s, k)[i] = s[i]
  <2> TAKE i \in 1 .. d
  <2>1. i \in 1 .. d - 1 + 1 /\ 1 + i - 1 = i
    BY <1>1
  <2> QED BY <1>3, <1>4, <2>1
<1>6. Len(First(s, k)) = d
  BY <1>1, <1>3, <1>4
<1> QED BY <1>1, <1>5, <1>6 DEF d

(* What is sampled and what is left are parts of the queue, and disjoint.  *)
LEMMA Split ==
  ASSUME NEW S, NEW s \in Seq(S), NEW k \in Nat, Unique(s)
  PROVE  /\ But(s, k) \in Seq(S) /\ Unique(But(s, k))
         /\ Elements(But(s, k)) \subseteq Elements(s)
         /\ Elements(First(s, k)) \subseteq Elements(s)
         /\ Elements(But(s, k)) \cap Elements(First(s, k)) = {}
<1> DEFINE d == Cut(s, k)
<1>1. /\ d \in 0 .. Len(s)
      /\ But(s, k) \in Seq(S) /\ Len(But(s, k)) = Len(s) - d
      /\ \A i \in 1 .. Len(s) - d : But(s, k)[i] = s[i + d]
  BY ButRest
<1>2. Len(First(s, k)) = d /\ \A i \in 1 .. d : First(s, k)[i] = s[i]
  BY FirstStart
<1> HIDE DEF d
<1>3. Len(s) \in Nat /\ d \in 0 .. Len(s)
  BY <1>1, LenProperties
<1>4. \A i \in 1 .. Len(s) - d : i + d \in 1 .. Len(s)
  BY <1>3
<1>5. Unique(But(s, k))
  <2> SUFFICES ASSUME NEW i \in 1 .. Len(s) - d, NEW j \in 1 .. Len(s) - d, s[i + d] = s[j + d]
               PROVE  i = j
    BY <1>1 DEF Unique
  <2>1. i + d = j + d
    BY <1>4 DEF Unique
  <2> QED BY <1>3, <2>1
<1>6. Elements(But(s, k)) \subseteq Elements(s)
  BY <1>1, <1>4 DEF Elements
<1>7. Elements(First(s, k)) \subseteq Elements(s)
  BY <1>2, <1>3 DEF Elements
<1>8. ASSUME NEW i \in 1 .. Len(s) - d, NEW j \in 1 .. d PROVE But(s, k)[i] # First(s, k)[j]
  <2>1. But(s, k)[i] = s[i + d] /\ First(s, k)[j] = s[j]
    BY <1>1, <1>2
  <2>2. i + d \in 1 .. Len(s) /\ j \in 1 .. Len(s) /\ i + d # j
    BY <1>3, <1>4
  <2> QED BY <2>1, <2>2 DEF Unique
<1>9. Elements(But(s, k)) \cap Elements(First(s, k)) = {}
  BY <1>1, <1>2, <1>8 DEF Elements
<1> QED BY <1>1, <1>5, <1>6, <1>7, <1>9

(* New ids are drawn in order.                                             *)
New(new, n) == new \in Seq(n .. n + Len(new) - 1) /\ Unique(new)

LEMMA DrawnInOrder ==
  ASSUME NEW n \in Nat, NEW m \in Nat
  PROVE  LET new == [i \in 1 .. m |-> n + i - 1] IN New(new, n) /\ Len(new) = m
<1> DEFINE new == [i \in 1 .. m |-> n + i - 1]
<1>1. new \in [1 .. m -> n .. n + m - 1]
  OBVIOUS
<1>2. new \in Seq(n .. n + m - 1)
  BY <1>1, SeqDef
<1>3. Len(new) = m
  BY <1>2, LenProperties
<1>4. Unique(new)
  <2> SUFFICES ASSUME NEW i \in 1 .. m, NEW j \in 1 .. m, new[i] = new[j] PROVE i = j
    BY <1>3 DEF Unique
  <2> QED OBVIOUS
<1> QED BY <1>2, <1>3, <1>4 DEF New

LEMMA NoneDrawn == ASSUME NEW n \in Nat PROVE New(<<>>, n) /\ Len(<<>>) = 0
<1>1. <<>> \in Seq(n .. n + Len(<<>>) - 1) /\ Len(<<>>) = 0
  BY EmptySeq
<1> QED BY <1>1 DEF New, Unique

(* Nothing is left out of a queue that has none of the records.            *)
LEMMA WithoutNone ==
  ASSUME NEW S, NEW s \in Seq(S), NEW some, Elements(s) \cap some = {}
  PROVE  Without(s, some) = s
<1> DEFINE kept == {i \in 1 .. Len(s) : s[i] \notin some}
           At(place) == CHOOSE i \in kept : Cardinality({j \in kept : j <= i}) = place
<1>1. Len(s) \in Nat /\ s = [i \in 1 .. Len(s) |-> s[i]]
  BY LenProperties
<1>2. kept = 1 .. Len(s)
  <2>1. \A i \in 1 .. Len(s) : s[i] \in Elements(s)
    BY DEF Elements
  <2> QED BY <2>1
<1>3. Cardinality(kept) = Len(s)
  <2>1. Cardinality(1 .. Len(s)) = Len(s)
    BY <1>1, FS_Interval
  <2> QED BY <1>2, <2>1
<1>4. \A i \in kept : Cardinality({j \in kept : j <= i}) = i
  <2> TAKE i \in kept
  <2>1. i \in 1 .. Len(s) /\ {j \in kept : j <= i} = 1 .. i
    BY <1>1, <1>2
  <2>2. Cardinality(1 .. i) = i
    BY <1>1, <2>1, FS_Interval
  <2> QED BY <2>1, <2>2
<1>5. \A place \in 1 .. Len(s) : At(place) = place
  BY <1>2, <1>4
<1>6. Without(s, some) = [place \in 1 .. Cardinality(kept) |-> s[At(place)]]
  BY DEF Without
<1> HIDE DEF kept, At
<1>7. Without(s, some) = [place \in 1 .. Len(s) |-> s[place]]
  BY <1>3, <1>5, <1>6
<1> QED BY <1>1, <1>7

(* A pool that holds unscored records only, each once, with ids below n,   *)
(* and none of those that are away from it.                                *)
Tidy(p, n, away) ==
  /\ p \in [cold : Seq(1 .. n - 1), heaps : {{}}]
  /\ Unique(p.cold)
  /\ Elements(p.cold) \cap away = {}

LEMMA IdsGrow == ASSUME NEW n \in Int, NEW m \in Int, n <= m PROVE 1 .. n - 1 \subseteq 1 .. m - 1
OBVIOUS

LEMMA TidyLater ==
  ASSUME NEW n \in Nat, NEW m \in Nat, n <= m, NEW away, NEW p, Tidy(p, n, away)
  PROVE  Tidy(p, m, away)
<1>1. 1 .. n - 1 \subseteq 1 .. m - 1
  OBVIOUS
<1>2. p.cold \in Seq(1 .. m - 1)
  BY <1>1, SeqMonotonic DEF Tidy
<1> QED BY <1>2 DEF Tidy

(* New records join the cold queue; what leaves is the oldest.             *)
LEMMA Joined ==
  ASSUME NEW n \in Nat \ {0}, NEW c \in Seq(1 .. n - 1), NEW new, Unique(c), New(new, n)
  PROVE  /\ Len(new) \in Nat
         /\ c \o new \in Seq(1 .. n + Len(new) - 1)
         /\ Len(c \o new) = Len(c) + Len(new)
         /\ Unique(c \o new)
         /\ \A x \in Elements(c \o new) : x \in Elements(c) \/ x >= n
<1> DEFINE m == Len(new)
           S == 1 .. n + m - 1
<1>1. m \in Nat /\ Len(c) \in Nat
  BY LenProperties DEF New
<1>2. 1 .. n - 1 \subseteq S /\ n .. n + m - 1 \subseteq S
  BY <1>1
<1>3. c \in Seq(S) /\ new \in Seq(S)
  BY <1>2, SeqMonotonic DEF New
<1> HIDE DEF S
<1>4. /\ c \o new \in Seq(S) /\ Len(c \o new) = Len(c) + m
      /\ \A i \in 1 .. Len(c) + m : (c \o new)[i] = IF i <= Len(c) THEN c[i] ELSE new[i - Len(c)]
  BY <1>3, ConcatProperties
<1>5. \A i \in 1 .. Len(c) : c[i] \in 1 .. n - 1 /\ c[i] \in Elements(c)
  BY ElementOfSeq DEF Elements
<1>6. \A i \in 1 .. m : new[i] \in n .. n + m - 1
  BY ElementOfSeq DEF New
<1>7. ASSUME NEW i \in 1 .. Len(c) + m, i > Len(c) PROVE i - Len(c) \in 1 .. m /\ (c \o new)[i] = new[i - Len(c)]
  BY <1>1, <1>4, <1>7
<1>8. ASSUME NEW i \in 1 .. Len(c) + m, i <= Len(c) PROVE i \in 1 .. Len(c) /\ (c \o new)[i] = c[i]
  BY <1>1, <1>4, <1>8
<1>9. Unique(c \o new)
  <2> SUFFICES ASSUME NEW i \in 1 .. Len(c) + m, NEW j \in 1 .. Len(c) + m, (c \o new)[i] = (c \o new)[j]
               PROVE  i = j
    BY <1>4 DEF Unique
  <2>1. CASE i <= Len(c) /\ j <= Len(c)
    BY <1>8, <2>1 DEF Unique
  <2>2. CASE i > Len(c) /\ j > Len(c)
    <3>1. i - Len(c) = j - Len(c)
      BY <1>7, <2>2 DEF New, Unique
    <3> QED BY <1>1, <3>1
  <2>3. CASE i <= Len(c) /\ j > Len(c)
    <3>1. (c \o new)[i] \in 1 .. n - 1 /\ (c \o new)[j] \in n .. n + m - 1
      BY <1>5, <1>6, <1>7, <1>8, <2>3
    <3> QED BY <1>1, <3>1
  <2>4. CASE i > Len(c) /\ j <= Len(c)
    <3>1. (c \o new)[j] \in 1 .. n - 1 /\ (c \o new)[i] \in n .. n + m - 1
      BY <1>5, <1>6, <1>7, <1>8, <2>4
    <3> QED BY <1>1, <3>1
  <2> QED BY <1>1, <2>1, <2>2, <2>3, <2>4
<1>10. ASSUME NEW x \in Elements(c \o new) PROVE x \in Elements(c) \/ x >= n
  <2>1. PICK i \in 1 .. Len(c) + m : x = (c \o new)[i]
    BY <1>4 DEF Elements
  <2>2. CASE i <= Len(c)
    BY <1>5, <1>8, <2>1, <2>2
  <2>3. CASE i > Len(c)
    BY <1>1, <1>6, <1>7, <2>1, <2>3
  <2> QED BY <1>1, <2>2, <2>3
<1> QED BY <1>1, <1>4, <1>9, <1>10 DEF S

LEMMA AddsTidily ==
  ASSUME NEW n \in Nat \ {0}, NEW away \in SUBSET (1 .. n - 1), NEW p, Tidy(p, n, away),
         NEW new, New(new, n), NEW q \in AddRecords(p, new)
  PROVE  Tidy(q, n + Len(new), away)
<1> DEFINE both == p.cold \o new
           S == 1 .. n + Len(new) - 1
<1>1. /\ Len(new) \in Nat /\ both \in Seq(S) /\ Len(both) = Len(p.cold) + Len(new) /\ Unique(both)
      /\ \A x \in Elements(both) : x \in Elements(p.cold) \/ x >= n
  BY Joined DEF Tidy
<1>2. Elements(both) \cap away = {}
  <2>1. \A x \in away : ~(x >= n)
    OBVIOUS
  <2>2. Elements(p.cold) \cap away = {}
    BY DEF Tidy
  <2> QED BY <1>1, <2>1, <2>2
<1>3. CASE new = <<>>
  BY <1>1, <1>3, TidyLater DEF AddRecords
<1>4. CASE new # <<>>
  <2> HIDE DEF both, S
  <2>1. PICK kept \in SUBSET p.heaps :
          q = [cold |-> IF Len(both) > MaxPoolSize THEN But(both, Len(both) - MaxPoolSize) ELSE both, heaps |-> kept]
    BY <1>4, Zenon DEF AddRecords, both
  <2>2. kept = {} /\ q.heaps = {} /\ q = [cold |-> q.cold, heaps |-> {}]
    BY <2>1 DEF Tidy
  <2>3. q.cold \in Seq(S) /\ Unique(q.cold) /\ Elements(q.cold) \subseteq Elements(both)
    <3>1. CASE Len(both) > MaxPoolSize
      <4>1. PICK k \in Nat : k = Len(both) - MaxPoolSize
        <5>1. Len(both) \in Nat
          BY <1>1, LenProperties
        <5> QED BY <3>1, <5>1, SlimeAssumption
      <4>2. q.cold = But(both, k)
        BY <2>1, <3>1, <4>1
      <4>3. But(both, k) \in Seq(S) /\ Unique(But(both, k)) /\ Elements(But(both, k)) \subseteq Elements(both)
        BY <1>1, Split
      <4> QED BY <4>2, <4>3
    <3>2. CASE ~(Len(both) > MaxPoolSize)
      BY <1>1, <2>1, <3>2
    <3> QED BY <3>1, <3>2
  <2> QED BY <1>2, <2>2, <2>3 DEF Tidy, S
<1> QED BY <1>3, <1>4

-----------------------------------------------------------------------------
(* Ids are new, so that what is rolled out or archived is in no pool, and  *)
(* the same holds of every checkpoint.                                     *)
SlimeInv ==
  /\ nextId \in Nat \ {0} /\ inbox \in Nat
  /\ flight \cup done \cup archive \subseteq 1 .. nextId - 1
  /\ (flight \cup done) \cap archive = {}
  /\ flight \cup done \subseteq index
  /\ Tidy(pool, nextId, flight \cup done \cup archive)
  /\ \A f \in files : f.archive \subseteq 1 .. nextId - 1 /\ Tidy(f.pool, nextId, f.archive)

SizesAreNumbers ==
  /\ Seeds \in Nat \ {0} /\ MaxPoolSize \in Nat \ {0} /\ Threshold \in Nat \ {0}
  /\ Want \in Nat \ {0} /\ Batch \in Nat \ {0} /\ MaxInbox \in Nat

LEMMA Sizes == SizesAreNumbers
BY SlimeAssumption DEF SizesAreNumbers

(* A new pool holds the seeds.                                             *)
LEMMA SeededTidily ==
  ASSUME NEW n \in Nat \ {0}, NEW q \in Seeded([i \in 1 .. Seeds |-> n + i - 1])
  PROVE  Tidy(q, n + Seeds, {})
<1> DEFINE new == [i \in 1 .. Seeds |-> n + i - 1]
           p == [cold |-> <<>>, heaps |-> {}]
<1>1. New(new, n) /\ Len(new) = Seeds
  BY DrawnInOrder, Sizes DEF SizesAreNumbers
<1>2. <<>> \in Seq(1 .. n - 1) /\ Len(<<>>) = 0
  BY EmptySeq
<1>3. Tidy(p, n, {})
  BY <1>2 DEF Tidy, Unique, Elements
<1>4. q \in AddRecords(p, new)
  BY DEF Seeded
<1> HIDE DEF new, p
<1>5. Tidy(q, n + Len(new), {})
  BY <1>1, <1>3, <1>4, AddsTidily
<1> QED BY <1>1, <1>5

LEMMA SlimeInitInv == SlimeInit => SlimeInv
<1> SUFFICES ASSUME SlimeInit PROVE SlimeInv
  OBVIOUS
<1>1. nextId = 1 + Seeds /\ nextId \in Nat \ {0}
  BY Sizes DEF SlimeInit, SizesAreNumbers
<1>2. [i \in 1 .. Seeds |-> i] = [i \in 1 .. Seeds |-> 1 + i - 1]
  OBVIOUS
<1>3. Tidy(pool, nextId, {})
  <2>1. pool \in Seeded([i \in 1 .. Seeds |-> 1 + i - 1])
    BY <1>2 DEF SlimeInit
  <2> QED BY <1>1, <2>1, SeededTidily
<1> QED BY <1>1, <1>3 DEF SlimeInit, SlimeInv

(* What a reseeding draws.                                                 *)
LEMMA ReseededNew ==
  ASSUME SlimeInv
  PROVE  New(Reseeded, nextId) /\ Len(Reseeded) \in Nat
<1>1. nextId \in Nat
  BY DEF SlimeInv
<1>2. CASE PoolSize < Threshold
  <2>1. IsFiniteSet(archive)
    BY <1>1, FS_Interval, FS_Subset DEF SlimeInv
  <2>2. PICK m \in Nat : m = AtMost(Candidates, 2 * Threshold)
    BY <2>1, FS_CardinalityType, Sizes DEF SizesAreNumbers, AtMost, Candidates
  <2>3. Reseeded = [i \in 1 .. m |-> nextId + i - 1]
    BY <1>2, <2>2 DEF Reseeded, Fresh
  <2> QED BY <1>1, <2>3, DrawnInOrder
<1>3. CASE ~(PoolSize < Threshold)
  BY <1>1, <1>3, NoneDrawn DEF Reseeded
<1> QED BY <1>2, <1>3

(* A rollout gets records that were in no group, and takes them out.       *)
LEMMA GetSamplesInv == ASSUME SlimeInv, GetSamples PROVE SlimeInv'
<1> DEFINE away == flight \cup done \cup archive
           n == nextId + Len(Reseeded)
<1>1. PICK p \in AddRecords(pool, Reseeded), scored \in SUBSET pool.heaps, easy \in SUBSET pool.heaps :
        /\ pool' = [cold |-> But(p.cold, Want), heaps |-> p.heaps \ easy]
        /\ index' = index \cup (Elements(First(p.cold, Want)) \cup scored)
        /\ flight' = flight \cup (Elements(First(p.cold, Want)) \cup scored)
  BY DEF GetSamples, Registered
<1>2. UNCHANGED <<archive, done, inbox, files>> /\ nextId' = n
  BY DEF GetSamples
<1>3. nextId \in Nat \ {0} /\ n \in Nat \ {0} /\ nextId <= n
  BY ReseededNew DEF SlimeInv
<1>4. away \in SUBSET (1 .. nextId - 1) /\ Tidy(pool, nextId, away) /\ 1 .. nextId - 1 \subseteq 1 .. n - 1
  BY <1>3 DEF SlimeInv
<1>5. Tidy(p, n, away)
  <2> HIDE DEF away
  <2> QED BY <1>1, <1>3, <1>4, ReseededNew, AddsTidily
<1> DEFINE sampled == Elements(First(p.cold, Want))
           rest == But(p.cold, Want)
<1>6. /\ rest \in Seq(1 .. n - 1) /\ Unique(rest)
      /\ Elements(rest) \subseteq Elements(p.cold) /\ sampled \subseteq Elements(p.cold)
      /\ Elements(rest) \cap sampled = {}
  <2>1. p.cold \in Seq(1 .. n - 1) /\ Unique(p.cold) /\ Want \in Nat
    BY <1>5, Sizes DEF Tidy, SizesAreNumbers
  <2> HIDE DEF n
  <2> QED BY <2>1, Split
<1>7. Elements(p.cold) \subseteq 1 .. n - 1 /\ Elements(p.cold) \cap away = {}
  <2>1. \A i \in 1 .. Len(p.cold) : p.cold[i] \in 1 .. n - 1
    BY <1>5, ElementOfSeq DEF Tidy
  <2> QED BY <1>5, <2>1 DEF Tidy, Elements
<1> HIDE DEF sampled, rest, n
<1>8. pool' = [cold |-> rest, heaps |-> {}] /\ flight' = flight \cup sampled /\ index' = index \cup sampled
  <2>1. scored = {} /\ p.heaps = {}
    BY <1>4, <1>5 DEF Tidy
  <2> QED BY <1>1, <2>1 DEF sampled, rest
<1>9. Tidy(pool', nextId', (flight \cup done \cup archive)')
  BY <1>2, <1>6, <1>7, <1>8 DEF Tidy
<1>10. \A f \in files' : f.archive \subseteq 1 .. nextId' - 1 /\ Tidy(f.pool, nextId', f.archive)
  BY <1>2, <1>3, <1>4, TidyLater DEF SlimeInv
<1>11. (flight \cup done \cup archive)' \subseteq 1 .. nextId' - 1
  BY <1>2, <1>4, <1>6, <1>7, <1>8
<1>12. ((flight \cup done) \cap archive)' = {}
  BY <1>2, <1>6, <1>7, <1>8 DEF SlimeInv
<1>13. (flight \cup done)' \subseteq index'
  BY <1>2, <1>8 DEF SlimeInv
<1> QED BY <1>2, <1>3, <1>9, <1>10, <1>11, <1>12, <1>13 DEF SlimeInv

(* The groups of a rollout leave it together; what its end adds is new.    *)
LEMMA EndRolloutInv == ASSUME SlimeInv, EndRollout PROVE SlimeInv'
<1> DEFINE away == flight \cup done \cup archive
<1>1. PICK some \in SUBSET done, ended \in BOOLEAN, new \in 0 .. inbox, back \in {0, Cardinality(flight)} :
        LET found == some \cap index
            answers == IF ended THEN Fresh(new) ELSE <<>>
            aborted == [i \in 1 .. back |-> nextId + Len(answers) + i - 1]
        IN /\ nextId + Len(answers) + back <= MaxIds + 1
           /\ nextId' = nextId + Len(answers) + back
           /\ archive' = archive \cup found
           /\ \E n \in 0 .. Cardinality(found) : queue' = AtMost(queue + n, MaxQueue)
           /\ inbox' = IF ended THEN 0 ELSE inbox
           /\ \E p \in AddRecords(Scored(pool, some), answers) :
                /\ index' = IF ended THEN Cleaned(p) ELSE index
                /\ pool' \in AddRecords(p, aborted)
  BY DEF EndRollout
<1> DEFINE answers == IF ended THEN Fresh(new) ELSE <<>>
           between == nextId + Len(answers)
           aborted == [i \in 1 .. back |-> between + i - 1]
<1>2. UNCHANGED files /\ flight' = {} /\ done' = {}
  BY DEF EndRollout
<1>3. nextId \in Nat \ {0} /\ away \in SUBSET (1 .. nextId - 1) /\ Tidy(pool, nextId, away) /\ inbox \in Nat
  BY DEF SlimeInv
<1>4. new \in Nat /\ back \in Nat
  <2>1. IsFiniteSet(flight)
    BY <1>3, FS_Interval, FS_Subset
  <2> QED BY <1>3, <2>1, FS_CardinalityType
<1>5. New(answers, nextId) /\ Len(answers) \in Nat
  <2>1. CASE ended
    BY <1>3, <1>4, <2>1, DrawnInOrder DEF Fresh
  <2>2. CASE ~ended
    BY <1>3, <2>2, NoneDrawn
  <2> QED BY <2>1, <2>2
<1>6. between \in Nat \ {0} /\ nextId <= between
  <2> HIDE DEF answers
  <2> QED BY <1>3, <1>5
<1>7. New(aborted, between) /\ Len(aborted) = back
  <2> HIDE DEF between
  <2> QED BY <1>4, <1>6, DrawnInOrder
<1>8. Scored(pool, some) = [cold |-> pool.cold, heaps |-> {}]
  <2>1. Elements(pool.cold) \cap some = {} /\ pool.heaps = {} /\ pool.cold \in Seq(1 .. nextId - 1)
    BY <1>1, <1>3 DEF Tidy
  <2> QED BY <2>1, WithoutNone DEF Scored
<1>9. Tidy(Scored(pool, some), nextId, away)
  BY <1>3, <1>8 DEF Tidy
<1> HIDE DEF away, answers, between, aborted
<1>10. /\ nextId' = between + back /\ archive' = archive \cup (some \cap index) /\ inbox' \in Nat
       /\ \E p \in AddRecords(Scored(pool, some), answers) : pool' \in AddRecords(p, aborted)
  BY <1>1, <1>3 DEF answers, between, aborted
<1>11. PICK p \in AddRecords(Scored(pool, some), answers) : pool' \in AddRecords(p, aborted)
  BY <1>10
<1>12. Tidy(p, between, away)
  BY <1>3, <1>5, <1>9, <1>11, AddsTidily DEF between
<1>13. away \in SUBSET (1 .. between - 1) /\ nextId <= nextId' /\ nextId' \in Nat \ {0}
  BY <1>3, <1>4, <1>6, <1>10
<1>14. Tidy(pool', nextId', away)
  BY <1>6, <1>7, <1>10, <1>11, <1>12, <1>13, AddsTidily
<1>15. archive' \subseteq away
  BY <1>1, <1>10 DEF away
<1>16. Tidy(pool', nextId', (flight \cup done \cup archive)')
  BY <1>2, <1>14, <1>15 DEF Tidy
<1>17. \A f \in files' : f.archive \subseteq 1 .. nextId' - 1 /\ Tidy(f.pool, nextId', f.archive)
  BY <1>2, <1>3, <1>13, TidyLater DEF SlimeInv
<1>18. (flight \cup done \cup archive)' \subseteq 1 .. nextId' - 1
  <2>1. nextId \in Int /\ nextId' \in Int /\ nextId <= nextId'
    BY <1>3, <1>13
  <2>2. 1 .. nextId - 1 \subseteq 1 .. nextId' - 1
    BY <2>1, IdsGrow
  <2> QED BY <1>2, <1>3, <1>15, <2>2
<1> QED BY <1>2, <1>10, <1>13, <1>16, <1>17, <1>18 DEF SlimeInv

(* A restart forgets the groups in flight, and takes pool and archive from *)
(* one checkpoint, or new seeds.                                           *)
LEMMA RestartInv == ASSUME SlimeInv, Restart PROVE SlimeInv'
<1>1. /\ inbox' = 0 /\ flight' = {} /\ done' = {} /\ index' = {} /\ UNCHANGED files
      /\ nextId \in Nat \ {0}
  BY DEF Restart, SlimeInv
<1>2. ASSUME NEW f \in files, pool' = f.pool, archive' = f.archive, nextId' = nextId PROVE SlimeInv'
  <2>1. Tidy(pool', nextId', (flight \cup done \cup archive)') /\ archive' \subseteq 1 .. nextId' - 1
    BY <1>1, <1>2 DEF SlimeInv
  <2> QED BY <1>1, <1>2, <2>1 DEF SlimeInv
<1>3. ASSUME nextId' = nextId + Seeds, pool' \in Seeded(Fresh(Seeds)), archive' = {} PROVE SlimeInv'
  <2>1. Tidy(pool', nextId', (flight \cup done \cup archive)')
    BY <1>1, <1>3, SeededTidily DEF Fresh
  <2>2. nextId' \in Nat \ {0} /\ nextId <= nextId'
    BY <1>1, <1>3, Sizes DEF SizesAreNumbers
  <2>3. \A f \in files' : f.archive \subseteq 1 .. nextId' - 1 /\ Tidy(f.pool, nextId', f.archive)
    BY <1>1, <2>2, TidyLater DEF SlimeInv
  <2> QED BY <1>1, <1>3, <2>1, <2>2, <2>3 DEF SlimeInv
<1> QED BY <1>2, <1>3 DEF Restart

(* The other steps leave the pool alone.                                   *)
LEMMA SlimeStep == SlimeInv /\ [SlimeNext]_slimeVars => SlimeInv'
<1> SUFFICES ASSUME SlimeInv, [SlimeNext]_slimeVars PROVE SlimeInv'
  OBVIOUS
<1>1. CASE Ask
  BY <1>1 DEF Ask, SlimeInv
<1>2. CASE GetSamples
  BY <1>2, GetSamplesInv
<1>3. CASE EndRollout
  BY <1>3, EndRolloutInv
<1>4. CASE Submit
  BY <1>4 DEF Submit, SlimeInv
<1>5. CASE Answer
  BY <1>5, Sizes DEF Answer, SlimeInv, SizesAreNumbers, AtMost
<1>6. CASE Save \/ Saved
  <2>1. UNCHANGED <<pool, index, archive, flight, done, nextId, inbox>>
    BY <1>6 DEF Save, Saved
  <2>2. \A f \in files' : f \in files \/ (f.pool = pool /\ f.archive = archive)
    BY <1>6 DEF Save, Saved
  <2>3. Tidy(pool, nextId, archive) /\ archive \subseteq 1 .. nextId - 1
    BY DEF SlimeInv, Tidy
  <2>4. \A f \in files' : f.archive \subseteq 1 .. nextId' - 1 /\ Tidy(f.pool, nextId', f.archive)
    BY <2>1, <2>2, <2>3 DEF SlimeInv
  <2> QED BY <2>1, <2>4 DEF SlimeInv
<1>7. CASE Restart
  BY <1>7, RestartInv
<1>8. ASSUME NEW r \in flight, Complete(r) PROVE SlimeInv'
  <2>1. UNCHANGED <<pool, index, archive, nextId, inbox, files>>
    BY <1>8 DEF Complete
  <2>2. (flight \cup done)' \subseteq flight \cup done
    BY <1>8 DEF Complete
  <2>3. Tidy(pool', nextId', (flight \cup done \cup archive)')
    BY <2>1, <2>2 DEF SlimeInv, Tidy
  <2> QED BY <2>1, <2>2, <2>3 DEF SlimeInv
<1>9. CASE UNCHANGED slimeVars
  BY <1>9 DEF slimeVars, SlimeInv
<1> QED BY <1>1, <1>2, <1>3, <1>4, <1>5, <1>6, <1>7, <1>8, <1>9 DEF SlimeNext

THEOREM SlimeInvariant == SlimeSpec => []SlimeInv
BY SlimeInitInv, SlimeStep, PTL DEF SlimeSpec

(* For any sizes, rollouts, failures of process_scored_samples and         *)
(* restarts, every group of a rollout has its record in the index, so that *)
(* its reward can be archived.                                             *)
THEOREM AlwaysFiled == SlimeSpec => []Filed
<1>1. SlimeInv => Filed
  BY DEF SlimeInv, Filed
<1> QED BY <1>1, SlimeInvariant, PTL

(* Adding to a pool, or to an empty one what is not empty, leaves some.    *)
LEMMA AddsSome ==
  ASSUME NEW n \in Nat \ {0}, NEW p, Tidy(p, n, {}), NEW new, New(new, n), NEW q \in AddRecords(p, new),
         Len(p.cold) >= 1 \/ Len(new) >= 1
  PROVE  Len(q.cold) >= 1
<1> DEFINE both == p.cold \o new
           S == 1 .. n + Len(new) - 1
<1>1. Len(new) \in Nat /\ both \in Seq(S) /\ Len(both) = Len(p.cold) + Len(new)
  BY Joined DEF Tidy
<1>2. Len(p.cold) \in Nat
  BY LenProperties DEF Tidy
<1>3. CASE new = <<>>
  BY <1>3, NoneDrawn DEF AddRecords
<1>4. CASE new # <<>>
  <2> HIDE DEF both, S
  <2>1. q.cold = IF Len(both) > MaxPoolSize THEN But(both, Len(both) - MaxPoolSize) ELSE both
    <3>1. PICK kept \in SUBSET p.heaps :
            q = [cold |-> IF Len(both) > MaxPoolSize THEN But(both, Len(both) - MaxPoolSize) ELSE both, heaps |-> kept]
      BY <1>4, Zenon DEF AddRecords, both
    <3> QED BY <3>1
  <2>2. MaxPoolSize \in Nat \ {0} /\ Len(both) \in Nat /\ Len(both) >= 1
    BY <1>1, <1>2, Sizes DEF SizesAreNumbers
  <2>3. CASE Len(both) > MaxPoolSize
    <3>1. PICK k \in Nat : k = Len(both) - MaxPoolSize
      BY <2>2, <2>3
    <3>2. Len(But(both, k)) = Len(both) - Cut(both, k)
      BY <1>1, ButRest
    <3>3. Cut(both, k) = k
      BY <2>2, <3>1 DEF Cut, AtMost
    <3> QED BY <2>1, <2>2, <2>3, <3>1, <3>2, <3>3
  <2>4. CASE ~(Len(both) > MaxPoolSize)
    BY <2>1, <2>2, <2>4
  <2> QED BY <2>3, <2>4
<1> QED BY <1>3, <1>4

(* The reseeding has candidates: while few records are archived these are  *)
(* the seeds, and otherwise the archived ones.                             *)
LEMMA ReseedsSome ==
  ASSUME SlimeInv, PoolSize < Threshold PROVE Len(Reseeded) >= 1
<1>1. Cardinality(archive) \in Nat /\ nextId \in Nat
  <2>1. nextId \in Nat /\ archive \subseteq 1 .. nextId - 1
    BY DEF SlimeInv
  <2>2. IsFiniteSet(1 .. nextId - 1)
    BY <2>1, FS_Interval
  <2>3. IsFiniteSet(archive)
    BY <2>1, <2>2, FS_Subset
  <2> QED BY <2>1, <2>3, FS_CardinalityType
<1>2. Candidates \in Nat /\ Candidates >= 1
  BY <1>1, Sizes DEF Candidates, SizesAreNumbers
<1>3. PICK m \in Nat : m = AtMost(Candidates, 2 * Threshold) /\ m >= 1
  BY <1>2, Sizes DEF SizesAreNumbers, AtMost
<1>4. Reseeded = [i \in 1 .. m |-> nextId + i - 1]
  BY <1>3 DEF Reseeded, Fresh
<1> QED BY <1>1, <1>3, <1>4, DrawnInOrder

(* Whatever the filter or an exception lost before, a rollout that asks    *)
(* for groups gets at least one it did not have.                           *)
THEOREM SlimeNeverDry == SlimeSpec => NeverDry
<1>1. SlimeInv /\ GetSamples => flight' # flight
  <2> SUFFICES ASSUME SlimeInv, GetSamples PROVE flight' # flight
    OBVIOUS
  <2> DEFINE away == flight \cup done \cup archive
             n == nextId + Len(Reseeded)
  <2>1. PICK p \in AddRecords(pool, Reseeded) : Elements(First(p.cold, Want)) \subseteq flight'
    BY DEF GetSamples
  <2>2. New(Reseeded, nextId) /\ Len(Reseeded) \in Nat
    BY ReseededNew
  <2>3. nextId \in Nat \ {0} /\ away \in SUBSET (1 .. nextId - 1) /\ Tidy(pool, nextId, away) /\ Tidy(pool, nextId, {})
    BY DEF SlimeInv, Tidy
  <2> HIDE DEF away
  <2>4. Tidy(p, n, away)
    BY <2>1, <2>2, <2>3, AddsTidily
  <2>5. Len(pool.cold) \in Nat /\ pool.heaps = {}
    BY <2>3, LenProperties DEF Tidy
  <2>6. Len(pool.cold) >= 1 \/ Len(Reseeded) >= 1
    <3>1. PoolSize = Len(pool.cold)
      BY <2>5, FS_EmptySet DEF PoolSize
    <3>2. CASE PoolSize < Threshold
      BY <3>2, ReseedsSome
    <3>3. CASE ~(PoolSize < Threshold)
      BY <2>5, <3>1, <3>3, Sizes DEF SizesAreNumbers
    <3> QED BY <3>2, <3>3
  <2>7. Len(p.cold) >= 1
    BY <2>1, <2>2, <2>3, <2>6, AddsSome
  <2> HIDE DEF n
  <2>8. p.cold \in Seq(1 .. n - 1) /\ Len(p.cold) \in Nat /\ Want \in Nat \ {0}
    BY <2>4, LenProperties, Sizes DEF Tidy, SizesAreNumbers
  <2>9. Cut(p.cold, Want) >= 1
    BY <2>7, <2>8 DEF Cut, AtMost
  <2>10. /\ Len(First(p.cold, Want)) = Cut(p.cold, Want)
         /\ \A i \in 1 .. Cut(p.cold, Want) : First(p.cold, Want)[i] = p.cold[i]
    BY <2>8, FirstStart
  <2>11. 1 \in 1 .. Cut(p.cold, Want) /\ 1 \in 1 .. Len(p.cold)
    BY <2>7, <2>8, <2>9 DEF Cut, AtMost
  <2>12. p.cold[1] \in Elements(First(p.cold, Want)) /\ p.cold[1] \in Elements(p.cold)
    BY <2>10, <2>11 DEF Elements
  <2>13. p.cold[1] \notin flight
    BY <2>4, <2>12 DEF Tidy, away
  <2> QED BY <2>1, <2>12, <2>13
<1> QED BY <1>1, SlimeInvariant, PTL DEF NeverDry
=============================================================================
