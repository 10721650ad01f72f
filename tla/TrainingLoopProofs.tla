-------------------------- MODULE TrainingLoopProofs --------------------------
(***************************************************************************)
(* What TLAPS proves of TrainingLoop, for any data set, batch size and     *)
(* number of passes: a record is in one place at a time, so that nothing   *)
(* multiplies; every update has a full batch of groups that the current    *)
(* weights generated; and a batch all of whose queries have an answer is   *)
(* archived whole, each query with its own reward.                         *)
(***************************************************************************)
EXTENDS TrainingLoop, FiniteSetTheorems, WellFoundedInduction, TLAPS

(* The queries not generated yet are nowhere, and those on their way in    *)
(* are generated.                                                          *)
Known ==
  /\ teacher \cup falling \cup inbox \subseteq created
  /\ pool \cup Archived \cup InHand \subseteq (Seed \cup created) \X {"now", "later"}
  /\ created \subseteq Augmented

Phase == {"sample", "generate", "score", "filter", "update", "returned", "aborted"}

(* The parts of the type invariant that the steps below need.              *)
HandOK ==
  /\ hand \in Seq(Record) /\ pool \subseteq Record /\ Archived \subseteq Record
  /\ inbox \subseteq Query
BatchOK ==
  /\ groups \in Seq(Query) /\ batch \in Seq(Group)
  /\ updates \in Nat /\ numPrompt \in Nat /\ phase \in Phase

PlaceInv == HandOK /\ Known /\ NoneMultiplies
BatchInv == BatchOK /\ FullOnPolicy

(* A subsequence of a sequence is a sequence over the same set, and no     *)
(* longer.                                                                 *)
LEMMA AtType ==
  ASSUME NEW S, NEW seq \in Seq(S), NEW places \in Increasing(Len(seq))
  PROVE  At(seq, places) \in Seq(S)
<1>1. PICK m \in 0 .. Len(seq) : places \in [1 .. m -> 1 .. Len(seq)]
  BY DEF Increasing
<1>2. At(seq, places) \in [1 .. m -> S]
  BY <1>1 DEF At
<1> QED BY <1>1, <1>2

(* What joins the batch is a sequence of groups of the current weights.    *)
LEMMA KeptType ==
  ASSUME groups \in Seq(Query), updates \in Nat, NEW places \in Increasing(Len(groups))
  PROVE  /\ Kept(places) \in Seq(Group)
         /\ \A i \in 1 .. Len(Kept(places)) : Kept(places)[i].weights = updates
<1>1. PICK m \in 0 .. Len(groups) : places \in [1 .. m -> 1 .. Len(groups)]
  BY DEF Increasing
<1>2. Kept(places) \in [1 .. m -> Group]
  BY <1>1 DEF Kept, At, Group
<1>3. Len(Kept(places)) = m
  BY <1>1, <1>2
<1>4. \A i \in 1 .. m : Kept(places)[i].weights = updates
  BY <1>1 DEF Kept
<1> QED BY <1>1, <1>2, <1>3, <1>4

-----------------------------------------------------------------------------
(* There are finitely many records.                                        *)
LEMMA FiniteRecords == IsFiniteSet(Record)
<1>1. IsFiniteSet(Query)
  BY QueryAssumption, FS_Union DEF Query
<1>2. IsFiniteSet({"now"} \cup {"later"})
  BY FS_Singleton, FS_Union
<1>3. {"now"} \cup {"later"} = {"now", "later"}
  OBVIOUS
<1> QED BY <1>1, <1>2, <1>3, FS_Product DEF Record

(* A set of naturals that is not empty has a least element.                *)
LEMMA LeastNatural ==
  ASSUME NEW S \in SUBSET Nat, S # {}
  PROVE  \E n \in S : \A m \in S : n <= m
<1> DEFINE R == OpToRel(<, Nat)
<1>1. PICK n \in S : \A m \in S : ~(<<m, n>> \in R)
  BY WFMin, NatLessThanWellFounded
<1>2. \A m \in S : ~(m < n)
  BY <1>1 DEF OpToRel
<1> QED BY <1>2

(* Of the records of one id there is a last one.                           *)
LEMMA LastIsOne ==
  ASSUME NEW n \in Nat, NEW q \in {Asked[i] : i \in 1 .. n}
  PROVE  LastOf(q, n) \in 1 .. n /\ Asked[LastOf(q, n)] = q
<1> DEFINE places == {i \in 1 .. n : Asked[i] = q}
           behind == {n - i : i \in places}
<1>1. behind \in SUBSET Nat /\ behind # {}
  OBVIOUS
<1>2. PICK least \in behind : \A m \in behind : least <= m
  <2> HIDE DEF behind
  <2> QED BY <1>1, LeastNatural
<1>3. n - least \in places /\ \A i \in places : n - least >= i
  BY <1>2
<1>4. LastOf(q, n) \in places
  <2>1. LastOf(q, n) = CHOOSE x \in places : \A y \in places : x >= y
    BY DEF LastOf, Max
  <2> HIDE DEF places
  <2> QED BY <1>3, <2>1
<1> QED BY <1>4

-----------------------------------------------------------------------------
LEMMA InitPlaces == Init => PlaceInv
BY QueryAssumption
DEF Init, PlaceInv, HandOK, Known, NoneMultiplies, InHand, Archived, NoRewards, Query, Record, Later

(* A sample takes its records out of the pool, the drain empties the       *)
(* inbox, and recycling takes everything out of the archive.               *)
LEMMA SamplePlaces == ASSUME PlaceInv, SampleBatch PROVE PlaceInv'
<1> USE DEF PlaceInv, HandOK, Known, NoneMultiplies
<1> DEFINE supply == Recycled.pool
<1>1. /\ supply \subseteq pool \cup Later(inbox) \cup Archived
      /\ supply \cap Archived' = {} /\ Archived' \subseteq Archived
      /\ inbox' = {} /\ UNCHANGED generated
  <2>1. /\ archive' = Recycled.archive /\ inbox' = {} /\ UNCHANGED generated
        /\ Drained \cap Archived = {}
    BY DEF SampleBatch, Drained, Later
  <2>2. CASE Cardinality(Drained) < Want
    <3>1. supply = Drained \cup Archived /\ archive' = NoRewards
      BY <2>1, <2>2 DEF Recycled
    <3>2. Archived' = {}
      BY <3>1 DEF Archived, NoRewards
    <3> QED BY <2>1, <3>1, <3>2 DEF Drained
  <2>3. CASE ~(Cardinality(Drained) < Want)
    <3>1. supply = Drained /\ archive' = archive
      BY <2>1, <2>3 DEF Recycled
    <3>2. Archived' = Archived
      BY <3>1 DEF Archived
    <3> QED BY <2>1, <3>1, <3>2 DEF Drained
  <2> QED BY <2>2, <2>3
<1>2. PICK chosen \in SUBSET supply :
        hand' \in SetToSeqs(chosen) /\ pool' = supply \ chosen
  BY DEF SampleBatch, Take, kSubset
<1>3. supply \subseteq Record /\ supply \subseteq (Seed \cup created) \X {"now", "later"}
  BY <1>1 DEF Later, Record
<1> HIDE DEF supply
<1>4. Cardinality(chosen) \in Nat
  BY <1>3, FiniteRecords, FS_Subset, FS_CardinalityType
<1>5. /\ hand' \in [1 .. Cardinality(chosen) -> chosen]
      /\ \A i, j \in 1 .. Cardinality(chosen) : i # j => hand'[i] # hand'[j]
  BY <1>2 DEF SetToSeqs
<1>6. Len(hand') = Cardinality(chosen) /\ hand' \in Seq(chosen)
  BY <1>4, <1>5
<1>7. InHand' \subseteq chosen
  BY <1>5, <1>6 DEF InHand
<1>8. HandOK'
  <2>1. chosen \subseteq Record
    BY <1>3
  <2>2. hand' \in [1 .. Cardinality(chosen) -> Record]
    BY <1>5, <2>1
  <2> QED BY <1>1, <1>2, <1>3, <1>4, <2>2
<1>9. Known'
  BY <1>1, <1>2, <1>3, <1>7 DEF generated
<1>10. NoneMultiplies'
  <2>1. \A i, j \in 1 .. Len(hand') : hand'[i] = hand'[j] => i = j
    BY <1>5, <1>6
  <2>2. InHand' \cap (pool' \cup Archived') = {} /\ pool' \cap Archived' = {}
    BY <1>1, <1>2, <1>7
  <2>3. InHand' \cup pool' \cup Archived' \subseteq pool \cup Later(inbox) \cup Archived
    BY <1>1, <1>2, <1>7
  <2>4. Later(inbox) \cap Later(falling) = {} /\ Later(inbox) \cap (teacher \X {"now", "later"}) = {}
    BY DEF Later
  <2>5. Later(falling) \cap (pool \cup Later(inbox) \cup Archived) = {}
    BY <2>4 DEF Later
  <2>6. (teacher \X {"now", "later"}) \cap (pool \cup Later(inbox) \cup Archived) = {}
    BY <2>4
  <2>7. UNCHANGED <<teacher, falling>> /\ Later(inbox' \cup falling') = Later(falling)
    BY <1>1 DEF generated, Later
  <2> QED BY <1>1, <2>1, <2>2, <2>3, <2>5, <2>6, <2>7
<1> QED BY <1>8, <1>9, <1>10

(* Attribution moves records from the hand to the archive.                 *)
LEMMA ScorePlaces == ASSUME PlaceInv, Score PROVE PlaceInv'
<1> USE DEF PlaceInv, HandOK, Known, NoneMultiplies
<1>1. PICK places \in Increasing(Len(hand)) : archive' = Attributed(At(Asked, places))
  BY DEF Score
<1>2. Archived' \subseteq InHand \cup Archived
  <2> DEFINE left == At(Asked, places)
             n == Min({Len(hand), Len(left)})
             new == {Asked[i] : i \in 1 .. n}
  <2>1. n \in Nat /\ n <= Len(hand)
    <3>1. Len(hand) \in Nat
      OBVIOUS
    <3>2. PICK m \in 0 .. Len(hand) : places \in [1 .. m -> 1 .. Len(hand)]
      BY DEF Increasing
    <3>3. Len(left) = m
      BY <3>2 DEF At
    <3> HIDE DEF left
    <3>4. n = CHOOSE x \in {Len(hand), m} : \A y \in {Len(hand), m} : x <= y
      BY <3>3 DEF Min
    <3> QED BY <3>1, <3>2, <3>4
  <2>2. archive' = [q \in new \cup DOMAIN archive |->
                      IF q \in new THEN [way |-> hand[LastOf(q, n)][2], by |-> left[LastOf(q, n)]]
                                   ELSE archive[q]]
    BY <1>1 DEF Attributed
  <2> HIDE DEF n, left
  <2>3. ASSUME NEW q \in new PROVE <<q, archive'[q].way>> \in InHand
    <3>0. LastOf(q, n) \in 1 .. n /\ Asked[LastOf(q, n)] = q
      <4> HIDE DEF PlaceInv, HandOK, Known, NoneMultiplies
      <4> QED BY <2>1, LastIsOne
    <3>1. LastOf(q, n) \in 1 .. Len(hand) /\ Asked[LastOf(q, n)] = q
      BY <2>1, <3>0
    <3>2. hand[LastOf(q, n)] = <<q, hand[LastOf(q, n)][2]>>
      BY <3>1 DEF Asked, Record
    <3>3. archive'[q].way = hand[LastOf(q, n)][2]
      BY <2>2
    <3> QED BY <3>1, <3>2, <3>3 DEF InHand
  <2>4. ASSUME NEW q \in DOMAIN archive, q \notin new PROVE <<q, archive'[q].way>> \in Archived
    <3>1. archive'[q] = archive[q]
      BY <2>2, <2>4
    <3> QED BY <3>1 DEF Archived
  <2>5. DOMAIN archive' = new \cup DOMAIN archive
    BY <2>2
  <2> HIDE DEF new
  <2> QED BY <2>3, <2>4, <2>5 DEF Archived
<1>3. hand' = <<>> /\ InHand' = {} /\ UNCHANGED <<pool, inbox>>
  BY DEF Score, InHand
<1>4. InHand \subseteq Record
  BY DEF InHand
<1>5. CASE UNCHANGED generated
  <2>1. UNCHANGED <<teacher, falling, created>>
    BY <1>5 DEF generated
  <2>2. HandOK' /\ Known'
    BY <1>2, <1>3, <1>4, <2>1
  <2>3. /\ pool' \cap Archived' = {} /\ Later(inbox' \cup falling') = Later(inbox \cup falling)
        /\ (teacher' \X {"now", "later"}) \cap (pool' \cup Archived' \cup InHand') = {}
    BY <1>2, <1>3, <2>1
  <2>4. Later(inbox' \cup falling') \cap (pool' \cup Archived' \cup InHand') = {}
    BY <1>2, <1>3, <2>3
  <2>5. NoneMultiplies'
    BY <1>3, <2>1, <2>3, <2>4 DEF Later
  <2> QED BY <2>2, <2>5
<1>6. ASSUME NEW q \in Augmented \ created,
             teacher' = teacher \cup {q}, created' = created \cup {q}, UNCHANGED falling
      PROVE PlaceInv'
  <2>1. ({q} \X {"now", "later"}) \cap (pool \cup Archived \cup InHand) = {}
    BY QueryAssumption
  <2>2. (teacher' \X {"now", "later"}) \cap (pool \cup Archived \cup InHand) = {}
    BY <1>6, <2>1
  <2>3. pool' \cap Archived' = {} /\ Later(inbox' \cup falling') = Later(inbox \cup falling)
    BY <1>2, <1>3, <1>6
  <2>4. Later(inbox' \cup falling') \cap (pool' \cup Archived' \cup InHand') = {}
    BY <1>2, <1>3, <2>3
  <2>5. (teacher' \X {"now", "later"}) \cap (pool' \cup Archived' \cup InHand') = {}
    BY <1>2, <1>3, <2>2
  <2>6. teacher' \cap (inbox' \cup falling') = {} /\ inbox' \cap falling' = {}
    BY <1>3, <1>6
  <2>7. NoneMultiplies'
    BY <1>3, <2>3, <2>4, <2>5, <2>6 DEF Later
  <2>8. Known' /\ HandOK'
    BY <1>2, <1>3, <1>4, <1>6
  <2> QED BY <2>7, <2>8
<1> QED BY <1>5, <1>6 DEF Score

(* The teacher hands a query over to the pool, to the inbox, to both in    *)
(* this order, or drops it.                                                *)
LEMMA DeliverPlaces == ASSUME PlaceInv, Deliver \/ FallBack PROVE PlaceInv'
<1> USE DEF PlaceInv, HandOK, Known, NoneMultiplies
<1>1. CASE Deliver
  <2>1. PICK q \in teacher :
          /\ teacher' = teacher \ {q}
          /\ pool' = pool \cup {<<q, "now">>} \/ UNCHANGED pool
          /\ falling' = falling \cup {q} \/ UNCHANGED falling
    BY <1>1 DEF Deliver
  <2>2. UNCHANGED <<hand, archive, inbox, created>> /\ Archived' = Archived /\ InHand' = InHand
    BY <1>1 DEF Deliver, Archived, InHand
  <2>3. /\ <<q, "now">> \in Record /\ <<q, "now">> \notin pool \cup Archived \cup InHand
        /\ <<q, "later">> \notin pool \cup Archived \cup InHand
        /\ q \notin inbox \cup falling
    BY QueryAssumption DEF Record, Query
  <2>4. HandOK' /\ Known'
    BY <2>1, <2>2, <2>3
  <2>5. Later(inbox' \cup falling') \cap (pool' \cup Archived' \cup InHand') = {}
    BY <2>1, <2>2, <2>3 DEF Later
  <2>6. (teacher' \X {"now", "later"}) \cap (pool' \cup Archived' \cup InHand') = {}
    BY <2>1, <2>2
  <2>7. pool' \cap Archived' = {} /\ InHand' \cap (pool' \cup Archived') = {}
    BY <2>1, <2>2, <2>3
  <2>8. teacher' \cap (inbox' \cup falling') = {} /\ inbox' \cap falling' = {}
    BY <2>1, <2>2, <2>3
  <2>9. NoneMultiplies'
    BY <2>2, <2>5, <2>6, <2>7, <2>8 DEF Later
  <2> QED BY <2>4, <2>9
<1>2. CASE FallBack
  <2>1. PICK q \in falling : falling' = falling \ {q} /\ inbox' = inbox \cup {q}
    BY <1>2 DEF FallBack
  <2>2. /\ UNCHANGED <<hand, archive, pool, teacher, created>>
        /\ Archived' = Archived /\ InHand' = InHand
    BY <1>2 DEF FallBack, Archived, InHand
  <2>3. inbox' \cup falling' = inbox \cup falling /\ inbox' \cap falling' = {}
    BY <2>1
  <2>4. HandOK' /\ Known'
    BY <2>1, <2>2, QueryAssumption DEF Query
  <2>5. NoneMultiplies'
    BY <2>2, <2>3 DEF Later
  <2> QED BY <2>4, <2>5
<1> QED BY <1>1, <1>2

LEMMA NextPlaces == PlaceInv /\ [Next]_vars => PlaceInv'
<1> SUFFICES ASSUME PlaceInv, [Next]_vars PROVE PlaceInv'
  OBVIOUS
<1>1. CASE SampleBatch
  BY <1>1, SamplePlaces
<1>2. CASE Score
  BY <1>2, ScorePlaces
<1>3. CASE Deliver \/ FallBack
  BY <1>3, DeliverPlaces
<1>4. CASE SkipPass \/ NothingScored
  <2>1. hand' = <<>> /\ UNCHANGED <<pool, archive, inbox, teacher, falling, created>>
    BY <1>4 DEF SkipPass, NothingScored, generated
  <2>2. InHand' = {} /\ Archived' = Archived
    BY <2>1 DEF InHand, Archived
  <2> QED BY <2>1, <2>2 DEF PlaceInv, HandOK, Known, NoneMultiplies, Later
<1>5. CASE UNCHANGED <<hand, pool, archive, inbox, teacher, falling, created>>
  BY <1>5 DEF PlaceInv, HandOK, Known, NoneMultiplies, InHand, Archived, Later
<1>6. UNCHANGED <<hand, pool, archive, inbox, teacher, falling, created>>
        \/ SampleBatch \/ Score \/ Deliver \/ FallBack \/ SkipPass \/ NothingScored
  BY DEF Next, TrainerNext, WaitForQueries, Generate, GenerateFails, Filter, Update, Over,
         generated, vars
<1> QED BY <1>1, <1>2, <1>3, <1>4, <1>5, <1>6

-----------------------------------------------------------------------------
LEMMA InitBatch == Init => BatchInv
BY SizeAssumption DEF Init, BatchInv, BatchOK, FullOnPolicy, Phase

(* The filter adds groups of the current weights, and counts them.         *)
LEMMA FilterBatch == ASSUME BatchInv, Filter PROVE BatchInv'
<1> USE DEF BatchInv, BatchOK, FullOnPolicy
<1> DEFINE all(places) == batch \o Kept(places)
<1>1. PICK places \in Increasing(Len(groups)) :
        /\ numPrompt' = numPrompt + Len(Kept(places))
        /\ IF numPrompt' < Want
             THEN batch' = all(places) /\ phase' = IF MoreAllowed THEN "sample" ELSE "aborted"
             ELSE batch' = SubSeq(all(places), 1, Want) /\ phase' = "update"
  BY DEF Filter
<1>2. phase = "filter" /\ groups' = <<>> /\ updates' = updates
  BY DEF Filter, counters
<1>3. /\ Kept(places) \in Seq(Group)
      /\ \A i \in 1 .. Len(Kept(places)) : Kept(places)[i].weights = updates
  BY KeptType
<1> DEFINE joined == all(places)
<1>4. /\ joined \in Seq(Group) /\ Len(joined) = Len(batch) + Len(Kept(places))
      /\ \A i \in 1 .. Len(joined) : joined[i].weights = updates
  <2> DEFINE kept == Kept(places)
  <2>1. kept \in Seq(Group) /\ \A i \in 1 .. Len(kept) : kept[i].weights = updates
    BY <1>3
  <2> HIDE DEF kept
  <2>2. /\ batch \o kept \in Seq(Group) /\ Len(batch \o kept) = Len(batch) + Len(kept)
        /\ \A i \in 1 .. Len(batch) : (batch \o kept)[i] = batch[i]
        /\ \A i \in Len(batch) + 1 .. Len(batch) + Len(kept) : (batch \o kept)[i] = kept[i - Len(batch)]
    BY <2>1
  <2>3. \A i \in 1 .. Len(batch) + Len(kept) : (batch \o kept)[i].weights = updates
    <3> TAKE i \in 1 .. Len(batch) + Len(kept)
    <3>1. Len(batch) \in Nat /\ Len(kept) \in Nat
      BY <2>1
    <3>2. CASE i \in 1 .. Len(batch)
      BY <2>2, <3>2
    <3>3. CASE i \in Len(batch) + 1 .. Len(batch) + Len(kept)
      <4>1. i - Len(batch) \in 1 .. Len(kept)
        BY <3>1, <3>3
      <4> QED BY <2>1, <2>2, <3>3, <4>1
    <3> QED BY <3>1, <3>2, <3>3
  <2>4. joined = batch \o kept
    BY DEF kept
  <2> HIDE DEF joined
  <2>5. Len(joined) = Len(batch) + Len(kept)
    BY <2>2, <2>4
  <2>6. joined \in Seq(Group) /\ \A i \in 1 .. Len(joined) : joined[i].weights = updates
    BY <2>2, <2>3, <2>4, <2>5
  <2> QED BY <2>5, <2>6 DEF kept
<1> HIDE DEF joined
<1>5. numPrompt' = Len(joined) /\ numPrompt' \in Nat
  <2>1. numPrompt = Len(batch) /\ Len(Kept(places)) \in Nat
    BY <1>2, <1>3
  <2>2. numPrompt' = numPrompt + Len(Kept(places))
    BY <1>1
  <2> QED BY <1>4, <2>1, <2>2
<1>6. CASE numPrompt' < Want
  <2>1. batch' = joined /\ phase' \in {"sample", "aborted"}
    BY <1>1, <1>6 DEF joined
  <2> QED BY <1>2, <1>4, <1>5, <2>1 DEF Phase
<1>7. CASE ~(numPrompt' < Want)
  <2>1. batch' = SubSeq(joined, 1, Want) /\ phase' = "update"
    BY <1>1, <1>7 DEF joined
  <2>2. Want \in 1 .. Len(joined)
    BY <1>5, <1>7, SizeAssumption
  <2>3. /\ batch' \in Seq(Group) /\ Len(batch') = Want
        /\ \A i \in 1 .. Want : batch'[i] = joined[i]
    BY <1>4, <2>1, <2>2
  <2> QED BY <1>2, <1>4, <1>5, <2>1, <2>2, <2>3 DEF Phase
<1> QED BY <1>6, <1>7

LEMMA NextBatch == HandOK /\ BatchInv /\ [Next]_vars => BatchInv'
<1> SUFFICES ASSUME HandOK, BatchInv, [Next]_vars PROVE BatchInv'
  OBVIOUS
<1> USE DEF BatchInv, BatchOK, FullOnPolicy, counters
<1>1. CASE Filter
  BY <1>1, FilterBatch
<1>2. CASE Score
  <2>1. Asked \in Seq(Query) /\ Len(Asked) = Len(hand)
    BY DEF Asked, HandOK, Record
  <2>2. groups' \in Seq(Query)
    BY <1>2, <2>1, AtType DEF Score
  <2> QED BY <1>2, <2>2 DEF Score, Phase
<1>3. CASE Update
  <2>1. batch' = <<>> /\ numPrompt' = 0 /\ updates' \in Nat /\ UNCHANGED groups
        /\ phase' \in {"returned", "sample"}
    BY <1>3 DEF Update
  <2> QED BY <2>1 DEF Phase
<1>4. CASE SampleBatch \/ SkipPass \/ Generate \/ GenerateFails \/ NothingScored
  <2>1. UNCHANGED <<groups, batch, updates, numPrompt>> /\ phase # "update"
        /\ phase' \in Phase \ {"update"}
    BY <1>4 DEF SampleBatch, SkipPass, Generate, GenerateFails, NothingScored, Phase
  <2> QED BY <2>1
<1>5. CASE UNCHANGED <<phase, groups, batch, updates, numPrompt>>
  BY <1>5
<1>6. UNCHANGED <<phase, groups, batch, updates, numPrompt>>
        \/ Filter \/ Score \/ Update \/ SampleBatch \/ SkipPass \/ Generate \/ GenerateFails
        \/ NothingScored
  BY DEF Next, TrainerNext, WaitForQueries, Deliver, FallBack, Over, vars
<1> QED BY <1>1, <1>2, <1>3, <1>4, <1>5, <1>6

-----------------------------------------------------------------------------
(* NoneMultiplies, for any data set and any number of passes: recycling,   *)
(* draining, sampling, attribution and delivery hand records over, and     *)
(* never copy one.                                                         *)
THEOREM AlwaysNoneMultiplies == Spec => []NoneMultiplies
<1>1. PlaceInv => NoneMultiplies
  BY DEF PlaceInv
<1> QED BY <1>1, InitPlaces, NextPlaces, PTL DEF Spec

(* However many passes an update takes, its batch is full, was counted     *)
(* right, and was generated by the weights it updates.                     *)
THEOREM AlwaysFullOnPolicy == Spec => []FullOnPolicy
<1> DEFINE Inv == PlaceInv /\ BatchInv
<1>1. Init => Inv
  BY InitPlaces, InitBatch
<1>2. Inv /\ [Next]_vars => Inv'
  BY NextPlaces, NextBatch DEF PlaceInv
<1>3. Inv => FullOnPolicy
  BY DEF BatchInv
<1> QED BY <1>1, <1>2, <1>3, PTL DEF Spec

-----------------------------------------------------------------------------
(* The places of a subsequence are no earlier than its indices.            *)
LEMMA PlacesAscend ==
  ASSUME NEW n \in Nat, NEW m \in Nat, NEW f \in [1 .. m -> 1 .. n],
         \A i, j \in 1 .. m : i < j => f[i] < f[j]
  PROVE  \A i \in 1 .. m : f[i] >= i
<1> DEFINE bad == {i \in 1 .. m : f[i] < i}
<1>1. ASSUME bad # {} PROVE FALSE
  <2>1. PICK i \in bad : \A j \in bad : i <= j
    <3>1. bad \in SUBSET Nat OBVIOUS
    <3> HIDE DEF bad
    <3> QED BY <1>1, <3>1, LeastNatural
  <2>2. i \in 1 .. m /\ f[i] \in 1 .. n /\ f[i] < i
    BY <2>1
  <2>3. i - 1 \in 1 .. m /\ f[i - 1] \in 1 .. n /\ f[i - 1] < f[i]
    BY <2>2
  <2>4. i - 1 \notin bad
    BY <2>1, <2>2
  <2> QED BY <2>2, <2>3, <2>4
<1> QED BY <1>1

(* A subsequence that leaves no place out is the sequence.                 *)
LEMMA AllPlaces ==
  ASSUME NEW n \in Nat, NEW f \in Increasing(n), {f[i] : i \in DOMAIN f} = 1 .. n
  PROVE  f = [i \in 1 .. n |-> i]
<1>1. PICK m \in 0 .. n : f \in [1 .. m -> 1 .. n] /\ \A i, j \in 1 .. m : i < j => f[i] < f[j]
  BY DEF Increasing
<1>2. \A i \in 1 .. m : f[i] >= i /\ f[i] \in 1 .. n
  <2>1. m \in Nat /\ f \in [1 .. m -> 1 .. n] /\ \A i, j \in 1 .. m : i < j => f[i] < f[j]
    BY <1>1
  <2>2. \A i \in 1 .. m : f[i] >= i
    BY <2>1, PlacesAscend
  <2> QED BY <2>1, <2>2
<1>3. \A v \in 1 .. n : \E j \in 1 .. m : f[j] = v
  BY <1>1
<1> DEFINE bad == {i \in 1 .. m : f[i] # i}
<1>4. ASSUME bad # {} PROVE FALSE
  <2>1. PICK i \in bad : \A j \in bad : i <= j
    <3>1. bad \in SUBSET Nat OBVIOUS
    <3> HIDE DEF bad
    <3> QED BY <1>4, <3>1, LeastNatural
  <2>2. i \in 1 .. m /\ f[i] > i
    BY <1>2, <2>1
  <2>3. PICK j \in 1 .. m : f[j] = i
    BY <1>1, <1>3, <2>2
  <2>4. CASE j < i
    BY <2>1, <2>3, <2>4
  <2>5. CASE j >= i
    BY <1>1, <1>2, <2>2, <2>3, <2>5
  <2> QED BY <2>2, <2>3, <2>4, <2>5
<1>5. \A i \in 1 .. m : f[i] = i
  BY <1>4
<1>6. m = n
  <2>1. ASSUME m < n PROVE FALSE
    <3>1. PICK j \in 1 .. m : f[j] = n
      BY <1>3, <2>1
    <3> QED BY <1>5, <2>1, <3>1
  <2> QED BY <1>1, <2>1
<1> QED BY <1>1, <1>5, <1>6

(* With an answer for each of them, the i-th query gets the i-th reward.   *)
LEMMA ScoreArchives ==
  ASSUME HandOK, Score, Range(Asked) \subseteq Answered, NEW q \in Range(Asked)
  PROVE  q \in DOMAIN archive' /\ archive'[q].by = q
<1>1. PICK places \in Increasing(Len(hand)) :
        /\ {places[i] : i \in DOMAIN places} = HasAnswer
        /\ archive' = Attributed(At(Asked, places))
  BY DEF Score
<1>2. Len(hand) \in Nat /\ DOMAIN Asked = 1 .. Len(hand) /\ Range(Asked) = {Asked[i] : i \in 1 .. Len(hand)}
  BY DEF Asked, HandOK, Range
<1>3. HasAnswer = 1 .. Len(hand)
  BY <1>2 DEF HasAnswer
<1>4. places = [i \in 1 .. Len(hand) |-> i]
  BY <1>1, <1>2, <1>3, AllPlaces
<1>5. At(Asked, places) = Asked
  BY <1>2, <1>4 DEF At, Asked
<1>6. archive' = Attributed(Asked) /\ Len(Asked) = Len(hand)
  BY <1>1, <1>2, <1>5 DEF Asked
<1> DEFINE n == Len(hand)
<1>7. Min({Len(hand), Len(Asked)}) = n
  BY <1>2, <1>6 DEF Min
<1>8. archive' = [u \in Range(Asked) \cup DOMAIN archive |->
                    IF u \in Range(Asked)
                      THEN [way |-> hand[LastOf(u, n)][2], by |-> Asked[LastOf(u, n)]]
                      ELSE archive[u]]
  BY <1>2, <1>6, <1>7 DEF Attributed
<1>9. Asked[LastOf(q, n)] = q
  BY <1>2, LastIsOne
<1> QED BY <1>8, <1>9

(* A batch in which every query has an answer is archived whole, and each  *)
(* query with the reward of its own rollouts; attribution goes wrong only  *)
(* when a query without an answer is among them.                           *)
THEOREM AllAnsweredArchived == Spec => AnsweredArchived
<1>1. ASSUME PlaceInv, [Next]_vars, phase = "score", hand' = <<>>, Range(Asked) \subseteq Answered,
             NEW q \in Range(Asked)
      PROVE  q \in DOMAIN archive' /\ archive'[q].by = q
  <2>1. PICK i \in 1 .. Len(hand) : Asked[i] = q
    BY DEF Asked, Range
  <2>2. hand # <<>> /\ HasAnswer # {}
    BY <1>1, <2>1 DEF HasAnswer
  <2>3. Score
    BY <1>1, <2>2
       DEF Next, TrainerNext, SampleBatch, WaitForQueries, SkipPass, Generate, GenerateFails,
           NothingScored, Filter, Update, Deliver, FallBack, Over, vars
  <2> QED BY <1>1, <2>3, ScoreArchives DEF PlaceInv
<1>2. PlaceInv /\ [Next]_vars =>
        (phase = "score" /\ hand' = <<>> /\ Range(Asked) \subseteq Answered
           => \A q \in Range(Asked) : q \in DOMAIN archive' /\ archive'[q].by = q)
  BY <1>1
<1> QED BY <1>2, InitPlaces, NextPlaces, PTL DEF Spec, AnsweredArchived
=============================================================================
