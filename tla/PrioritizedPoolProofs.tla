------------------------- MODULE PrioritizedPoolProofs -------------------------
(***************************************************************************)
(* What TLAPS proves of PrioritizedPool, for any records, rewards and      *)
(* bounds: just the scored records have a rate and an id is queued once,   *)
(* second copies and restarts included; the pool grows past its bound only *)
(* by the update of the rates; and a restart brings back the scored        *)
(* records, with their rates.                                              *)
(***************************************************************************)
EXTENDS PrioritizedPool, FiniteSetTheorems, WellFoundedInduction, TLAPS

ScoredItems == {r \in Record : \E i \in 1 .. Len(items) : items[i].id = r /\ items[i].scored}
QueuedItems == {r \in Record : \E i \in 1 .. Len(items) : items[i].id = r /\ ~items[i].scored}
Batch == Seq(Record)

Types ==
  /\ records \subseteq Record /\ DOMAIN rates \subseteq Record /\ cold \in Seq(Record)
  /\ reward \in [Record -> 0 .. Scale]
  /\ flight \in Seq(Record) /\ scored \subseteq Record
  /\ DOMAIN archive \subseteq Record /\ \A r \in DOMAIN archive : archive[r] \in 0 .. Scale
  /\ DOMAIN teacher = {"at", "batch", "before"} /\ teacher.batch \in Batch
  /\ inbox \in Seq(Batch) /\ packets \in Seq(Batch)
  /\ items \in Seq(Entry)

(* While a run resumes, the rates are ahead of the records.                *)
Resuming ==
  phase = "resume" =>
    /\ cold = <<>> /\ QueuedItems \subseteq coldIndex
    /\ records \subseteq DOMAIN rates /\ DOMAIN rates \subseteq records \cup ScoredItems

IInv == Types /\ InStep /\ Resuming

-----------------------------------------------------------------------------
(* A list of a finite set has its elements.                                *)
LEMMA Listing ==
  ASSUME NEW S, IsFiniteSet(S), NEW list \in SetToSeqs(S)
  PROVE  list \in Seq(S) /\ Elements(list) = S
<1> DEFINE D == 1 .. Cardinality(S)
<1>1. Cardinality(S) \in Nat
  BY FS_CardinalityType
<1>2. list \in [D -> S] /\ \A i, j \in D : i # j => list[i] # list[j]
  BY DEF SetToSeqs
<1>3. list \in Injection(D, S)
  BY <1>2 DEF Injection, IsInjective
<1>4. IsFiniteSet(D) /\ Cardinality(D) = Cardinality(S)
  BY <1>1, FS_Interval
<1>5. list \in Surjection(D, S)
  BY <1>3, <1>4, FS_Injection
<1>6. Len(list) = Cardinality(S) /\ list \in Seq(S)
  BY <1>1, <1>2
<1> QED BY <1>5, <1>6 DEF Surjection, Elements

(* A list of records as items, with and without a reward.                  *)
LEMMA ScoredEntries ==
  ASSUME NEW S \in SUBSET Record, NEW list \in Seq(S),
         NEW values, \A r \in S : values[r] \in 0 .. Scale
  PROVE  /\ Scored(list, values) \in Seq(Entry) /\ Len(Scored(list, values)) = Len(list)
         /\ \A i \in 1 .. Len(list) :
              Scored(list, values)[i].id = list[i] /\ Scored(list, values)[i].scored = TRUE
<1>1. DOMAIN list = 1 .. Len(list) /\ Len(list) \in Nat /\ \A i \in 1 .. Len(list) : list[i] \in S
  OBVIOUS
<1>2. Scored(list, values) \in [1 .. Len(list) -> Entry]
  BY <1>1 DEF Scored, Entry
<1>3. \A i \in 1 .. Len(list) :
        Scored(list, values)[i].id = list[i] /\ Scored(list, values)[i].scored = TRUE
  BY <1>1 DEF Scored
<1> QED BY <1>1, <1>2, <1>3

LEMMA UnscoredEntries ==
  ASSUME NEW list \in Seq(Record)
  PROVE  /\ Unscored(list) \in Seq(Entry) /\ Len(Unscored(list)) = Len(list)
         /\ \A i \in 1 .. Len(list) :
              Unscored(list)[i].id = list[i] /\ Unscored(list)[i].scored = FALSE
<1>1. DOMAIN list = 1 .. Len(list) /\ Len(list) \in Nat /\ \A i \in 1 .. Len(list) : list[i] \in Record
  OBVIOUS
<1>2. 0 \in 0 .. Scale
  BY SizeAssumption
<1>3. Unscored(list) \in [1 .. Len(list) -> Entry]
  BY <1>1, <1>2 DEF Unscored, Entry
<1>4. \A i \in 1 .. Len(list) : Unscored(list)[i].id = list[i] /\ Unscored(list)[i].scored = FALSE
  BY <1>1 DEF Unscored
<1> QED BY <1>1, <1>3, <1>4

(* A record that was sampled has a last place in the batch.                *)
LEMMA LastPlace ==
  ASSUME NEW n \in Nat, NEW rec, Places(rec, n) # {}
  PROVE  Max(Places(rec, n)) \in 1 .. n
<1> DEFINE places == Places(rec, n)
           behind == {n - i : i \in places}
<1>1. places \subseteq 1 .. n /\ behind \in SUBSET Nat /\ behind # {}
  BY DEF Places
<1> DEFINE R == OpToRel(<, Nat)
<1>2. PICK least \in behind : \A m \in behind : ~(<<m, least>> \in R)
  <2> HIDE DEF behind
  <2> QED BY <1>1, WFMin, NatLessThanWellFounded
<1>3. \A m \in behind : ~(m < least)
  <2> HIDE DEF behind
  <2> QED BY <1>1, <1>2 DEF OpToRel
<1> HIDE DEF places
<1>4. PICK last \in places : least = n - last
  OBVIOUS
<1>5. n - least \in places /\ \A i \in places : n - least >= i
  <2>1. \A i \in places : n - i \in behind /\ i \in Int
    <3> TAKE i \in places
    <3>1. i \in 1 .. n
      BY <1>1
    <3> QED BY <3>1
  <2>2. n - least = last
    BY <1>1, <1>4
  <2>3. \A i \in places : ~(n - i < least)
    BY <1>3, <2>1
  <2> QED BY <1>1, <1>4, <2>1, <2>2, <2>3
<1>6. Max(places) = CHOOSE x \in places : \A y \in places : x >= y
  BY DEF Max
<1>7. Max(places) \in places
  BY <1>5, <1>6
<1> QED BY <1>1, <1>7 DEF places

LEMMA Parts ==
  ASSUME NEW T, NEW s \in Seq(T)
  PROVE  /\ Elements(s) \subseteq T
         /\ \A x \in T : Append(s, x) \in Seq(T) /\ Elements(Append(s, x)) = Elements(s) \cup {x}
         /\ \A t \in Seq(T) : s \o t \in Seq(T) /\ Elements(s \o t) = Elements(s) \cup Elements(t)
         /\ s # <<>> => /\ Tail(s) \in Seq(T) /\ Head(s) \in Elements(s)
                        /\ Elements(s) = {Head(s)} \cup Elements(Tail(s))
<1>1. Elements(s) \subseteq T
  BY DEF Elements
<1>2. ASSUME NEW x \in T PROVE Append(s, x) \in Seq(T) /\ Elements(Append(s, x)) = Elements(s) \cup {x}
  <2> DEFINE t == Append(s, x)
  <2>1. /\ t \in Seq(T) /\ Len(t) = Len(s) + 1 /\ Len(s) \in Nat /\ t[Len(s) + 1] = x
        /\ \A i \in 1 .. Len(s) : t[i] = s[i]
    OBVIOUS
  <2> HIDE DEF t
  <2>2. \A i \in 1 .. Len(t) : t[i] \in Elements(s) \cup {x}
    BY <2>1 DEF Elements
  <2>3. \A i \in 1 .. Len(s) : i \in 1 .. Len(t) /\ t[i] = s[i]
    BY <2>1
  <2>4. Elements(s) \subseteq Elements(t)
    BY <2>3 DEF Elements
  <2>5. Len(t) \in 1 .. Len(t) /\ t[Len(t)] = x
    BY <2>1
  <2> QED BY <2>1, <2>2, <2>4, <2>5 DEF Elements, t
<1>3. ASSUME NEW t \in Seq(T) PROVE s \o t \in Seq(T) /\ Elements(s \o t) = Elements(s) \cup Elements(t)
  <2> DEFINE u == s \o t
  <2>1. /\ u \in Seq(T) /\ Len(u) = Len(s) + Len(t) /\ Len(s) \in Nat /\ Len(t) \in Nat
        /\ \A i \in 1 .. Len(s) : u[i] = s[i]
        /\ \A i \in 1 .. Len(t) : u[Len(s) + i] = t[i]
    OBVIOUS
  <2> HIDE DEF u
  <2>2. \A i \in 1 .. Len(u) : u[i] \in Elements(s) \cup Elements(t)
    <3> TAKE i \in 1 .. Len(u)
    <3>1. CASE i \in 1 .. Len(s)
      BY <2>1, <3>1 DEF Elements
    <3>2. CASE i - Len(s) \in 1 .. Len(t)
      <4>1. u[Len(s) + (i - Len(s))] = t[i - Len(s)] /\ Len(s) + (i - Len(s)) = i
        BY <2>1, <3>2
      <4> QED BY <3>2, <4>1 DEF Elements
    <3> QED BY <2>1, <3>1, <3>2
  <2>3. \A i \in 1 .. Len(s) : i \in 1 .. Len(u) /\ u[i] = s[i]
    BY <2>1
  <2>4. \A i \in 1 .. Len(t) : Len(s) + i \in 1 .. Len(u) /\ u[Len(s) + i] = t[i]
    BY <2>1
  <2>5. Elements(s) \subseteq Elements(u) /\ Elements(t) \subseteq Elements(u)
    BY <2>3, <2>4 DEF Elements
  <2> QED BY <2>1, <2>2, <2>5 DEF Elements, u
<1>4. ASSUME s # <<>>
      PROVE  /\ Tail(s) \in Seq(T) /\ Head(s) \in Elements(s)
             /\ Elements(s) = {Head(s)} \cup Elements(Tail(s))
  <2> DEFINE t == Tail(s)
  <2>1. /\ t \in Seq(T) /\ Len(t) = Len(s) - 1 /\ Len(s) \in Nat \ {0} /\ Head(s) = s[1]
        /\ \A i \in 1 .. Len(s) - 1 : t[i] = s[i + 1]
    BY <1>4
  <2> HIDE DEF t
  <2>2. 1 \in 1 .. Len(s)
    BY <2>1
  <2>3. \A i \in 1 .. Len(t) : i + 1 \in 1 .. Len(s) /\ t[i] = s[i + 1]
    BY <2>1
  <2>4. \A i \in 1 .. Len(s) : i = 1 \/ (i - 1 \in 1 .. Len(t) /\ t[i - 1] = s[i])
    BY <2>1
  <2>5. Elements(t) \subseteq Elements(s) /\ s[1] \in Elements(s)
    BY <2>2, <2>3 DEF Elements
  <2>6. Elements(s) \subseteq {s[1]} \cup Elements(t)
    BY <2>4 DEF Elements
  <2> QED BY <2>1, <2>5, <2>6 DEF t
<1> QED BY <1>1, <1>2, <1>3, <1>4

LEMMA NextItem ==
  ASSUME items \in Seq(Entry), items # <<>>, items' = Tail(items)
  PROVE  LET item == Head(items)
         IN /\ items' \in Seq(Entry) /\ item.id \in Record /\ item.scored \in BOOLEAN
            /\ ScoredItems' \subseteq ScoredItems /\ QueuedItems' \subseteq QueuedItems
            /\ item.scored => item.id \in ScoredItems /\ ScoredItems \subseteq ScoredItems' \cup {item.id}
            /\ ~item.scored => item.id \in QueuedItems /\ ScoredItems \subseteq ScoredItems'
<1> DEFINE t == Tail(items)
           item == Head(items)
<1>1. /\ t \in Seq(Entry) /\ Len(t) = Len(items) - 1 /\ Len(items) \in Nat \ {0} /\ item = items[1]
      /\ \A i \in 1 .. Len(items) - 1 : t[i] = items[i + 1]
  OBVIOUS
<1>2. item \in Entry
  OBVIOUS
<1>3. items' = t
  OBVIOUS
<1> HIDE DEF t, item
<1>4. \A i \in 1 .. Len(t) : i + 1 \in 1 .. Len(items) /\ t[i] = items[i + 1]
  BY <1>1
<1>5. \A i \in 1 .. Len(items) : i = 1 \/ (i - 1 \in 1 .. Len(t) /\ t[i - 1] = items[i])
  BY <1>1
<1>6. ScoredItems' \subseteq ScoredItems /\ QueuedItems' \subseteq QueuedItems
  BY <1>3, <1>4 DEF ScoredItems, QueuedItems
<1>7. 1 \in 1 .. Len(items) /\ item.id \in Record /\ item.scored \in BOOLEAN
  BY <1>1, <1>2 DEF Entry
<1>8. item.scored => item.id \in ScoredItems
  BY <1>1, <1>7 DEF ScoredItems
<1>9. ~item.scored => item.id \in QueuedItems
  BY <1>1, <1>7 DEF QueuedItems
<1>10. \A r \in ScoredItems : r \in ScoredItems' \/ (r = item.id /\ item.scored)
  BY <1>1, <1>3, <1>5 DEF ScoredItems
<1> QED BY <1>1, <1>3, <1>6, <1>7, <1>8, <1>9, <1>10 DEF item

(* What an eviction takes: a record with its rate, or the first cold one.  *)
LEMMA Evicts ==
  ASSUME IInv, NEW victim \in Victims
  PROVE  /\ rates # NoRates => victim \in DOMAIN rates
         /\ rates = NoRates /\ cold # <<>> => victim = Head(cold)
         /\ rates = NoRates /\ cold = <<>> => victim = None
BY DEF Victims

LEMMA InitInvariant == Init => IInv
<1> SUFFICES ASSUME Init PROVE IInv
  OBVIOUS
<1>1. IsFiniteSet(Seed)
  BY RecordAssumption, FS_Subset
<1>2. cold \in Seq(Seed) /\ Elements(cold) = Seed
  BY <1>1, Listing DEF Init
<1>3. \A i, j \in 1 .. Len(cold) : cold[i] = cold[j] => i = j
  <2>1. cold \in [1 .. Cardinality(Seed) -> Seed] /\ Cardinality(Seed) \in Nat
        /\ \A i, j \in 1 .. Cardinality(Seed) : i # j => cold[i] # cold[j]
    BY <1>1, FS_CardinalityType DEF Init, SetToSeqs
  <2>2. Len(cold) = Cardinality(Seed)
    BY <2>1
  <2> QED BY <2>1, <2>2
<1>4. Types
  BY <1>2, RecordAssumption, SizeAssumption DEF Init, Types, NoRates, Idle, Batch
<1>5. InStep
  BY <1>2, <1>3 DEF Init, InStep, NoRates
<1> QED BY <1>4, <1>5 DEF IInv, Resuming, Init

(* One item: whatever leaves and comes in, records and rates go together.  *)
LEMMA AddInvariant == ASSUME IInv, AddItem PROVE IInv'
<1> DEFINE item == Head(items)
           r == item.id
<1>1. PICK victim \in IF Full(r) THEN Victims ELSE {None} : Add(item, victim)
  BY DEF AddItem
<1> DEFINE fromCold == rates = NoRates /\ victim # None
           kept == records \ {victim}
           left == RatesWithout(victim)
           queue == IF fromCold THEN Tail(cold) ELSE cold
           queued == IF fromCold THEN coldIndex \ {victim} ELSE coldIndex
           isNew == r \notin kept /\ r \notin queued
<1>2. /\ item.scored => /\ records' = kept \cup {r}
                        /\ rates' = IF r \in kept THEN left ELSE RatesWith(left, r, item.value)
                        /\ cold' = queue /\ coldIndex' = queued
      /\ ~item.scored => /\ records' = kept /\ rates' = left
                         /\ cold' = IF isNew THEN Append(queue, r) ELSE queue
                         /\ coldIndex' = IF isNew THEN queued \cup {r} ELSE queued
  BY <1>1 DEF Add
<1>3. /\ items' \in Seq(Entry) /\ r \in Record /\ item.scored \in BOOLEAN
      /\ ScoredItems' \subseteq ScoredItems /\ QueuedItems' \subseteq QueuedItems
      /\ item.scored => r \in ScoredItems /\ ScoredItems \subseteq ScoredItems' \cup {r}
      /\ ~item.scored => r \in QueuedItems /\ ScoredItems \subseteq ScoredItems'
  BY NextItem DEF IInv, Types, AddItem
<1>4. UNCHANGED <<archive, phase, flight, scored, teacher, inbox, packets, saved>>
  BY DEF AddItem, mail
<1>5. fromCold => cold # <<>> /\ victim = Head(cold)
  BY <1>1, Evicts
<1>6. /\ queue \in Seq(Record) /\ Elements(queue) \subseteq Elements(cold) /\ Elements(queue) \subseteq queued
      /\ \A i, j \in 1 .. Len(queue) : queue[i] = queue[j] => i = j
  <2>0. cold \in Seq(Record)
    BY DEF IInv, Types
  <2>1. CASE ~fromCold
    BY <2>0, <2>1 DEF IInv, InStep
  <2>2. CASE fromCold
    <3>1. /\ cold # <<>> /\ victim = cold[1] /\ Len(queue) = Len(cold) - 1 /\ Len(cold) \in Nat \ {0}
          /\ \A i \in 1 .. Len(cold) - 1 : queue[i] = cold[i + 1]
      BY <1>5, <2>0, <2>2
    <3>2. queue \in Seq(Record) /\ Elements(queue) \subseteq Elements(cold)
      BY <1>5, <2>0, <2>2, Parts
    <3>3. \A i, j \in 1 .. Len(queue) : queue[i] = queue[j] => i = j
      <4> SUFFICES ASSUME NEW i \in 1 .. Len(queue), NEW j \in 1 .. Len(queue), queue[i] = queue[j] PROVE i = j
        OBVIOUS
      <4>1. i + 1 \in 1 .. Len(cold) /\ j + 1 \in 1 .. Len(cold) /\ cold[i + 1] = cold[j + 1]
        BY <3>1
      <4>2. i + 1 = j + 1
        BY <4>1 DEF IInv, InStep
      <4> QED BY <4>2
    <3>4. \A i \in 1 .. Len(queue) : queue[i] # victim
      <4> TAKE i \in 1 .. Len(queue)
      <4>1. i + 1 \in 1 .. Len(cold) /\ 1 \in 1 .. Len(cold) /\ i + 1 # 1
        BY <3>1
      <4>2. cold[i + 1] # cold[1]
        BY <4>1 DEF IInv, InStep
      <4> QED BY <3>1, <4>2
    <3>5. Elements(queue) \subseteq coldIndex \ {victim}
      <4> HIDE DEF queue
      <4>1. Elements(cold) \subseteq coldIndex
        BY DEF IInv, InStep
      <4>2. victim \notin Elements(queue)
        BY <3>4 DEF Elements
      <4> QED BY <3>2, <4>1, <4>2
    <3> QED BY <2>2, <3>2, <3>3, <3>5
  <2> QED BY <2>1, <2>2
<1>7. DOMAIN left = DOMAIN rates \ {victim}
  BY DEF RatesWithout
<1>8. /\ phase # "resume" => DOMAIN left = kept
      /\ phase = "resume" => kept \subseteq DOMAIN left /\ DOMAIN left \subseteq kept \cup ScoredItems
  BY <1>7 DEF IInv, InStep, Resuming
<1>9. item.scored => DOMAIN rates' = DOMAIN left \cup {r}
  <2>1. DOMAIN RatesWith(left, r, item.value) = DOMAIN left \cup {r}
    BY DEF RatesWith
  <2> HIDE DEF left, kept
  <2> QED BY <1>2, <1>8, <2>1
<1>10. phase = "resume" => queue = <<>> /\ queued = coldIndex /\ QueuedItems \subseteq coldIndex
  BY <1>5 DEF IInv, Resuming
<1>11. kept \subseteq records
  OBVIOUS
<1>12. reward' \in [Record -> 0 .. Scale]
  <2>1. item \in Entry
    BY DEF IInv, Types, AddItem
  <2>2. item.value \in 0 .. Scale
    BY <2>1 DEF Entry
  <2> QED BY <1>1, <1>3, <2>2 DEF Add, IInv, Types
<1> HIDE DEF kept, left, queue, queued, fromCold, r, item
<1>13. \A x \in Record : Append(queue, x) \in Seq(Record) /\ Elements(Append(queue, x)) = Elements(queue) \cup {x}
  BY <1>6, Parts
<1>14. CASE item.scored
  <2>1. /\ records' = kept \cup {r} /\ cold' = queue /\ coldIndex' = queued
        /\ DOMAIN rates' = DOMAIN left \cup {r}
    BY <1>2, <1>9, <1>14
  <2>2. Elements(cold)' = Elements(queue)
    BY <2>1 DEF Elements
  <2>3. Types'
    BY <1>3, <1>4, <1>6, <1>7, <1>11, <1>12, <2>1 DEF Types, IInv
  <2>4. InStep'
    BY <1>4, <1>6, <1>8, <2>1, <2>2 DEF InStep
  <2>5. Resuming'
    BY <1>3, <1>4, <1>8, <1>10, <1>14, <2>1 DEF Resuming
  <2> QED BY <2>3, <2>4, <2>5 DEF IInv
<1>15. CASE ~item.scored /\ ~isNew
  <2>1. records' = kept /\ cold' = queue /\ coldIndex' = queued /\ DOMAIN rates' = DOMAIN left
    BY <1>2, <1>15
  <2>2. Elements(cold)' = Elements(queue)
    BY <2>1 DEF Elements
  <2>3. Types'
    BY <1>3, <1>4, <1>6, <1>7, <1>11, <1>12, <2>1 DEF Types, IInv
  <2>4. InStep'
    BY <1>4, <1>6, <1>8, <2>1, <2>2 DEF InStep
  <2>5. Resuming'
    BY <1>3, <1>4, <1>8, <1>10, <1>15, <2>1 DEF Resuming
  <2> QED BY <2>3, <2>4, <2>5 DEF IInv
<1>16. CASE ~item.scored /\ isNew
  <2>1. /\ records' = kept /\ cold' = Append(queue, r) /\ coldIndex' = queued \cup {r}
        /\ DOMAIN rates' = DOMAIN left
    BY <1>2, <1>16
  <2>2. Elements(cold)' = Elements(queue) \cup {r} /\ cold' \in Seq(Record)
    BY <1>3, <1>13, <2>1 DEF Elements
  <2>3. phase # "resume" /\ r \notin Elements(queue)
    BY <1>3, <1>6, <1>10, <1>16
  <2>4. Types'
    BY <1>3, <1>4, <1>6, <1>7, <1>11, <1>12, <2>1, <2>2 DEF Types, IInv
  <2>5. \A i, j \in 1 .. Len(cold') : cold'[i] = cold'[j] => i = j
    <3>1. /\ Len(cold') = Len(queue) + 1 /\ Len(queue) \in Nat /\ cold'[Len(queue) + 1] = r
          /\ \A i \in 1 .. Len(queue) : cold'[i] = queue[i]
      BY <1>3, <1>6, <2>1
    <3>2. \A i \in 1 .. Len(queue) : queue[i] # r
      BY <2>3 DEF Elements
    <3> QED BY <1>6, <3>1, <3>2
  <2>6. InStep'
    BY <1>4, <1>6, <1>8, <2>1, <2>2, <2>5 DEF InStep
  <2>7. Resuming'
    BY <1>4, <2>3 DEF Resuming
  <2> QED BY <2>4, <2>6, <2>7 DEF IInv
<1> QED BY <1>3, <1>14, <1>15, <1>16

LEMMA NoItems == ASSUME items = <<>> PROVE ScoredItems = {} /\ QueuedItems = {}
<1>1. Len(items) = 0
  OBVIOUS
<1> QED BY <1>1 DEF ScoredItems, QueuedItems

(* The steps that leave the pool alone, and what is being added.           *)
LEMMA PoolAlone ==
  ASSUME IInv, UNCHANGED <<records, rates, cold, coldIndex>>, phase # "resume", phase' # "resume", Types'
  PROVE  IInv'
<1>1. Elements(cold)' = Elements(cold)
  BY DEF Elements
<1> QED BY <1>1 DEF IInv, InStep, Resuming

LEMMA TeacherInvariant ==
  ASSUME IInv, TeacherBegins \/ TeacherAdds \/ TeacherChecks \/ SubmitTeacherBatch PROVE IInv'
<1>1. /\ UNCHANGED <<records, rates, cold, coldIndex, reward, archive, flight, scored, packets, phase>>
      /\ phase # "resume"
  BY DEF TeacherBegins, TeacherAdds, TeacherChecks, SubmitTeacherBatch, Free, pool, trainer
<1>2. DOMAIN teacher = {"at", "batch", "before"} /\ teacher.batch \in Seq(Record) /\ inbox \in Seq(Batch) /\ Idle.batch \in Seq(Record)
  BY DEF IInv, Types, Batch, Idle
<1>3. teacher'.batch \in Batch /\ DOMAIN teacher' = {"at", "batch", "before"}
  <2>1. CASE TeacherBegins
    <3>1. PICK new \in SUBSET Record :
            teacher'.batch \in SetToSeqs(new) /\ DOMAIN teacher' = {"at", "batch", "before"}
      BY <2>1 DEF TeacherBegins
    <3>2. teacher'.batch \in Seq(new)
      BY <3>1, RecordAssumption, FS_Subset, Listing
    <3> QED BY <3>1, <3>2 DEF Batch
  <2>2. CASE TeacherAdds
    BY <1>2, <2>2 DEF TeacherAdds, Batch
  <2>3. CASE TeacherChecks
    BY <1>2, <2>3 DEF TeacherChecks, Batch, Idle
  <2>4. CASE SubmitTeacherBatch
    BY <1>2, <2>4 DEF SubmitTeacherBatch, Batch, Idle
  <2> QED BY <2>1, <2>2, <2>3, <2>4
<1>4. inbox' \in Seq(Batch)
  BY <1>2 DEF TeacherBegins, TeacherAdds, TeacherChecks, SubmitTeacherBatch, Batch
<1>5. items' \in Seq(Entry)
  <2>1. items \in Seq(Entry)
    BY DEF IInv, Types
  <2>2. Unscored(teacher.batch) \in Seq(Entry)
    BY <1>2, UnscoredEntries
  <2> QED BY <2>1, <2>2 DEF TeacherBegins, TeacherAdds, TeacherChecks, SubmitTeacherBatch
<1>6. Types'
  BY <1>1, <1>3, <1>4, <1>5 DEF IInv, Types
<1> QED BY <1>1, <1>6, PoolAlone

LEMMA DrainInvariant == ASSUME IInv, Drain \/ AddPacket PROVE IInv'
<1>1. /\ UNCHANGED <<records, rates, cold, coldIndex, reward, archive, flight, scored, teacher>>
      /\ phase # "resume" /\ phase' # "resume"
  BY DEF Drain, AddPacket, Free, pool
<1>2. inbox \in Seq(Batch) /\ packets \in Seq(Batch) /\ items \in Seq(Entry)
  BY DEF IInv, Types
<1>3. CASE Drain
  <2>1. packets' = inbox /\ inbox' = <<>> /\ items' = items
    BY <1>3 DEF Drain
  <2>2. Types'
    BY <1>1, <1>2, <2>1 DEF IInv, Types
  <2> QED BY <1>1, <2>2, PoolAlone
<1>4. CASE AddPacket
  <2>1. PICK values \in [Elements(Head(packets)) -> 0 .. Scale] : items' = Scored(Head(packets), values)
    BY <1>4 DEF AddPacket
  <2>2. packets # <<>> /\ packets' = Tail(packets) /\ inbox' = inbox
    BY <1>4 DEF AddPacket
  <2>3. Head(packets) \in Seq(Record) /\ packets' \in Seq(Batch)
    BY <1>2, <2>2 DEF Batch
  <2>4. Head(packets) \in Seq(Elements(Head(packets))) /\ Elements(Head(packets)) \subseteq Record
    BY <2>3 DEF Elements
  <2>5. items' \in Seq(Entry)
    BY <2>1, <2>4, ScoredEntries
  <2>6. Types'
    BY <1>1, <1>2, <2>2, <2>3, <2>5 DEF IInv, Types
  <2> QED BY <1>1, <2>6, PoolAlone
<1> QED BY <1>3, <1>4

LEMMA RecycleInvariant == ASSUME IInv, Recycle PROVE IInv'
<1>1. PICK list \in SetToSeqs(DOMAIN archive) : items' = Scored(list, archive)
  BY DEF Recycle
<1>2. /\ UNCHANGED <<records, rates, cold, coldIndex, reward, flight, scored, teacher, inbox, packets>>
      /\ phase # "resume" /\ phase' # "resume" /\ archive' = NoRates
  BY DEF Recycle, pool, mail, Free
<1>3. DOMAIN archive \in SUBSET Record /\ \A r \in DOMAIN archive : archive[r] \in 0 .. Scale
  BY DEF IInv, Types
<1>4. list \in Seq(DOMAIN archive)
  BY <1>3, RecordAssumption, FS_Subset, Listing
<1>5. items' \in Seq(Entry)
  BY <1>1, <1>3, <1>4, ScoredEntries
<1>6. Types'
  BY <1>2, <1>5 DEF IInv, Types, NoRates
<1> QED BY <1>2, <1>6, PoolAlone

(* The front and the rest of a sequence without repetitions.               *)
LEMMA Cut ==
  ASSUME NEW s \in Seq(Record), \A i, j \in 1 .. Len(s) : s[i] = s[j] => i = j, NEW n \in 0 .. Len(s)
  PROVE  LET front == SubSeq(s, 1, n)
             rest == SubSeq(s, n + 1, Len(s))
         IN /\ front \in Seq(Record) /\ rest \in Seq(Record)
            /\ Elements(front) \subseteq Elements(s) /\ Elements(rest) \subseteq Elements(s) \ Elements(front)
            /\ \A i, j \in 1 .. Len(rest) : rest[i] = rest[j] => i = j
<1> DEFINE front == SubSeq(s, 1, n)
           rest == SubSeq(s, n + 1, Len(s))
<1>1. /\ front \in Seq(Record) /\ Len(front) = n /\ Len(s) \in Nat
      /\ \A i \in 1 .. n : front[i] = s[i]
  OBVIOUS
<1>2. /\ rest \in Seq(Record) /\ Len(rest) = Len(s) - n
      /\ \A i \in 1 .. Len(s) - n : rest[i] = s[i + n]
  OBVIOUS
<1> HIDE DEF front, rest
<1>3. \A i \in 1 .. Len(front) : i \in 1 .. Len(s) /\ i <= n /\ front[i] = s[i]
  BY <1>1
<1>4. \A i \in 1 .. Len(rest) : i + n \in 1 .. Len(s) /\ i + n > n /\ rest[i] = s[i + n]
  BY <1>1, <1>2
<1>5. \A i \in 1 .. Len(front), j \in 1 .. Len(rest) : front[i] # rest[j]
  BY <1>3, <1>4
<1>6. \A i, j \in 1 .. Len(rest) : rest[i] = rest[j] => i = j
  <2> SUFFICES ASSUME NEW i \in 1 .. Len(rest), NEW j \in 1 .. Len(rest), rest[i] = rest[j] PROVE i = j
    OBVIOUS
  <2>1. i + n = j + n
    BY <1>4
  <2> QED BY <2>1
<1>7. Elements(front) \subseteq Elements(s) /\ Elements(rest) \subseteq Elements(s)
  BY <1>3, <1>4 DEF Elements
<1>8. Elements(rest) \cap Elements(front) = {}
  BY <1>5 DEF Elements
<1>9. Elements(rest) \subseteq Elements(s) \ Elements(front)
  BY <1>7, <1>8
<1> QED BY <1>1, <1>2, <1>6, <1>7, <1>9 DEF front, rest

LEMMA SampleInvariant == ASSUME IInv, SampleBatch PROVE IInv'
<1> DEFINE n == IF Len(cold) < Want THEN Len(cold) ELSE Want
           front == SubSeq(cold, 1, n)
<1>1. PICK drawn \in SUBSET records : \E s \in SetToSeqs(drawn) : flight' = front \o s
  BY DEF SampleBatch
<1>2. /\ cold' = SubSeq(cold, n + 1, Len(cold)) /\ coldIndex' = coldIndex \ Elements(front)
      /\ UNCHANGED <<records, rates, reward, archive, scored, mail, items>>
      /\ phase # "resume" /\ phase' # "resume"
  BY DEF SampleBatch, Free
<1>3. cold \in Seq(Record) /\ n \in 0 .. Len(cold)
  BY SizeAssumption DEF IInv, Types
<1>4. \A i, j \in 1 .. Len(cold) : cold[i] = cold[j] => i = j
  BY DEF IInv, InStep
<1> HIDE DEF n
<1>5. /\ front \in Seq(Record) /\ cold' \in Seq(Record)
      /\ Elements(front) \subseteq Elements(cold) /\ Elements(cold') \subseteq Elements(cold) \ Elements(front)
      /\ \A i, j \in 1 .. Len(cold') : cold'[i] = cold'[j] => i = j
  BY <1>2, <1>3, <1>4, Cut
<1> HIDE DEF front
<1>6. IsFiniteSet(drawn) /\ drawn \subseteq Record
  <2>1. drawn \subseteq Record
    BY DEF IInv, Types
  <2> QED BY <2>1, RecordAssumption, FS_Subset
<1>7. PICK s \in SetToSeqs(drawn) : flight' = front \o s
  BY <1>1
<1>8. s \in Seq(drawn) /\ Elements(s) = drawn
  BY <1>6, Listing
<1>9. s \in Seq(Record)
  BY <1>6, <1>8
<1>10. flight' \in Seq(Record) /\ Elements(flight') = Elements(front) \cup drawn
  BY <1>5, <1>7, <1>8, <1>9, Parts
<1>11. Elements(cold)' \subseteq Elements(cold) \ Elements(front)
  BY <1>5 DEF Elements
<1>12. Types'
  BY <1>2, <1>5, <1>10 DEF IInv, Types, mail
<1>13. InStep'
  BY <1>2, <1>5, <1>11 DEF IInv, InStep
<1>14. Resuming'
  BY <1>2 DEF Resuming
<1> QED BY <1>12, <1>13, <1>14 DEF IInv

LEMMA UpdateInvariant == ASSUME IInv, UpdateRates PROVE IInv'
<1>1. PICK n \in 0 .. Len(flight) : \E values \in [1 .. n -> 0 .. Scale] :
        /\ scored' = Elements(SubSeq(flight, 1, n))
        /\ reward' = [r \in Record |-> IF r \in scored' THEN values[Max(Places(r, n))] ELSE reward[r]]
  BY DEF UpdateRates
<1>2. PICK values \in [1 .. n -> 0 .. Scale] :
        /\ scored' = Elements(SubSeq(flight, 1, n))
        /\ reward' = [r \in Record |-> IF r \in scored' THEN values[Max(Places(r, n))] ELSE reward[r]]
  BY <1>1
<1>3. /\ records' = records \cup scored' /\ DOMAIN rates' = DOMAIN rates \cup scored' /\ flight' = <<>>
      /\ UNCHANGED <<cold, coldIndex, archive, teacher, inbox, packets, items>>
      /\ phase # "resume" /\ phase' # "resume"
  BY DEF UpdateRates, Free, mail
<1>4. /\ Len(SubSeq(flight, 1, n)) = n
      /\ \A i \in 1 .. n : SubSeq(flight, 1, n)[i] = flight[i] /\ flight[i] \in Record
  BY DEF IInv, Types
<1>5. scored' \subseteq Record /\ \A r \in scored' : Places(r, n) # {}
  <2>1. \A r \in scored' : \E i \in 1 .. n : flight[i] = r
    BY <1>2, <1>4 DEF Elements
  <2> QED BY <1>4, <2>1 DEF Places
<1>6. reward' \in [Record -> 0 .. Scale]
  <2>1. \A r \in scored' : values[Max(Places(r, n))] \in 0 .. Scale
    BY <1>5, LastPlace
  <2>2. reward \in [Record -> 0 .. Scale]
    BY DEF IInv, Types
  <2> QED BY <1>2, <2>1, <2>2
<1>7. Types'
  BY <1>3, <1>5, <1>6 DEF IInv, Types
<1>8. Elements(cold)' = Elements(cold)
  BY <1>3 DEF Elements
<1>9. InStep'
  BY <1>3, <1>8 DEF IInv, InStep
<1>10. Resuming'
  BY <1>3 DEF Resuming
<1> QED BY <1>7, <1>9, <1>10 DEF IInv

(* A restart adds what the pool had: the scored records with their         *)
(* rewards, then the queue.                                                *)
LEMMA RestartItems ==
  ASSUME IInv, Restart
  PROVE  items' \in Seq(Entry) /\ ScoredItems' = records /\ QueuedItems' \subseteq Elements(cold)
<1> DEFINE back == Unscored(cold)
<1>1. PICK list \in SetToSeqs(records) : items' = Scored(list, reward) \o back
  BY DEF Restart
<1> DEFINE s == Scored(list, reward)
<1>2. list \in Seq(records) /\ Elements(list) = records
  BY RecordAssumption, FS_Subset, Listing DEF IInv, Types
<1>3. cold \in Seq(Record) /\ records \in SUBSET Record /\ \A r \in records : reward[r] \in 0 .. Scale
  BY DEF IInv, Types
<1>4. /\ s \in Seq(Entry) /\ \A i \in 1 .. Len(s) : s[i].id \in records /\ s[i].scored = TRUE
      /\ \A r \in records : \E i \in 1 .. Len(s) : s[i].id = r
  <2>1. /\ s \in Seq(Entry) /\ Len(s) = Len(list)
        /\ \A i \in 1 .. Len(list) : s[i].id = list[i] /\ s[i].scored = TRUE
    BY <1>2, <1>3, ScoredEntries
  <2> HIDE DEF s
  <2>2. \A r \in records : \E i \in 1 .. Len(list) : list[i] = r
    BY <1>2 DEF Elements
  <2> QED BY <1>2, <2>1, <2>2
<1>5. /\ back \in Seq(Entry) /\ Len(back) = Len(cold)
      /\ \A i \in 1 .. Len(back) : back[i].id \in Elements(cold) /\ ~back[i].scored
  <2>1. /\ back \in Seq(Entry) /\ Len(back) = Len(cold)
        /\ \A i \in 1 .. Len(cold) : back[i].id = cold[i] /\ back[i].scored = FALSE
    BY <1>3, UnscoredEntries
  <2> HIDE DEF back
  <2> QED BY <2>1 DEF Elements
<1>6. items' = s \o back
  BY <1>1
<1> HIDE DEF s, back
<1>7. /\ items' \in Seq(Entry)
      /\ Elements(items') = Elements(s) \cup Elements(back)
  BY <1>6, <1>4, <1>5, Parts
<1>8. \A i \in 1 .. Len(items') : \/ items'[i].id \in records /\ items'[i].scored
                                  \/ items'[i].id \in Elements(cold) /\ ~items'[i].scored
  <2>1. \A e \in Elements(s) : e.id \in records /\ e.scored
    BY <1>4 DEF Elements
  <2>2. \A e \in Elements(back) : e.id \in Elements(cold) /\ ~e.scored
    BY <1>5 DEF Elements
  <2>3. \A i \in 1 .. Len(items') : items'[i] \in Elements(items')
    BY DEF Elements
  <2> QED BY <1>7, <2>1, <2>2, <2>3
<1>9. \A r \in records : \E i \in 1 .. Len(items') : items'[i].id = r /\ items'[i].scored
  <2> TAKE r \in records
  <2>1. PICK j \in 1 .. Len(s) : s[j].id = r /\ s[j].scored
    BY <1>4
  <2>2. s[j] \in Elements(items')
    BY <1>7, <2>1 DEF Elements
  <2>3. PICK i \in 1 .. Len(items') : items'[i] = s[j]
    BY <2>2 DEF Elements
  <2> QED BY <2>1, <2>3
<1>10. ScoredItems' = records /\ QueuedItems' \subseteq Elements(cold)
  BY <1>3, <1>8, <1>9 DEF ScoredItems, QueuedItems
<1> QED BY <1>7, <1>10

LEMMA RestartInvariant == ASSUME IInv, Restart PROVE IInv'
<1>1. /\ phase # "resume" /\ phase' = "resume"
      /\ records' = {} /\ cold' = <<>>
      /\ coldIndex' = IF coldIndex # {} THEN coldIndex ELSE Elements(cold)
      /\ UNCHANGED <<rates, reward, archive, flight, scored, inbox, packets>> /\ teacher' = Idle
  BY DEF Restart, Free
<1>2. items' \in Seq(Entry) /\ ScoredItems' = records /\ QueuedItems' \subseteq Elements(cold)
  BY RestartItems
<1>3. cold' \in Seq(Record) /\ Elements(cold)' = {} /\ Len(cold') = 0
  <2>1. Len(cold') = 0
    BY <1>1
  <2> QED BY <1>1, <2>1 DEF Elements
<1>4. Elements(cold) \subseteq coldIndex' /\ DOMAIN rates = records
  BY <1>1 DEF IInv, InStep
<1>5. Types'
  BY <1>1, <1>2, <1>3 DEF IInv, Types, Idle, Batch
<1>6. InStep'
  BY <1>1, <1>3 DEF InStep
<1>7. Resuming'
  BY <1>1, <1>2, <1>4 DEF Resuming
<1> QED BY <1>5, <1>6, <1>7 DEF IInv

LEMMA ResumedInvariant == ASSUME IInv, Resumed PROVE IInv'
<1>1. /\ UNCHANGED <<records, rates, cold, coldIndex, reward, flight, scored, archive, items>>
      /\ UNCHANGED <<teacher, inbox, packets>>
      /\ phase' # "resume" /\ phase = "resume" /\ items = <<>>
  BY DEF Resumed, pool, mail
<1>2. DOMAIN rates = records
  BY <1>1, NoItems DEF IInv, Resuming
<1>3. Elements(cold)' = Elements(cold)
  BY <1>1 DEF Elements
<1> QED BY <1>1, <1>2, <1>3 DEF IInv, Types, InStep, Resuming

LEMMA ArchiveInvariant == ASSUME IInv, Archive \/ CheckSize \/ NothingSampled PROVE IInv'
<1>1. /\ UNCHANGED <<records, rates, cold, coldIndex, reward, flight, items, teacher, inbox, packets>>
      /\ phase # "resume" /\ phase' # "resume"
  BY DEF Archive, CheckSize, NothingSampled, Free, pool, mail
<1>2. /\ DOMAIN archive' \subseteq Record /\ \A r \in DOMAIN archive' : archive'[r] \in 0 .. Scale
      /\ scored' \subseteq Record
  BY DEF Archive, CheckSize, NothingSampled, IInv, Types
<1>3. Types'
  BY <1>1, <1>2 DEF IInv, Types
<1> QED BY <1>1, <1>3, PoolAlone

(* That records and rates go together, and what holds of the items being   *)
(* added and of a run that resumes, are an inductive invariant.            *)
THEOREM Invariant == Spec => []IInv
<1>1. ASSUME IInv, [Next]_vars PROVE IInv'
  <2>1. CASE UNCHANGED vars
    <3>1. Elements(cold)' = Elements(cold) /\ ScoredItems' = ScoredItems /\ QueuedItems' = QueuedItems
      BY <2>1 DEF Elements, ScoredItems, QueuedItems, vars, pool
    <3>2. UNCHANGED <<pool, trainer, mail, items, saved>>
      BY <2>1 DEF vars
    <3> QED BY <1>1, <3>1, <3>2 DEF IInv, Types, InStep, Resuming, pool, trainer, mail
  <2> QED BY <1>1, <2>1, AddInvariant, TeacherInvariant, DrainInvariant, RecycleInvariant, SampleInvariant,
             UpdateInvariant, ArchiveInvariant, RestartInvariant, ResumedInvariant DEF Next
<1> QED BY <1>1, InitInvariant, PTL DEF Spec

(* Just the scored records have a rate, and an id is queued once.          *)
THEOREM AlwaysInStep == Spec => []InStep
<1>1. IInv => InStep
  BY DEF IInv
<1> QED BY <1>1, Invariant, PTL

-----------------------------------------------------------------------------
(* The size of the pool.                                                   *)
Load == Cardinality(records) + Len(cold)

LEMMA Finite ==
  ASSUME IInv
  PROVE  /\ IsFiniteSet(records) /\ Cardinality(records) \in Nat /\ Len(cold) \in Nat
         /\ \A r \in records : /\ IsFiniteSet(records \ {r})
                               /\ Cardinality(records \ {r}) = Cardinality(records) - 1
<1>1. IsFiniteSet(records) /\ Len(cold) \in Nat
  BY RecordAssumption, FS_Subset DEF IInv, Types
<1> QED BY <1>1, FS_CardinalityType, FS_RemoveElement

(* A turn of add_many makes room first when the pool is full.              *)
LEMMA AddGrows == ASSUME IInv, AddItem, phase # "resume" PROVE Load' \in Int /\ (Load' <= Load \/ Load' <= MaxSize)
<1> DEFINE item == Head(items)
           r == item.id
<1>1. PICK victim \in IF Full(r) THEN Victims ELSE {None} : Add(item, victim)
  BY DEF AddItem
<1> DEFINE fromCold == rates = NoRates /\ victim # None
           kept == records \ {victim}
           queue == IF fromCold THEN Tail(cold) ELSE cold
<1>2. /\ \/ records' = kept \cup {r} /\ Len(cold') = Len(queue)
         \/ records' = kept /\ (Len(cold') = Len(queue) \/ (r \notin kept /\ cold' = Append(queue, r)))
  BY <1>1 DEF Add
<1>3. DOMAIN rates = records /\ r \in Record /\ cold \in Seq(Record) /\ records \subseteq Record
  BY NextItem DEF IInv, InStep, AddItem, Types
<1>4. /\ IsFiniteSet(records) /\ Cardinality(records) \in Nat /\ Len(cold) \in Nat
      /\ \A x \in records : /\ IsFiniteSet(records \ {x})
                            /\ Cardinality(records \ {x}) = Cardinality(records) - 1
  BY Finite
<1>5. MaxSize \in Nat \ {0} /\ None \notin Record
  BY SizeAssumption, RecordAssumption
<1>6. \/ /\ Full(r) /\ victim \in records /\ queue = cold
      \/ /\ Full(r) /\ records = {} /\ kept = records /\ cold # <<>> /\ queue = Tail(cold)
      \/ /\ ~Full(r) /\ kept = records /\ queue = cold
  <2>1. CASE ~Full(r)
    BY <1>1, <1>3, <1>5, <2>1
  <2>2. CASE Full(r) /\ rates # NoRates
    BY <1>1, <1>3, <2>2, Evicts
  <2>3. CASE Full(r) /\ rates = NoRates
    <3>1. records = {}
      BY <1>3, <2>3 DEF NoRates
    <3>2. cold # <<>>
      <4> SUFFICES ASSUME cold = <<>> PROVE FALSE
        OBVIOUS
      <4>1. Cardinality(records) = 0 /\ Len(cold) = 0
        BY <3>1, FS_EmptySet
      <4> QED BY <1>5, <2>3, <4>1 DEF Full, Size
    <3>3. victim = Head(cold) /\ Head(cold) \in Record
      BY <1>1, <1>3, <2>3, <3>2, Evicts
    <3> QED BY <1>5, <2>3, <3>1, <3>2, <3>3
  <2> QED BY <2>1, <2>2, <2>3
<1>7. /\ IsFiniteSet(kept) /\ queue \in Seq(Record)
      /\ Cardinality(kept) = IF victim \in records THEN Cardinality(records) - 1 ELSE Cardinality(records)
  <2>1. IsFiniteSet(kept) /\ Cardinality(kept) = IF victim \in records THEN Cardinality(records) - 1 ELSE Cardinality(records)
    <3>1. CASE victim \in records
      BY <1>4, <3>1
    <3>2. CASE victim \notin records
      <4>1. kept = records
        BY <3>2
      <4> QED BY <1>4, <3>2, <4>1
    <3> QED BY <3>1, <3>2
  <2>2. queue \in Seq(Record)
    <3> HIDE DEF queue
    <3>1. queue = cold \/ (cold # <<>> /\ queue = Tail(cold))
      BY <1>6
    <3> QED BY <1>3, <3>1
  <2> QED BY <2>1, <2>2
<1>8. cold # <<>> => Len(Tail(cold)) = Len(cold) - 1
  BY <1>3
<1> HIDE DEF kept, queue, r, item, fromCold
<1>9. Cardinality(kept) \in Nat /\ Len(queue) \in Nat
  BY <1>7, FS_CardinalityType
<1>10. Cardinality(kept) + Len(queue) + 1 <= Load \/ (~Full(r) /\ kept = records /\ Cardinality(kept) + Len(queue) = Load)
  <2>1. CASE Full(r) /\ victim \in records /\ queue = cold
    BY <1>4, <1>7, <2>1 DEF Load
  <2>2. CASE Full(r) /\ kept = records /\ cold # <<>> /\ queue = Tail(cold)
    <3>1. Len(queue) = Len(cold) - 1
      BY <1>8, <2>2
    <3> QED BY <1>4, <2>2, <3>1 DEF Load
  <2>3. CASE ~Full(r) /\ kept = records /\ queue = cold
    BY <2>3 DEF Load
  <2> QED BY <1>6, <2>1, <2>2, <2>3
<1>11. ~Full(r) => r \in records \/ Load < MaxSize
  BY <1>4, <1>5 DEF Full, Size, Load
<1>12. Cardinality(kept \cup {r}) = IF r \in kept THEN Cardinality(kept) ELSE Cardinality(kept) + 1
  BY <1>7, FS_AddElement
<1>13. cold' = Append(queue, r) => Len(cold') = Len(queue) + 1
  BY <1>3, <1>7
<1>14. Load' \in Int /\ Load' <= Cardinality(kept) + Len(queue) + (IF r \in kept THEN 0 ELSE 1)
  <2>1. CASE records' = kept \cup {r} /\ Len(cold') = Len(queue)
    BY <1>12, <1>9, <2>1 DEF Load
  <2>2. CASE records' = kept /\ Len(cold') = Len(queue)
    BY <1>9, <2>2 DEF Load
  <2>3. CASE records' = kept /\ r \notin kept /\ cold' = Append(queue, r)
    BY <1>13, <1>9, <2>3 DEF Load
  <2> QED BY <1>2, <2>1, <2>2, <2>3
<1>15. Load \in Nat
  BY <1>4 DEF Load
<1>16. r \in records /\ kept = records => r \in kept
  OBVIOUS
<1> QED BY <1>5, <1>10, <1>11, <1>14, <1>15, <1>16, <1>9

(* Only the update of the rates takes the pool past its bound, or further  *)
(* past it.                                                                *)
THEOREM OnlyPromotionGrows == Spec => GrowsByPromotion
<1>1. ASSUME IInv, [Next]_vars, phase # "resume", Load' > Load PROVE Load' <= MaxSize \/ UpdateRates
  <2>1. Load \in Nat
    BY <1>1, Finite DEF Load
  <2>2. CASE UNCHANGED <<records, cold>>
    BY <1>1, <2>1, <2>2 DEF Load
  <2>3. CASE AddItem
    BY <1>1, <2>1, <2>3, AddGrows
  <2>4. CASE SampleBatch
    <3> DEFINE n == IF Len(cold) < Want THEN Len(cold) ELSE Want
    <3>1. records' = records /\ cold' = SubSeq(cold, n + 1, Len(cold)) /\ cold \in Seq(Record) /\ n \in 0 .. Len(cold)
      BY <1>1, <2>4, SizeAssumption DEF SampleBatch, IInv, Types
    <3> HIDE DEF n
    <3>2. Len(cold') = Len(cold) - n
      BY <3>1
    <3>3. Cardinality(records) \in Nat /\ Len(cold) \in Nat
      BY <1>1, Finite
    <3> QED BY <1>1, <3>1, <3>2, <3>3 DEF Load
  <2>5. CASE Restart
    <3>1. records' = {} /\ Len(cold') = 0
      BY <2>5 DEF Restart
    <3> QED BY <3>1, SizeAssumption, FS_EmptySet DEF Load
  <2>6. \/ TeacherBegins \/ TeacherAdds \/ TeacherChecks \/ SubmitTeacherBatch
        \/ Drain \/ AddPacket \/ CheckSize \/ Recycle \/ NothingSampled
        \/ Archive \/ Resumed \/ UNCHANGED vars
        => UNCHANGED <<records, cold>>
    BY DEF TeacherBegins, TeacherAdds, TeacherChecks, SubmitTeacherBatch, Drain, AddPacket, CheckSize,
           Recycle, NothingSampled, Archive, Resumed, vars, pool
  <2> QED BY <1>1, <2>2, <2>3, <2>4, <2>5, <2>6 DEF Next
<1>2. IInv /\ [Next]_vars
        => [phase # "resume" /\ Cardinality(records') + Len(cold') > Size
              => Cardinality(records') + Len(cold') <= MaxSize \/ UpdateRates]_vars
  BY <1>1 DEF Load, Size
<1> QED BY <1>2, Invariant, PTL DEF Spec, GrowsByPromotion

-----------------------------------------------------------------------------
(* A run that resumes.  The rates are those of the checkpoint from the     *)
(* beginning, and the records come back one by one.  There is always room  *)
(* for the next one, so nothing is evicted and no rate goes.               *)
IsTable(f) == f = [r \in DOMAIN f |-> f[r]]

Fits == Cardinality(saved.records) + Len(saved.cold) <= MaxSize

ComingBack ==
  /\ IsTable(rates)
  /\ phase = "resume" =>
       /\ saved.records \subseteq Record /\ saved.cold \in Seq(Record)
       /\ QueuedItems # {} => saved.cold # <<>>
       /\ Fits => /\ rates = saved.rates /\ DOMAIN rates = saved.records
                  /\ records \subseteq saved.records
                  /\ saved.records \subseteq records \cup ScoredItems
                  /\ ScoredItems \subseteq saved.records

(* There is room for an item that is not in the pool yet.                  *)
LEMMA RoomToComeBack ==
  ASSUME IInv, ComingBack, phase = "resume", Fits, items # <<>>, NEW item, item = Head(items),
         item.scored => item.id \in ScoredItems,
         ~item.scored => item.id \in QueuedItems
  PROVE  ~Full(item.id)
<1>1. SUFFICES ASSUME item.id \notin records PROVE ~(Size >= MaxSize)
  BY DEF Full
<1>2. /\ IsFiniteSet(saved.records) /\ Cardinality(saved.records) \in Nat
      /\ IsFiniteSet(records) /\ Cardinality(records) \in Nat
  BY RecordAssumption, FS_Subset, FS_CardinalityType, Finite DEF ComingBack
<1>3. Len(cold) = 0 /\ Len(saved.cold) \in Nat
  BY DEF IInv, Resuming, ComingBack
<1>4. records \subseteq saved.records
  BY DEF ComingBack
<1>5. Cardinality(records) <= Cardinality(saved.records)
  BY <1>2, <1>4, FS_Subset
<1>6. CASE item.scored
  <2>1. records # saved.records
    BY <1>1, <1>6 DEF ComingBack
  <2>2. Cardinality(records) # Cardinality(saved.records)
    BY <1>2, <1>4, <2>1, FS_Subset
  <2> QED BY <1>2, <1>3, <1>5, <2>2, SizeAssumption DEF Fits, Size
<1>7. CASE ~item.scored
  <2>1. saved.cold \in Seq(Record) /\ saved.cold # <<>>
    BY <1>7 DEF ComingBack
  <2>2. Len(saved.cold) > 0
    BY <2>1
  <2> QED BY <1>2, <1>3, <1>5, <2>2, SizeAssumption DEF Fits, Size
<1> QED BY <1>6, <1>7

(* Its rate is there already; a queued one is in the cold index.           *)
LEMMA AddComesBack == ASSUME IInv, ComingBack, AddItem PROVE ComingBack'
<1> DEFINE item == Head(items)
           r == item.id
<1>1. PICK victim \in IF Full(r) THEN Victims ELSE {None} : Add(item, victim)
  BY DEF AddItem
<1>2. /\ r \in Record /\ item.scored \in BOOLEAN
      /\ ScoredItems' \subseteq ScoredItems /\ QueuedItems' \subseteq QueuedItems
      /\ item.scored => r \in ScoredItems /\ ScoredItems \subseteq ScoredItems' \cup {r}
      /\ ~item.scored => r \in QueuedItems /\ ScoredItems \subseteq ScoredItems'
  BY NextItem DEF IInv, Types, AddItem
<1>3. UNCHANGED <<phase, saved>> /\ items # <<>>
  BY DEF AddItem
<1>4. IsTable(rates')
  <2> DEFINE left == RatesWithout(victim)
  <2>1. rates' = left \/ rates' = RatesWith(left, r, item.value)
    BY <1>1 DEF Add
  <2> QED BY <2>1 DEF RatesWithout, RatesWith, IsTable
<1>5. ASSUME phase = "resume", Fits
      PROVE  /\ rates' = rates /\ records' \subseteq saved.records
             /\ saved.records \subseteq records' \cup ScoredItems'
  <2>1. DOMAIN rates = saved.records /\ records \subseteq saved.records
        /\ saved.records \subseteq records \cup ScoredItems /\ ScoredItems \subseteq saved.records
        /\ saved.records \subseteq Record /\ IsTable(rates)
    BY <1>5 DEF ComingBack
  <2>2. ~Full(r)
    BY <1>2, <1>3, <1>5, RoomToComeBack
  <2>3. victim = None /\ None \notin Record
    BY <1>1, <2>2, RecordAssumption
  <2>4. records \ {victim} = records
    BY <2>1, <2>3
  <2>5. RatesWithout(victim) = rates
    <3>1. DOMAIN rates \ {victim} = DOMAIN rates
      BY <2>1, <2>3
    <3> QED BY <2>1, <3>1 DEF RatesWithout, IsTable
  <2>6. r \in DOMAIN rates => RatesWith(rates, r, item.value) = rates
    <3> SUFFICES ASSUME r \in DOMAIN rates PROVE RatesWith(rates, r, item.value) = rates
      OBVIOUS
    <3>1. DOMAIN rates \cup {r} = DOMAIN rates
      OBVIOUS
    <3>2. RatesWith(rates, r, item.value) = [s \in DOMAIN rates |-> rates[s]]
      BY <3>1 DEF RatesWith
    <3> QED BY <2>1, <3>2 DEF IsTable
  <2>7. CASE item.scored
    <3>1. records' = records \cup {r} /\ rates' = IF r \in records THEN rates ELSE RatesWith(rates, r, item.value)
      BY <1>1, <2>4, <2>5, <2>7 DEF Add
    <3>2. r \in saved.records
      BY <1>2, <2>1, <2>7
    <3> QED BY <1>2, <2>1, <2>6, <2>7, <3>1, <3>2
  <2>8. CASE ~item.scored
    <3>1. records' = records /\ rates' = rates
      BY <1>1, <2>4, <2>5, <2>8 DEF Add
    <3> QED BY <1>2, <2>1, <2>8, <3>1
  <2> QED BY <1>2, <2>7, <2>8
<1>6. saved' = saved /\ phase' = phase /\ (Fits' <=> Fits)
  BY <1>3 DEF Fits
<1> QED BY <1>2, <1>4, <1>5, <1>6 DEF ComingBack

LEMMA RestartComesBack == ASSUME IInv, ComingBack, Restart PROVE ComingBack'
<1>1. ScoredItems' = records /\ QueuedItems' \subseteq Elements(cold)
  BY RestartItems
<1>2. /\ phase # "resume" /\ phase' = "resume" /\ records' = {} /\ rates' = rates
      /\ saved' = [records |-> records, rates |-> rates, cold |-> cold, index |-> index]
  BY DEF Restart, Free
<1>3. saved'.records = records /\ saved'.rates = rates /\ saved'.cold = cold
  BY <1>2
<1>4. DOMAIN rates = records /\ records \subseteq Record /\ cold \in Seq(Record)
  BY <1>2 DEF IInv, InStep, Types
<1>5. QueuedItems' # {} => cold # <<>>
  <2>1. cold = <<>> => Elements(cold) = {}
    BY DEF Elements
  <2> QED BY <1>1, <2>1
<1> QED BY <1>1, <1>2, <1>3, <1>4, <1>5 DEF ComingBack

LEMMA NextComesBack == ASSUME IInv, ComingBack, [Next]_vars PROVE ComingBack'
<1>1. CASE AddItem BY <1>1, AddComesBack
<1>2. CASE Restart BY <1>2, RestartComesBack
<1>3. CASE UpdateRates
  BY <1>3 DEF UpdateRates, Free, ComingBack, IsTable
<1>4. CASE \/ TeacherBegins \/ TeacherAdds \/ TeacherChecks \/ SubmitTeacherBatch
           \/ Drain \/ AddPacket \/ CheckSize \/ Recycle \/ SampleBatch \/ NothingSampled
           \/ Archive \/ Resumed
  <2>1. rates' = rates /\ phase' # "resume"
    BY <1>4 DEF TeacherBegins, TeacherAdds, TeacherChecks, SubmitTeacherBatch, Drain, AddPacket, CheckSize,
                Recycle, SampleBatch, NothingSampled, Archive, Resumed, Free, pool, trainer
  <2> QED BY <2>1 DEF ComingBack, IsTable
<1>5. CASE UNCHANGED vars
  <2>1. UNCHANGED <<phase, rates, records, items, saved>>
    BY <1>5 DEF vars, pool, trainer
  <2> QED BY <2>1 DEF ComingBack, IsTable, Fits, ScoredItems, QueuedItems
<1> QED BY <1>1, <1>2, <1>3, <1>4, <1>5 DEF Next

(* A pool within its bound comes back from a restart with all its scored   *)
(* records and their rates, in whatever order they are added again.        *)
THEOREM AlwaysResumeKeepsScored == Spec => ResumeKeepsScored
<1>1. Init => ComingBack
  BY DEF Init, ComingBack, IsTable, NoRates
<1>2. IInv /\ ComingBack /\ [Next]_vars => ComingBack'
  BY NextComesBack
<1>3. ComingBack /\ Resumed /\ Cardinality(saved.records) + Len(saved.cold) <= MaxSize
        => records = saved.records /\ rates = saved.rates
  BY NoItems DEF Resumed, ComingBack, Fits
<1>4. IInv /\ ComingBack /\ [Next]_vars =>
        (Resumed /\ Cardinality(saved.records) + Len(saved.cold) <= MaxSize
           => records = saved.records /\ rates = saved.rates)
  BY <1>3
<1> QED BY <1>1, <1>2, <1>4, Invariant, PTL DEF Spec, ResumeKeepsScored
=============================================================================
