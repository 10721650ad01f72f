-------------------------- MODULE RewardRefreshProofs --------------------------
(***************************************************************************)
(* What TLAPS proves of RewardRefresh, for any number of records: the      *)
(* order made from the leaves up has children before parents, each node    *)
(* once and, when the queue is empty, every node; the copies of a record   *)
(* have one reward; and the new rewards are those of the recursive         *)
(* definition, for any difficulties.                                       *)
(***************************************************************************)
EXTENDS RewardRefresh, FiniteSetTheorems, WellFoundedInduction, TLAPS

(* The lineage is a forest, numbered in the order of registration.         *)
IsLineage(f) ==
  f \in [Record -> SUBSET Record] /\ \A p \in Record : \A c \in f[p] : p < c

(* The tables have one entry for each record.                              *)
IsTable(f) == f = [r \in Record |-> f[r]]

Tables ==
  /\ IsLineage(children) /\ IsTable(index) /\ IsTable(pool) /\ IsTable(archive)
  /\ \A r \in Record : archive[r] = Gone \/ pool[r] = Gone

(* A node is queued only when its children are in the order; and one whose *)
(* children are is in the order or queued.                                 *)
Ordering ==
  /\ IsLineage(edges) /\ nodes \subseteq Record
  /\ \A p \in nodes : edges[p] \subseteq nodes
  /\ order \in Seq(Record) /\ queue \in Seq(Record) /\ Placed \subseteq nodes
  /\ phase = "begin" => order = <<>> /\ queue = <<>>
  /\ \A i \in 1 .. Len(queue) : queue[i] \in nodes /\ edges[queue[i]] \subseteq Placed
  /\ phase = "order" =>
       \A u \in nodes \ Placed : edges[u] \subseteq Placed => \E i \in 1 .. Len(queue) : queue[i] = u

IInv == Tables /\ Ordering /\ ChildrenFirst /\ CopiesAgree

(* A list of a finite set has all its elements.                            *)
LEMMA Listing ==
  ASSUME NEW S, IsFiniteSet(S), NEW list \in SetToSeqs(S)
  PROVE  /\ list \in Seq(S)
         /\ \A x \in S : \E i \in 1 .. Len(list) : list[i] = x
<1> DEFINE D == 1 .. Cardinality(S)
<1>1. Cardinality(S) \in Nat
  BY FS_CardinalityType
<1>2. list \in [D -> S] /\ \A i, j \in D : i # j => list[i] # list[j]
  BY DEF SetToSeqs
<1>3. list \in Injection(D, S)
  BY <1>2 DEF Injection, IsInjective
<1>4. IsFiniteSet(D) /\ Cardinality(D) = Cardinality(S)
  BY <1>1, FS_Interval
<1>5. list \in Surjection(D, S)
  BY <1>3, <1>4, FS_Injection
<1>6. Len(list) = Cardinality(S) /\ list \in Seq(S)
  BY <1>1, <1>2
<1> QED BY <1>5, <1>6 DEF Surjection

(* Of a set of records that is not empty, one is the last.                 *)
LEMMA LastRecord ==
  ASSUME NEW S \in SUBSET Record, S # {}
  PROVE  \E u \in S : \A v \in S : v <= u
<1> DEFINE T == {MaxRecords - u : u \in S}
           R == OpToRel(<, Nat)
<1>1. T \subseteq Nat /\ T # {}
  <2>1. \A u \in S : MaxRecords - u \in Nat
    BY SizeAssumption DEF Record
  <2> QED BY <2>1
<1>2. PICK x \in T : \A y \in T : ~(<<y, x>> \in R)
  BY <1>1, WFMin, NatLessThanWellFounded
<1>3. \A y \in T : ~(y < x)
  BY <1>1, <1>2 DEF OpToRel
<1>4. PICK u \in S : x = MaxRecords - u
  OBVIOUS
<1>5. \A v \in S : v <= u
  <2> TAKE v \in S
  <2>1. MaxRecords - v \in T
    OBVIOUS
  <2>2. ~(MaxRecords - v < MaxRecords - u)
    BY <1>3, <1>4, <2>1
  <2> QED BY <2>2, SizeAssumption DEF Record
<1> QED BY <1>5

-----------------------------------------------------------------------------
LEMMA InitInvariant == Init => IInv
<1> SUFFICES ASSUME Init PROVE IInv
  OBVIOUS
<1> USE DEF Init
<1>1. IsLineage(children)
  <2>1. PICK parent \in Forests, registered \in {Record, Record \ {MaxRecords}} :
          children = [p \in Record |-> {r \in registered : parent[r] = p}]
    OBVIOUS
  <2> QED BY <2>1 DEF IsLineage, Forests
<1>2. Tables
  BY <1>1 DEF Tables, IsTable
<1>3. Ordering
  BY DEF Ordering, IsLineage, Placed
<1>4. ChildrenFirst
  BY DEF ChildrenFirst
<1>5. CopiesAgree
  BY DEF CopiesAgree
<1> QED BY <1>2, <1>3, <1>4, <1>5 DEF IInv

(* The snapshot is a lineage, and its leaves are queued.                   *)
LEMMA SnapshotInvariant == ASSUME IInv, Snapshot PROVE IInv'
<1> USE DEF IInv, Snapshot, shared
<1> DEFINE leaves == {r \in nodes' : children[r] = {}}
<1>1. Tables' /\ CopiesAgree'
  BY DEF Tables, CopiesAgree, IsTable, IsLineage
<1>2. /\ edges' = children /\ IsLineage(edges') /\ nodes' \subseteq Record
      /\ \A p \in nodes' : edges'[p] \subseteq nodes'
  BY DEF Tables, IsLineage
<1>3. order = <<>> /\ order' = <<>> /\ Placed' = {}
  BY DEF Ordering, Placed
<1>4. queue' \in Seq(leaves) /\ \A u \in leaves : \E i \in 1 .. Len(queue') : queue'[i] = u
  <2>1. IsFiniteSet(Record)
    BY SizeAssumption, FS_Interval DEF Record
  <2>2. IsFiniteSet(leaves)
    BY <1>2, <2>1, FS_Subset
  <2>3. queue' \in SetToSeqs(leaves)
    BY <1>2
  <2> HIDE DEF leaves
  <2> QED BY <2>2, <2>3, Listing
<1>5. \A i \in 1 .. Len(queue') : queue'[i] \in leaves
  BY <1>4
<1>6. queue' \in Seq(Record)
  BY <1>2, <1>4
<1>7. Ordering'
  BY <1>2, <1>3, <1>4, <1>5, <1>6 DEF Ordering, IsLineage
<1>8. ChildrenFirst'
  BY <1>3 DEF ChildrenFirst
<1> QED BY <1>1, <1>7, <1>8

(* A node that is placed has its children in the order already.  Only its  *)
(* parents can become ready by it, and these are queued.                   *)
LEMMA PlaceInvariant == ASSUME IInv, PlaceNode PROVE IInv'
<1> USE DEF IInv, PlaceNode
<1> DEFINE u == Head(queue)
<1>0. phase = "order" /\ phase' = "order" /\ UNCHANGED <<shared, snapshot>>
  OBVIOUS
<1>1. Tables' /\ CopiesAgree'
  BY <1>0 DEF Tables, CopiesAgree, IsTable, IsLineage, shared
<1>2. /\ queue \in Seq(Record) /\ queue # <<>> /\ Len(queue) \in Nat \ {0} /\ u = queue[1]
      /\ u \in nodes /\ edges[u] \subseteq Placed
  BY DEF Ordering
<1>3. /\ Tail(queue) \in Seq(Record) /\ Len(Tail(queue)) = Len(queue) - 1
      /\ \A i \in 1 .. Len(queue) - 1 : Tail(queue)[i] = queue[i + 1]
  BY <1>2
<1>4. CASE u \in Placed /\ queue' = Tail(queue) /\ UNCHANGED order
  <2>0. /\ Len(queue') = Len(queue) - 1
        /\ \A i \in 1 .. Len(queue) - 1 : queue'[i] = queue[i + 1]
        /\ queue' \in Seq(Record)
    BY <1>3, <1>4
  <2>1. Placed' = Placed
    BY <1>4 DEF Placed
  <2>2. \A v \in nodes \ Placed :
          edges[v] \subseteq Placed => \E i \in 1 .. Len(queue') : queue'[i] = v
    <3> TAKE v \in nodes \ Placed
    <3> HAVE edges[v] \subseteq Placed
    <3>1. PICK i \in 1 .. Len(queue) : queue[i] = v
      BY <1>0 DEF Ordering
    <3>2. i # 1
      BY <1>2, <1>4, <3>1
    <3>3. i - 1 \in 1 .. Len(queue) - 1 /\ (i - 1) + 1 = i
      BY <1>2, <3>2
    <3>4. queue'[i - 1] = v
      BY <2>0, <3>1, <3>3
    <3> QED BY <2>0, <3>3, <3>4
  <2>3. \A i \in 1 .. Len(queue') : queue'[i] \in nodes /\ edges[queue'[i]] \subseteq Placed
    <3> TAKE i \in 1 .. Len(queue')
    <3>1. i + 1 \in 1 .. Len(queue) /\ queue'[i] = queue[i + 1]
      BY <1>2, <2>0
    <3> QED BY <3>1 DEF Ordering
  <2>4. Ordering'
    BY <1>0, <1>4, <2>0, <2>1, <2>2, <2>3 DEF Ordering, snapshot, IsLineage
  <2>5. ChildrenFirst'
    <3>1. order' = order /\ edges' = edges /\ phase' = "order"
      BY <1>0, <1>4 DEF snapshot
    <3> HIDE DEF IInv, PlaceNode
    <3>2. ChildrenFirst
      BY DEF IInv
    <3>3. /\ \A i \in 1 .. Len(order) : edges[order[i]] \subseteq {order[j] : j \in 1 .. i - 1}
          /\ \A i, j \in 1 .. Len(order) : order[i] = order[j] => i = j
      BY <3>2, Zenon DEF ChildrenFirst
    <3>4. /\ \A i \in 1 .. Len(order') : edges'[order'[i]] \subseteq {order'[j] : j \in 1 .. i - 1}
          /\ \A i, j \in 1 .. Len(order') : order'[i] = order'[j] => i = j
      BY <3>1, <3>3, SMTT(60)
    <3> QED BY <3>1, <3>4, Zenon DEF ChildrenFirst
  <2> QED BY <1>1, <2>4, <2>5
<1>5. CASE /\ u \notin Placed /\ order' = Append(order, u)
           /\ \E parents \in SetToSeqs(Ready(u)) : queue' = Tail(queue) \o parents
  <2>1. PICK parents \in SetToSeqs(Ready(u)) : queue' = Tail(queue) \o parents
    BY <1>5
  <2>2. Ready(u) \subseteq nodes /\ Ready(u) \subseteq Record
    BY DEF Ready, Ordering
  <2>3. parents \in Seq(Ready(u)) /\ \A p \in Ready(u) : \E i \in 1 .. Len(parents) : parents[i] = p
    <3>1. IsFiniteSet(Ready(u))
      BY <2>2, SizeAssumption, FS_Interval, FS_Subset DEF Record
    <3> QED BY <3>1, Listing
  <2>4. /\ queue' \in Seq(Record) /\ Len(queue') = Len(queue) - 1 + Len(parents)
        /\ Len(parents) \in Nat
        /\ \A i \in 1 .. Len(queue) - 1 : queue'[i] = queue[i + 1]
        /\ \A i \in 1 .. Len(parents) : queue'[Len(queue) - 1 + i] = parents[i]
    <3> DEFINE tail == Tail(queue)
    <3>1. parents \in Seq(Record)
      BY <2>2, <2>3
    <3>2. /\ tail \in Seq(Record) /\ Len(tail) = Len(queue) - 1
          /\ \A i \in 1 .. Len(queue) - 1 : tail[i] = queue[i + 1]
      BY <1>3
    <3>3. queue' = tail \o parents
      BY <2>1
    <3> HIDE DEF tail
    <3>4. /\ queue' \in Seq(Record) /\ Len(queue') = Len(tail) + Len(parents)
          /\ \A i \in 1 .. Len(tail) : queue'[i] = tail[i]
          /\ \A i \in 1 .. Len(parents) : queue'[Len(tail) + i] = parents[i]
      BY <3>1, <3>2, <3>3
    <3>5. \A i \in 1 .. Len(queue) - 1 : queue'[i] = queue[i + 1]
      BY <3>2, <3>4
    <3>6. \A i \in 1 .. Len(parents) : queue'[Len(queue) - 1 + i] = parents[i]
      BY <3>2, <3>4
    <3>7. Len(parents) \in Nat
      BY <3>1
    <3> QED BY <3>2, <3>4, <3>5, <3>6, <3>7
  <2>5. /\ order' \in Seq(Record) /\ Len(order') = Len(order) + 1 /\ Len(order) \in Nat
        /\ order'[Len(order) + 1] = u
        /\ \A i \in 1 .. Len(order) : order'[i] = order[i]
    BY <1>2, <1>5 DEF Ordering
  <2>6. Placed' = Placed \cup {u}
    <3>1. \A i \in 1 .. Len(order') : order'[i] \in Placed \cup {u}
      BY <2>5 DEF Placed
    <3>2. \A x \in Placed \cup {u} : \E i \in 1 .. Len(order') : order'[i] = x
      <4>1. \A x \in Placed : \E i \in 1 .. Len(order) : order[i] = x
        BY DEF Placed
      <4>2. Len(order') \in 1 .. Len(order') /\ \A i \in 1 .. Len(order) : i \in 1 .. Len(order')
        BY <2>5
      <4> QED BY <2>5, <4>1, <4>2
    <3> QED BY <3>1, <3>2 DEF Placed
  <2>7. \A i \in 1 .. Len(queue') : queue'[i] \in nodes /\ edges[queue'[i]] \subseteq Placed'
    <3> TAKE i \in 1 .. Len(queue')
    <3>1. CASE i \in 1 .. Len(queue) - 1
      BY <1>2, <2>4, <2>6, <3>1 DEF Ordering
    <3>2. CASE i \in Len(queue) .. Len(queue')
      <4>1. i - (Len(queue) - 1) \in 1 .. Len(parents)
        BY <1>2, <2>4, <3>2
      <4>2. queue'[i] \in Ready(u)
        <5> DEFINE j == i - (Len(queue) - 1)
        <5>1. queue'[Len(queue) - 1 + j] = parents[j]
          BY <2>4, <4>1
        <5>2. Len(queue) - 1 + j = i
          BY <1>2, <3>2
        <5> QED BY <2>3, <4>1, <5>1, <5>2
      <4> QED BY <2>2, <2>6, <4>2 DEF Ready
    <3> QED BY <1>2, <2>4, <3>1, <3>2
  <2>8. \A v \in nodes \ Placed' :
          edges[v] \subseteq Placed' => \E i \in 1 .. Len(queue') : queue'[i] = v
    <3> TAKE v \in nodes \ Placed'
    <3> HAVE edges[v] \subseteq Placed'
    <3>1. CASE u \in edges[v]
      <4>1. v \in Ready(u)
        BY <2>6, <3>1 DEF Ready
      <4>2. PICK i \in 1 .. Len(parents) : parents[i] = v
        BY <2>3, <4>1
      <4> QED BY <1>2, <2>4, <4>2
    <3>2. CASE u \notin edges[v]
      <4>1. edges[v] \subseteq Placed /\ v \notin Placed /\ v # u
        BY <2>6, <3>2
      <4>2. PICK i \in 1 .. Len(queue) : queue[i] = v
        BY <1>0, <4>1 DEF Ordering
      <4>3. i - 1 \in 1 .. Len(queue) - 1
        BY <1>2, <4>1, <4>2
      <4>4. queue'[i - 1] = v
        BY <1>2, <2>4, <4>2, <4>3
      <4> QED BY <1>2, <2>4, <4>3, <4>4
    <3> QED BY <3>1, <3>2
  <2>9. Ordering'
    BY <1>0, <1>2, <2>4, <2>5, <2>6, <2>7, <2>8 DEF Ordering, snapshot, IsLineage
  <2>10. ChildrenFirst'
    <3>1. \A i \in 1 .. Len(order') : edges'[order'[i]] \subseteq {order'[j] : j \in 1 .. i - 1}
      <4> TAKE i \in 1 .. Len(order')
      <4>0. edges' = edges
        BY <1>0 DEF snapshot
      <4>1. CASE i \in 1 .. Len(order)
        <5>1. edges[order[i]] \subseteq {order[j] : j \in 1 .. i - 1}
          BY <4>1 DEF ChildrenFirst
        <5>2. \A j \in 1 .. i - 1 : order'[j] = order[j]
          BY <2>5, <4>1
        <5>3. {order[j] : j \in 1 .. i - 1} = {order'[j] : j \in 1 .. i - 1}
          BY <5>2
        <5> QED BY <2>5, <4>0, <4>1, <5>1, <5>3
      <4>2. CASE i = Len(order) + 1
        <5>1. i - 1 = Len(order)
          BY <2>5, <4>2
        <5>2. Placed = {order[j] : j \in 1 .. i - 1}
          BY <5>1 DEF Placed
        <5>3. \A j \in 1 .. i - 1 : order'[j] = order[j]
          BY <2>5, <5>1
        <5>4. {order[j] : j \in 1 .. i - 1} = {order'[j] : j \in 1 .. i - 1}
          BY <5>3
        <5>5. order'[i] = u
          BY <2>5, <4>2
        <5>6. edges[u] \subseteq {order'[j] : j \in 1 .. i - 1}
          BY <1>2, <5>2, <5>4
        <5> QED BY <4>0, <5>5, <5>6
      <4>3. i \in 1 .. Len(order) \/ i = Len(order) + 1
        BY <2>5
      <4> QED BY <4>1, <4>2, <4>3
    <3>2. \A i, j \in 1 .. Len(order') : order'[i] = order'[j] => i = j
      BY <1>5, <2>5 DEF ChildrenFirst, Placed
    <3> QED BY <1>0, <3>1, <3>2 DEF ChildrenFirst
  <2> QED BY <1>1, <2>9, <2>10
<1> QED BY <1>4, <1>5

(* With an empty queue nothing is left: the last node that is not in the   *)
(* order would have all its children there, and hence be queued.           *)
LEMMA CompleteInvariant == ASSUME IInv, OrderComplete PROVE IInv'
<1> USE DEF IInv, OrderComplete
<1>1. Tables' /\ CopiesAgree'
  BY DEF Tables, CopiesAgree, IsTable, IsLineage, shared
<1>2. nodes \subseteq Placed
  <2> SUFFICES ASSUME nodes \ Placed # {} PROVE FALSE
    OBVIOUS
  <2>1. nodes \ Placed \in SUBSET Record
    BY DEF Ordering
  <2>2. PICK u \in nodes \ Placed : \A v \in nodes \ Placed : v <= u
    BY <2>1, LastRecord
  <2>3. \A c \in edges[u] : c \in nodes /\ c \in Record /\ u \in Record /\ u < c
    BY <2>1 DEF Ordering, IsLineage
  <2>4. edges[u] \subseteq Placed
    BY <2>2, <2>3 DEF Record
  <2> QED BY <2>4 DEF Ordering
<1>3. Ordering'
  BY DEF Ordering, Placed, snapshot, IsLineage
<1>4. ChildrenFirst'
  <2>1. Placed' = Placed /\ Placed = nodes /\ nodes' = nodes
    BY <1>2 DEF Ordering, Placed, snapshot
  <2>2. edges' = edges /\ order' = order
    BY DEF snapshot
  <2> QED BY <2>1, <2>2 DEF ChildrenFirst
<1> QED BY <1>1, <1>3, <1>4

(* The other steps leave the order alone.                                  *)
LEMMA SameOrder ==
  ASSUME Ordering, ChildrenFirst, UNCHANGED <<snapshot, queue, order>>,
         phase' = phase \/ (phase = "refresh" /\ phase' = "done")
  PROVE  Ordering' /\ ChildrenFirst'
BY DEF Ordering, ChildrenFirst, Placed, snapshot, IsLineage

LEMMA NextInvariant == IInv /\ [Next]_vars => IInv'
<1> SUFFICES ASSUME IInv, [Next]_vars PROVE IInv'
  OBVIOUS
<1> USE DEF IInv
<1>1. CASE Snapshot BY <1>1, SnapshotInvariant
<1>2. CASE PlaceNode BY <1>2, PlaceInvariant
<1>3. CASE OrderComplete BY <1>3, CompleteInvariant
<1>4. CASE RefreshNode
  BY <1>4, SameOrder DEF RefreshNode, Tables, CopiesAgree, IsTable, IsLineage, shared
<1>5. CASE Reinsert
  <2>1. Ordering' /\ ChildrenFirst'
    BY <1>5, SameOrder DEF Reinsert
  <2>2. Tables'
    BY <1>5 DEF Reinsert, Tables, IsTable, IsLineage
  <2>3. CopiesAgree'
    BY <1>5 DEF Reinsert, CopiesAgree
  <2> QED BY <2>1, <2>2, <2>3
<1>6. CASE Register
  <2>1. Ordering' /\ ChildrenFirst'
    BY <1>6, SameOrder DEF Register
  <2>2. PICK p \in 0 .. MaxRecords - 1, value \in Reward \cup {None} :
          /\ children' = [q \in Record |-> IF q = p THEN children[q] \cup {MaxRecords} ELSE children[q]]
          /\ index' = [index EXCEPT ![MaxRecords] = value]
          /\ pool' = [pool EXCEPT ![MaxRecords] = value]
    BY <1>6 DEF Register
  <2>3. index[MaxRecords] = Gone /\ UNCHANGED archive
    BY <1>6 DEF Register, Unregistered
  <2>4. Tables'
    <3>1. archive[MaxRecords] = Gone \/ MaxRecords \notin Record
      BY <2>3 DEF CopiesAgree
    <3>2. IsLineage(children')
      <4>1. children' \in [Record -> SUBSET Record]
        BY <2>2, SizeAssumption DEF Tables, IsLineage, Record
      <4>2. \A q \in Record : \A c \in children'[q] : q < c
        BY <2>2, SizeAssumption DEF Tables, IsLineage, Record
      <4> QED BY <4>1, <4>2 DEF IsLineage
    <3>3. IsTable(index') /\ IsTable(pool') /\ IsTable(archive')
      BY <2>2, <2>3 DEF Tables, IsTable
    <3>4. \A r \in Record : archive'[r] = Gone \/ pool'[r] = Gone
      BY <2>2, <2>3, <3>1 DEF Tables, IsTable
    <3> QED BY <3>2, <3>3, <3>4 DEF Tables
  <2>5. CopiesAgree'
    BY <2>2, <2>3, RewardAssumption, NothingAssumption DEF CopiesAgree, Tables, IsTable
  <2> QED BY <2>1, <2>4, <2>5
<1>7. CASE Evict
  <2>1. Ordering' /\ ChildrenFirst'
    BY <1>7, SameOrder DEF Evict
  <2>2. PICK r \in Record :
          /\ pool[r] # Gone /\ pool' = [pool EXCEPT ![r] = Gone]
          /\ index' = [index EXCEPT ![r] = Gone] \/ UNCHANGED index
    BY <1>7 DEF Evict
  <2>3. UNCHANGED <<children, archive>>
    BY <1>7 DEF Evict
  <2>4. Tables'
    BY <2>2, <2>3 DEF Tables, IsTable, IsLineage
  <2>5. CopiesAgree'
    BY <2>2, <2>3 DEF CopiesAgree, Tables, IsTable
  <2> QED BY <2>1, <2>4, <2>5
<1>8. CASE UNCHANGED vars
  BY <1>8, SameOrder DEF vars, shared, Tables, CopiesAgree, IsTable, IsLineage
<1> QED BY <1>1, <1>2, <1>3, <1>4, <1>5, <1>6, <1>7, <1>8 DEF Next, Over

-----------------------------------------------------------------------------
THEOREM Invariant == Spec => []IInv
BY InitInvariant, NextInvariant, PTL DEF Spec

(* The order of the lineage has children before parents, each node once,   *)
(* and when it is used it has them all, for every forest and every order   *)
(* in which sets are walked.                                               *)
THEOREM AlwaysChildrenFirst == Spec => []ChildrenFirst
<1>1. IInv => ChildrenFirst
  BY DEF IInv
<1> QED BY <1>1, Invariant, PTL

(* The copies of a record in the pool, the archive and the index agree.    *)
THEOREM AlwaysCopiesAgree == Spec => []CopiesAgree
<1>1. IInv => CopiesAgree
  BY DEF IInv
<1> QED BY <1>1, Invariant, PTL

-----------------------------------------------------------------------------
(* A set of naturals that is not empty has a least element.                *)
LEMMA LeastNatural ==
  ASSUME NEW S \in SUBSET Nat, S # {}
  PROVE  \E n \in S : \A m \in S : n <= m
<1> DEFINE R == OpToRel(<, Nat)
<1>1. PICK n \in S : \A m \in S : ~(<<m, n>> \in R)
  BY WFMin, NatLessThanWellFounded
<1>2. \A m \in S : ~(m < n)
  BY <1>1 DEF OpToRel
<1> QED BY <1>2

(* A recursion on X, one step of it at x given a guess v for the rest: it  *)
(* looks at smaller ranks only, and v solves it if no step changes v.      *)
Local(X, V, rank, step) ==
  \A v, w \in [X -> V], x \in X :
    (\A y \in X : rank[y] < rank[x] => v[y] = w[y]) => step[x][v] = step[x][w]

HasSolution(X, V, step) == \E v \in [X -> V] : v = [x \in X |-> step[x][v]]

(* A function on X may be defined by recursion on smaller ranks.           *)
LEMMA Recursion ==
  ASSUME NEW X, NEW V, V # {}, NEW N \in Nat, NEW rank \in [X -> 0 .. N],
         NEW step \in [X -> [[X -> V] -> V]],
         Local(X, V, rank, step)
  PROVE  HasSolution(X, V, step)
<1> DEFINE Defines(v, n) == \A x \in X : rank[x] < n => v[x] = step[x][v]
           bad == {n \in Nat : ~ \E v \in [X -> V] : Defines(v, n)}
<1>1. ASSUME bad # {} PROVE FALSE
  <2>1. PICK n \in bad : \A m \in bad : n <= m
    <3>1. bad \in SUBSET Nat OBVIOUS
    <3> HIDE DEF bad
    <3> QED BY <1>1, <3>1, LeastNatural
  <2>2. n \in Nat /\ ~ \E v \in [X -> V] : Defines(v, n)
    BY <2>1
  <2>3. CASE n = 0
    <3>1. PICK e \in V : TRUE OBVIOUS
    <3> DEFINE v == [x \in X |-> e]
    <3>2. v \in [X -> V] OBVIOUS
    <3>3. Defines(v, n) BY <2>3
    <3> HIDE DEF v, Defines
    <3> QED BY <2>2, <3>2, <3>3
  <2>4. CASE n # 0
    <3>1. n - 1 \in Nat /\ n - 1 \notin bad
      <4>1. n \in Nat /\ n # 0
        BY <2>2, <2>4
      <4> HIDE DEF bad
      <4> QED BY <2>1, <4>1
    <3>2. PICK v \in [X -> V] : Defines(v, n - 1)
      BY <3>1
    <3> DEFINE w == [x \in X |-> IF rank[x] < n - 1 THEN v[x] ELSE step[x][v]]
    <3>3. w \in [X -> V]
      OBVIOUS
    <3>4. ASSUME NEW x \in X, rank[x] < n PROVE w[x] = step[x][w]
      <4>1. w[x] = step[x][v]
        BY <3>2
      <4>2. \A y \in X : rank[y] < rank[x] => v[y] = w[y]
        BY <2>2, <3>4
      <4> HIDE DEF w
      <4>3. step[x][v] = step[x][w]
        BY <3>3, <4>2 DEF Local
      <4> QED BY <4>1, <4>3
    <3>5. Defines(w, n)
      BY <3>4
    <3> HIDE DEF w, Defines
    <3> QED BY <2>2, <3>3, <3>5
  <2> QED BY <2>3, <2>4
<1>2. PICK v \in [X -> V] : Defines(v, N + 1)
  <2>1. N + 1 \in Nat /\ N + 1 \notin bad
    <3> HIDE DEF bad
    <3> QED BY <1>1
  <2> HIDE DEF Defines
  <2> QED BY <2>1
<1>3. \A x \in X : rank[x] < N + 1
  OBVIOUS
<1>4. v = [x \in X |-> step[x][v]]
  BY <1>2, <1>3
<1> QED BY <1>4 DEF HasSolution

(* What holds of the empty set, and of a set if it holds without one of    *)
(* its elements, holds of a finite set.                                    *)
LEMMA SetInduction ==
  ASSUME NEW D, IsFiniteSet(D), NEW good \in SUBSET SUBSET D, {} \in good,
         \A s \in SUBSET D : s # {} => \E x \in s : s \ {x} \in good => s \in good
  PROVE  \A s \in SUBSET D : s \in good
<1> DEFINE sizes == {Cardinality(s) : s \in (SUBSET D) \ good}
<1>1. \A s \in SUBSET D : IsFiniteSet(s) /\ Cardinality(s) \in Nat
  BY FS_Subset, FS_CardinalityType
<1>2. ASSUME sizes # {} PROVE FALSE
  <2>1. PICK n \in sizes : \A m \in sizes : n <= m
    <3>1. sizes \in SUBSET Nat BY <1>1
    <3> HIDE DEF sizes
    <3> QED BY <1>2, <3>1, LeastNatural
  <2>2. PICK s \in (SUBSET D) \ good : n = Cardinality(s)
    BY <2>1
  <2>3. s # {}
    BY <2>2
  <2>4. PICK x \in s : s \ {x} \in good => s \in good
    BY <2>3
  <2>5. Cardinality(s \ {x}) = Cardinality(s) - 1
    BY <1>1, FS_RemoveElement
  <2>6. s \ {x} \in (SUBSET D) \ good
    BY <2>2, <2>4
  <2>7. Cardinality(s \ {x}) \in sizes
    BY <2>6
  <2>8. Cardinality(s) \in Nat /\ n <= Cardinality(s \ {x})
    BY <1>1, <2>1, <2>7
  <2> QED BY <2>2, <2>5, <2>8
<1> QED BY <1>2

(* SumFunction, which folds a function over its domain, in some order.     *)
HasSums(D, f) ==
  \E sum \in [SUBSET D -> Int] :
    /\ SumFunction(f) = sum[D] /\ sum[{}] = 0
    /\ \A s \in SUBSET D : s # {} => \E x \in s : sum[s] = f[x] + sum[s \ {x}]

LEMMA SumUnfolds ==
  ASSUME NEW D, IsFiniteSet(D), NEW f \in [D -> Int]
  PROVE  HasSums(D, f)
<1> DEFINE X == SUBSET D
           one(s) == CHOOSE x \in s : TRUE
           body(v, s) == IF s = {} THEN 0 ELSE f[one(s)] + v[s \ {one(s)}]
           step == [s \in X |-> [v \in [X -> Int] |-> body(v, s)]]
           rank == [s \in X |-> Cardinality(s)]
           N == Cardinality(D)
<1>1. \A s \in X : s # {} => one(s) \in s
  OBVIOUS
<1>2. N \in Nat /\ rank \in [X -> 0 .. N]
  BY FS_Subset, FS_CardinalityType
<1>3. step \in [X -> [[X -> Int] -> Int]]
  BY <1>1
<1>4. \A s \in X : s # {} => s \ {one(s)} \in X /\ rank[s \ {one(s)}] < rank[s]
  <2> SUFFICES ASSUME NEW s \in X, s # {}
               PROVE  s \ {one(s)} \in X /\ rank[s \ {one(s)}] < rank[s]
    OBVIOUS
  <2>1. one(s) \in s
    BY <1>1
  <2> HIDE DEF one
  <2>2. IsFiniteSet(s) /\ Cardinality(s) \in Nat
    BY FS_Subset, FS_CardinalityType
  <2>3. Cardinality(s \ {one(s)}) = Cardinality(s) - 1
    BY <2>1, <2>2, FS_RemoveElement
  <2> QED BY <2>1, <2>2, <2>3
<1>5. Local(X, Int, rank, step)
  <2> HIDE DEF one
  <2> SUFFICES ASSUME NEW v \in [X -> Int], NEW w \in [X -> Int], NEW s \in X,
                      \A y \in X : rank[y] < rank[s] => v[y] = w[y]
               PROVE step[s][v] = step[s][w]
    BY DEF Local
  <2>1. s # {} => v[s \ {one(s)}] = w[s \ {one(s)}]
    BY <1>4
  <2> QED BY <2>1
<1>6. PICK sum \in [X -> Int] : sum = [s \in X |-> step[s][sum]]
  <2>1. Int # {}
    OBVIOUS
  <2> HIDE DEF step, rank, X, N
  <2>2. HasSolution(X, Int, step)
    BY <1>2, <1>3, <1>5, <2>1, Recursion
  <2> QED BY <2>2 DEF HasSolution
<1>7. \E g : g = [s \in X |-> body(g, s)]
  <2>1. sum = [s \in X |-> body(sum, s)]
    BY <1>6
  <2> QED BY <2>1
<1> DEFINE iter == CHOOSE g : g = [s \in X |-> body(g, s)]
<1>8. iter = [s \in X |-> body(iter, s)]
  BY <1>7
<1>9. SumFunction(f) = iter[D]
  BY DEF SumFunction, SumFunctionOnSet, FoldFunctionOnSet, MapThenFoldSet
<1> HIDE DEF iter
<1>10. iter[{}] = 0
  BY <1>8
<1>11. \A s \in X : s # {} => iter[s] = f[one(s)] + iter[s \ {one(s)}]
  BY <1>8
<1>12. iter \in [X -> Int]
  <2> DEFINE good == {s \in X : iter[s] \in Int}
  <2>1. \A s \in X : s # {} => \E x \in s : s \ {x} \in good => s \in good
    <3> SUFFICES ASSUME NEW s \in X, s # {}
                 PROVE  \E x \in s : s \ {x} \in good => s \in good
      OBVIOUS
    <3> DEFINE x == one(s)
    <3>1. x \in s /\ iter[s] = f[x] + iter[s \ {x}]
      BY <1>1, <1>11
    <3> HIDE DEF x
    <3>2. f[x] \in Int
      BY <3>1
    <3>3. s \ {x} \in good => s \in good
      BY <3>1, <3>2
    <3> QED BY <3>1, <3>3
  <2>2. {} \in good /\ good \in SUBSET SUBSET D
    BY <1>10
  <2> HIDE DEF good
  <2>3. \A s \in X : s \in good
    BY <2>1, <2>2, SetInduction
  <2> QED BY <1>8, <2>3 DEF good
<1> HIDE DEF one
<1> QED BY <1>1, <1>9, <1>10, <1>11, <1>12 DEF HasSums

LEMMA SumIsInt ==
  ASSUME NEW D, IsFiniteSet(D), NEW f \in [D -> Int]
  PROVE  SumFunction(f) \in Int
<1>1. HasSums(D, f)
  BY SumUnfolds
<1> QED BY <1>1 DEF HasSums

(* A sum of positive numbers, and not of none, is positive: no mean of the *)
(* refresh is divided by zero.                                             *)
LEMMA SumIsPositive ==
  ASSUME NEW D, IsFiniteSet(D), NEW f \in [D -> Nat \ {0}], D # {}
  PROVE  SumFunction(f) \in Nat \ {0}
<1>1. f \in [D -> Int]
  OBVIOUS
<1>2. PICK sum \in [SUBSET D -> Int] :
        /\ SumFunction(f) = sum[D] /\ sum[{}] = 0
        /\ \A s \in SUBSET D : s # {} => \E x \in s : sum[s] = f[x] + sum[s \ {x}]
  <2>1. HasSums(D, f)
    BY <1>1, SumUnfolds
  <2> QED BY <2>1 DEF HasSums
<1> DEFINE good == {s \in SUBSET D : sum[s] >= 0 /\ (s # {} => sum[s] > 0)}
<1>3. {} \in good /\ good \in SUBSET SUBSET D
  BY <1>2
<1>4. \A s \in SUBSET D : s # {} => \E x \in s : s \ {x} \in good => s \in good
  <2> SUFFICES ASSUME NEW s \in SUBSET D, s # {}
               PROVE  \E x \in s : s \ {x} \in good => s \in good
    OBVIOUS
  <2>1. PICK x \in s : sum[s] = f[x] + sum[s \ {x}]
    BY <1>2
  <2>2. f[x] \in Nat /\ f[x] > 0 /\ sum[s] \in Int
    OBVIOUS
  <2>3. s \ {x} \in good => s \in good
    BY <2>1, <2>2
  <2> QED BY <2>3
<1>5. D \in good
  <2> HIDE DEF good
  <2> QED BY <1>3, <1>4, SetInduction
<1> QED BY <1>2, <1>5

(* The number of elements of a disjoint union is the sum of the parts'.    *)
LEMMA CountUnion ==
  ASSUME NEW D, IsFiniteSet(D), NEW U, NEW A \in [D -> SUBSET U], IsFiniteSet(U),
         \A c, d \in D : c # d => A[c] \cap A[d] = {}
  PROVE  Cardinality(UNION {A[c] : c \in D}) = SumFunction([c \in D |-> Cardinality(A[c])])
<1> DEFINE f == [c \in D |-> Cardinality(A[c])]
           union(s) == UNION {A[c] : c \in s}
<1>0. \A T \in SUBSET U : IsFiniteSet(T) /\ Cardinality(T) \in Nat
  BY FS_Subset, FS_CardinalityType
<1>1. f \in [D -> Int]
  BY <1>0
<1>2. PICK sum \in [SUBSET D -> Int] :
        /\ SumFunction(f) = sum[D] /\ sum[{}] = 0
        /\ \A s \in SUBSET D : s # {} => \E x \in s : sum[s] = f[x] + sum[s \ {x}]
  <2> HIDE DEF f
  <2>1. HasSums(D, f)
    BY <1>1, SumUnfolds
  <2> QED BY <2>1 DEF HasSums
<1> DEFINE good == {s \in SUBSET D : Cardinality(union(s)) = sum[s]}
<1>3. {} \in good /\ good \in SUBSET SUBSET D
  <2>1. union({}) = {}
    OBVIOUS
  <2> QED BY <1>2, <2>1, FS_EmptySet
<1>4. \A s \in SUBSET D : s # {} => \E x \in s : s \ {x} \in good => s \in good
  <2> SUFFICES ASSUME NEW s \in SUBSET D, s # {}
               PROVE  \E x \in s : s \ {x} \in good => s \in good
    OBVIOUS
  <2>1. PICK x \in s : sum[s] = f[x] + sum[s \ {x}]
    BY <1>2
  <2>2. /\ union(s) = A[x] \cup union(s \ {x})
        /\ A[x] \cap union(s \ {x}) = {}
        /\ union(s) \in SUBSET U /\ A[x] \in SUBSET U /\ union(s \ {x}) \in SUBSET U
    OBVIOUS
  <2> HIDE DEF union
  <2>3. Cardinality(union(s)) = Cardinality(A[x]) + Cardinality(union(s \ {x}))
    <3>1. Cardinality(A[x] \cup union(s \ {x})) =
            Cardinality(A[x]) + Cardinality(union(s \ {x})) - Cardinality(A[x] \cap union(s \ {x}))
      BY <1>0, <2>2, FS_Union
    <3>2. Cardinality(A[x] \cap union(s \ {x})) = 0
      BY <2>2, FS_EmptySet
    <3>3. Cardinality(A[x]) \in Nat /\ Cardinality(union(s \ {x})) \in Nat
      BY <1>0, <2>2
    <3> QED BY <2>2, <3>1, <3>2, <3>3
  <2>4. f[x] = Cardinality(A[x])
    OBVIOUS
  <2>5. s \ {x} \in good => s \in good
    BY <2>1, <2>3, <2>4
  <2> QED BY <2>5
<1>5. D \in good
  <2> HIDE DEF good
  <2> QED BY <1>3, <1>4, SetInduction
<1> QED BY <1>2, <1>5

-----------------------------------------------------------------------------
(* Recursion along the lineage.                                            *)
Height == [r \in Record |-> MaxRecords - r]

LEMMA FiniteRecords == IsFiniteSet(Record) /\ \A S \in SUBSET Record : IsFiniteSet(S)
<1>1. IsFiniteSet(Record)
  BY SizeAssumption, FS_Interval DEF Record
<1> QED BY <1>1, FS_Subset

FromChildren(e, V, step) ==
  \A u \in Record, v, w \in [Record -> V] :
    (\A c \in e[u] : v[c] = w[c]) => step[u][v] = step[u][w]

LEMMA LineageRecursion ==
  ASSUME NEW e, IsLineage(e), NEW V, V # {}, NEW step \in [Record -> [[Record -> V] -> V]],
         FromChildren(e, V, step)
  PROVE  HasSolution(Record, V, step)
<1>1. Height \in [Record -> 0 .. MaxRecords] /\ MaxRecords \in Nat
  BY SizeAssumption DEF Height, Record
<1>2. Local(Record, V, Height, step)
  <2> SUFFICES ASSUME NEW v \in [Record -> V], NEW w \in [Record -> V], NEW u \in Record,
                      \A y \in Record : Height[y] < Height[u] => v[y] = w[y]
               PROVE  step[u][v] = step[u][w]
    BY DEF Local
  <2>1. \A c \in e[u] : c \in Record /\ u < c
    BY DEF IsLineage
  <2>2. \A c \in e[u] : Height[c] < Height[u]
    BY <2>1, SizeAssumption DEF Height, Record
  <2> QED BY <2>1, <2>2 DEF FromChildren
<1> QED BY <1>1, <1>2, Recursion

(* The leaf counts are positive, and solve their recursion.                *)
LEMMA LeafCountUnfolds ==
  ASSUME IsLineage(edges)
  PROVE  /\ LeafCount \in [Record -> Nat \ {0}]
         /\ \A u \in Record : edges[u] = {} => LeafCount[u] = 1
         /\ \A u \in Record :
              edges[u] # {} => LeafCount[u] = SumFunction([c \in edges[u] |-> LeafCount[c]])
<1>0. PICK e : e = edges
  OBVIOUS
<1> DEFINE body(u, v) == IF e[u] = {} THEN 1 ELSE SumFunction([c \in e[u] |-> v[c]])
           step == [u \in Record |-> [v \in [Record -> Int] |-> body(u, v)]]
<1>1. IsLineage(e) /\ \A u \in Record : e[u] \in SUBSET Record /\ IsFiniteSet(e[u])
  BY <1>0, FiniteRecords DEF IsLineage
<1>2. step \in [Record -> [[Record -> Int] -> Int]]
  <2>1. ASSUME NEW u \in Record, NEW v \in [Record -> Int] PROVE body(u, v) \in Int
    <3>1. [c \in e[u] |-> v[c]] \in [e[u] -> Int]
      BY <1>1
    <3>2. SumFunction([c \in e[u] |-> v[c]]) \in Int
      BY <1>1, <3>1, SumIsInt
    <3> QED BY <3>2
  <2> QED BY <2>1
<1>3. FromChildren(e, Int, step)
  <2> SUFFICES ASSUME NEW u \in Record, NEW v \in [Record -> Int], NEW w \in [Record -> Int],
                      \A c \in e[u] : v[c] = w[c]
               PROVE  step[u][v] = step[u][w]
    BY DEF FromChildren
  <2>1. [c \in e[u] |-> v[c]] = [c \in e[u] |-> w[c]]
    OBVIOUS
  <2> QED BY <2>1
<1>4. PICK g : g = [u \in Record |-> body(u, g)] /\ g \in [Record -> Int]
  <2>1. HasSolution(Record, Int, step)
    <3>1. Int # {}
      OBVIOUS
    <3> HIDE DEF step
    <3> QED BY <1>1, <1>2, <1>3, <3>1, LineageRecursion
  <2>2. PICK g \in [Record -> Int] : g = [u \in Record |-> step[u][g]]
    BY <2>1 DEF HasSolution
  <2>3. g = [u \in Record |-> body(u, g)]
    BY <2>2
  <2> HIDE DEF body
  <2> QED BY <2>2, <2>3
<1>5. LeafCount = CHOOSE f : f = [u \in Record |-> body(u, f)]
  BY <1>0 DEF LeafCount
<1>6. LeafCount = [u \in Record |-> body(u, LeafCount)]
  <2> HIDE DEF body
  <2> QED BY <1>4, <1>5
<1>7. \A u \in Record : LeafCount[u] = body(u, LeafCount)
  <2> HIDE DEF body
  <2> QED BY <1>6
<1> DEFINE bad == {u \in Record : LeafCount[u] \notin Nat \ {0}}
<1>8. ASSUME bad # {} PROVE FALSE
  <2>1. PICK u \in bad : \A v \in bad : v <= u
    <3>1. bad \in SUBSET Record
      OBVIOUS
    <3>2. PICK b : b = bad
      OBVIOUS
    <3> HIDE DEF bad
    <3> QED BY <1>8, <3>1, <3>2, LastRecord
  <2>2. u \in Record /\ LeafCount[u] \notin Nat \ {0}
    BY <2>1
  <2>3. e[u] # {} /\ LeafCount[u] = SumFunction([c \in e[u] |-> LeafCount[c]])
    BY <1>7, <2>2
  <2>4. \A c \in e[u] : LeafCount[c] \in Nat \ {0}
    <3> TAKE c \in e[u]
    <3>1. c \in Record /\ u < c
      BY <1>1, <2>2 DEF IsLineage
    <3> QED BY <2>1, <2>2, <3>1 DEF Record
  <2>5. PICK f : f = [c \in e[u] |-> LeafCount[c]]
    OBVIOUS
  <2>6. f \in [e[u] -> Nat \ {0}]
    BY <2>4, <2>5
  <2>7. SumFunction(f) \in Nat \ {0}
    BY <1>1, <2>2, <2>3, <2>6, SumIsPositive
  <2> QED BY <2>2, <2>3, <2>5, <2>7
<1>9. LeafCount \in [Record -> Nat \ {0}]
  <2>1. \A u \in Record : LeafCount[u] \in Nat \ {0}
    BY <1>8
  <2>2. LeafCount = [u \in Record |-> LeafCount[u]]
    <3> HIDE DEF body
    <3> QED BY <1>6
  <2> QED BY <2>1, <2>2
<1> QED BY <1>0, <1>7, <1>9

-----------------------------------------------------------------------------
(* The nodes below a node, by recursion from the node down.                *)
LEMMA BelowUnfolds ==
  ASSUME IsLineage(edges)
  PROVE  /\ Below \in [Record -> SUBSET Record]
         /\ \A u \in Record : Below[u] = {u} \cup UNION {Below[c] : c \in edges[u]}
<1>0. PICK e : e = edges
  OBVIOUS
<1> DEFINE V == SUBSET Record
           body(u, v) == {u} \cup UNION {v[c] : c \in e[u]}
           step == [u \in Record |-> [v \in [Record -> V] |-> body(u, v)]]
<1>1. IsLineage(e) /\ \A u \in Record : e[u] \in SUBSET Record
  BY <1>0 DEF IsLineage
<1>2. step \in [Record -> [[Record -> V] -> V]]
  <2>1. ASSUME NEW u \in Record, NEW v \in [Record -> V] PROVE body(u, v) \in V
    BY <1>1
  <2> HIDE DEF body
  <2> QED BY <2>1
<1>3. FromChildren(e, V, step)
  <2> SUFFICES ASSUME NEW u \in Record, NEW v \in [Record -> V], NEW w \in [Record -> V],
                      \A c \in e[u] : v[c] = w[c]
               PROVE  step[u][v] = step[u][w]
    BY DEF FromChildren
  <2>1. body(u, v) = body(u, w)
    OBVIOUS
  <2> HIDE DEF body
  <2> QED BY <2>1
<1>4. PICK g \in [Record -> V] : g = [u \in Record |-> body(u, g)]
  <2>1. HasSolution(Record, V, step)
    <3>1. V # {}
      OBVIOUS
    <3> HIDE DEF step, V
    <3> QED BY <1>1, <1>2, <1>3, <3>1, LineageRecursion
  <2> HIDE DEF body
  <2>2. PICK g \in [Record -> V] : g = [u \in Record |-> step[u][g]]
    <3> HIDE DEF step
    <3> QED BY <2>1 DEF HasSolution
  <2>3. g = [u \in Record |-> body(u, g)]
    BY <2>2
  <2> QED BY <2>2, <2>3
<1>5. Below = CHOOSE f : f = [u \in Record |-> body(u, f)]
  BY <1>0 DEF Below
<1>6. Below = [u \in Record |-> body(u, Below)]
  <2> HIDE DEF body
  <2> QED BY <1>4, <1>5
<1>7. \A u \in Record : Below[u] = body(u, Below)
  <2> HIDE DEF body
  <2> QED BY <1>6
<1> DEFINE bad == {u \in Record : Below[u] \notin SUBSET Record}
<1>8. ASSUME bad # {} PROVE FALSE
  <2>1. PICK u \in bad : \A v \in bad : v <= u
    <3>1. bad \in SUBSET Record
      OBVIOUS
    <3>2. PICK b : b = bad
      OBVIOUS
    <3> HIDE DEF bad
    <3> QED BY <1>8, <3>1, <3>2, LastRecord
  <2>2. u \in Record /\ Below[u] \notin SUBSET Record
    BY <2>1
  <2>3. \A c \in e[u] : Below[c] \in SUBSET Record
    <3> TAKE c \in e[u]
    <3>1. c \in Record /\ u < c
      BY <1>1, <2>2 DEF IsLineage
    <3> QED BY <2>1, <2>2, <3>1 DEF Record
  <2> QED BY <1>7, <2>2, <2>3
<1>9. Below = [u \in Record |-> Below[u]]
  <2> HIDE DEF body
  <2> QED BY <1>6
<1> HIDE DEF body
<1>10. \A u \in Record : Below[u] \in SUBSET Record
  BY <1>8
<1> QED BY <1>0, <1>7, <1>9, <1>10 DEF body

(* What is below a node was registered after it.                           *)
LEMMA BelowAscends ==
  ASSUME IsLineage(edges)
  PROVE  \A u \in Record : \A x \in Below[u] : u <= x
<1> DEFINE bad == {u \in Record : \E x \in Below[u] : ~(u <= x)}
<1>1. ASSUME bad # {} PROVE FALSE
  <2>1. PICK u \in bad : \A v \in bad : v <= u
    <3>1. bad \in SUBSET Record
      OBVIOUS
    <3>2. PICK b : b = bad
      OBVIOUS
    <3> HIDE DEF bad
    <3> QED BY <1>1, <3>1, <3>2, LastRecord
  <2>2. PICK x \in Below[u] : ~(u <= x)
    BY <2>1
  <2>3. u \in Record /\ x \in Record /\ x # u
    BY <2>1, <2>2, BelowUnfolds DEF Record
  <2>4. PICK c \in edges[u] : x \in Below[c]
    BY <2>2, <2>3, BelowUnfolds
  <2>5. c \in Record /\ u < c
    BY <2>3 DEF IsLineage
  <2>6. c \notin bad
    BY <2>1, <2>3, <2>5 DEF Record
  <2> QED BY <2>2, <2>3, <2>4, <2>5, <2>6 DEF Record
<1> QED BY <1>1

(* A node below another has its parent there, too.                         *)
LEMMA ParentBelow ==
  ASSUME IsLineage(edges)
  PROVE  \A u \in Record : \A x \in Below[u] \ {u} : \E p \in Below[u] : x \in edges[p]
<1> DEFINE bad == {u \in Record : \E x \in Below[u] \ {u} : ~ \E p \in Below[u] : x \in edges[p]}
<1>1. ASSUME bad # {} PROVE FALSE
  <2>1. PICK u \in bad : \A v \in bad : v <= u
    <3>1. bad \in SUBSET Record
      OBVIOUS
    <3>2. PICK b : b = bad
      OBVIOUS
    <3> HIDE DEF bad
    <3> QED BY <1>1, <3>1, <3>2, LastRecord
  <2>2. PICK x \in Below[u] \ {u} : ~ \E p \in Below[u] : x \in edges[p]
    BY <2>1
  <2>3. u \in Record
    BY <2>1
  <2>4. PICK c \in edges[u] : x \in Below[c]
    BY <2>2, <2>3, BelowUnfolds
  <2>5. c \in Record /\ u < c /\ Below[c] \subseteq Below[u] /\ u \in Below[u]
    BY <2>3, BelowUnfolds DEF IsLineage
  <2>6. c \notin bad
    BY <2>1, <2>3, <2>5 DEF Record
  <2>7. x = c
    BY <2>2, <2>4, <2>5, <2>6
  <2> QED BY <2>2, <2>4, <2>5, <2>7
<1> QED BY <1>1

OneParent(e) == \A p, q \in Record : e[p] \cap e[q] # {} => p = q

(* Siblings have nothing below both: the first such node would have a      *)
(* parent that is one, too.                                                *)
LEMMA SiblingsApart ==
  ASSUME IsLineage(edges), OneParent(edges),
         NEW u \in Record, NEW a \in edges[u], NEW b \in edges[u], a # b
  PROVE  Below[a] \cap Below[b] = {}
<1> DEFINE both == Below[a] \cap Below[b]
<1>1. a \in Record /\ b \in Record /\ u < a /\ u < b
  BY DEF IsLineage
<1>2. both \in SUBSET Record
  BY <1>1, BelowUnfolds
<1>3. ASSUME both # {} PROVE FALSE
  <2>1. PICK x \in both : \A y \in both : x <= y
    <3>1. PICK s : s = both
      OBVIOUS
    <3>2. s \in SUBSET Nat /\ s # {}
      BY <1>2, <1>3, <3>1 DEF Record
    <3> HIDE DEF both
    <3> QED BY <3>1, <3>2, LeastNatural
  <2>2. u \notin Below[a] /\ u \notin Below[b]
    BY <1>1, BelowAscends DEF Record
  <2>3. x # a /\ x # b
    <3>1. ASSUME NEW r \in edges[u], NEW s \in edges[u], r # s, r \in Below[s], u \notin Below[s] PROVE FALSE
      <4>1. s \in Record /\ r \in Below[s] \ {s}
        BY <3>1 DEF IsLineage
      <4>2. PICK p \in Below[s] : r \in edges[p]
        BY <4>1, ParentBelow
      <4>3. p \in Record
        BY <4>1, BelowUnfolds
      <4>4. p = u
        BY <4>2, <4>3 DEF OneParent
      <4> QED BY <3>1, <4>2, <4>4
    <3> QED BY <2>2, <3>1
  <2>4. PICK p \in Below[a] : x \in edges[p]
    BY <1>1, <2>3, ParentBelow
  <2>5. PICK q \in Below[b] : x \in edges[q]
    BY <1>1, <2>3, ParentBelow
  <2>6. p \in Record /\ q \in Record
    BY <1>1, BelowUnfolds
  <2>7. p = q
    BY <2>4, <2>5, <2>6 DEF OneParent
  <2>8. p \in both /\ p < x /\ x \in Record
    BY <2>4, <2>6, <2>7, <1>2 DEF IsLineage
  <2> QED BY <2>1, <2>6, <2>8 DEF Record
<1> QED BY <1>3

(* The leaf counts, summed up from the children, count the leaves.         *)
LEMMA LeavesCounted ==
  ASSUME IsLineage(edges), OneParent(edges)
  PROVE  \A u \in Record : LeafCount[u] = Cardinality(Leaves(u))
<1> DEFINE bad == {u \in Record : LeafCount[u] # Cardinality(Leaves(u))}
<1>1. ASSUME bad # {} PROVE FALSE
  <2>1. PICK u \in bad : \A v \in bad : v <= u
    <3>1. bad \in SUBSET Record
      OBVIOUS
    <3>2. PICK b : b = bad
      OBVIOUS
    <3> HIDE DEF bad
    <3> QED BY <1>1, <3>1, <3>2, LastRecord
  <2>2. u \in Record /\ LeafCount[u] # Cardinality(Leaves(u))
    BY <2>1
  <2>3. \A c \in edges[u] : c \in Record /\ LeafCount[c] = Cardinality(Leaves(c))
    <3> TAKE c \in edges[u]
    <3>1. c \in Record /\ u < c
      BY <2>2 DEF IsLineage
    <3> QED BY <2>1, <2>2, <3>1 DEF Record
  <2>4. CASE edges[u] = {}
    <3>1. Below[u] = {u}
      BY <2>2, <2>4, BelowUnfolds
    <3>2. Leaves(u) = {u}
      BY <2>4, <3>1 DEF Leaves
    <3> QED BY <2>2, <2>4, <3>2, LeafCountUnfolds, FS_Singleton
  <2>5. CASE edges[u] # {}
    <3>1. PICK D, A : D = edges[u] /\ A = [c \in edges[u] |-> Leaves(c)]
      OBVIOUS
    <3>2. /\ IsFiniteSet(D) /\ A \in [D -> SUBSET Record]
          /\ \A c, d \in D : c # d => A[c] \cap A[d] = {}
      <4>1. edges[u] \in SUBSET Record
        BY <2>2 DEF IsLineage
      <4>2. \A c \in edges[u] : Leaves(c) \in SUBSET Record
        BY <4>1, BelowUnfolds DEF Leaves
      <4>3. \A c, d \in edges[u] : c # d => Leaves(c) \cap Leaves(d) = {}
        BY <2>2, SiblingsApart DEF Leaves
      <4> QED BY <3>1, <4>1, <4>2, <4>3, FiniteRecords
    <3>3. Cardinality(UNION {A[c] : c \in D}) = SumFunction([c \in D |-> Cardinality(A[c])])
      BY <3>2, FiniteRecords, CountUnion
    <3>4. UNION {A[c] : c \in D} = Leaves(u)
      <4>1. UNION {A[c] : c \in D} = UNION {Leaves(c) : c \in edges[u]}
        BY <3>1
      <4>2. Below[u] = {u} \cup UNION {Below[c] : c \in edges[u]}
        BY <2>2, BelowUnfolds
      <4> QED BY <2>5, <4>1, <4>2 DEF Leaves
    <3>5. [c \in D |-> Cardinality(A[c])] = [c \in edges[u] |-> LeafCount[c]]
      BY <2>3, <3>1
    <3>6. LeafCount[u] = SumFunction([c \in edges[u] |-> LeafCount[c]])
      BY <2>2, <2>5, LeafCountUnfolds
    <3> QED BY <2>2, <3>3, <3>4, <3>5, <3>6
  <2> QED BY <2>4, <2>5
<1> QED BY <1>1

-----------------------------------------------------------------------------
(* The recursion that Reference solves, for a guess v of the new rewards.  *)
Own(u) == IF records[u] = Gone THEN None ELSE records[u]
Share(c) == IF mode = "path" THEN Cardinality(Leaves(c)) ELSE 1

Mean(v, scored) ==
  SumFunction([c \in scored |-> Share(c) * Adjusted(v[c], c)])
    \div SumFunction([c \in scored |-> Share(c)])

Refreshed(v, u) ==
  LET scored == {c \in edges[u] : v[c] # None}
      mean == Mean(v, scored)
  IN IF scored = {} THEN Own(u)
     ELSE Clipped(IF Own(u) = None THEN mean ELSE (Own(u) + mean) \div 2)

RewardOrNone == Int \cup {None}

Scored == \A r \in Record : records[r] \in RewardOrNone \cup {Gone}

LEMMA ClippedIsInt == ASSUME NEW x \in Int PROVE Clipped(x) \in Int
<1>1. PICK y \in {Scale, x} : y = Min({Scale, x})
  <2>1. \E m \in {Scale, x} : \A n \in {Scale, x} : m <= n
    BY SizeAssumption
  <2> QED BY <2>1 DEF Min
<1>2. y \in Int /\ -Scale \in Int
  BY SizeAssumption
<1>3. \E m \in {-Scale, y} : \A n \in {-Scale, y} : m >= n
  BY <1>2
<1>4. Max({-Scale, y}) \in {-Scale, y}
  BY <1>3 DEF Max
<1> QED BY <1>1, <1>2, <1>4 DEF Clipped

LEMMA AdjustedIsInt == ASSUME NEW x \in Int, NEW r \in Record PROVE Adjusted(x, r) \in Int
<1>1. Num[r] \in Nat \ {0} /\ Den[r] \in Nat \ {0}
  BY DifficultyAssumption
<1>2. x * Den[r] \in Int /\ -x * Num[r] \in Int
  BY <1>1
<1>3. (x * Den[r]) \div Num[r] \in Int /\ (-x * Num[r]) \div Den[r] \in Int
  BY <1>1, <1>2
<1> QED BY <1>3 DEF Adjusted

LEMMA ShareIsPositive ==
  ASSUME IsLineage(edges), OneParent(edges), NEW c \in Record
  PROVE  Share(c) \in Nat \ {0} /\ Share(c) = Weight(c)
BY LeavesCounted, LeafCountUnfolds DEF Share, Weight

LEMMA MeanIsInt ==
  ASSUME IsLineage(edges), OneParent(edges), NEW v,
         NEW scored \in SUBSET Record, scored # {}, \A c \in scored : v[c] \in Int
  PROVE  Mean(v, scored) \in Int
<1>1. PICK f, g : /\ f = [c \in scored |-> Share(c) * Adjusted(v[c], c)]
                  /\ g = [c \in scored |-> Share(c)]
  OBVIOUS
<1>2. \A c \in scored : Share(c) \in Nat \ {0} /\ Adjusted(v[c], c) \in Int
  BY ShareIsPositive, AdjustedIsInt
<1>3. f \in [scored -> Int] /\ g \in [scored -> Nat \ {0}] /\ IsFiniteSet(scored)
  <2>1. \A c \in scored : Share(c) * Adjusted(v[c], c) \in Int
    BY <1>2
  <2> QED BY <1>1, <1>2, <2>1, FiniteRecords
<1>4. SumFunction(f) \in Int /\ SumFunction(g) \in Nat \ {0}
  BY <1>3, SumIsInt, SumIsPositive
<1> QED BY <1>1, <1>4 DEF Mean

LEMMA RefreshedIsScored ==
  ASSUME IsLineage(edges), OneParent(edges), Scored, NEW v \in [Record -> RewardOrNone], NEW u \in Record
  PROVE  Refreshed(v, u) \in RewardOrNone
<1> DEFINE scored == {c \in edges[u] : v[c] # None}
           mean == Mean(v, scored)
<1>1. Own(u) \in RewardOrNone
  BY DEF Own, Scored, RewardOrNone
<1>2. ASSUME scored # {} PROVE Refreshed(v, u) \in RewardOrNone
  <2>1. scored \in SUBSET Record /\ \A c \in scored : v[c] \in Int
    BY DEF IsLineage, RewardOrNone
  <2>2. PICK s : s = scored
    OBVIOUS
  <2>3. mean \in Int
    <3> HIDE DEF scored
    <3> QED BY <1>2, <2>1, <2>2, MeanIsInt
  <2>4. Refreshed(v, u) = Clipped(IF Own(u) = None THEN mean ELSE (Own(u) + mean) \div 2)
    BY <1>2 DEF Refreshed
  <2>5. PICK x : x = IF Own(u) = None THEN mean ELSE (Own(u) + mean) \div 2
    OBVIOUS
  <2> HIDE DEF mean
  <2>6. x \in Int
    BY <1>1, <2>3, <2>5 DEF RewardOrNone
  <2>7. Clipped(x) \in Int
    BY <2>6, ClippedIsInt
  <2> QED BY <2>4, <2>5, <2>7 DEF RewardOrNone
<1> QED BY <1>1, <1>2 DEF Refreshed

(* The reference solves its recursion.                                     *)
LEMMA ReferenceUnfolds ==
  ASSUME IsLineage(edges), OneParent(edges), Scored
  PROVE  \A u \in Record : Reference[u] = Refreshed(Reference, u)
<1> DEFINE V == RewardOrNone
           step == [u \in Record |-> [v \in [Record -> V] |-> Refreshed(v, u)]]
<1>0. PICK e, st : e = edges /\ st = step
  OBVIOUS
<1>1. IsLineage(e)
  BY <1>0
<1>2. st \in [Record -> [[Record -> V] -> V]]
  BY <1>0, RefreshedIsScored
<1>3. FromChildren(e, V, st)
  <2> SUFFICES ASSUME NEW u \in Record, NEW v \in [Record -> V], NEW w \in [Record -> V],
                      \A c \in e[u] : v[c] = w[c]
               PROVE  st[u][v] = st[u][w]
    BY DEF FromChildren
  <2> DEFINE S(g) == {c \in edges[u] : g[c] # None}
  <2>1. S(v) = S(w)
    BY <1>0
  <2>2. [c \in S(v) |-> Share(c) * Adjusted(v[c], c)] = [c \in S(v) |-> Share(c) * Adjusted(w[c], c)]
    BY <1>0
  <2>3. Mean(v, S(v)) = Mean(w, S(w))
    <3> HIDE DEF S
    <3> QED BY <2>1, <2>2 DEF Mean
  <2>4. Refreshed(v, u) = Refreshed(w, u)
    BY <2>1, <2>3 DEF Refreshed
  <2>5. st[u][v] = Refreshed(v, u) /\ st[u][w] = Refreshed(w, u)
    BY <1>0
  <2> QED BY <2>4, <2>5
<1>4. PICK g \in [Record -> V] : g = [u \in Record |-> Refreshed(g, u)]
  <2>1. HasSolution(Record, V, st)
    <3>1. V # {}
      BY DEF RewardOrNone
    <3> HIDE DEF V, step
    <3> QED BY <1>1, <1>2, <1>3, <3>1, LineageRecursion
  <2>2. PICK g \in [Record -> V] : g = [u \in Record |-> st[u][g]]
    <3> HIDE DEF step
    <3> QED BY <2>1 DEF HasSolution
  <2>3. g = [u \in Record |-> Refreshed(g, u)]
    BY <1>0, <2>2
  <2> QED BY <2>2, <2>3
<1>5. Reference = CHOOSE f : f = [u \in Record |-> Refreshed(f, u)]
  BY DEF Reference, Refreshed, Mean, Own, Share
<1>6. Reference = [u \in Record |-> Refreshed(Reference, u)]
  BY <1>4, <1>5
<1> QED BY <1>6

-----------------------------------------------------------------------------
(* A finite set of naturals has a greatest element.                        *)
LEMMA GreatestOf ==
  ASSUME NEW S \in SUBSET Nat, IsFiniteSet(S), S # {}
  PROVE  Max(S) \in S /\ \A x \in S : x <= Max(S)
<1> DEFINE good == {s \in SUBSET S : s = {} \/ \E m \in s : \A x \in s : m >= x}
<1>1. {} \in good /\ good \in SUBSET SUBSET S
  OBVIOUS
<1>2. \A s \in SUBSET S : s # {} => \E x \in s : s \ {x} \in good => s \in good
  <2> SUFFICES ASSUME NEW s \in SUBSET S, NEW x \in s, s \ {x} \in good PROVE s \in good
    OBVIOUS
  <2>1. CASE s \ {x} = {}
    <3>1. \A y \in s : x >= y
      BY <2>1
    <3> QED BY <3>1
  <2>2. CASE s \ {x} # {}
    <3>1. PICK m \in s \ {x} : \A y \in s \ {x} : m >= y
      BY <2>2
    <3>2. x \in Nat /\ m \in Nat /\ \A y \in s : y \in Nat
      OBVIOUS
    <3>3. \E n \in s : \A y \in s : n >= y
      <4>1. CASE m >= x
        BY <3>1, <4>1
      <4>2. CASE x >= m
        BY <3>1, <3>2, <4>2
      <4> QED BY <3>2, <4>1, <4>2
    <3> QED BY <3>3
  <2> QED BY <2>1, <2>2
<1>3. S \in good
  <2> HIDE DEF good
  <2> QED BY <1>1, <1>2, SetInduction
<1>4. \E m \in S : \A x \in S : m >= x
  BY <1>3
<1>5. Max(S) \in S /\ \A x \in S : Max(S) >= x
  BY <1>4 DEF Max
<1> QED BY <1>5

(* A record has one parent, in the lineage and in its snapshot.            *)
Forest == OneParent(children) /\ OneParent(edges)

(* What comes out of the snapshot is a reward, None or Gone.               *)
RewardsTyped ==
  /\ phase = "begin" => \A r \in Record : index[r] \in RewardOrNone \cup {Gone}
  /\ Scored

(* A node in the order is deeper than its children; the refresh starts     *)
(* with no results, and a node has none while it is to be refreshed.       *)
Levels ==
  /\ depth \in [Record -> Nat]
  /\ \A u \in Placed : \A c \in edges[u] : depth[c] < depth[u]
  /\ phase \in {"begin", "order"} => out = Nothing
  /\ DOMAIN out \cap todo = {}
  /\ phase \in {"refresh", "done"} => todo \subseteq nodes

RefreshInv == Forest /\ RewardsTyped /\ Levels /\ RefreshedAsDefined

LEMMA InitRefresh == Init => RefreshInv
<1> SUFFICES ASSUME Init PROVE RefreshInv
  OBVIOUS
<1>1. PICK parent \in Forests, registered \in {Record, Record \ {MaxRecords}} :
        children = [p \in Record |-> {r \in registered : parent[r] = p}]
  BY DEF Init
<1>2. Forest
  <2>1. OneParent(edges)
    BY DEF Init, OneParent
  <2> QED BY <1>1, <2>1 DEF Forest, OneParent
<1>3. RewardsTyped
  <2>1. /\ archive \in [Record -> Reward \cup {Gone}] /\ pool \in [Record -> {None, Scale, Gone}]
        /\ index = [r \in Record |-> IF archive[r] # Gone THEN archive[r] ELSE pool[r]]
        /\ records = [r \in Record |-> Gone]
    BY DEF Init
  <2>2. \A r \in Record : index[r] \in Reward \cup {None, Scale, Gone}
    BY <2>1
  <2>3. Reward \subseteq Int /\ Scale \in Int
    BY RewardAssumption, SizeAssumption
  <2> QED BY <2>1, <2>2, <2>3 DEF RewardsTyped, Scored, RewardOrNone
<1>4. Levels
  BY DEF Init, Levels, Placed, Nothing
<1>5. RefreshedAsDefined
  BY DEF Init, RefreshedAsDefined
<1> QED BY <1>2, <1>3, <1>4, <1>5 DEF RefreshInv

LEMMA SnapshotRefresh == ASSUME IInv, RefreshInv, Snapshot PROVE RefreshInv'
<1> USE DEF RefreshInv, Snapshot, shared
<1>1. Forest'
  BY DEF Forest, OneParent
<1>2. RewardsTyped'
  BY DEF RewardsTyped, Scored, RewardOrNone
<1>3. order' = <<>>
  BY DEF IInv, Ordering
<1>4. Placed' = {}
  BY <1>3 DEF Placed
<1>5. Levels'
  BY <1>4 DEF Levels, Nothing
<1>6. RefreshedAsDefined'
  BY DEF RefreshedAsDefined
<1> QED BY <1>1, <1>2, <1>5, <1>6

(* The node gets a depth when its children have theirs.                    *)
LEMMA PlaceRefresh == ASSUME IInv, RefreshInv, PlaceNode PROVE RefreshInv'
<1> USE DEF RefreshInv
<1> DEFINE u == Head(queue)
<1>1. /\ phase = "order" /\ queue # <<>>
      /\ UNCHANGED <<mode, phase, children, index, nodes, edges, records, todo, out>>
  BY DEF PlaceNode, shared, snapshot
<1>2. Forest' /\ RewardsTyped' /\ RefreshedAsDefined'
  BY <1>1 DEF Forest, OneParent, RewardsTyped, Scored, RewardOrNone, RefreshedAsDefined
<1>3. u \in nodes /\ edges[u] \subseteq Placed /\ u \in Record /\ Placed \subseteq Record
  <2>1. queue \in Seq(Record) /\ 1 \in 1 .. Len(queue) /\ u = queue[1]
    BY <1>1 DEF IInv, Ordering
  <2> HIDE DEF u
  <2> QED BY <2>1 DEF IInv, Ordering
<1>4. CASE UNCHANGED <<order, depth>>
  BY <1>1, <1>2, <1>4 DEF Levels, Placed, Nothing
<1>5. CASE u \notin Placed /\ order' = Append(order, u) /\ depth' = [depth EXCEPT ![u] = NewDepth(u)]
  <2>1. Placed' = Placed \cup {u}
    <3>1. order \in Seq(Record)
      BY DEF IInv, Ordering
    <3>2. Len(order') = Len(order) + 1 /\ Len(order) \in Nat
      BY <1>3, <1>5, <3>1
    <3>3. \A i \in 1 .. Len(order') : order'[i] = IF i <= Len(order) THEN order[i] ELSE u
      BY <1>3, <1>5, <3>1
    <3> HIDE DEF u
    <3>4. Placed' \subseteq Placed \cup {u}
      BY <3>2, <3>3 DEF Placed
    <3>5. Placed \subseteq Placed'
      BY <3>2, <3>3 DEF Placed
    <3>6. u \in Placed'
      <4>1. Len(order) + 1 \in 1 .. Len(order') /\ order'[Len(order) + 1] = u
        BY <3>2, <3>3
      <4> QED BY <4>1 DEF Placed
    <3> QED BY <3>4, <3>5, <3>6
  <2> DEFINE below == {depth[c] : c \in edges[u]}
  <2>2. NewDepth(u) \in Nat /\ \A c \in edges[u] : depth[c] < NewDepth(u)
    <3>1. CASE edges[u] = {}
      BY <3>1 DEF NewDepth
    <3>2. CASE edges[u] # {}
      <4>1. below \in SUBSET Nat /\ below # {}
        BY <1>3, <3>2 DEF Levels
      <4>2. IsFiniteSet(below)
        <5>1. IsFiniteSet(edges[u])
          BY <1>3, FiniteRecords
        <5>2. PICK D, f : D = edges[u] /\ f = [c \in edges[u] |-> depth[c]]
          OBVIOUS
        <5>3. IsFiniteSet({f[c] : c \in D})
          <6>1. f \in Surjection(D, {f[c] : c \in D})
            BY <5>2 DEF Surjection
          <6> QED BY <5>1, <5>2, <6>1, FS_Surjection
        <5>4. below = {f[c] : c \in D}
          BY <5>2
        <5> QED BY <5>3, <5>4
      <4>3. NewDepth(u) = Max(below) + 1
        BY <3>2 DEF NewDepth
      <4>4. PICK b : b = below
        OBVIOUS
      <4>5. Max(below) \in below /\ \A x \in below : x <= Max(below)
        <5> HIDE DEF below
        <5> QED BY <4>1, <4>2, <4>4, GreatestOf
      <4>6. \A c \in edges[u] : depth[c] \in below
        OBVIOUS
      <4> HIDE DEF below
      <4>7. \A c \in edges[u] : depth[c] <= Max(below) /\ depth[c] \in Nat /\ Max(below) \in Nat
        BY <4>1, <4>5, <4>6
      <4>8. Max(below) \in Nat
        BY <4>1, <4>5
      <4> QED BY <4>3, <4>7, <4>8
    <3> QED BY <3>1, <3>2
  <2>3. depth \in [Record -> Nat] /\ depth'[u] = NewDepth(u) /\ \A v \in Record \ {u} : depth'[v] = depth[v]
    BY <1>3, <1>5 DEF Levels
  <2> HIDE DEF u
  <2>4. depth' \in [Record -> Nat]
    BY <1>5, <2>2, <2>3
  <2>5. \A v \in Placed' : \A c \in edges[v] : depth'[c] < depth'[v]
    <3> SUFFICES ASSUME NEW v \in Placed', NEW c \in edges[v] PROVE depth'[c] < depth'[v]
      OBVIOUS
    <3>1. c \in Placed /\ c \in Record
      <4>1. edges[v] \subseteq Placed
        <5>1. CASE v = u BY <1>3, <5>1
        <5>2. CASE v \in Placed
          <6>1. PICK i \in 1 .. Len(order) : v = order[i]
            BY <5>2 DEF Placed
          <6>2. edges[v] \subseteq {order[j] : j \in 1 .. i - 1}
            BY <6>1 DEF IInv, ChildrenFirst
          <6>3. Len(order) \in Nat
            BY DEF IInv, Ordering
          <6> QED BY <6>1, <6>2, <6>3 DEF Placed
        <5> QED BY <2>1, <5>1, <5>2
      <4> QED BY <1>3, <4>1
    <3>2. c # u /\ depth'[c] = depth[c]
      BY <1>5, <2>3, <3>1
    <3>3. CASE v = u BY <2>2, <2>3, <3>2, <3>3
    <3>4. CASE v # u BY <1>3, <2>1, <2>3, <3>2, <3>4 DEF Levels
    <3> QED BY <3>3, <3>4
  <2>6. Levels'
    BY <1>1, <2>4, <2>5 DEF Levels, Nothing
  <2> QED BY <1>2, <2>6
<1>6. u \in Placed => UNCHANGED <<order, depth>>
  BY DEF PlaceNode
<1>7. u \notin Placed => order' = Append(order, u) /\ depth' = [depth EXCEPT ![u] = NewDepth(u)]
  BY DEF PlaceNode
<1> QED BY <1>4, <1>5, <1>6, <1>7

LEMMA SameReference == ASSUME UNCHANGED <<mode, edges, records>> PROVE Reference' = Reference
BY DEF Reference, Leaves, Below, Adjusted

(* A node without children keeps its reward, and is refreshed already.     *)
LEMMA CompleteRefresh == ASSUME IInv, RefreshInv, OrderComplete PROVE RefreshInv'
<1> USE DEF RefreshInv
<1>1. /\ phase = "order" /\ phase' = "refresh" /\ todo' = {u \in nodes : depth[u] > 0}
      /\ UNCHANGED <<mode, children, index, nodes, edges, records, order, depth, out>>
  BY DEF OrderComplete, shared, snapshot
<1>2. Forest' /\ RewardsTyped'
  BY <1>1 DEF Forest, OneParent, RewardsTyped, Scored, RewardOrNone
<1>3. Levels'
  BY <1>1 DEF Levels, Placed, Nothing
<1>4. RefreshedAsDefined'
  <2> SUFFICES ASSUME NEW u \in (nodes \ todo)' PROVE (Current(u) = Reference[u])'
    BY DEF RefreshedAsDefined
  <2>1. IInv'
    BY CompleteInvariant
  <2>2. u \in nodes /\ u \in Record /\ depth[u] = 0 /\ u \in Placed' /\ Placed' = Placed
    BY <1>1, <2>1 DEF IInv, Levels, Ordering, ChildrenFirst, Placed
  <2>3. edges[u] = {}
    <3>1. \A c \in edges[u] : c \in Record
      BY <2>2 DEF IInv, Ordering, IsLineage
    <3>2. \A c \in edges[u] : depth[c] < depth[u] /\ depth[c] \in Nat
      BY <2>2, <3>1 DEF Levels
    <3> QED BY <2>2, <3>2
  <2>4. Reference[u] = Refreshed(Reference, u)
    BY <2>2, ReferenceUnfolds DEF IInv, Ordering, Forest, RewardsTyped
  <2>5. Reference[u] = Own(u)
    BY <2>3, <2>4 DEF Refreshed
  <2>6. Reference' = Reference
    BY <1>1, SameReference
  <2>7. Current(u)' = Own(u)
    BY <1>1 DEF Own, Current, Levels, Nothing
  <2> QED BY <1>1, <2>5, <2>6, <2>7
<1> QED BY <1>2, <1>3, <1>4

(* The node is as low as any that is left, so its children have their new  *)
(* rewards, and those are the ones the recursion uses.                     *)
LEMMA NodeRefresh == ASSUME IInv, RefreshInv, RefreshNode PROVE RefreshInv'
<1> USE DEF RefreshInv
<1> DEFINE scored(u) == {c \in edges[u] : Current(c) # None}
<1>0. /\ phase = "refresh" /\ UNCHANGED <<mode, phase, children, index, nodes, edges, records, order, depth>>
  BY DEF RefreshNode, shared, snapshot
<1>1. PICK u \in todo :
        /\ \A v \in todo : depth[u] <= depth[v]
        /\ todo' = todo \ {u}
        /\ out' = IF scored(u) = {} THEN out
                  ELSE [r \in DOMAIN out \cup {u} |-> IF r = u THEN NewReward(u, scored(u)) ELSE out[r]]
  BY DEF RefreshNode
<1>2. Forest' /\ RewardsTyped'
  BY <1>0 DEF Forest, OneParent, RewardsTyped, Scored, RewardOrNone
<1>3. todo \subseteq nodes /\ nodes = Placed /\ nodes \subseteq Record /\ u \notin DOMAIN out
      /\ edges \in [Record -> SUBSET Record] /\ \A v \in nodes : edges[v] \subseteq nodes
  BY <1>0, <1>1 DEF Levels, IInv, ChildrenFirst, Ordering, IsLineage
<1>4. Levels'
  <2>1. DOMAIN out' \subseteq DOMAIN out \cup {u}
    BY <1>1
  <2> HIDE DEF scored
  <2> QED BY <1>0, <1>1, <1>3, <2>1 DEF Levels, Placed
<1>5. \A c \in edges[u] : c \in Record /\ Current(c) = Reference[c]
  <2> TAKE c \in edges[u]
  <2>1. c \in nodes /\ c \in Record /\ u \in Record
    BY <1>1, <1>3
  <2>2. depth[c] < depth[u] /\ depth[c] \in Nat /\ depth[u] \in Nat
    BY <1>1, <1>3, <2>1 DEF Levels
  <2>3. c \notin todo
    BY <1>1, <2>1, <2>2
  <2> QED BY <1>0, <2>1, <2>3 DEF RefreshedAsDefined
<1>6. IsLineage(edges) /\ OneParent(edges) /\ Scored /\ u \in Record
  BY <1>1, <1>3 DEF IInv, Ordering, Forest, RewardsTyped
<1>7. Reference[u] = Refreshed(Reference, u)
  BY <1>6, ReferenceUnfolds
<1>8. scored(u) = {c \in edges[u] : Reference[c] # None}
  BY <1>5
<1>9. CASE scored(u) = {}
  <2>1. Reference[u] = Own(u)
    BY <1>7, <1>8, <1>9 DEF Refreshed
  <2>2. out' = out
    BY <1>1, <1>9
  <2>3. Current(u) = Own(u)
    BY <1>3 DEF Current, Own
  <2>4. \A v : Current(v)' = Current(v)
    BY <1>0, <2>2 DEF Current
  <2>5. Reference' = Reference
    BY <1>0, SameReference
  <2>6. RefreshedAsDefined'
    BY <1>0, <1>1, <2>1, <2>3, <2>4, <2>5 DEF RefreshedAsDefined
  <2> QED BY <1>2, <1>4, <2>6
<1>10. CASE scored(u) # {}
  <2>1. /\ [c \in scored(u) |-> Weight(c) * Adjusted(Current(c), c)]
             = [c \in scored(u) |-> Share(c) * Adjusted(Reference[c], c)]
        /\ [c \in scored(u) |-> Weight(c)] = [c \in scored(u) |-> Share(c)]
    BY <1>5, <1>6, ShareIsPositive
  <2>2. PICK s : s = scored(u)
    OBVIOUS
  <2>3. NewReward(u, s) = Clipped(IF records[u] \in {None, Gone} THEN Mean(Reference, s)
                                  ELSE (records[u] + Mean(Reference, s)) \div 2)
    <3> HIDE DEF scored
    <3> QED BY <2>1, <2>2 DEF NewReward, Mean
  <2>4. Reference[u] = Clipped(IF Own(u) = None THEN Mean(Reference, s)
                               ELSE (Own(u) + Mean(Reference, s)) \div 2)
    <3> HIDE DEF scored
    <3> QED BY <1>7, <1>8, <1>10, <2>2 DEF Refreshed
  <2>5. NewReward(u, s) = Reference[u]
    BY <2>3, <2>4 DEF Own
  <2>6. out' = [r \in DOMAIN out \cup {u} |-> IF r = u THEN NewReward(u, s) ELSE out[r]]
    <3> HIDE DEF scored
    <3> QED BY <1>1, <1>10, <2>2
  <2>7. Current(u)' = Reference[u] /\ \A v : v # u => Current(v)' = Current(v)
    BY <1>0, <2>5, <2>6 DEF Current
  <2>8. Reference' = Reference
    BY <1>0, SameReference
  <2>9. RefreshedAsDefined'
    BY <1>0, <1>1, <2>7, <2>8 DEF RefreshedAsDefined
  <2> QED BY <1>2, <1>4, <2>9
<1> QED BY <1>9, <1>10

(* The teacher's thread registers a record under one parent; all else      *)
(* leaves the snapshot and the results alone.                              *)
LEMMA OtherRefresh ==
  ASSUME IInv, RefreshInv, Reinsert \/ Register \/ Evict \/ UNCHANGED vars
  PROVE  RefreshInv'
<1> USE DEF RefreshInv
<1>1. /\ UNCHANGED <<mode, nodes, edges, records, order, depth, todo, out>>
      /\ phase' = phase \/ (phase = "refresh" /\ todo = {} /\ phase' = "done")
      /\ phase = "begin" => UNCHANGED index
  BY DEF Reinsert, Register, Evict, vars, Meanwhile, snapshot, shared
<1>2. Forest'
  <2>1. CASE Register
    <3>1. PICK p \in 0 .. MaxRecords - 1 :
            children' = [q \in Record |-> IF q = p THEN children[q] \cup {MaxRecords} ELSE children[q]]
      BY <2>1 DEF Register
    <3>2. \A q \in Record : MaxRecords \notin children[q]
      BY <2>1 DEF Register, Unregistered
    <3>3. OneParent(children)'
      BY <3>1, <3>2 DEF Forest, OneParent
    <3> QED BY <1>1, <3>3 DEF Forest, OneParent
  <2>2. CASE UNCHANGED children
    BY <1>1, <2>2 DEF Forest, OneParent
  <2> QED BY <2>1, <2>2 DEF Reinsert, Evict, vars, shared
<1>3. RewardsTyped'
  BY <1>1 DEF RewardsTyped, Scored, RewardOrNone
<1>4. Levels'
  BY <1>1 DEF Levels, Placed, Nothing
<1>5. Reference' = Reference /\ \A v : Current(v)' = Current(v)
  BY <1>1, SameReference DEF Current
<1>6. RefreshedAsDefined'
  BY <1>1, <1>5 DEF RefreshedAsDefined
<1> QED BY <1>2, <1>3, <1>4, <1>6

LEMMA NextRefresh == IInv /\ RefreshInv /\ [Next]_vars => RefreshInv'
BY SnapshotRefresh, PlaceRefresh, CompleteRefresh, NodeRefresh, OtherRefresh DEF Next, Over

(* Whatever the lineage, the difficulties and the order in which sets are  *)
(* walked, a refreshed record has the reward that the recursion over its   *)
(* descendants gives it: in path mode, the leaf counts that are summed up  *)
(* level by level are the numbers of leaves.                               *)
THEOREM AlwaysRefreshedAsDefined == Spec => []RefreshedAsDefined
<1>1. RefreshInv => RefreshedAsDefined
  BY DEF RefreshInv
<1> QED BY <1>1, Invariant, InitRefresh, NextRefresh, PTL DEF Spec
=============================================================================
