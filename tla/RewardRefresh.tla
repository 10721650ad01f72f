----------------------------- MODULE RewardRefresh -----------------------------
(***************************************************************************)
(* The reward refresh of RayDAPOTrainer, from the moment the archive is    *)
(* about to be recycled until its records are back in the pool: a snapshot *)
(* of the lineage, an order of it from the leaves up, levels, new rewards  *)
(* level by level, and their way into the pool and the index.  Meanwhile   *)
(* the teacher's thread registers records, and the pool evicts some.       *)
(*                                                                         *)
(* A record has one parent, registered before it, so a lineage is a forest *)
(* in which records may have been evicted; the code for cycles is never    *)
(* reached.  Rewards are integers: Scale stands for 1.                     *)
(***************************************************************************)
EXTENDS Integers, Sequences, FiniteSets, FiniteSetsExt, SequencesExt

CONSTANTS
  MaxRecords,   \* the records are 1 .. MaxRecords, in the order of registration
  Scale,        \* the reward 1
  Reward,       \* the rewards of the recycled and of the new records
  Num, Den,     \* Num[r] / Den[r] is the policy_difficulty of record r
  MaxEvicted,   \* bound on the evictions during a refresh
  Modes,        \* subset of {"children", "path"}: refresh_mode
  None,         \* a record without a reward
  Gone          \* no record

Record == 1 .. MaxRecords

ASSUME SizeAssumption == MaxRecords \in Nat /\ Scale \in Nat \ {0} /\ MaxEvicted \in Nat
ASSUME RewardAssumption == Reward \subseteq -Scale .. Scale
ASSUME DifficultyAssumption == Num \in [Record -> Nat \ {0}] /\ Den \in [Record -> Nat \ {0}]
ASSUME ModeAssumption == Modes \subseteq {"children", "path"}
ASSUME NothingAssumption == None \notin Int /\ Gone \notin Int /\ None # Gone

VARIABLES
  mode,      \* refresh_mode, fixed for the run
  phase,     \* where the refresh is
  children,  \* _parent_to_children
  index,     \* _record_index: for each record, its reward, None or Gone
  pool,      \* the pool, likewise
  archive,   \* _trained_archive, likewise
  nodes,     \* the nodes of the snapshot
  edges,     \* the parent_to_children of the snapshot
  records,   \* the records of the snapshot
  queue,     \* q: the nodes to put in order next
  order,     \* order
  depth,     \* depth
  todo,      \* the nodes with children that are still to be refreshed
  out        \* the new rewards, by record

shared == <<children, index, pool, archive>>
snapshot == <<nodes, edges, records>>
vars == <<mode, phase, shared, snapshot, queue, order, depth, todo, out>>

Nothing == [r \in {} |-> r]
Placed == {order[i] : i \in 1 .. Len(order)}

(* The lineage: a record's parent has a smaller number, 0 is no parent.    *)
Forests == {f \in [Record -> 0 .. MaxRecords] : \A r \in Record : f[r] < r}

(* Before the refresh a record is in the archive, in the pool, with or     *)
(* without a reward, or evicted; the last one may not be registered yet.   *)
Init ==
  /\ mode \in Modes /\ phase = "begin"
  /\ \E parent \in Forests, registered \in {Record, Record \ {MaxRecords}} :
       /\ children = [p \in Record |-> {r \in registered : parent[r] = p}]
       /\ archive \in [Record -> Reward \cup {Gone}]
       /\ pool \in [Record -> {None, Scale, Gone}]
       /\ \A r \in Record : archive[r] = Gone \/ pool[r] = Gone
       /\ \A r \in Record \ registered : archive[r] = Gone /\ pool[r] = Gone
  /\ index = [r \in Record |-> IF archive[r] # Gone THEN archive[r] ELSE pool[r]]
  /\ nodes = {} /\ edges = [r \in Record |-> {}] /\ records = [r \in Record |-> Gone]
  /\ queue = <<>> /\ order = <<>> /\ depth = [r \in Record |-> 0]
  /\ todo = {} /\ out = Nothing

-----------------------------------------------------------------------------
(* _snapshot_lineage_and_records, under the inbox lock.  The leaves start  *)
(* the order, as they come out of a set.                                   *)
Snapshot ==
  /\ phase = "begin"
  /\ phase' = "order"
  /\ edges' = children /\ records' = index
  /\ nodes' = {r \in Record : index[r] # Gone \/ children[r] # {}} \cup UNION {children[r] : r \in Record}
  /\ queue' \in SetToSeqs({r \in nodes' : children[r] = {}})
  /\ UNCHANGED <<mode, shared, order, depth, todo, out>>

(* The depth of a node, from the depths its children have at that time.    *)
NewDepth(u) ==
  IF edges[u] = {} THEN 0 ELSE Max({depth[c] : c \in edges[u]}) + 1

(* Slip: a parent is next as soon as one of its children is in the order.  *)
Ready_Any(u) == {p \in nodes : u \in edges[p]}

(* The parents of a node whose children are all in the order.              *)
Ready(u) == {p \in nodes : u \in edges[p] /\ edges[p] \subseteq Placed \cup {u}}

(* One turn of _topo_from_leaves, and the depth _build_levels then gives   *)
(* the node; a node seen before is skipped.                                *)
PlaceNode ==
  /\ phase = "order" /\ queue # <<>>
  /\ LET u == Head(queue)
     IN \/ /\ u \in Placed
           /\ queue' = Tail(queue)
           /\ UNCHANGED <<order, depth>>
        \/ /\ u \notin Placed
           /\ order' = Append(order, u)
           /\ depth' = [depth EXCEPT ![u] = NewDepth(u)]
           /\ \E parents \in SetToSeqs(Ready(u)) : queue' = Tail(queue) \o parents
  /\ UNCHANGED <<mode, phase, shared, snapshot, todo, out>>

OrderComplete ==
  /\ phase = "order" /\ queue = <<>>
  /\ phase' = "refresh"
  /\ todo' = {u \in nodes : depth[u] > 0}
  /\ UNCHANGED <<mode, shared, snapshot, queue, order, depth, out>>

-----------------------------------------------------------------------------
(* The reward of a child counts for more if it is easier, and for less if  *)
(* it is harder; an evicted record has difficulty 1.                       *)
Adjusted(value, r) ==
  IF records[r] = Gone THEN value
  ELSE IF value >= 0 THEN (value * Den[r]) \div Num[r]
  ELSE -((-value * Num[r]) \div Den[r])

Clipped(value) == Max({-Scale, Min({Scale, value})})

(* The number of leaves below a node.                                      *)
LeafCount ==
  LET count[u \in Record] ==
        IF edges[u] = {} THEN 1 ELSE SumFunction([c \in edges[u] |-> count[c]])
  IN count

Weight(c) == IF mode = "path" THEN LeafCount[c] ELSE 1

(* Slip: the reward before the refresh, although the child has a new one.  *)
Current_Old(r) == IF records[r] = Gone THEN None ELSE records[r]

(* The new reward of a node in this refresh, or else the one it had.       *)
Current(r) ==
  IF r \in DOMAIN out THEN out[r] ELSE IF records[r] = Gone THEN None ELSE records[r]

(* Half its own reward, if it has one, and half the weighted mean of its   *)
(* children's.                                                             *)
NewReward(u, scored) ==
  LET total == SumFunction([c \in scored |-> Weight(c) * Adjusted(Current(c), c)])
      mean == total \div SumFunction([c \in scored |-> Weight(c)])
  IN Clipped(IF records[u] \in {None, Gone} THEN mean ELSE (records[u] + mean) \div 2)

(* A level is finished before the next one; within a level any order.      *)
RefreshNode ==
  /\ phase = "refresh"
  /\ \E u \in todo :
       LET scored == {c \in edges[u] : Current(c) # None}
       IN /\ \A v \in todo : depth[u] <= depth[v]
          /\ todo' = todo \ {u}
          /\ out' = IF scored = {} THEN out
                    ELSE [r \in DOMAIN out \cup {u} |-> IF r = u THEN NewReward(u, scored) ELSE out[r]]
  /\ UNCHANGED <<mode, phase, shared, snapshot, queue, order, depth>>

-----------------------------------------------------------------------------
(* The recycled record: with its new reward, if there is one.              *)
Recycled(r) == IF r \in DOMAIN out THEN out[r] ELSE archive[r]

(* Slip: the index is not brought up to date.                              *)
Reinsert_NoSync ==
  /\ phase = "refresh" /\ todo = {}
  /\ phase' = "done"
  /\ pool' = [r \in Record |-> IF archive[r] # Gone THEN Recycled(r) ELSE pool[r]]
  /\ archive' = [r \in Record |-> Gone]
  /\ UNCHANGED <<mode, index, children, snapshot, queue, order, depth, todo, out>>

(* The archive is emptied into the pool; the new rewards go to the pool's  *)
(* copies and to the index.                                                *)
Reinsert ==
  /\ phase = "refresh" /\ todo = {}
  /\ phase' = "done"
  /\ pool' = [r \in Record |-> IF archive[r] # Gone THEN Recycled(r) ELSE pool[r]]
  /\ index' = [r \in Record |-> IF archive[r] # Gone /\ index[r] # Gone THEN Recycled(r) ELSE index[r]]
  /\ archive' = [r \in Record |-> Gone]
  /\ UNCHANGED <<mode, children, snapshot, queue, order, depth, todo, out>>

-----------------------------------------------------------------------------
(* The teacher's thread goes on.  What it does between the snapshot and    *)
(* the end of the refresh it does right after the snapshot here: the steps *)
(* between read nothing but the snapshot, so a later moment is the same.   *)
Meanwhile == phase = "order" /\ order = <<>>

(* It registers the last record, and adds it to the pool; the parent is    *)
(* one registered before.                                                  *)
Unregistered(r) == index[r] = Gone /\ \A p \in Record : r \notin children[p]

Register ==
  /\ Meanwhile /\ Unregistered(MaxRecords)
  /\ \E p \in 0 .. MaxRecords - 1, value \in Reward \cup {None} :
       /\ children' = [q \in Record |-> IF q = p THEN children[q] \cup {MaxRecords} ELSE children[q]]
       /\ index' = [index EXCEPT ![MaxRecords] = value]
       /\ pool' = [pool EXCEPT ![MaxRecords] = value]
  /\ UNCHANGED <<mode, phase, archive, snapshot, queue, order, depth, todo, out>>

(* The pool, when the teacher's thread adds to it, evicts a record.  Not   *)
(* every eviction tells the index.                                         *)
Evict ==
  /\ Meanwhile
  /\ Cardinality({r \in Record : records[r] # Gone /\ pool[r] = Gone /\ archive[r] = Gone}) < MaxEvicted
  /\ \E r \in Record :
       /\ pool[r] # Gone
       /\ pool' = [pool EXCEPT ![r] = Gone]
       /\ index' = [index EXCEPT ![r] = Gone] \/ UNCHANGED index
  /\ UNCHANGED <<mode, phase, children, archive, snapshot, queue, order, depth, todo, out>>

Over == phase = "done" /\ UNCHANGED vars

Next ==
  \/ Snapshot \/ PlaceNode \/ OrderComplete \/ RefreshNode \/ Reinsert
  \/ Register \/ Evict \/ Over

Spec == Init /\ [][Next]_vars

-----------------------------------------------------------------------------
(* Children come before their parents, each node once, and in the end all  *)
(* nodes are there, whatever order the sets are walked in.                 *)
ChildrenFirst ==
  /\ \A i \in 1 .. Len(order) : edges[order[i]] \subseteq {order[j] : j \in 1 .. i - 1}
  /\ \A i, j \in 1 .. Len(order) : order[i] = order[j] => i = j
  /\ phase \notin {"begin", "order"} => Placed = nodes

(* The reference: the new reward by recursion from the node down, with no  *)
(* order and no levels, and the leaves below a node counted as a set.      *)
Below ==
  LET below[u \in Record] == {u} \cup UNION {below[c] : c \in edges[u]}
  IN below

Leaves(u) == {v \in Below[u] : edges[v] = {}}

Reference ==
  LET own(u) == IF records[u] = Gone THEN None ELSE records[u]
      share(c) == IF mode = "path" THEN Cardinality(Leaves(c)) ELSE 1
      value[u \in Record] ==
        LET scored == {c \in edges[u] : value[c] # None}
            mean == SumFunction([c \in scored |-> share(c) * Adjusted(value[c], c)])
                      \div SumFunction([c \in scored |-> share(c)])
        IN IF scored = {} THEN own(u)
           ELSE Clipped(IF own(u) = None THEN mean ELSE (own(u) + mean) \div 2)
  IN value

(* The levels compute what the recursion says: every node has seen the new *)
(* rewards of all its children, and passes them on although it may itself  *)
(* be evicted.  A record below which nothing is scored keeps its reward.   *)
RefreshedAsDefined ==
  \A u \in nodes \ todo :
    phase \in {"refresh", "done"} => Current(u) = Reference[u]

(* A record has one reward: its copies in the pool, the archive and the    *)
(* index agree, although the index is shared with the teacher's thread and *)
(* the copies are made anew when the archive is recycled.                  *)
CopiesAgree ==
  \A r \in Record :
    /\ pool[r] # Gone => index[r] = pool[r]
    /\ archive[r] # Gone => index[r] = archive[r]
=============================================================================
