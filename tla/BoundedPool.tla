----------------------------- MODULE BoundedPool -----------------------------
(***************************************************************************)
(* What a pool of training queries promises its trainer, whatever order it *)
(* keeps inside: it is as full as its capacity allows.  A record that is   *)
(* added costs another one its place only when the pool is full; a request *)
(* for k is answered with k records, or with all there are, and these go   *)
(* to the trainer; a new capacity drops the surplus and no more.           *)
(***************************************************************************)
EXTENDS PoolOps

CONSTANTS
  Record,      \* the records there are
  Capacities,  \* the capacities the pool can be given
  MaxBatch     \* the largest number of records in one request

VARIABLES
  members,   \* the records in the pool
  capacity,  \* how many it may hold
  taken      \* the records the trainer was given

vars == <<members, capacity, taken>>

Size == Cardinality(members)

Init ==
  /\ members = {}
  /\ capacity \in Capacities
  /\ taken = {}

(* Any one record makes room for a new one, perhaps the new one itself.    *)
Add(r) ==
  /\ r \notin members \cup taken
  /\ members' \subseteq members \cup {r}
  /\ Cardinality(members') = AtMost(Size + 1, capacity)
  /\ UNCHANGED <<capacity, taken>>

Sample(k) ==
  \E gone \in SUBSET members :
    /\ Cardinality(gone) = AtMost(k, Size)
    /\ members' = members \ gone
    /\ taken' = taken \cup gone
    /\ UNCHANGED capacity

SetCapacity(c) ==
  /\ capacity' = c
  /\ members' \subseteq members
  /\ Cardinality(members') = AtMost(Size, c)
  /\ UNCHANGED taken

(* The trainer gives records up, to add them again or to drop them.        *)
Return(batch) ==
  /\ taken' = taken \ batch
  /\ UNCHANGED <<members, capacity>>

Next ==
  \/ \E r \in Record : Add(r)
  \/ \E k \in 1 .. MaxBatch : Sample(k)
  \/ \E c \in Capacities : SetCapacity(c)
  \/ \E batch \in SUBSET taken : Return(batch)

Spec == Init /\ [][Next]_vars
=============================================================================
