---------------------------- MODULE PriorityDeque ----------------------------
(***************************************************************************)
(* What the "high" partition of the query pool promises its caller: a      *)
(* double-ended priority queue.  A push adds one item; a pop at either end *)
(* hands out the smallest (largest) item and removes it from BOTH ends.    *)
(* Nothing else changes the content.  Items with equal keys leave in the   *)
(* order in which they were pushed, at both ends.                          *)
(***************************************************************************)
EXTENDS Integers

CONSTANTS
  Record,   \* the records that can be pushed
  Reward,   \* the keys they can be pushed with: a set of integers
  Nothing   \* what a pop of an empty queue returns

VARIABLES
  items,    \* the items in the queue: [key, seq, rec]
  nextSeq,  \* the next sequence number
  out       \* the item the last pop returned, or Nothing

vars == <<items, nextSeq, out>>

(* e leaves before f at the small end, and at the large end.              *)
BeforeMin(e, f) == e.key < f.key \/ (e.key = f.key /\ e.seq < f.seq)
BeforeMax(e, f) == e.key > f.key \/ (e.key = f.key /\ e.seq < f.seq)

Init ==
  /\ items = {}
  /\ nextSeq = 0
  /\ out = Nothing

Push(rec, key) ==
  /\ items' = items \cup {[key |-> key, seq |-> nextSeq, rec |-> rec]}
  /\ nextSeq' = nextSeq + 1
  /\ UNCHANGED out

PopMin(e) ==
  /\ e \in items
  /\ \A f \in items \ {e} : BeforeMin(e, f)
  /\ items' = items \ {e}
  /\ out' = e
  /\ UNCHANGED nextSeq

PopMax(e) ==
  /\ e \in items
  /\ \A f \in items \ {e} : BeforeMax(e, f)
  /\ items' = items \ {e}
  /\ out' = e
  /\ UNCHANGED nextSeq

PopEmpty ==
  /\ items = {}
  /\ out' = Nothing
  /\ UNCHANGED <<items, nextSeq>>

Next ==
  \/ \E rec \in Record, key \in Reward : Push(rec, key)
  \/ \E e \in items : PopMin(e)
  \/ \E e \in items : PopMax(e)
  \/ PopEmpty

Spec == Init /\ [][Next]_vars
=============================================================================
