------------------------------ MODULE TwinHeap ------------------------------
(***************************************************************************)
(* The "high" partition of ThreadSafeQueryPool: a min-heap and a max-heap  *)
(* that mirror each other, and the set of sequence numbers that are still  *)
(* in the pool.  A pop at one end leaves its twin behind in the other heap *)
(* as a stale entry; stale entries are thrown away when they reach the top *)
(* (_clean_high_min_top, _clean_high_max_top) or by the periodic           *)
(* _deep_clean_heaps.  A heap is the set of its entries: heapq only ever   *)
(* shows its least tuple, and sequence numbers make all tuples different.  *)
(* Every operation runs under the pool's lock, so each is one action.      *)
(***************************************************************************)
EXTENDS Integers, FiniteSets

CONSTANTS
  Record,     \* query records
  Reward,     \* the rewards a record can have: a set of integers
  Nothing,    \* the None a pop of an empty side returns
  BatchSize,  \* batch_size of the deep clean (10000 in the code)
  MaxSeq      \* bound on the sequence numbers the model hands out

ASSUME RewardAssumption == Reward \subseteq Int
ASSUME BoundAssumption == BatchSize \in Nat /\ MaxSeq \in Nat

VARIABLES
  minHeap,     \* _high_heap_min
  maxHeap,     \* _high_heap_max
  activeHigh,  \* _active_high
  nextSeq,     \* _seq
  out          \* the entry the last pop returned, or Nothing

vars == <<minHeap, maxHeap, activeHigh, nextSeq, out>>

Entry == [key : Int, seq : Nat, rec : Record]

(* Tuple order of the two heaps: (reward, seq) and (-reward, seq).         *)
BeforeMin(e, f) == e.key < f.key \/ (e.key = f.key /\ e.seq < f.seq)
BeforeMax(e, f) == e.key > f.key \/ (e.key = f.key /\ e.seq < f.seq)

Active(heap) == {e \in heap : e.seq \in activeHigh}

(* Slip: a pop takes the top without dropping stale entries first.         *)
CleanMinTop_Stale == minHeap

(* A heap without the stale entries that precede its first active one.     *)
CleanMinTop == {e \in minHeap : \E f \in Active(minHeap) : ~BeforeMin(e, f)}
CleanMaxTop == {e \in maxHeap : \E f \in Active(maxHeap) : ~BeforeMax(e, f)}

Init ==
  /\ minHeap = {}
  /\ maxHeap = {}
  /\ activeHigh = {}
  /\ nextSeq = 0
  /\ out = Nothing

(* _push_high_unlocked: one entry into both heaps, under a new number.     *)
PushHigh(rec, reward) ==
  LET e == [key |-> reward, seq |-> nextSeq, rec |-> rec]
  IN /\ nextSeq < MaxSeq
     /\ minHeap' = minHeap \cup {e}
     /\ maxHeap' = maxHeap \cup {e}
     /\ activeHigh' = activeHigh \cup {nextSeq}
     /\ nextSeq' = nextSeq + 1
     /\ UNCHANGED out

(* _pop_high_min_unlocked and _remove_high_heap_min_unlocked: drop stale   *)
(* tops, then take the top.  The twin in maxHeap is not touched.           *)
PopHighMin ==
  /\ UNCHANGED <<maxHeap, nextSeq>>
  /\ \/ /\ CleanMinTop = {}
        /\ minHeap' = {}
        /\ out' = Nothing
        /\ UNCHANGED activeHigh
     \/ \E e \in CleanMinTop :
          /\ \A f \in CleanMinTop \ {e} : BeforeMin(e, f)
          /\ minHeap' = CleanMinTop \ {e}
          /\ activeHigh' = activeHigh \ {e.seq}
          /\ out' = e

(* Slip: the popped entry stays active, so its twin can be popped again.   *)
PopHighMax_StaysActive ==
  \E e \in Active(maxHeap) :
    /\ \A f \in Active(maxHeap) \ {e} : BeforeMax(e, f)
    /\ maxHeap' = CleanMaxTop \ {e}
    /\ out' = e
    /\ UNCHANGED <<minHeap, activeHigh, nextSeq>>

(* _pop_high_max_unlocked and _remove_high_heap_max_unlocked.              *)
PopHighMax ==
  /\ UNCHANGED <<minHeap, nextSeq>>
  /\ \/ /\ CleanMaxTop = {}
        /\ maxHeap' = {}
        /\ out' = Nothing
        /\ UNCHANGED activeHigh
     \/ \E e \in CleanMaxTop :
          /\ \A f \in CleanMaxTop \ {e} : BeforeMax(e, f)
          /\ maxHeap' = CleanMaxTop \ {e}
          /\ activeHigh' = activeHigh \ {e.seq}
          /\ out' = e

(* _peek_high_front_reward_unlocked cleans the top of the min side.        *)
PeekHighFront ==
  /\ minHeap' = CleanMinTop
  /\ UNCHANGED <<maxHeap, activeHigh, nextSeq, out>>

(* _deep_clean_heaps_unlocked: each heap is rebuilt from its active        *)
(* entries when it is long, or more than half of it is stale.              *)
NeedsDeepClean(heap) ==
  \/ Cardinality(heap) > BatchSize
  \/ Cardinality(heap) > 2 * Cardinality(activeHigh)

DeepCleaned(heap) == IF NeedsDeepClean(heap) THEN Active(heap) ELSE heap

DeepClean ==
  /\ minHeap' = DeepCleaned(minHeap)
  /\ maxHeap' = DeepCleaned(maxHeap)
  /\ UNCHANGED <<activeHigh, nextSeq, out>>

Next ==
  \/ \E rec \in Record, reward \in Reward : PushHigh(rec, reward)
  \/ PopHighMin
  \/ PopHighMax
  \/ PeekHighFront
  \/ DeepClean

Spec == Init /\ [][Next]_vars

-----------------------------------------------------------------------------
(* Type invariant.                                                         *)
TypeOK ==
  /\ minHeap \subseteq Entry
  /\ maxHeap \subseteq Entry
  /\ activeHigh \subseteq Nat
  /\ nextSeq \in Nat
  /\ out \in Entry \cup {Nothing}

(* Both heaps hold the same active entries and no active number is lost:   *)
(* _high_size_unlocked, which counts _active_high, never counts an item    *)
(* that one of the two heaps can no longer hand out.                       *)
Mirrored ==
  /\ Active(minHeap) = Active(maxHeap)
  /\ activeHigh = {e.seq : e \in Active(minHeap)}

(* A number names one push: entries with the same number, stale or not, in *)
(* either heap, are the same entry, and the next number is unused.         *)
SeqNamesEntry ==
  /\ \A e, f \in minHeap \cup maxHeap : e.seq = f.seq => e = f
  /\ \A e \in minHeap \cup maxHeap : e.seq < nextSeq

(* Lazy deletion is invisible: the two heaps implement the double-ended    *)
(* priority queue whose content is the active entries.                     *)
Deque == INSTANCE PriorityDeque WITH items <- Active(minHeap)

DequeSpec == Deque!Spec
=============================================================================
