--------------------------- MODULE TwinHeapProofs ---------------------------
(***************************************************************************)
(* The twin heaps of the high partition implement a double-ended priority  *)
(* queue, for any records, rewards and deep-clean threshold.  The          *)
(* inductive invariant says that the two heaps hold the same active        *)
(* entries and that a sequence number names one push: lazy deletion by     *)
(* number would otherwise delete, or revive, the wrong record.             *)
(*                                                                         *)
(* And the loop that pops candidates takes as many from the heaps as its   *)
(* closed form HighShare says, for any sizes and any request.              *)
(***************************************************************************)
EXTENDS TwinHeap, PopCandidates, TLAPS

IInv == TypeOK /\ Mirrored /\ SeqNamesEntry

(* Cleaning the top of a heap throws away no active entry, and the top of  *)
(* a cleaned heap is active.                                               *)
LEMMA CleanMinKeepsActive ==
  ASSUME TypeOK
  PROVE  /\ CleanMinTop \subseteq minHeap
         /\ Active(minHeap) \subseteq CleanMinTop
         /\ \A e \in CleanMinTop :
              (\A f \in CleanMinTop \ {e} : BeforeMin(e, f)) => e \in Active(minHeap)
<1>1. \A f \in minHeap : ~BeforeMin(f, f)
  BY DEF TypeOK, Entry, BeforeMin
<1>2. QED
  BY <1>1 DEF CleanMinTop, Active

(* The same at the other end.                                              *)
LEMMA CleanMaxKeepsActive ==
  ASSUME TypeOK
  PROVE  /\ CleanMaxTop \subseteq maxHeap
         /\ Active(maxHeap) \subseteq CleanMaxTop
         /\ \A e \in CleanMaxTop :
              (\A f \in CleanMaxTop \ {e} : BeforeMax(e, f)) => e \in Active(maxHeap)
<1>1. \A f \in maxHeap : ~BeforeMax(f, f)
  BY DEF TypeOK, Entry, BeforeMax
<1>2. QED
  BY <1>1 DEF CleanMaxTop, Active

(* How each operation changes the active entries of the two heaps.         *)
LEMMA PushAddsActive ==
  ASSUME IInv, NEW rec \in Record, NEW reward \in Reward, PushHigh(rec, reward)
  PROVE  LET e == [key |-> reward, seq |-> nextSeq, rec |-> rec]
         IN /\ e \in Entry
            /\ Active(minHeap)' = Active(minHeap) \cup {e}
            /\ Active(maxHeap)' = Active(maxHeap) \cup {e}
<1> DEFINE e == [key |-> reward, seq |-> nextSeq, rec |-> rec]
<1>1. e \in Entry /\ e.seq = nextSeq
  BY RewardAssumption DEF IInv, TypeOK, Entry
<1>2. \A f \in minHeap \cup maxHeap : f.seq # nextSeq
  BY DEF IInv, TypeOK, SeqNamesEntry, Entry
<1>3. /\ minHeap' = minHeap \cup {e}
      /\ maxHeap' = maxHeap \cup {e}
      /\ activeHigh' = activeHigh \cup {nextSeq}
  BY DEF PushHigh
<1> HIDE DEF e
<1>4. QED
  BY <1>1, <1>2, <1>3 DEF Active, e

(* A pop at either end removes the popped entry, and only it, from the     *)
(* active entries of both heaps.                                           *)
LEMMA PopMinRemovesActive ==
  ASSUME IInv, NEW e \in CleanMinTop, e \in Active(minHeap),
         minHeap' = CleanMinTop \ {e}, maxHeap' = maxHeap,
         activeHigh' = activeHigh \ {e.seq}
  PROVE  /\ Active(minHeap)' = Active(minHeap) \ {e}
         /\ Active(maxHeap)' = Active(maxHeap) \ {e}
<1>1. Active(minHeap) \subseteq CleanMinTop /\ CleanMinTop \subseteq minHeap
  BY CleanMinKeepsActive DEF IInv
<1>2. \A f \in minHeap \cup maxHeap : f.seq = e.seq => f = e
  BY <1>1 DEF IInv, SeqNamesEntry
<1>3. QED
  BY <1>1, <1>2 DEF Active

(* The same at the other end.                                              *)
LEMMA PopMaxRemovesActive ==
  ASSUME IInv, NEW e \in CleanMaxTop, e \in Active(maxHeap),
         maxHeap' = CleanMaxTop \ {e}, minHeap' = minHeap,
         activeHigh' = activeHigh \ {e.seq}
  PROVE  /\ Active(minHeap)' = Active(minHeap) \ {e}
         /\ Active(maxHeap)' = Active(maxHeap) \ {e}
<1>1. Active(maxHeap) \subseteq CleanMaxTop /\ CleanMaxTop \subseteq maxHeap
  BY CleanMaxKeepsActive DEF IInv
<1>2. \A f \in minHeap \cup maxHeap : f.seq = e.seq => f = e
  BY <1>1 DEF IInv, SeqNamesEntry
<1>3. QED
  BY <1>1, <1>2 DEF Active

(* A peek and a deep clean leave the active entries alone.                 *)
LEMMA CleaningKeepsActive ==
  ASSUME IInv, PeekHighFront \/ DeepClean
  PROVE  /\ minHeap' \subseteq minHeap /\ maxHeap' \subseteq maxHeap
         /\ Active(minHeap)' = Active(minHeap)
         /\ Active(maxHeap)' = Active(maxHeap)
<1>1. CASE PeekHighFront
  BY <1>1, CleanMinKeepsActive DEF IInv, PeekHighFront, Active
<1>2. CASE DeepClean
  BY <1>2 DEF DeepClean, DeepCleaned, Active
<1>3. QED
  BY <1>1, <1>2

-----------------------------------------------------------------------------
(* The empty partition satisfies the invariant.                            *)
LEMMA InitInvariant == Init => IInv
  BY DEF Init, IInv, TypeOK, Mirrored, SeqNamesEntry, Active

(* A push uses a number no entry has.                                      *)
LEMMA PushInvariant ==
  ASSUME IInv, NEW rec \in Record, NEW reward \in Reward, PushHigh(rec, reward)
  PROVE  IInv'
<1> DEFINE e == [key |-> reward, seq |-> nextSeq, rec |-> rec]
<1>1. /\ e \in Entry
      /\ Active(minHeap)' = Active(minHeap) \cup {e}
      /\ Active(maxHeap)' = Active(maxHeap) \cup {e}
  BY PushAddsActive
<1>2. e.seq = nextSeq
  OBVIOUS
<1>3. /\ minHeap' = minHeap \cup {e}
      /\ maxHeap' = maxHeap \cup {e}
      /\ activeHigh' = activeHigh \cup {nextSeq}
      /\ nextSeq' = nextSeq + 1
      /\ out' = out
  BY DEF PushHigh
<1> HIDE DEF e
<1>4. TypeOK'
  BY <1>1, <1>3 DEF IInv, TypeOK
<1>5. Mirrored'
  BY <1>1, <1>2, <1>3 DEF IInv, Mirrored
<1>6. SeqNamesEntry'
  BY <1>1, <1>2, <1>3 DEF IInv, TypeOK, SeqNamesEntry, Entry
<1>7. QED
  BY <1>4, <1>5, <1>6 DEF IInv

(* A pop keeps the twins mirrored: the popped number is active no more.    *)
LEMMA PopMinInvariant ==
  ASSUME IInv, PopHighMin
  PROVE  IInv'
<1>1. CASE CleanMinTop = {} /\ minHeap' = {} /\ out' = Nothing /\ UNCHANGED activeHigh
  <2>1. Active(minHeap) = {} /\ activeHigh = {}
    BY <1>1, CleanMinKeepsActive DEF IInv, Mirrored
  <2>2. QED
    BY <1>1, <2>1 DEF IInv, PopHighMin, TypeOK, Mirrored, SeqNamesEntry, Active
<1>2. ASSUME NEW e \in CleanMinTop,
             \A f \in CleanMinTop \ {e} : BeforeMin(e, f),
             minHeap' = CleanMinTop \ {e}, activeHigh' = activeHigh \ {e.seq}, out' = e
      PROVE  IInv'
  <2>1. maxHeap' = maxHeap /\ nextSeq' = nextSeq
    BY DEF PopHighMin
  <2>2. e \in Active(minHeap) /\ CleanMinTop \subseteq minHeap
    BY <1>2, CleanMinKeepsActive DEF IInv
  <2>3. /\ Active(minHeap)' = Active(minHeap) \ {e}
        /\ Active(maxHeap)' = Active(maxHeap) \ {e}
    BY <1>2, <2>1, <2>2, PopMinRemovesActive
  <2>4. TypeOK' /\ SeqNamesEntry'
    BY <1>2, <2>1, <2>2 DEF IInv, TypeOK, SeqNamesEntry
  <2>5. Mirrored'
    BY <1>2, <2>2, <2>3 DEF IInv, Mirrored, SeqNamesEntry, Active
  <2>6. QED
    BY <2>4, <2>5 DEF IInv
<1>3. QED
  BY <1>1, <1>2 DEF PopHighMin

(* The same at the other end.                                              *)
LEMMA PopMaxInvariant ==
  ASSUME IInv, PopHighMax
  PROVE  IInv'
<1>1. CASE CleanMaxTop = {} /\ maxHeap' = {} /\ out' = Nothing /\ UNCHANGED activeHigh
  <2>1. Active(maxHeap) = {} /\ activeHigh = {}
    BY <1>1, CleanMaxKeepsActive DEF IInv, Mirrored
  <2>2. QED
    BY <1>1, <2>1 DEF IInv, PopHighMax, TypeOK, Mirrored, SeqNamesEntry, Active
<1>2. ASSUME NEW e \in CleanMaxTop,
             \A f \in CleanMaxTop \ {e} : BeforeMax(e, f),
             maxHeap' = CleanMaxTop \ {e}, activeHigh' = activeHigh \ {e.seq}, out' = e
      PROVE  IInv'
  <2>1. minHeap' = minHeap /\ nextSeq' = nextSeq
    BY DEF PopHighMax
  <2>2. e \in Active(maxHeap) /\ CleanMaxTop \subseteq maxHeap
    BY <1>2, CleanMaxKeepsActive DEF IInv
  <2>3. /\ Active(minHeap)' = Active(minHeap) \ {e}
        /\ Active(maxHeap)' = Active(maxHeap) \ {e}
    BY <1>2, <2>1, <2>2, PopMaxRemovesActive
  <2>4. TypeOK' /\ SeqNamesEntry'
    BY <1>2, <2>1, <2>2 DEF IInv, TypeOK, SeqNamesEntry
  <2>5. Mirrored'
    BY <1>2, <2>2, <2>3 DEF IInv, Mirrored, SeqNamesEntry, Active
  <2>6. QED
    BY <2>4, <2>5 DEF IInv
<1>3. QED
  BY <1>1, <1>2 DEF PopHighMax

(* Cleaning throws away stale entries only.                                *)
LEMMA CleaningInvariant ==
  ASSUME IInv, PeekHighFront \/ DeepClean
  PROVE  IInv'
<1>1. /\ minHeap' \subseteq minHeap /\ maxHeap' \subseteq maxHeap
      /\ Active(minHeap)' = Active(minHeap)
      /\ Active(maxHeap)' = Active(maxHeap)
  BY CleaningKeepsActive
<1>2. activeHigh' = activeHigh /\ nextSeq' = nextSeq /\ out' = out
  BY DEF PeekHighFront, DeepClean
<1>3. QED
  BY <1>1, <1>2 DEF IInv, TypeOK, Mirrored, SeqNamesEntry

(* A stuttering step leaves the active entries alone.                      *)
LEMMA StutterKeepsActive ==
  ASSUME UNCHANGED vars
  PROVE  Active(minHeap)' = Active(minHeap)
  BY DEF vars, Active

(* Every step keeps the invariant: one case for each operation.            *)
LEMMA StepInvariant == IInv /\ [Next]_vars => IInv'
<1> SUFFICES ASSUME IInv, [Next]_vars
             PROVE  IInv'
  OBVIOUS
<1>1. CASE UNCHANGED vars
  BY <1>1 DEF vars, IInv, TypeOK, Mirrored, SeqNamesEntry, Active
<1>2. QED
  BY <1>1, PushInvariant, PopMinInvariant, PopMaxInvariant, CleaningInvariant DEF Next

(* The types of the heaps, of the active numbers and of what a pop hands   *)
(* out hold in every state.                                                *)
THEOREM TypeCorrect == Spec => []TypeOK
  BY InitInvariant, StepInvariant, PTL DEF Spec, IInv

(* The two heaps of the high partition never disagree about which entries  *)
(* are in the pool, whatever is pushed, popped and cleaned in between.     *)
THEOREM AlwaysMirrored == Spec => []Mirrored
  BY InitInvariant, StepInvariant, PTL DEF Spec, IInv

(* A sequence number is never reused while an entry that carries it, even  *)
(* a stale one, is in a heap.                                              *)
THEOREM AlwaysSeqNamesEntry == Spec => []SeqNamesEntry
  BY InitInvariant, StepInvariant, PTL DEF Spec, IInv

-----------------------------------------------------------------------------
(* The empty heaps are the empty queue.                                    *)
LEMMA InitRefines == Init => Deque!Init
  BY DEF Init, Deque!Init, Active

(* A push is a push, a pop a pop at the same end; cleaning is invisible.   *)
LEMMA StepRefines == IInv /\ [Next]_vars => [Deque!Next]_(Deque!vars)
<1> SUFFICES ASSUME IInv, [Next]_vars
             PROVE  Deque!Next \/ UNCHANGED Deque!vars
  OBVIOUS
<1>1. ASSUME NEW rec \in Record, NEW reward \in Reward, PushHigh(rec, reward)
      PROVE  Deque!Next
  <2>1. Deque!Push(rec, reward)
    BY <1>1, PushAddsActive DEF PushHigh, Deque!Push
  <2>2. QED
    BY <2>1 DEF Deque!Next
<1>2. CASE PopHighMin
  <2>1. CASE CleanMinTop = {} /\ minHeap' = {} /\ out' = Nothing
    <3>1. Active(minHeap) = {} /\ Active(minHeap)' = {}
      BY <2>1, CleanMinKeepsActive DEF IInv, Active
    <3>2. QED
      BY <1>2, <2>1, <3>1 DEF PopHighMin, Deque!Next, Deque!PopEmpty
  <2>2. ASSUME NEW e \in CleanMinTop,
               \A f \in CleanMinTop \ {e} : BeforeMin(e, f),
               minHeap' = CleanMinTop \ {e}, activeHigh' = activeHigh \ {e.seq}, out' = e
        PROVE  Deque!Next
    <3>1. e \in Active(minHeap) /\ Active(minHeap) \subseteq CleanMinTop
      BY <2>2, CleanMinKeepsActive DEF IInv
    <3>2. Active(minHeap)' = Active(minHeap) \ {e} /\ nextSeq' = nextSeq
      BY <1>2, <2>2, <3>1, PopMinRemovesActive DEF PopHighMin
    <3>3. Deque!PopMin(e)
      BY <2>2, <3>1, <3>2 DEF Deque!PopMin, Deque!BeforeMin, BeforeMin
    <3>4. QED
      BY <3>1, <3>3 DEF Deque!Next
  <2>3. QED
    BY <1>2, <2>1, <2>2 DEF PopHighMin
<1>3. CASE PopHighMax
  <2>1. CASE CleanMaxTop = {} /\ maxHeap' = {} /\ out' = Nothing /\ UNCHANGED activeHigh
    <3>1. Active(minHeap) = {} /\ Active(minHeap)' = {}
      BY <1>3, <2>1, CleanMaxKeepsActive DEF IInv, Mirrored, Active, PopHighMax
    <3>2. QED
      BY <1>3, <2>1, <3>1 DEF PopHighMax, Deque!Next, Deque!PopEmpty
  <2>2. ASSUME NEW e \in CleanMaxTop,
               \A f \in CleanMaxTop \ {e} : BeforeMax(e, f),
               maxHeap' = CleanMaxTop \ {e}, activeHigh' = activeHigh \ {e.seq}, out' = e
        PROVE  Deque!Next
    <3>1. e \in Active(maxHeap) /\ Active(maxHeap) \subseteq CleanMaxTop
      BY <2>2, CleanMaxKeepsActive DEF IInv
    <3>2. Active(minHeap)' = Active(minHeap) \ {e} /\ nextSeq' = nextSeq
      BY <1>3, <2>2, <3>1, PopMaxRemovesActive DEF PopHighMax
    <3>3. Active(minHeap) = Active(maxHeap)
      BY DEF IInv, Mirrored
    <3>4. Deque!PopMax(e)
      BY <2>2, <3>1, <3>2, <3>3 DEF Deque!PopMax, Deque!BeforeMax, BeforeMax
    <3>5. QED
      BY <3>1, <3>3, <3>4 DEF Deque!Next
  <2>3. QED
    BY <1>3, <2>1, <2>2 DEF PopHighMax
<1>4. CASE PeekHighFront \/ DeepClean
  BY <1>4, CleaningKeepsActive DEF PeekHighFront, DeepClean, Deque!vars
<1>5. CASE UNCHANGED vars
  BY <1>5, StutterKeepsActive DEF vars, Deque!vars
<1>6. QED
  BY <1>1, <1>2, <1>3, <1>4, <1>5 DEF Next

(* The twin heaps with lazy deletion implement the double-ended priority   *)
(* queue: every pop hands out the least (greatest) record that is still in *)
(* the pool, and a record that left at one end never leaves at the other.  *)
THEOREM TwinHeapImplementsDeque == Spec => DequeSpec
<1>1. Spec => []IInv
  BY InitInvariant, StepInvariant, PTL DEF Spec
<1>2. QED
  BY <1>1, InitRefines, StepRefines, PTL DEF Spec, DequeSpec, Deque!Spec

-----------------------------------------------------------------------------
(* While both sides have records they give one in turn, the high side      *)
(* first; a side that ran dry was ahead, or behind, by no more than that.  *)
InTurn ==
  /\ lowLeft > 0 /\ highLeft > 0 =>
       /\ wantHigh => gotHigh = gotLow
       /\ ~wantHigh => gotHigh = gotLow + 1
  /\ lowLeft > 0 /\ highLeft = 0 => gotHigh <= gotLow + 1
  /\ lowLeft = 0 /\ highLeft > 0 => gotLow <= gotHigh

PopCounts ==
  /\ lowSize \in Nat /\ highSize \in Nat /\ request \in Nat
  /\ take \in Nat /\ gotLow \in Nat /\ gotHigh \in Nat
  /\ gotLow <= lowSize /\ gotHigh <= highSize
  /\ take + gotLow + gotHigh = request

PopInv == PopCounts /\ InTurn

LEMMA PopInitInv == PopInit => PopInv
BY MaxItemsAssumption DEF PopInit, PopInv, PopCounts, InTurn, lowLeft, highLeft

(* One iteration takes one record, from the side that FromHigh names.      *)
LEMMA IterateInv == ASSUME PopInv, Iterate PROVE PopInv'
<1>1. /\ lowSize \in Nat /\ highSize \in Nat /\ request \in Nat
      /\ take \in Nat /\ gotLow \in Nat /\ gotHigh \in Nat
      /\ gotLow <= lowSize /\ gotHigh <= highSize /\ take + gotLow + gotHigh = request
  BY DEF PopInv, PopCounts
<1>2. UNCHANGED <<lowSize, highSize, request>> /\ take > 0 /\ take' = take - 1
  BY DEF Iterate, Looping
<1>3. wantHigh' <=> ~wantHigh
  BY Zenon DEF Iterate
<1>4. CASE FromHigh
  <2>1. gotHigh' = gotHigh + 1 /\ gotLow' = gotLow
    BY <1>4 DEF Iterate
  <2>2. lowLeft' = lowLeft /\ highLeft' = highLeft - 1 /\ highLeft > 0
    BY <1>1, <1>2, <1>4, <2>1 DEF FromHigh, lowLeft, highLeft
  <2>3. lowLeft > 0 => wantHigh /\ gotHigh = gotLow
    BY <1>1, <1>4, <2>2 DEF FromHigh, PopInv, InTurn, lowLeft
  <2>4. lowLeft = 0 => gotLow <= gotHigh
    BY <2>2 DEF PopInv, InTurn
  <2>5. PopCounts'
    BY <1>1, <1>2, <2>1, <2>2 DEF PopCounts, highLeft
  <2>6. InTurn'
    BY <1>1, <1>3, <2>1, <2>2, <2>3, <2>4 DEF InTurn
  <2> QED BY <2>5, <2>6 DEF PopInv
<1>5. CASE ~FromHigh
  <2>1. gotHigh' = gotHigh /\ gotLow' = gotLow + 1
    BY <1>5 DEF Iterate
  <2>2. lowLeft' = lowLeft - 1 /\ highLeft' = highLeft /\ lowLeft > 0
    BY <1>1, <1>2, <1>5, <2>1 DEF Iterate, Looping, FromHigh, lowLeft, highLeft
  <2>3. highLeft > 0 => ~wantHigh /\ gotHigh = gotLow + 1
    BY <1>1, <1>5, <2>2 DEF FromHigh, PopInv, InTurn, highLeft
  <2>4. highLeft = 0 => gotHigh <= gotLow + 1
    BY <2>2 DEF PopInv, InTurn
  <2>5. PopCounts'
    BY <1>1, <1>2, <2>1, <2>2 DEF PopCounts, lowLeft
  <2>6. InTurn'
    BY <1>1, <1>3, <2>1, <2>2, <2>3, <2>4 DEF InTurn
  <2> QED BY <2>5, <2>6 DEF PopInv
<1> QED BY <1>4, <1>5

LEMMA PopNextInv == PopInv /\ [PopNext]_popVars => PopInv'
<1>1. ASSUME PopInv, UNCHANGED popVars PROVE PopInv'
  BY <1>1 DEF popVars, PopInv, PopCounts, InTurn, lowLeft, highLeft
<1> QED BY <1>1, IterateInv DEF PopNext

(* _pop_candidates_unlocked hands out as many candidates as were asked     *)
(* for, or all there are, and HighShare of them from the high side: the    *)
(* fallback to the other side does not upset the count.                    *)
THEOREM AlwaysResultIsHighShare == PopSpec => []ResultIsHighShare
<1>1. PopInv => ResultIsHighShare
  <2> SUFFICES ASSUME PopInv, ~Looping PROVE ResultIsHighShare
    BY DEF ResultIsHighShare
  <2> USE DEF PopInv, PopCounts, lowLeft, highLeft, AtMost, AtLeast
  <2>1. CASE lowLeft > 0 /\ highLeft > 0
    <3>1. take = 0 /\ gotHigh = (request + 1) \div 2
      BY <2>1 DEF Looping, InTurn
    <3> QED BY <2>1, <3>1 DEF ResultIsHighShare, HighShare
  <2>2. CASE lowLeft > 0 /\ highLeft = 0
    BY <2>2 DEF Looping, InTurn, ResultIsHighShare, HighShare
  <2>3. CASE lowLeft = 0 /\ highLeft > 0
    BY <2>3 DEF Looping, InTurn, ResultIsHighShare, HighShare
  <2>4. CASE lowLeft = 0 /\ highLeft = 0
    BY <2>4 DEF Looping, ResultIsHighShare, HighShare
  <2> QED BY <2>1, <2>2, <2>3, <2>4
<1> QED BY <1>1, PopInitInv, PopNextInv, PTL DEF PopSpec
=============================================================================
