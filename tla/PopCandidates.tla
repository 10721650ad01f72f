---------------------------- MODULE PopCandidates ----------------------------
(***************************************************************************)
(* The loop of _pop_candidates_unlocked: take candidates for the medium    *)
(* sample from the two sides of the boundary in turn, high side first, and *)
(* from whichever side is left when the other runs dry.  Only how many     *)
(* come from each side matters here; which ones is TwinHeap's business.    *)
(* One step is one iteration of the while loop.  The query pool uses the   *)
(* closed form HighShare; this module shows that the loop computes it.     *)
(***************************************************************************)
EXTENDS PoolOps

CONSTANT MaxItems   \* bound on the size of a side and on the request

ASSUME MaxItemsAssumption == MaxItems \in Nat

VARIABLES
  lowSize,   \* len(self._low_heap) when the call starts
  highSize,  \* len(self._active_high) when the call starts
  request,   \* the argument take
  take,      \* the local variable take
  gotLow,    \* pop_counts['low'], counting the fallback too
  gotHigh,   \* pop_counts['high']
  wantHigh   \* whose turn it is

popVars == <<lowSize, highSize, request, take, gotLow, gotHigh, wantHigh>>

lowLeft == lowSize - gotLow
highLeft == highSize - gotHigh

PopInit ==
  /\ lowSize \in 0 .. MaxItems
  /\ highSize \in 0 .. MaxItems
  /\ request \in 0 .. MaxItems
  /\ take = request
  /\ gotLow = 0
  /\ gotHigh = 0
  /\ wantHigh = TRUE

Looping == take > 0 /\ (lowLeft > 0 \/ highLeft > 0)

(* Slip: the fallback looks at the low side only.                          *)
FromHigh_LowFallback == highLeft > 0 /\ wantHigh

(* The side whose turn it is, or the fallback: high first, then low.       *)
FromHigh == highLeft > 0 /\ (wantHigh \/ lowLeft = 0)

(* Slip: the turn changes only when a record was pulled: no fallback.      *)
Iterate_NoFallback ==
  /\ Looping
  /\ IF wantHigh THEN highLeft > 0 ELSE lowLeft > 0
  /\ gotHigh' = IF wantHigh THEN gotHigh + 1 ELSE gotHigh
  /\ gotLow' = IF wantHigh THEN gotLow ELSE gotLow + 1
  /\ take' = take - 1
  /\ wantHigh' = ~wantHigh
  /\ UNCHANGED <<lowSize, highSize, request>>

Iterate ==
  /\ Looping
  /\ gotHigh' = IF FromHigh THEN gotHigh + 1 ELSE gotHigh
  /\ gotLow' = IF FromHigh THEN gotLow ELSE gotLow + 1
  /\ take' = take - 1
  /\ wantHigh' = ~wantHigh
  /\ UNCHANGED <<lowSize, highSize, request>>

PopNext == Iterate

PopSpec == PopInit /\ [][PopNext]_popVars /\ WF_popVars(PopNext)

-----------------------------------------------------------------------------
(* The loop hands out as many candidates as were asked for, or all there   *)
(* are, and takes HighShare of them from the high side.                    *)
ResultIsHighShare ==
  ~Looping =>
    LET all == AtMost(request, lowSize + highSize)
    IN /\ gotHigh + gotLow = all
       /\ gotHigh = HighShare(all, lowSize, highSize)

(* The loop ends: no iteration goes round without taking a candidate.      *)
Terminates == <>~Looping
=============================================================================
