------------------------------- MODULE PoolOps -------------------------------
(***************************************************************************)
(* The arithmetic and the orderings that the query pool is built from.     *)
(***************************************************************************)
EXTENDS Integers, FiniteSets

AtMost(a, b) == IF a <= b THEN a ELSE b    \* Python's min
AtLeast(a, b) == IF a >= b THEN a ELSE b   \* Python's max

(* int(round(num / den)): Python rounds a half to the even neighbour.      *)
RoundHalfEven(num, den) ==
  LET quotient == num \div den
      twice == 2 * (num % den)
  IN IF twice < den \/ (twice = den /\ quotient % 2 = 0)
       THEN quotient
       ELSE quotient + 1

(* The k members of S that leave first when the smallest (the largest)     *)
(* reward leaves first.  Which of several equal ones go is left open: the  *)
(* code goes by insertion order there.                                     *)
Least(reward, S, k) ==
  {L \in SUBSET S : /\ Cardinality(L) = k
                    /\ \A x \in L, y \in S \ L : reward[x] <= reward[y]}

Greatest(reward, S, k) ==
  {G \in SUBSET S : /\ Cardinality(G) = k
                    /\ \A x \in G, y \in S \ G : reward[x] >= reward[y]}

(* How many of take candidates come from the high side when the two sides  *)
(* hand them out in turn, high first, until one side runs dry.             *)
HighShare(take, nLow, nHigh) ==
  AtLeast(take - nLow, AtMost((take + 1) \div 2, nHigh))
=============================================================================
