------------------------------ MODULE MCMultiHeap ------------------------------
(* Three heaps of up to seven records with three different rewards.        *)
EXTENDS MultiHeap

MCReward == 0 .. 2
MCStrategies == {"easy", "hard", "uniform", "curriculum"}
=============================================================================
