--------------------------- MODULE MCRewardRefresh ---------------------------
(* RewardRefresh for TLC.  Record 2 is half as hard as its parent, record  *)
(* 3 twice as hard.  Scale is such that no division leaves a remainder.    *)
EXTENDS RewardRefresh

MCScale == 24 * 24 * 24
MCReward == {-MCScale, MCScale}
MCNum == <<1, 1, 2, 1>>
MCDen == <<1, 2, 1, 1>>
=============================================================================
