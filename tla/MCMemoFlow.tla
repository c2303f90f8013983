------------------------------ MODULE MCMemoFlow ------------------------------
(* An instance of MemoFlow for TLC.                                          *)
EXTENDS MemoFlow

CONSTANTS m1, m2

(* The audio pool starts empty, so that two memos are enough for it to       *)
(* outgrow twice its initial count.                                          *)
SmallPools == [rmg |-> << >>, sipRmg |-> <<m1>>]
===============================================================================
