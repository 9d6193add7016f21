------------------------------- MODULE MCMoney -------------------------------
(* Finite inputs for MoneyCalls: every text near the largest amount, and the *)
(* shares at which sums of two or three of them wrap around.                 *)
EXTENDS MoneyCalls

Digits == 0..9
MCFractions == {<<>>} \cup {<<a>> : a \in Digits} \cup {<<a, b>> : a, b \in Digits}
                      \cup {<<0, 0, 0>>}
MCTotals == {-1, 99, 100, 101, 109, 110, 128, 129, 130, 199, 200, 254, 255} \cup 0..13
MCCounts == -1..7
MCShares == {0, 1, 2, 4, 128, 255}
MCShareLists == UNION {[1..n -> MCShares] : n \in 0..3}
===============================================================================
