---------------------------- MODULE MCRiskEngine ----------------------------
(* Instance of RiskEngine for TLC. *)
EXTENDS RiskRefinement, TLC

\* A flat book, and one whose exposure leaves room for one unit in either limit.
MCPositionSets == {[s \in Symbols |-> 0], [s \in Symbols |-> 1]}

\* At the peak, at the drawdown limit (not a breach), and one past it.
MCEquities == {[peak |-> 10, current |-> c] : c \in {10, 8, 7}}

RequestSymmetry == Permutations(Requests)
=============================================================================
