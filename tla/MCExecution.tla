---------------------------- MODULE MCExecution -----------------------------
(* Instances of Execution for TLC. *)
EXTENDS Execution, TLC

CONSTANTS r1, r2, o1, o2

\* The exposure limits are RiskEngine's concern: a flat book here.
MCPositionSets == {[s \in Symbols |-> 0]}

\* No drawdown, and a breach.
MCEquities == {[peak |-> 10, current |-> c] : c \in {10, 7}}

\* One approval per order, as every caller in the repository has it.
OneToOne == (r1 :> o1) @@ (r2 :> o2)

\* The caller of r1 never retries, the one of r2 does once.
RetryOne == (r1 :> 1) @@ (r2 :> 2)
NoRetry == (r1 :> 1) @@ (r2 :> 1)
=============================================================================
