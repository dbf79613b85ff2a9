--------------------------- MODULE MCPaperTrading ---------------------------
EXTENDS PaperTrading

\* A full order of 4 units at full confidence, scaled from the default policy.
MCPolicy == [base |-> 8, minConfidence |-> 10, maximum |-> 4, minimum |-> 4]
MCPlans == {[kind |-> "full"], [kind |-> "partial", filled |-> 2], [kind |-> "multi", parts |-> <<2, 0, 2>>],
            [kind |-> "none"]}
=============================================================================
