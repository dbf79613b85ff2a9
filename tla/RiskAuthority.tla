--------------------------- MODULE RiskAuthority ----------------------------
(***************************************************************************)
(* What the risk engine promises the rest of the system, without its state *)
(* machine, counters or registries: each request is answered once; an      *)
(* approval is granted only while trading is open and only within the      *)
(* budget; it is spent at most once; closing trading voids every approval  *)
(* not yet spent, for good; budget is held from the grant to its return.   *)
(***************************************************************************)
EXTENDS Integers, Functions

CONSTANTS Requests, Notionals, Total

VARIABLES
    open,       \* approvals may be granted and spent
    grant,      \* none, refused, granted, spent or void, by request
    held,       \* budget held for each request
    committed   \* budget held in all

authorityVars == <<open, grant, held, committed>>

AuthorityInit ==
    /\ open = FALSE
    /\ grant = [r \in Requests |-> "none"]
    /\ held = [r \in Requests |-> 0]
    /\ committed = 0

OpenTrading == ~open /\ open' = TRUE /\ UNCHANGED <<grant, held, committed>>

\* A drawdown breach refuses the request it was found on in the same step.
CloseTrading(refused) ==
    /\ open
    /\ open' = FALSE
    /\ \A r \in refused : grant[r] = "none"
    /\ grant' = [r \in Requests |-> IF r \in refused THEN "refused"
                                    ELSE IF grant[r] = "granted" THEN "void"
                                    ELSE grant[r]]
    /\ UNCHANGED <<held, committed>>

Refuse(r) ==
    /\ grant[r] = "none"
    /\ grant' = [grant EXCEPT ![r] = "refused"]
    /\ UNCHANGED <<open, held, committed>>

Grant(r, n) ==
    /\ open
    /\ grant[r] = "none"
    /\ n > 0 /\ committed + n <= Total
    /\ grant' = [grant EXCEPT ![r] = "granted"]
    /\ held' = [held EXCEPT ![r] = n]
    /\ committed' = committed + n
    /\ UNCHANGED open

Spend(r) ==
    /\ open
    /\ grant[r] = "granted"
    /\ grant' = [grant EXCEPT ![r] = "spent"]
    /\ UNCHANGED <<open, held, committed>>

GiveBack(r) ==
    /\ held[r] > 0
    /\ committed' = committed - held[r]
    /\ held' = [held EXCEPT ![r] = 0]
    /\ UNCHANGED <<open, grant>>

AuthorityNext ==
    \/ OpenTrading
    \/ CloseTrading({})
    \/ \E r \in Requests : \/ CloseTrading({r})
                           \/ Refuse(r)
                           \/ Spend(r)
                           \/ GiveBack(r)
                           \/ \E n \in Notionals : Grant(r, n)

AuthoritySpec == AuthorityInit /\ [][AuthorityNext]_authorityVars
=============================================================================
