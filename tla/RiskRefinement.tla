--------------------------- MODULE RiskRefinement ---------------------------
(***************************************************************************)
(* RiskEngine implements RiskAuthority.  Trading is open in RUN and        *)
(* SAFE_MODE; what became of a request is read off its cached decision and *)
(* its token; the budget held for it off its reservation.                  *)
(***************************************************************************)
EXTENDS RiskEngine

grantOf(r) ==
    CASE decisions[r].status = "none"     -> "none"
      [] decisions[r].status = "rejected" -> "refused"
      [] decisions[r].status = "approved" ->
            LET t == tokens[decisions[r].token]
            IN  IF t.used THEN "spent" ELSE IF t.valid THEN "granted" ELSE "void"

heldFor(r) ==
    IF decisions[r].status = "approved"
       THEN LET res == reservations[decisions[r].reservation]
            IN  IF res.state = "released" THEN 0 ELSE res.amount
       ELSE 0

Authority == INSTANCE RiskAuthority
                WITH open <- riskState \in Trading,
                     grant <- [r \in Requests |-> grantOf(r)],
                     held <- [r \in Requests |-> heldFor(r)],
                     committed <- reserved + consumed

\* The engine, with its state machine, its counters and its HALT and recovery
\* paths, does nothing to approvals and budget the authority does not allow.
ImplementsAuthority == Authority!AuthoritySpec
=============================================================================
