-------------------------- MODULE ExecutionProofs ---------------------------
(***************************************************************************)
(* Proofs about the order path.  The first part is about RiskEngine alone, *)
(* for every set of requests, every budget and every limit: its invariants *)
(* and action properties, and that it implements RiskAuthority.  The       *)
(* second is about Execution: every set of orders, every number of trades, *)
(* and every interleaving of the gateway, the venue, the fill messages,    *)
(* the reconciler and the risk engine.                                     *)
(***************************************************************************)
EXTENDS Execution, RiskRefinement, SequenceTheorems, FoldTheorems, TLAPS

-----------------------------------------------------------------------------
(* RiskEngine *)

\* What invalidateAll does: the same tokens, in the same order, all void.
LEMMA InvalidateAllEffect ==
    ASSUME tokens \in Seq(Token), InvalidateAll
    PROVE  /\ tokens' \in Seq(Token)
           /\ Len(tokens') = Len(tokens)
           /\ DOMAIN tokens' = DOMAIN tokens
           /\ \A t \in DOMAIN tokens : /\ tokens'[t].request = tokens[t].request
                                       /\ tokens'[t].reservation = tokens[t].reservation
                                       /\ tokens'[t].used = tokens[t].used
                                       /\ ~tokens'[t].valid
<1>1. DOMAIN tokens = 1 .. Len(tokens) /\ Len(tokens) \in Nat
  OBVIOUS
<1>2. \A t \in 1 .. Len(tokens) : tokens[t] \in Token
  OBVIOUS
<1>3. tokens' = [t \in 1 .. Len(tokens) |-> [tokens[t] EXCEPT !.valid = FALSE]]
  BY <1>1 DEF InvalidateAll
<1>4. \A t \in 1 .. Len(tokens) :
         /\ tokens'[t] \in Token
         /\ tokens'[t].request = tokens[t].request
         /\ tokens'[t].reservation = tokens[t].reservation
         /\ tokens'[t].used = tokens[t].used
         /\ ~tokens'[t].valid
  BY <1>2, <1>3 DEF Token
<1>5. tokens' \in Seq(Token)
  <2>1. tokens' \in [1 .. Len(tokens) -> Token]
    BY <1>3, <1>4
  <2> QED
    BY <1>1, <2>1
<1>6. DOMAIN tokens' = 1 .. Len(tokens)
  BY <1>3
<1>7. Len(tokens') = Len(tokens)
  BY <1>1, <1>5, <1>6
<1> QED
  BY <1>1, <1>4, <1>5, <1>6, <1>7

\* What use does: one token becomes spent, the others are as they were.
LEMMA UseEffect ==
    ASSUME tokens \in Seq(Token), NEW t \in DOMAIN tokens, Use(t)
    PROVE  /\ tokens' \in Seq(Token)
           /\ Len(tokens') = Len(tokens)
           /\ DOMAIN tokens' = DOMAIN tokens
           /\ tokens'[t] = [tokens[t] EXCEPT !.used = TRUE]
           /\ \A u \in DOMAIN tokens : u # t => tokens'[u] = tokens[u]
<1>1. tokens' = [tokens EXCEPT ![t] = [tokens[t] EXCEPT !.used = TRUE]]
  BY DEF Use
<1>2. [tokens[t] EXCEPT !.used = TRUE] \in Token
  <2>1. tokens[t] \in Token
    OBVIOUS
  <2> QED
    BY <2>1 DEF Token
<1> QED
  BY <1>1, <1>2

\* What consume and release do to the reservations: one changes its state.
LEMMA MoveReservation ==
    ASSUME reservations \in Seq(Reservation), NEW i \in DOMAIN reservations,
           NEW s \in {"reserved", "consumed", "released"},
           reservations' = [reservations EXCEPT ![i].state = s]
    PROVE  /\ reservations' \in Seq(Reservation)
           /\ Len(reservations') = Len(reservations)
           /\ DOMAIN reservations' = DOMAIN reservations
           /\ reservations'[i] = [reservations[i] EXCEPT !.state = s]
           /\ \A k \in DOMAIN reservations : k # i => reservations'[k] = reservations[k]
           /\ \A k \in DOMAIN reservations : /\ reservations'[k].request = reservations[k].request
                                             /\ reservations'[k].amount = reservations[k].amount
<1>1. reservations' = [reservations EXCEPT ![i] = [reservations[i] EXCEPT !.state = s]]
  OBVIOUS
<1>2. \A k \in DOMAIN reservations : reservations[k] \in Reservation
  OBVIOUS
<1>3. /\ [reservations[i] EXCEPT !.state = s] \in Reservation
      /\ [reservations[i] EXCEPT !.state = s].request = reservations[i].request
      /\ [reservations[i] EXCEPT !.state = s].amount = reservations[i].amount
  BY <1>2 DEF Reservation
<1> QED
  BY <1>1, <1>3

\* The amount of a reservation is a positive natural number.
LEMMA ReservationAmount ==
    ASSUME reservations \in Seq(Reservation), NEW i \in DOMAIN reservations
    PROVE  reservations[i].amount \in Nat /\ reservations[i].amount > 0
<1>1. reservations[i] \in Reservation
  OBVIOUS
<1> QED
  BY <1>1 DEF Reservation

\* Every step of the engine keeps the types.
LEMMA TypeStep ==
    ASSUME TypeOK, [Next]_riskVars PROVE TypeOK'
<1> USE DEF TypeOK
<1>1. CASE Lifecycle
  BY <1>1 DEF Lifecycle, InitEngine, Start, EnterSafeMode, ExitSafeMode, Transition,
              RiskStates, budgetVars
<1>2. ASSUME NEW r \in Requests, NEW symbol \in Symbols, NEW notional \in Notionals,
             NEW positions \in PositionSets, NEW equity \in Equities,
             PreTradeCheck(r, symbol, notional, positions, equity)
      PROVE  TypeOK'
  <2>1. ASSUME Reject(r) PROVE decisions' \in [Requests -> Decision]
    BY <2>1 DEF Reject, Decision
  <2>2. CASE RejectNotRunning(r)
    BY <2>1, <2>2 DEF RejectNotRunning, budgetVars
  <2>3. CASE RejectDrawdown(r, equity)
    <3>1. tokens' \in Seq(Token)
      BY <2>3, InvalidateAllEffect DEF RejectDrawdown
    <3> QED
      BY <2>1, <2>3, <3>1 DEF RejectDrawdown, Transition, RiskStates, budgetVars
  <2>4. CASE RejectLimit(r, symbol, notional, positions, equity)
    BY <2>1, <2>4 DEF RejectLimit, budgetVars
  <2>5. CASE Approve(r, symbol, notional, positions, equity)
    <3>1. notional \in Nat \ {0}
      BY <2>5, BudgetAssumption DEF Approve, CanReserve
    <3>2. reservations' \in Seq(Reservation) /\ reserved' \in Int /\ consumed' \in Int
      BY <2>5, <3>1 DEF Approve, Reserve, Reservation
    <3>3. tokens' \in Seq(Token)
      BY <2>5 DEF Approve, Issue, Token
    <3>4. decisions' \in [Requests -> Decision]
      BY <2>5 DEF Approve, Decision
    <3> QED
      BY <2>5, <3>2, <3>3, <3>4 DEF Approve
  <2> QED
    BY <1>2, <2>2, <2>3, <2>4, <2>5 DEF PreTradeCheck
<1>3. ASSUME NEW t \in DOMAIN tokens, AuthorizeExecution(t) PROVE TypeOK'
  <2>1. tokens' \in Seq(Token)
    BY <1>3, UseEffect DEF AuthorizeExecution
  <2> QED
    BY <1>3, <2>1 DEF AuthorizeExecution, budgetVars
<1>4. ASSUME NEW i \in DOMAIN reservations, ConfirmFill(i) PROVE TypeOK'
  <2>1. reservations' \in Seq(Reservation)
    BY <1>4, MoveReservation DEF ConfirmFill, Consume
  <2>2. reserved' \in Int /\ consumed' \in Int
    BY <1>4, ReservationAmount DEF ConfirmFill, Consume
  <2> QED
    BY <1>4, <2>1, <2>2 DEF ConfirmFill
<1>5. ASSUME NEW i \in DOMAIN reservations, Release(i) PROVE TypeOK'
  <2>1. reservations' \in Seq(Reservation)
    BY <1>5, MoveReservation DEF Release, ReleaseBudget
  <2>2. reserved' \in Int /\ consumed' \in Int
    BY <1>5, ReservationAmount DEF Release, ReleaseBudget
  <2> QED
    BY <1>5, <2>1, <2>2 DEF Release
<1>6. CASE EmergencyHalt
  <2>1. tokens' \in Seq(Token)
    BY <1>6, InvalidateAllEffect DEF EmergencyHalt
  <2> QED
    BY <1>6, <2>1 DEF EmergencyHalt, RiskStates, budgetVars
<1>7. ASSUME NEW autoChecks \in {"pass", "fail", "throw"}, StartRecovery(autoChecks)
      PROVE  TypeOK'
  BY <1>7 DEF StartRecovery, RiskStates, budgetVars
<1>8. CASE UNCHANGED riskVars
  BY <1>8 DEF riskVars, budgetVars
<1> QED
  BY <1>1, <1>2, <1>3, <1>4, <1>5, <1>6, <1>7, <1>8 DEF Next, Check, Reconcile

\* Type correctness: every public method of the engine, throwing ones
\* included, leaves the fields of the engine, the budget and the token
\* registry in their types.
THEOREM TypeCorrect == Spec => []TypeOK
<1>1. Init => TypeOK
  <2> SUFFICES ASSUME Init PROVE TypeOK
    OBVIOUS
  <2> QED
    BY DEF Init, TypeOK, RiskStates, Decision, Undecided
<1>2. TypeOK /\ [Next]_riskVars => TypeOK'
  BY TypeStep
<1> QED
  BY <1>1, <1>2, PTL DEF Spec

\* INV-R4, for every budget and every sequence of calls: what is reserved and
\* consumed together never exceeds the total.  Inductive with the types alone:
\* consume moves an amount between the counters and release only lowers one.
THEOREM BudgetNeverExceeded == Spec => []BudgetBound
<1>1. Init => BudgetBound
  BY BudgetAssumption DEF Init, BudgetBound
<1>2. TypeOK /\ BudgetBound /\ [Next]_riskVars => BudgetBound'
  <2> SUFFICES ASSUME TypeOK, BudgetBound, [Next]_riskVars PROVE BudgetBound'
    OBVIOUS
  <2> USE BudgetAssumption DEF TypeOK, BudgetBound
  <2>1. ASSUME UNCHANGED budgetVars PROVE BudgetBound'
    BY <2>1 DEF budgetVars
  <2>2. CASE Lifecycle
    BY <2>1, <2>2 DEF Lifecycle, InitEngine, Start, EnterSafeMode, ExitSafeMode
  <2>3. ASSUME NEW r \in Requests, NEW symbol \in Symbols, NEW notional \in Notionals,
               NEW positions \in PositionSets, NEW equity \in Equities,
               PreTradeCheck(r, symbol, notional, positions, equity)
        PROVE  BudgetBound'
    <3>1. CASE Approve(r, symbol, notional, positions, equity)
      BY <3>1 DEF Approve, CanReserve, Reserve
    <3> QED
      BY <2>1, <2>3, <3>1 DEF PreTradeCheck, RejectNotRunning, RejectDrawdown, RejectLimit
  <2>4. ASSUME NEW t \in DOMAIN tokens, AuthorizeExecution(t) PROVE BudgetBound'
    BY <2>1, <2>4 DEF AuthorizeExecution
  <2>5. ASSUME NEW i \in DOMAIN reservations, ConfirmFill(i) PROVE BudgetBound'
    BY <2>5, ReservationAmount DEF ConfirmFill, Consume
  <2>6. ASSUME NEW i \in DOMAIN reservations, Release(i) PROVE BudgetBound'
    BY <2>6, ReservationAmount DEF Release, ReleaseBudget
  <2>7. CASE EmergencyHalt
    BY <2>1, <2>7 DEF EmergencyHalt
  <2>8. ASSUME NEW autoChecks \in {"pass", "fail", "throw"}, StartRecovery(autoChecks)
        PROVE  BudgetBound'
    BY <2>1, <2>8 DEF StartRecovery
  <2>9. CASE UNCHANGED riskVars
    BY <2>1, <2>9 DEF riskVars
  <2> QED
    BY <2>2, <2>3, <2>4, <2>5, <2>6, <2>7, <2>8, <2>9 DEF Next, Check, Reconcile
<1> QED
  BY <1>1, <1>2, TypeCorrect, PTL DEF Spec

\* A step that touches no token and stays in trading, or was not trading,
\* creates no usable token outside trading.
LEMMA TokensKept ==
    ASSUME NoUsableTokenOutsideTrading, UNCHANGED tokens,
           riskState \in Trading => riskState' \in Trading
    PROVE  NoUsableTokenOutsideTrading'
  BY DEF NoUsableTokenOutsideTrading, isUsable

\* INV-R2 and INV-R3, for every sequence of calls: no approval is usable in
\* HALT, during recovery, while FROZEN, or before the next explicit start.
THEOREM HaltVoidsApprovals == Spec => []NoUsableTokenOutsideTrading
<1>1. Init => NoUsableTokenOutsideTrading
  BY DEF Init, NoUsableTokenOutsideTrading
<1>2. TypeOK /\ NoUsableTokenOutsideTrading /\ [Next]_riskVars => NoUsableTokenOutsideTrading'
  <2> SUFFICES ASSUME TypeOK, NoUsableTokenOutsideTrading, [Next]_riskVars
               PROVE  NoUsableTokenOutsideTrading'
    OBVIOUS
  <2>0. tokens \in Seq(Token) /\ riskState \in RiskStates
    BY DEF TypeOK
  <2>a. ASSUME InvalidateAll PROVE NoUsableTokenOutsideTrading'
    BY <2>0, <2>a, InvalidateAllEffect DEF NoUsableTokenOutsideTrading, isUsable
  <2>1. CASE Lifecycle
    <3>1. riskState \in Trading => riskState' \in Trading
      BY <2>1 DEF Lifecycle, InitEngine, Start, EnterSafeMode, ExitSafeMode, Transition,
                  canTransition, VALID, Trading
    <3> QED
      BY <2>1, <3>1, TokensKept DEF Lifecycle, InitEngine, Start, EnterSafeMode, ExitSafeMode
  <2>2. ASSUME NEW r \in Requests, NEW symbol \in Symbols, NEW notional \in Notionals,
               NEW positions \in PositionSets, NEW equity \in Equities,
               PreTradeCheck(r, symbol, notional, positions, equity)
        PROVE  NoUsableTokenOutsideTrading'
    <3>1. CASE RejectDrawdown(r, equity)
      BY <2>a, <3>1 DEF RejectDrawdown
    <3>2. CASE Approve(r, symbol, notional, positions, equity)
      BY <3>2 DEF Approve, NoUsableTokenOutsideTrading, Trading
    <3> QED
      BY <2>2, <3>1, <3>2, TokensKept DEF PreTradeCheck, RejectNotRunning, RejectLimit
  <2>3. ASSUME NEW t \in DOMAIN tokens, AuthorizeExecution(t)
        PROVE  NoUsableTokenOutsideTrading'
    <3>1. riskState \in Trading /\ riskState' = riskState
      BY <2>3 DEF AuthorizeExecution, Use, NoUsableTokenOutsideTrading
    <3> QED
      BY <3>1 DEF NoUsableTokenOutsideTrading
  <2>4. ASSUME NEW i \in DOMAIN reservations, ConfirmFill(i) \/ Release(i)
        PROVE  NoUsableTokenOutsideTrading'
    BY <2>4, TokensKept DEF ConfirmFill, Release
  <2>5. CASE EmergencyHalt
    BY <2>a, <2>5 DEF EmergencyHalt
  <2>6. ASSUME NEW autoChecks \in {"pass", "fail", "throw"}, StartRecovery(autoChecks)
        PROVE  NoUsableTokenOutsideTrading'
    <3>1. riskState \notin Trading
      BY <2>0, <2>6 DEF StartRecovery, canTransition, VALID, Trading
    <3> QED
      BY <2>6, <3>1, TokensKept DEF StartRecovery
  <2>7. CASE UNCHANGED riskVars
    BY <2>7, TokensKept DEF riskVars
  <2> QED
    BY <2>1, <2>2, <2>3, <2>4, <2>5, <2>6, <2>7 DEF Next, Check, Reconcile
<1> QED
  BY <1>1, <1>2, TypeCorrect, PTL DEF Spec

\* The retry limit of recovery, for every limit: the machine is FROZEN exactly
\* when the failed attempts since the last passed check have reached it.
THEOREM RecoveryIsBounded == Spec => []FrozenExactlyWhenExhausted
<1>1. Init => FrozenExactlyWhenExhausted
  BY RecoveryAssumption DEF Init, FrozenExactlyWhenExhausted
<1>2. TypeOK /\ FrozenExactlyWhenExhausted /\ [Next]_riskVars => FrozenExactlyWhenExhausted'
  <2> SUFFICES ASSUME TypeOK, FrozenExactlyWhenExhausted, [Next]_riskVars
               PROVE  FrozenExactlyWhenExhausted'
    OBVIOUS
  <2> USE RecoveryAssumption DEF TypeOK, FrozenExactlyWhenExhausted, RiskStates
  <2>1. CASE Lifecycle
    BY <2>1 DEF Lifecycle, InitEngine, Start, EnterSafeMode, ExitSafeMode, Transition,
                canTransition, VALID
  <2>2. ASSUME NEW r \in Requests, NEW symbol \in Symbols, NEW notional \in Notionals,
               NEW positions \in PositionSets, NEW equity \in Equities,
               PreTradeCheck(r, symbol, notional, positions, equity)
        PROVE  FrozenExactlyWhenExhausted'
    BY <2>2 DEF PreTradeCheck, RejectNotRunning, RejectDrawdown, RejectLimit, Approve, Transition
  <2>3. ASSUME NEW t \in DOMAIN tokens, AuthorizeExecution(t)
        PROVE  FrozenExactlyWhenExhausted'
    BY <2>3 DEF AuthorizeExecution
  <2>4. ASSUME NEW i \in DOMAIN reservations, ConfirmFill(i) \/ Release(i)
        PROVE  FrozenExactlyWhenExhausted'
    BY <2>4 DEF ConfirmFill, Release
  <2>5. CASE EmergencyHalt
    BY <2>5 DEF EmergencyHalt
  <2>6. ASSUME NEW autoChecks \in {"pass", "fail", "throw"}, StartRecovery(autoChecks)
        PROVE  FrozenExactlyWhenExhausted'
    BY <2>6 DEF StartRecovery, canTransition, VALID
  <2>7. CASE UNCHANGED riskVars
    BY <2>7 DEF riskVars
  <2> QED
    BY <2>1, <2>2, <2>3, <2>4, <2>5, <2>6, <2>7 DEF Next, Check, Reconcile
<1> QED
  BY <1>1, <1>2, TypeCorrect, PTL DEF Spec

\* A step that keeps the decisions, the identity of the tokens and the owners
\* of the reservations keeps approvals backed.
LEMMA BackingKept ==
    ASSUME ApprovalBacked, UNCHANGED decisions,
           Len(tokens') = Len(tokens), DOMAIN tokens' = DOMAIN tokens,
           Len(reservations') = Len(reservations),
           \A t \in DOMAIN tokens : /\ tokens'[t].request = tokens[t].request
                                    /\ tokens'[t].reservation = tokens[t].reservation
                                    /\ reservations'[t].request = reservations[t].request
    PROVE  ApprovalBacked'
  BY DEF ApprovalBacked

\* The owner of a token is a request whose decision is an approval.
LEMMA TokenOwner ==
    ASSUME TypeOK, ApprovalBacked, NEW t \in DOMAIN tokens
    PROVE  tokens[t].request \in Requests /\ decisions[tokens[t].request].status = "approved"
<1>1. tokens[t] \in Token
  BY DEF TypeOK
<1>2. tokens[t].request \in Requests
  BY <1>1 DEF Token
<1>3. decisions[tokens[t].request] =
         [status |-> "approved", token |-> t, reservation |-> tokens[t].reservation]
  BY DEF ApprovalBacked
<1> QED
  BY <1>2, <1>3

\* A rejection is recorded for a request that has no token.
LEMMA BackingAfterReject ==
    ASSUME TypeOK, ApprovalBacked, NEW r \in Requests, decisions[r].status = "none", Reject(r),
           Len(tokens') = Len(tokens), DOMAIN tokens' = DOMAIN tokens, UNCHANGED reservations,
           \A t \in DOMAIN tokens : /\ tokens'[t].request = tokens[t].request
                                    /\ tokens'[t].reservation = tokens[t].reservation
    PROVE  ApprovalBacked'
<1>1. \A t \in DOMAIN tokens : tokens[t].request \in Requests /\ tokens[t].request # r
  BY TokenOwner
<1>2. decisions'[r].status = "rejected"
  BY DEF Reject, TypeOK, Decision
<1>3. \A q \in Requests : q # r => decisions'[q] = decisions[q]
  BY DEF Reject, TypeOK
<1> QED
  BY <1>1, <1>2, <1>3 DEF ApprovalBacked

\* An approval appends the one token and the one reservation of its request.
LEMMA BackingAfterApprove ==
    ASSUME TypeOK, ApprovalBacked, NEW r \in Requests, NEW symbol, NEW notional, NEW positions,
           NEW equity, decisions[r].status = "none",
           Approve(r, symbol, notional, positions, equity)
    PROVE  ApprovalBacked'
<1> DEFINE n == Len(tokens) + 1
           tok == [request |-> r, reservation |-> n, used |-> FALSE, valid |-> TRUE]
           res == [request |-> r, amount |-> notional, state |-> "reserved"]
<1>1. /\ Len(tokens) \in Nat /\ Len(reservations) = Len(tokens)
      /\ DOMAIN tokens = 1 .. Len(tokens) /\ DOMAIN reservations = 1 .. Len(tokens)
  BY DEF TypeOK, ApprovalBacked
<1>2. tokens' = Append(tokens, tok) /\ reservations' = Append(reservations, res)
  BY <1>1 DEF Approve, Reserve, Issue
<1>3. /\ Len(tokens') = n /\ DOMAIN tokens' = 1 .. n
      /\ tokens'[n] = tok /\ \A t \in DOMAIN tokens : tokens'[t] = tokens[t]
  BY <1>1, <1>2 DEF TypeOK
<1>4. /\ Len(reservations') = n
      /\ reservations'[n] = res /\ \A t \in DOMAIN tokens : reservations'[t] = reservations[t]
  BY <1>1, <1>2 DEF TypeOK
<1>5. decisions'[r] = [status |-> "approved", token |-> n, reservation |-> n]
  BY <1>1 DEF Approve, TypeOK
<1>6. \A q \in Requests : q # r => decisions'[q] = decisions[q]
  BY DEF Approve, TypeOK
<1>7. \A t \in DOMAIN tokens : tokens[t].request \in Requests /\ tokens[t].request # r
  BY TokenOwner
<1>8. \A t \in DOMAIN tokens' :
         /\ decisions'[tokens'[t].request] =
               [status |-> "approved", token |-> t, reservation |-> tokens'[t].reservation]
         /\ tokens'[t].reservation = t
         /\ reservations'[t].request = tokens'[t].request
  <2> TAKE t \in DOMAIN tokens'
  <2>1. CASE t = n
    BY <2>1, <1>3, <1>4, <1>5
  <2>2. CASE t # n
    <3>1. t \in DOMAIN tokens
      BY <2>2, <1>1, <1>3
    <3> QED
      BY <3>1, <1>3, <1>4, <1>6, <1>7 DEF ApprovalBacked
  <2> QED
    BY <2>1, <2>2
<1>9. \A q \in Requests : decisions'[q].status = "approved" =>
         decisions'[q].token \in DOMAIN tokens' /\ tokens'[decisions'[q].token].request = q
  <2> TAKE q \in Requests
  <2>1. CASE q = r
    BY <2>1, <1>1, <1>3, <1>5
  <2>2. CASE q # r
    <3>1. decisions[q].status = "approved" =>
             decisions[q].token \in DOMAIN tokens /\ tokens[decisions[q].token].request = q
      BY DEF ApprovalBacked
    <3> QED
      BY <2>2, <3>1, <1>1, <1>3, <1>6
  <2> QED
    BY <2>1, <2>2
<1> QED
  BY <1>3, <1>4, <1>8, <1>9 DEF ApprovalBacked

\* Every step of the engine keeps approvals backed.
LEMMA BackingStep ==
    ASSUME TypeOK, ApprovalBacked, [Next]_riskVars PROVE ApprovalBacked'
<1>0. /\ tokens \in Seq(Token) /\ reservations \in Seq(Reservation)
      /\ DOMAIN tokens = DOMAIN reservations
  BY DEF TypeOK, ApprovalBacked
<1>a. ASSUME UNCHANGED <<decisions, tokens, reservations>> PROVE ApprovalBacked'
  BY <1>a, BackingKept
<1>1. CASE Lifecycle
  BY <1>1, <1>a DEF Lifecycle, InitEngine, Start, EnterSafeMode, ExitSafeMode, budgetVars
<1>2. ASSUME NEW r \in Requests, NEW symbol \in Symbols, NEW notional \in Notionals,
             NEW positions \in PositionSets, NEW equity \in Equities,
             PreTradeCheck(r, symbol, notional, positions, equity)
      PROVE  ApprovalBacked'
  <2>0. decisions[r].status = "none"
    BY <1>2 DEF PreTradeCheck
  <2>1. CASE RejectNotRunning(r)
    BY <2>0, <2>1, BackingAfterReject DEF RejectNotRunning, budgetVars
  <2>2. CASE RejectDrawdown(r, equity)
    BY <1>0, <2>0, <2>2, InvalidateAllEffect, BackingAfterReject DEF RejectDrawdown, budgetVars
  <2>3. CASE RejectLimit(r, symbol, notional, positions, equity)
    BY <2>0, <2>3, BackingAfterReject DEF RejectLimit, budgetVars
  <2>4. CASE Approve(r, symbol, notional, positions, equity)
    BY <2>0, <2>4, BackingAfterApprove
  <2> QED
    BY <1>2, <2>1, <2>2, <2>3, <2>4 DEF PreTradeCheck
<1>3. ASSUME NEW t \in DOMAIN tokens, AuthorizeExecution(t) PROVE ApprovalBacked'
  <2>1. Use(t) /\ UNCHANGED <<decisions, reservations>>
    BY <1>3 DEF AuthorizeExecution, budgetVars
  <2>2. tokens[t] \in Token
    BY <1>0
  <2>3. \A u \in DOMAIN tokens : /\ tokens'[u].request = tokens[u].request
                                 /\ tokens'[u].reservation = tokens[u].reservation
    BY <1>0, <2>1, <2>2, UseEffect DEF Token
  <2>4. Len(tokens') = Len(tokens) /\ DOMAIN tokens' = DOMAIN tokens
    BY <1>0, <2>1, UseEffect
  <2> QED
    BY <2>1, <2>3, <2>4, BackingKept
<1>4. ASSUME NEW i \in DOMAIN reservations, ConfirmFill(i) PROVE ApprovalBacked'
  <2>1. UNCHANGED <<decisions, tokens>>
    BY <1>4 DEF ConfirmFill
  <2>2. /\ Len(reservations') = Len(reservations)
        /\ \A k \in DOMAIN reservations : reservations'[k].request = reservations[k].request
    BY <1>0, <1>4, MoveReservation DEF ConfirmFill, Consume
  <2> QED
    BY <1>0, <2>1, <2>2, BackingKept
<1>5. ASSUME NEW i \in DOMAIN reservations, Release(i) PROVE ApprovalBacked'
  <2>1. UNCHANGED <<decisions, tokens>>
    BY <1>5 DEF Release
  <2>2. /\ Len(reservations') = Len(reservations)
        /\ \A k \in DOMAIN reservations : reservations'[k].request = reservations[k].request
    BY <1>0, <1>5, MoveReservation DEF Release, ReleaseBudget
  <2> QED
    BY <1>0, <2>1, <2>2, BackingKept
<1>6. CASE EmergencyHalt
  BY <1>0, <1>6, InvalidateAllEffect, BackingKept DEF EmergencyHalt, budgetVars
<1>7. ASSUME NEW autoChecks \in {"pass", "fail", "throw"}, StartRecovery(autoChecks)
      PROVE  ApprovalBacked'
  BY <1>7, <1>a DEF StartRecovery, budgetVars
<1>8. CASE UNCHANGED riskVars
  BY <1>8, <1>a DEF riskVars, budgetVars
<1> QED
  BY <1>1, <1>2, <1>3, <1>4, <1>5, <1>6, <1>7, <1>8 DEF Next, Check, Reconcile

\* INV-R1 and INV-R7, for every set of requests: approved decisions, tokens and
\* reservations correspond one to one, so that asking again for the same
\* request_id never issues a second token or holds budget twice.
THEOREM ApprovalsAreBacked == Spec => []ApprovalBacked
<1>1. Init => ApprovalBacked
  BY DEF Init, ApprovalBacked, Undecided
<1>2. TypeOK /\ ApprovalBacked /\ [Next]_riskVars => ApprovalBacked'
  BY BackingStep
<1> QED
  BY <1>1, <1>2, TypeCorrect, PTL DEF Spec

\* INV-R2, for every sequence of calls: a spent or void token never becomes
\* usable again, and a token is never rebound.
THEOREM SpentTokensStaySpent == Spec => TokensNeverRevive
<1> DEFINE Kept(t) == /\ t \in DOMAIN tokens'
                      /\ isUsable(t)' => isUsable(t)
                      /\ tokens'[t].request = tokens[t].request
                      /\ tokens'[t].reservation = tokens[t].reservation
<1>1. ASSUME TypeOK, [Next]_riskVars PROVE \A t \in DOMAIN tokens : Kept(t)
  <2>0. tokens \in Seq(Token)
    BY <1>1 DEF TypeOK
  <2>a. ASSUME UNCHANGED tokens PROVE \A t \in DOMAIN tokens : Kept(t)
    BY <2>a DEF isUsable
  <2>b. ASSUME InvalidateAll PROVE \A t \in DOMAIN tokens : Kept(t)
    BY <2>0, <2>b, InvalidateAllEffect DEF isUsable
  <2>1. CASE Lifecycle
    BY <2>1, <2>a DEF Lifecycle, InitEngine, Start, EnterSafeMode, ExitSafeMode
  <2>2. ASSUME NEW r \in Requests, NEW symbol \in Symbols, NEW notional \in Notionals,
               NEW positions \in PositionSets, NEW equity \in Equities,
               PreTradeCheck(r, symbol, notional, positions, equity)
        PROVE  \A t \in DOMAIN tokens : Kept(t)
    <3>1. CASE Approve(r, symbol, notional, positions, equity)
      <4>1. \A t \in DOMAIN tokens : t \in DOMAIN tokens' /\ tokens'[t] = tokens[t]
        BY <2>0, <3>1 DEF Approve, Issue
      <4> QED
        BY <4>1 DEF isUsable
    <3> QED
      BY <2>2, <2>a, <2>b, <3>1 DEF PreTradeCheck, RejectNotRunning, RejectDrawdown, RejectLimit
  <2>3. ASSUME NEW u \in DOMAIN tokens, AuthorizeExecution(u)
        PROVE  \A t \in DOMAIN tokens : Kept(t)
    <3>1. Use(u)
      BY <2>3 DEF AuthorizeExecution
    <3>2. tokens[u] \in Token
      BY <2>0
    <3>3. /\ DOMAIN tokens' = DOMAIN tokens
          /\ \A t \in DOMAIN tokens : t # u => tokens'[t] = tokens[t]
          /\ tokens'[u] = [tokens[u] EXCEPT !.used = TRUE]
      BY <2>0, <3>1, UseEffect
    <3>4. tokens'[u].used /\ tokens'[u].request = tokens[u].request
          /\ tokens'[u].reservation = tokens[u].reservation
      BY <3>2, <3>3 DEF Token
    <3> QED
      BY <3>3, <3>4 DEF isUsable
  <2>4. ASSUME NEW i \in DOMAIN reservations, ConfirmFill(i) \/ Release(i)
        PROVE  \A t \in DOMAIN tokens : Kept(t)
    BY <2>4, <2>a DEF ConfirmFill, Release
  <2>5. CASE EmergencyHalt
    BY <2>5, <2>b DEF EmergencyHalt
  <2>6. ASSUME NEW autoChecks \in {"pass", "fail", "throw"}, StartRecovery(autoChecks)
        PROVE  \A t \in DOMAIN tokens : Kept(t)
    BY <2>6, <2>a DEF StartRecovery
  <2>7. CASE UNCHANGED riskVars
    BY <2>7, <2>a DEF riskVars
  <2> QED
    BY <1>1, <2>1, <2>2, <2>3, <2>4, <2>5, <2>6, <2>7 DEF Next, Check, Reconcile
<1> QED
  BY <1>1, TypeCorrect, PTL DEF Spec, TokensNeverRevive

\* INV-R7, for every sequence of calls: a recorded decision is never revised,
\* and a reservation only moves from reserved to consumed to released.
THEOREM DecisionsAreFinal == Spec => DecisionsAndReservationsOnlyAdvance
<1> DEFINE Final == \A r \in Requests : decisions[r].status # "none" => decisions'[r] = decisions[r]
           Advances(i) ==
              /\ reservations[i].state = "released" => reservations'[i].state = "released"
              /\ reservations[i].state = "consumed" => reservations'[i].state # "reserved"
              /\ reservations'[i].amount = reservations[i].amount
           Forward == \A i \in DOMAIN reservations : Advances(i)
<1>1. ASSUME TypeOK, [Next]_riskVars PROVE Final /\ Forward
  <2>0. reservations \in Seq(Reservation) /\ decisions \in [Requests -> Decision]
    BY <1>1 DEF TypeOK
  <2>a. ASSUME UNCHANGED <<budgetVars, decisions>> PROVE Final /\ Forward
    BY <2>a DEF budgetVars
  <2>1. CASE Lifecycle
    BY <2>1, <2>a DEF Lifecycle, InitEngine, Start, EnterSafeMode, ExitSafeMode
  <2>2. ASSUME NEW r \in Requests, NEW symbol \in Symbols, NEW notional \in Notionals,
               NEW positions \in PositionSets, NEW equity \in Equities,
               PreTradeCheck(r, symbol, notional, positions, equity)
        PROVE  Final /\ Forward
    <3>0. decisions[r].status = "none"
      BY <2>2 DEF PreTradeCheck
    <3>1. Final
      BY <2>0, <2>2, <3>0 DEF PreTradeCheck, RejectNotRunning, RejectDrawdown, RejectLimit,
                              Approve, Reject
    <3>2. CASE Approve(r, symbol, notional, positions, equity)
      <4>1. \A i \in DOMAIN reservations : reservations'[i] = reservations[i]
        BY <2>0, <3>2 DEF Approve, Reserve
      <4> QED
        BY <3>1, <4>1
    <3>3. CASE UNCHANGED budgetVars
      BY <3>1, <3>3 DEF budgetVars
    <3> QED
      BY <2>2, <3>2, <3>3 DEF PreTradeCheck, RejectNotRunning, RejectDrawdown, RejectLimit
  <2>3. ASSUME NEW t \in DOMAIN tokens, AuthorizeExecution(t) PROVE Final /\ Forward
    BY <2>3, <2>a DEF AuthorizeExecution
  <2>4. ASSUME NEW i \in DOMAIN reservations, ConfirmFill(i) PROVE Final /\ Forward
    <3>1. reservations[i].state = "reserved" /\ UNCHANGED decisions
      BY <2>4 DEF ConfirmFill, Consume
    <3>2. /\ \A k \in DOMAIN reservations : reservations'[k].amount = reservations[k].amount
          /\ \A k \in DOMAIN reservations : k # i => reservations'[k] = reservations[k]
      BY <2>0, <2>4, MoveReservation DEF ConfirmFill, Consume
    <3> QED
      BY <3>1, <3>2
  <2>5. ASSUME NEW i \in DOMAIN reservations, Release(i) PROVE Final /\ Forward
    <3>1. UNCHANGED decisions
      BY <2>5 DEF Release
    <3>2. /\ \A k \in DOMAIN reservations : reservations'[k].amount = reservations[k].amount
          /\ \A k \in DOMAIN reservations : k # i => reservations'[k] = reservations[k]
          /\ reservations'[i] = [reservations[i] EXCEPT !.state = "released"]
      BY <2>0, <2>5, MoveReservation DEF Release, ReleaseBudget
    <3>3. reservations[i] \in Reservation
      BY <2>0
    <3>4. reservations'[i].state = "released"
      BY <3>2, <3>3 DEF Reservation
    <3> QED
      BY <3>1, <3>2, <3>4
  <2>6. CASE EmergencyHalt
    BY <2>6, <2>a DEF EmergencyHalt
  <2>7. ASSUME NEW autoChecks \in {"pass", "fail", "throw"}, StartRecovery(autoChecks)
        PROVE  Final /\ Forward
    BY <2>7, <2>a DEF StartRecovery
  <2>8. CASE UNCHANGED riskVars
    BY <2>8, <2>a DEF riskVars
  <2> QED
    BY <1>1, <2>1, <2>2, <2>3, <2>4, <2>5, <2>6, <2>7, <2>8 DEF Next, Check, Reconcile
<1> QED
  BY <1>1, TypeCorrect, PTL DEF Spec, DecisionsAndReservationsOnlyAdvance

Amounts == [i \in DOMAIN reservations |-> reservations[i].amount]
InState(state) == {i \in DOMAIN reservations : reservations[i].state = state}

\* What HeldIn adds up: finitely many natural numbers.
LEMMA HeldInIsSum ==
    ASSUME reservations \in Seq(Reservation), NEW state
    PROVE  /\ HeldIn(state) = SumFunctionOnSet(Amounts, InState(state))
           /\ HeldIn(state) \in Int
           /\ IsFiniteSet(InState(state))
           /\ \A i \in DOMAIN reservations : Amounts[i] \in Int /\ Amounts[i] = reservations[i].amount
<1>1. HeldIn(state) = SumFunctionOnSet(Amounts, InState(state))
  BY DEF HeldIn, Amounts, InState
<1>2. IsFiniteSet(InState(state))
  <2>1. IsFiniteSet(1 .. Len(reservations)) /\ DOMAIN reservations = 1 .. Len(reservations)
    BY FS_Interval
  <2> QED
    BY <2>1, FS_Subset DEF InState
<1>3. \A i \in DOMAIN reservations : Amounts[i] \in Int /\ Amounts[i] = reservations[i].amount
  BY ReservationAmount DEF Amounts
<1>4. \A i \in InState(state) : Amounts[i] \in Int
  BY <1>3 DEF InState
<1>5. HeldIn(state) \in Int
  BY <1>1, <1>2, <1>4, SumType
<1> QED
  BY <1>1, <1>2, <1>3, <1>5

\* A reservation that changes its state moves its amount from one sum to the
\* other and leaves the third alone.
LEMMA HeldInAfterMove ==
    ASSUME reservations \in Seq(Reservation), NEW i \in DOMAIN reservations,
           NEW s, NEW t \in {"reserved", "consumed", "released"}, s # t,
           reservations[i].state = s,
           reservations' = [reservations EXCEPT ![i].state = t]
    PROVE  /\ HeldIn(s)' = HeldIn(s) - reservations[i].amount
           /\ HeldIn(t)' = HeldIn(t) + reservations[i].amount
           /\ \A u : u # s /\ u # t => HeldIn(u)' = HeldIn(u)
<1>1. /\ reservations' \in Seq(Reservation)
      /\ DOMAIN reservations' = DOMAIN reservations
      /\ reservations'[i] = [reservations[i] EXCEPT !.state = t]
      /\ \A k \in DOMAIN reservations : k # i => reservations'[k] = reservations[k]
      /\ \A k \in DOMAIN reservations : reservations'[k].amount = reservations[k].amount
  BY MoveReservation
<1>2. reservations'[i].state = t
  <2>1. reservations[i] \in Reservation
    OBVIOUS
  <2> QED
    BY <1>1, <2>1 DEF Reservation
<1>3. Amounts' = Amounts
  BY <1>1 DEF Amounts
<1>4. /\ InState(s)' = InState(s) \ {i} /\ i \in InState(s)
      /\ InState(t)' = InState(t) \cup {i} /\ i \notin InState(t)
      /\ \A u : u # s /\ u # t => InState(u)' = InState(u)
  BY <1>1, <1>2 DEF InState
<1>5. \A u : /\ HeldIn(u)' = SumFunctionOnSet(Amounts, InState(u)')
             /\ HeldIn(u) = SumFunctionOnSet(Amounts, InState(u))
             /\ HeldIn(u) \in Int /\ IsFiniteSet(InState(u))
             /\ \A k \in InState(u) : Amounts[k] \in Int
  <2> TAKE u
  <2>1. HeldIn(u)' = SumFunctionOnSet(Amounts', InState(u)')
    BY DEF HeldIn, Amounts, InState
  <2> QED
    BY <1>3, <2>1, HeldInIsSum DEF InState
<1>6. Amounts[i] = reservations[i].amount /\ Amounts[i] \in Int
  BY HeldInIsSum
<1>7. HeldIn(s) = Amounts[i] + SumFunctionOnSet(Amounts, InState(s) \ {i})
  BY <1>4, <1>5, SumTakeOut
<1>8. SumFunctionOnSet(Amounts, InState(t) \cup {i}) = Amounts[i] + HeldIn(t)
  BY <1>4, <1>5, <1>6, SumAdd
<1>9. SumFunctionOnSet(Amounts, InState(s) \ {i}) \in Int
  BY <1>5, SumType, FS_Subset
<1>10. /\ HeldIn(s)' = SumFunctionOnSet(Amounts, InState(s) \ {i})
       /\ HeldIn(t)' = SumFunctionOnSet(Amounts, InState(t) \cup {i})
       /\ HeldIn(t) \in Int
       /\ \A u : u # s /\ u # t => HeldIn(u)' = HeldIn(u)
  BY <1>4, <1>5, Zenon
<1> QED
  BY <1>6, <1>7, <1>8, <1>9, <1>10

\* An approval adds its amount to what is reserved, and to nothing else.
LEMMA HeldInAfterReserve ==
    ASSUME reservations \in Seq(Reservation), NEW r \in Requests, NEW amount \in Nat \ {0},
           reservations' = Append(reservations,
                                  [request |-> r, amount |-> amount, state |-> "reserved"])
    PROVE  /\ HeldIn("reserved")' = HeldIn("reserved") + amount
           /\ HeldIn("consumed")' = HeldIn("consumed")
<1> DEFINE n == Len(reservations) + 1
           res == [request |-> r, amount |-> amount, state |-> "reserved"]
<1>1. /\ Len(reservations) \in Nat /\ DOMAIN reservations = 1 .. Len(reservations)
      /\ n \notin DOMAIN reservations /\ res \in Reservation
  BY DEF Reservation
<1>2. /\ reservations' \in Seq(Reservation)
      /\ DOMAIN reservations' = DOMAIN reservations \cup {n}
      /\ \A k \in DOMAIN reservations : reservations'[k] = reservations[k]
      /\ reservations'[n] = res
  BY <1>1
<1> HIDE DEF n
<1>3. /\ InState("reserved")' = InState("reserved") \cup {n} /\ n \notin InState("reserved")
      /\ InState("consumed")' = InState("consumed")
  BY <1>1, <1>2 DEF InState
<1>4. /\ \A k \in DOMAIN reservations : Amounts'[k] = Amounts[k]
      /\ Amounts'[n] = amount
  BY <1>1, <1>2 DEF Amounts
<1>5. \A u : /\ HeldIn(u)' = SumFunctionOnSet(Amounts', InState(u)')
             /\ HeldIn(u) = SumFunctionOnSet(Amounts, InState(u))
             /\ HeldIn(u) \in Int /\ IsFiniteSet(InState(u))
             /\ \A k \in InState(u) : Amounts[k] \in Int /\ Amounts'[k] = Amounts[k]
  <2> TAKE u
  <2>1. HeldIn(u)' = SumFunctionOnSet(Amounts', InState(u)')
    BY DEF HeldIn, Amounts, InState
  <2> QED
    BY <1>4, <2>1, HeldInIsSum DEF InState
<1>6. \A u : SumFunctionOnSet(Amounts', InState(u)) = HeldIn(u)
  BY <1>5, SumAgrees
<1>7. SumFunctionOnSet(Amounts', InState("reserved") \cup {n}) = amount + HeldIn("reserved")
  <2>1. \A k \in InState("reserved") \cup {n} : Amounts'[k] \in Int
    BY <1>4, <1>5
  <2>2. SumFunctionOnSet(Amounts', InState("reserved") \cup {n}) =
           Amounts'[n] + SumFunctionOnSet(Amounts', InState("reserved"))
    BY <1>3, <1>5, <2>1, SumAdd
  <2> QED
    BY <1>4, <1>6, <2>2
<1>8. /\ HeldIn("reserved") \in Int
      /\ HeldIn("reserved")' = amount + HeldIn("reserved")
  BY <1>3, <1>5, <1>7, Zenon
<1>9. HeldIn("consumed")' = HeldIn("consumed")
  BY <1>3, <1>5, <1>6, Zenon
<1> QED
  BY <1>8, <1>9

\* The two running totals of RiskBudget are exact, for every sequence of
\* approvals, fills and releases: each is the sum of the reservations in its
\* state.
THEOREM TotalsAreSums == Spec => []BudgetMatchesReservations
<1>1. Init => BudgetMatchesReservations
  <2> SUFFICES ASSUME Init PROVE BudgetMatchesReservations
    OBVIOUS
  <2>1. reservations = <<>> /\ reserved = 0 /\ consumed = 0
    BY DEF Init
  <2>2. reservations \in Seq(Reservation) /\ \A u : InState(u) = {}
    BY <2>1 DEF InState
  <2>3. \A u : HeldIn(u) = 0
    BY <2>2, HeldInIsSum, SumEmpty
  <2> QED
    BY <2>1, <2>3 DEF BudgetMatchesReservations
<1>2. TypeOK /\ BudgetMatchesReservations /\ [Next]_riskVars => BudgetMatchesReservations'
  <2> SUFFICES ASSUME TypeOK, BudgetMatchesReservations, [Next]_riskVars
               PROVE  BudgetMatchesReservations'
    OBVIOUS
  <2>0. /\ reservations \in Seq(Reservation) /\ reserved \in Int /\ consumed \in Int
        /\ reserved = HeldIn("reserved") /\ consumed = HeldIn("consumed")
    BY DEF TypeOK, BudgetMatchesReservations
  <2>a. ASSUME UNCHANGED budgetVars PROVE BudgetMatchesReservations'
    BY <2>0, <2>a DEF budgetVars, BudgetMatchesReservations, HeldIn
  <2>1. CASE Lifecycle
    BY <2>1, <2>a DEF Lifecycle, InitEngine, Start, EnterSafeMode, ExitSafeMode
  <2>2. ASSUME NEW r \in Requests, NEW symbol \in Symbols, NEW notional \in Notionals,
               NEW positions \in PositionSets, NEW equity \in Equities,
               PreTradeCheck(r, symbol, notional, positions, equity)
        PROVE  BudgetMatchesReservations'
    <3>1. CASE Approve(r, symbol, notional, positions, equity)
      <4>1. notional \in Nat \ {0}
        BY <3>1, BudgetAssumption DEF Approve, CanReserve
      <4>2. /\ reservations' = Append(reservations,
                    [request |-> r, amount |-> notional, state |-> "reserved"])
            /\ reserved' = reserved + notional /\ consumed' = consumed
        BY <3>1 DEF Approve, Reserve
      <4> QED
        BY <2>0, <4>1, <4>2, HeldInAfterReserve DEF BudgetMatchesReservations
    <3> QED
      BY <2>2, <2>a, <3>1 DEF PreTradeCheck, RejectNotRunning, RejectDrawdown, RejectLimit
  <2>3. ASSUME NEW t \in DOMAIN tokens, AuthorizeExecution(t) PROVE BudgetMatchesReservations'
    BY <2>3, <2>a DEF AuthorizeExecution
  <2>4. ASSUME NEW i \in DOMAIN reservations, ConfirmFill(i) PROVE BudgetMatchesReservations'
    <3>1. /\ reservations[i].state = "reserved"
          /\ reservations' = [reservations EXCEPT ![i].state = "consumed"]
          /\ reserved' = reserved - reservations[i].amount
          /\ consumed' = consumed + reservations[i].amount
      BY <2>4 DEF ConfirmFill, Consume
    <3>2. /\ HeldIn("reserved")' = HeldIn("reserved") - reservations[i].amount
          /\ HeldIn("consumed")' = HeldIn("consumed") + reservations[i].amount
      BY <2>0, <3>1, HeldInAfterMove
    <3> QED
      BY <2>0, <3>1, <3>2 DEF BudgetMatchesReservations
  <2>5. ASSUME NEW i \in DOMAIN reservations, Release(i) PROVE BudgetMatchesReservations'
    <3>1. reservations' = [reservations EXCEPT ![i].state = "released"]
      BY <2>5 DEF Release, ReleaseBudget
    <3>2. CASE /\ reservations[i].state = "reserved"
               /\ reserved' = reserved - reservations[i].amount
               /\ consumed' = consumed
      <4>1. /\ HeldIn("reserved")' = HeldIn("reserved") - reservations[i].amount
            /\ HeldIn("consumed")' = HeldIn("consumed")
        BY <2>0, <3>1, <3>2, HeldInAfterMove
      <4> QED
        BY <2>0, <3>2, <4>1 DEF BudgetMatchesReservations
    <3>3. CASE /\ reservations[i].state = "consumed"
               /\ consumed' = consumed - reservations[i].amount
               /\ reserved' = reserved
      <4>1. /\ HeldIn("consumed")' = HeldIn("consumed") - reservations[i].amount
            /\ HeldIn("reserved")' = HeldIn("reserved")
        BY <2>0, <3>1, <3>3, HeldInAfterMove
      <4> QED
        BY <2>0, <3>3, <4>1 DEF BudgetMatchesReservations
    <3> QED
      BY <2>5, <3>2, <3>3 DEF Release, ReleaseBudget
  <2>6. CASE EmergencyHalt
    BY <2>6, <2>a DEF EmergencyHalt
  <2>7. ASSUME NEW autoChecks \in {"pass", "fail", "throw"}, StartRecovery(autoChecks)
        PROVE  BudgetMatchesReservations'
    BY <2>7, <2>a DEF StartRecovery
  <2>8. CASE UNCHANGED riskVars
    BY <2>8, <2>a DEF riskVars
  <2> QED
    BY <2>1, <2>2, <2>3, <2>4, <2>5, <2>6, <2>7, <2>8 DEF Next, Check, Reconcile
<1> QED
  BY <1>1, <1>2, TypeCorrect, PTL DEF Spec

(***************************************************************************)
(* The refinement of RiskAuthority.  What a step does to the abstract      *)
(* state is read off what it does to the decision, the token and the       *)
(* reservation of each request.                                            *)
(***************************************************************************)
GrantOf(d, t) ==
    IF d.status = "none" THEN "none"
    ELSE IF d.status = "rejected" THEN "refused"
    ELSE IF t.used THEN "spent" ELSE IF t.valid THEN "granted" ELSE "void"

HeldOf(d, res) ==
    IF d.status = "approved" /\ res.state # "released" THEN res.amount ELSE 0

tokenOf(r) == tokens[decisions[r].token]
resOf(r) == reservations[decisions[r].reservation]
AbstractGrant == [r \in Requests |-> grantOf(r)]
AbstractHeld == [r \in Requests |-> heldFor(r)]
AuthorityStep == [Authority!AuthorityNext]_<<riskState \in Trading, AbstractGrant, AbstractHeld,
                                             reserved + consumed>>

\* The mapping before and after a step, in terms of the values it reads.
LEMMA MappingValues ==
    ASSUME decisions \in [Requests -> Decision], decisions' \in [Requests -> Decision],
           NEW r \in Requests
    PROVE  /\ AbstractGrant[r] = GrantOf(decisions[r], tokenOf(r))
           /\ AbstractHeld[r] = HeldOf(decisions[r], resOf(r))
           /\ AbstractGrant'[r] = GrantOf(decisions'[r], tokenOf(r)')
           /\ AbstractHeld'[r] = HeldOf(decisions'[r], resOf(r)')
<1>1. /\ decisions[r].status \in {"none", "rejected", "approved"}
      /\ decisions'[r].status \in {"none", "rejected", "approved"}
  BY DEF Decision
<1>2. /\ grantOf(r) = GrantOf(decisions[r], tokenOf(r))
      /\ grantOf(r)' = GrantOf(decisions'[r], tokenOf(r)')
  BY <1>1 DEF grantOf, GrantOf, tokenOf
<1>3. /\ heldFor(r) = HeldOf(decisions[r], resOf(r))
      /\ heldFor(r)' = HeldOf(decisions'[r], resOf(r)')
  BY <1>1 DEF heldFor, HeldOf, resOf
<1> QED
  BY <1>2, <1>3 DEF AbstractGrant, AbstractHeld

\* A step that leaves what the mapping reads alone is a stutter.
LEMMA MappingStutter ==
    ASSUME decisions \in [Requests -> Decision], UNCHANGED decisions,
           (riskState \in Trading) <=> (riskState' \in Trading),
           reserved' + consumed' = reserved + consumed,
           \A r \in Requests : decisions[r].status = "approved" =>
              /\ GrantOf(decisions[r], tokenOf(r)') = GrantOf(decisions[r], tokenOf(r))
              /\ HeldOf(decisions[r], resOf(r)') = HeldOf(decisions[r], resOf(r))
    PROVE  AuthorityStep
<1>1. \A r \in Requests : /\ AbstractGrant'[r] = AbstractGrant[r]
                          /\ AbstractHeld'[r] = AbstractHeld[r]
  <2> TAKE r \in Requests
  <2>1. decisions[r].status \in {"none", "rejected", "approved"}
    BY DEF Decision
  <2>2. CASE decisions[r].status = "approved"
    BY <2>2, MappingValues
  <2>3. CASE decisions[r].status # "approved"
    <3>1. /\ GrantOf(decisions[r], tokenOf(r)') = GrantOf(decisions[r], tokenOf(r))
          /\ HeldOf(decisions[r], resOf(r)') = HeldOf(decisions[r], resOf(r))
      BY <2>1, <2>3 DEF GrantOf, HeldOf
    <3> QED
      BY <3>1, MappingValues
  <2> QED
    BY <2>2, <2>3
<1>2. AbstractGrant' = AbstractGrant /\ AbstractHeld' = AbstractHeld
  BY <1>1 DEF AbstractGrant, AbstractHeld
<1>3. (riskState' \in Trading) = (riskState \in Trading)
  OBVIOUS
<1> QED
  BY <1>2, <1>3 DEF AuthorityStep

\* The token and the reservation of an approved request.
LEMMA ApprovedOwns ==
    ASSUME TypeOK, ApprovalBacked, NEW r \in Requests, decisions[r].status = "approved"
    PROVE  /\ decisions[r].token \in DOMAIN tokens /\ decisions[r].token \in DOMAIN reservations
           /\ decisions[r].reservation = decisions[r].token
           /\ tokens[decisions[r].token].request = r
           /\ reservations[decisions[r].token].request = r
           /\ tokens[decisions[r].token] \in Token
           /\ reservations[decisions[r].token] \in Reservation
<1> DEFINE t == decisions[r].token
<1>1. t \in DOMAIN tokens /\ tokens[t].request = r
  BY DEF ApprovalBacked
<1>2. /\ decisions[r] = [status |-> "approved", token |-> t, reservation |-> tokens[t].reservation]
      /\ tokens[t].reservation = t /\ reservations[t].request = r
  BY <1>1 DEF ApprovalBacked
<1>3. tokens \in Seq(Token) /\ reservations \in Seq(Reservation) /\ DOMAIN tokens = DOMAIN reservations
  BY DEF TypeOK, ApprovalBacked
<1>4. decisions[r].reservation = t
  BY <1>2
<1>5. tokens[t] \in Token /\ reservations[t] \in Reservation
  BY <1>1, <1>3
<1> QED
  BY <1>1, <1>2, <1>3, <1>4, <1>5

\* A rejection outside the drawdown path is a refusal.
LEMMA RefuseStep ==
    ASSUME TypeOK, TypeOK', NEW r \in Requests, decisions[r].status = "none", Reject(r),
           UNCHANGED <<riskState, budgetVars, tokens>>
    PROVE  Authority!Refuse(r)
<1>1. /\ decisions \in [Requests -> Decision] /\ decisions' \in [Requests -> Decision]
      /\ reserved' = reserved /\ consumed' = consumed /\ tokens' = tokens
      /\ reservations' = reservations /\ riskState' = riskState
  BY DEF TypeOK, budgetVars
<1>2. decisions'[r].status = "rejected" /\ \A q \in Requests : q # r => decisions'[q] = decisions[q]
  BY <1>1 DEF Reject, Decision
<1>3. AbstractGrant[r] = "none"
  BY <1>1, MappingValues DEF GrantOf
<1>4. AbstractGrant' = [AbstractGrant EXCEPT ![r] = "refused"]
  <2>1. AbstractGrant'[r] = "refused"
    BY <1>1, <1>2, MappingValues DEF GrantOf
  <2>2. \A q \in Requests : q # r => AbstractGrant'[q] = AbstractGrant[q]
    BY <1>1, <1>2, MappingValues DEF tokenOf
  <2> QED
    BY <2>1, <2>2 DEF AbstractGrant
<1>5. AbstractHeld' = AbstractHeld
  <2>1. AbstractHeld'[r] = 0 /\ AbstractHeld[r] = 0
    BY <1>1, <1>2, MappingValues DEF HeldOf
  <2>2. \A q \in Requests : q # r => AbstractHeld'[q] = AbstractHeld[q]
    BY <1>1, <1>2, MappingValues DEF resOf
  <2> QED
    BY <2>1, <2>2 DEF AbstractHeld
<1> QED
  BY <1>1, <1>3, <1>4, <1>5 DEF Authority!Refuse, AbstractGrant, AbstractHeld

\* An approval is a grant.
LEMMA GrantStep ==
    ASSUME TypeOK, TypeOK', ApprovalBacked, NEW r \in Requests, NEW symbol,
           NEW notional \in Notionals, NEW positions, NEW equity, decisions[r].status = "none",
           Approve(r, symbol, notional, positions, equity)
    PROVE  Authority!Grant(r, notional)
<1> DEFINE n == Len(reservations) + 1
<1>1. /\ decisions \in [Requests -> Decision] /\ decisions' \in [Requests -> Decision]
      /\ tokens \in Seq(Token) /\ reservations \in Seq(Reservation)
      /\ Len(tokens) = Len(reservations) /\ reserved \in Int /\ consumed \in Int
  BY DEF TypeOK, ApprovalBacked
<1>2. /\ riskState = "RUN" /\ riskState' = riskState
      /\ notional \in Int /\ notional > 0 /\ reserved + consumed + notional <= Total
      /\ reserved' = reserved + notional /\ consumed' = consumed
      /\ tokens' = Append(tokens, [request |-> r, reservation |-> n, used |-> FALSE, valid |-> TRUE])
      /\ reservations' = Append(reservations, [request |-> r, amount |-> notional, state |-> "reserved"])
      /\ decisions' = [decisions EXCEPT ![r] =
                          [status |-> "approved", token |-> Len(tokens) + 1, reservation |-> n]]
  BY BudgetAssumption DEF Approve, CanReserve, Reserve, Issue
<1>3. /\ tokens'[n] = [request |-> r, reservation |-> n, used |-> FALSE, valid |-> TRUE]
      /\ reservations'[n] = [request |-> r, amount |-> notional, state |-> "reserved"]
      /\ \A t \in DOMAIN tokens : tokens'[t] = tokens[t]
      /\ \A t \in DOMAIN reservations : reservations'[t] = reservations[t]
  BY <1>1, <1>2
<1>4. /\ decisions'[r] = [status |-> "approved", token |-> n, reservation |-> n]
      /\ \A q \in Requests : q # r => decisions'[q] = decisions[q]
  BY <1>1, <1>2
<1>5. tokenOf(r)' = tokens'[n] /\ resOf(r)' = reservations'[n]
  BY <1>4 DEF tokenOf, resOf
<1>6. AbstractGrant[r] = "none" /\ AbstractHeld[r] = 0
  BY <1>1, MappingValues DEF GrantOf, HeldOf
<1>7. AbstractGrant'[r] = "granted" /\ AbstractHeld'[r] = notional
  <2>1. GrantOf(decisions'[r], tokens'[n]) = "granted"
    BY <1>3, <1>4 DEF GrantOf
  <2>2. HeldOf(decisions'[r], reservations'[n]) = notional
    BY <1>3, <1>4 DEF HeldOf
  <2> QED
    BY <1>1, <1>5, <2>1, <2>2, MappingValues
<1>8. ASSUME NEW q \in Requests, q # r
      PROVE  AbstractGrant'[q] = AbstractGrant[q] /\ AbstractHeld'[q] = AbstractHeld[q]
  <2>1. CASE decisions[q].status = "approved"
    <3>1. /\ decisions[q].token \in DOMAIN tokens
          /\ decisions[q].reservation \in DOMAIN reservations
      BY <2>1, ApprovedOwns
    <3>2. tokenOf(q)' = tokenOf(q) /\ resOf(q)' = resOf(q)
      BY <1>3, <1>4, <1>8, <3>1 DEF tokenOf, resOf
    <3> QED
      BY <1>1, <1>4, <1>8, <3>2, MappingValues
  <2>2. CASE decisions[q].status # "approved"
    <3>1. decisions[q].status \in {"none", "rejected"} /\ decisions'[q] = decisions[q]
      BY <1>1, <1>4, <1>8, <2>2 DEF Decision
    <3>2. /\ GrantOf(decisions'[q], tokenOf(q)') = GrantOf(decisions[q], tokenOf(q))
          /\ HeldOf(decisions'[q], resOf(q)') = HeldOf(decisions[q], resOf(q))
      BY <3>1 DEF GrantOf, HeldOf
    <3> QED
      BY <1>1, <3>2, MappingValues
  <2> QED
    BY <2>1, <2>2
<1>9. /\ AbstractGrant' = [AbstractGrant EXCEPT ![r] = "granted"]
      /\ AbstractHeld' = [AbstractHeld EXCEPT ![r] = notional]
  BY <1>7, <1>8 DEF AbstractGrant, AbstractHeld
<1>10. reserved' + consumed' = (reserved + consumed) + notional
  BY <1>1, <1>2
<1>11. (riskState \in Trading) /\ (riskState' \in Trading) = (riskState \in Trading)
  BY <1>2 DEF Trading
<1> QED
  BY <1>2, <1>6, <1>9, <1>10, <1>11 DEF Authority!Grant, AbstractGrant, AbstractHeld

\* What voiding every token does to a grant.
LEMMA VoidGrant ==
    ASSUME TypeOK, ApprovalBacked, InvalidateAll, NEW r \in Requests
    PROVE  GrantOf(decisions[r], tokens'[decisions[r].token]) =
              IF GrantOf(decisions[r], tokenOf(r)) = "granted" THEN "void"
              ELSE GrantOf(decisions[r], tokenOf(r))
<1>1. decisions[r].status \in {"none", "rejected", "approved"}
  BY DEF TypeOK, Decision
<1>2. CASE decisions[r].status = "approved"
  <2>1. decisions[r].token \in DOMAIN tokens /\ tokenOf(r) \in Token
    BY <1>2, ApprovedOwns DEF tokenOf
  <2>2. /\ tokens'[decisions[r].token].used = tokenOf(r).used
        /\ ~tokens'[decisions[r].token].valid
    BY <2>1, InvalidateAllEffect DEF TypeOK, tokenOf
  <2> QED
    BY <1>2, <2>1, <2>2 DEF GrantOf, Token
<1>3. CASE decisions[r].status # "approved"
  BY <1>1, <1>3 DEF GrantOf
<1> QED
  BY <1>2, <1>3

\* A breach of the drawdown limit closes trading and refuses the request.
LEMMA DrawdownStep ==
    ASSUME TypeOK, TypeOK', ApprovalBacked, NEW r \in Requests, NEW equity,
           decisions[r].status = "none", RejectDrawdown(r, equity)
    PROVE  Authority!CloseTrading({r})
<1>1. /\ decisions \in [Requests -> Decision] /\ decisions' \in [Requests -> Decision]
      /\ reserved' = reserved /\ consumed' = consumed /\ reservations' = reservations
      /\ riskState = "RUN" /\ riskState' = "HALT" /\ InvalidateAll
  BY DEF TypeOK, RejectDrawdown, Transition, budgetVars
<1>2. decisions'[r].status = "rejected" /\ \A q \in Requests : q # r => decisions'[q] = decisions[q]
  BY <1>1 DEF RejectDrawdown, Reject, Decision
<1>3. AbstractGrant[r] = "none" /\ AbstractHeld[r] = 0
  BY <1>1, MappingValues DEF GrantOf, HeldOf
<1>4. AbstractGrant'[r] = "refused" /\ AbstractHeld'[r] = 0
  BY <1>1, <1>2, MappingValues DEF GrantOf, HeldOf
<1>5. ASSUME NEW q \in Requests, q # r
      PROVE  /\ AbstractGrant'[q] = IF AbstractGrant[q] = "granted" THEN "void" ELSE AbstractGrant[q]
             /\ AbstractHeld'[q] = AbstractHeld[q]
  <2>1. decisions'[q] = decisions[q]
    BY <1>2, <1>5
  <2>2. tokenOf(q)' = tokens'[decisions[q].token] /\ resOf(q)' = resOf(q)
    BY <1>1, <2>1 DEF tokenOf, resOf
  <2>3. /\ AbstractGrant[q] = GrantOf(decisions[q], tokenOf(q))
        /\ AbstractGrant'[q] = GrantOf(decisions[q], tokens'[decisions[q].token])
        /\ AbstractHeld'[q] = AbstractHeld[q]
    BY <1>1, <2>1, <2>2, MappingValues
  <2> QED
    BY <1>1, <2>3, VoidGrant
<1>6. AbstractGrant' = [q \in Requests |-> IF q \in {r} THEN "refused"
                                           ELSE IF AbstractGrant[q] = "granted" THEN "void"
                                           ELSE AbstractGrant[q]]
  BY <1>4, <1>5 DEF AbstractGrant
<1>7. AbstractHeld' = AbstractHeld
  BY <1>3, <1>4, <1>5 DEF AbstractHeld
<1>8. (riskState \in Trading) /\ (riskState' \in Trading) = FALSE
  BY <1>1 DEF Trading
<1> QED
  BY <1>1, <1>3, <1>6, <1>7, <1>8 DEF Authority!CloseTrading, AbstractGrant, AbstractHeld

\* emergencyHalt closes trading, or finds it closed and nothing to void.
LEMMA HaltStep ==
    ASSUME TypeOK, TypeOK', ApprovalBacked, NoUsableTokenOutsideTrading, EmergencyHalt
    PROVE  AuthorityStep
<1>1. /\ decisions \in [Requests -> Decision] /\ decisions' = decisions
      /\ reserved' = reserved /\ consumed' = consumed /\ reservations' = reservations
      /\ InvalidateAll
  BY DEF TypeOK, EmergencyHalt, budgetVars
<1>2. ASSUME NEW q \in Requests
      PROVE  /\ AbstractGrant'[q] = IF AbstractGrant[q] = "granted" THEN "void" ELSE AbstractGrant[q]
             /\ AbstractHeld'[q] = AbstractHeld[q]
             /\ AbstractGrant[q] = "granted" => riskState \in Trading
  <2>1. tokenOf(q)' = tokens'[decisions[q].token] /\ resOf(q)' = resOf(q)
    BY <1>1 DEF tokenOf, resOf
  <2>2. /\ AbstractGrant[q] = GrantOf(decisions[q], tokenOf(q))
        /\ AbstractGrant'[q] = GrantOf(decisions[q], tokens'[decisions[q].token])
        /\ AbstractHeld'[q] = AbstractHeld[q]
    BY <1>1, <2>1, MappingValues
  <2>3. GrantOf(decisions[q], tokenOf(q)) = "granted" => riskState \in Trading
    <3>1. HAVE GrantOf(decisions[q], tokenOf(q)) = "granted"
    <3>2. decisions[q].status = "approved" /\ ~tokenOf(q).used /\ tokenOf(q).valid
      BY <1>1, <3>1 DEF GrantOf, Decision
    <3>3. decisions[q].token \in DOMAIN tokens
      BY <3>2, ApprovedOwns
    <3> QED
      BY <3>2, <3>3 DEF NoUsableTokenOutsideTrading, isUsable, tokenOf
  <2> QED
    BY <1>1, <2>2, <2>3, VoidGrant
<1>3. AbstractHeld' = AbstractHeld
  BY <1>2 DEF AbstractHeld
<1>4. CASE riskState \in Trading
  <2>1. (riskState' \in Trading) = FALSE
    BY <1>4 DEF EmergencyHalt, canTransition, VALID, Trading
  <2>2. AbstractGrant' = [q \in Requests |-> IF q \in {} THEN "refused"
                                             ELSE IF AbstractGrant[q] = "granted" THEN "void"
                                             ELSE AbstractGrant[q]]
    BY <1>2 DEF AbstractGrant
  <2>3. Authority!CloseTrading({})
    BY <1>1, <1>3, <1>4, <2>1, <2>2 DEF Authority!CloseTrading, AbstractGrant, AbstractHeld
  <2> QED
    BY <2>3 DEF AuthorityStep, Authority!AuthorityNext
<1>5. CASE riskState \notin Trading
  <2>1. riskState' \notin Trading
    BY <1>5 DEF EmergencyHalt, Trading
  <2>2. AbstractGrant' = AbstractGrant
    BY <1>2, <1>5 DEF AbstractGrant
  <2>3. (riskState' \in Trading) = (riskState \in Trading)
    BY <1>5, <2>1
  <2> QED
    BY <1>1, <1>3, <2>2, <2>3 DEF AuthorityStep
<1> QED
  BY <1>4, <1>5

\* authorizeExecution spends the grant of the token's request.
LEMMA SpendStep ==
    ASSUME TypeOK, TypeOK', ApprovalBacked, NoUsableTokenOutsideTrading,
           NEW t \in DOMAIN tokens, AuthorizeExecution(t), NEW r, r = tokens[t].request
    PROVE  r \in Requests /\ Authority!Spend(r)
<1>1. /\ decisions \in [Requests -> Decision] /\ decisions' = decisions
      /\ reserved' = reserved /\ consumed' = consumed /\ reservations' = reservations
      /\ riskState' = riskState /\ Use(t) /\ tokens \in Seq(Token)
  BY DEF TypeOK, AuthorizeExecution, budgetVars
<1>2. r \in Requests /\ decisions[r].status = "approved" /\ decisions[r].token = t
  <2>1. r \in Requests /\ decisions[r].status = "approved"
    BY TokenOwner
  <2>2. decisions[r] = [status |-> "approved", token |-> t, reservation |-> tokens[t].reservation]
    BY DEF ApprovalBacked
  <2> QED
    BY <2>1, <2>2
<1>3. /\ tokens'[t] = [tokens[t] EXCEPT !.used = TRUE] /\ tokens[t] \in Token
      /\ \A u \in DOMAIN tokens : u # t => tokens'[u] = tokens[u]
  BY <1>1, UseEffect
<1>4. tokens'[t].used /\ ~tokens[t].used /\ tokens[t].valid
  BY <1>1, <1>3 DEF Token, Use, isUsable
<1>5. riskState \in Trading
  BY <1>1 DEF NoUsableTokenOutsideTrading, Use
<1>6. AbstractGrant[r] = "granted" /\ AbstractGrant'[r] = "spent"
  <2>1. tokenOf(r) = tokens[t] /\ tokenOf(r)' = tokens'[t]
    BY <1>1, <1>2 DEF tokenOf
  <2>2. /\ GrantOf(decisions[r], tokens[t]) = "granted"
        /\ GrantOf(decisions[r], tokens'[t]) = "spent"
    BY <1>2, <1>4 DEF GrantOf
  <2> QED
    BY <1>1, <1>2, <2>1, <2>2, MappingValues
<1>7. ASSUME NEW q \in Requests, q # r PROVE AbstractGrant'[q] = AbstractGrant[q]
  <2>1. CASE decisions[q].status = "approved"
    <3>1. decisions[q].token \in DOMAIN tokens /\ decisions[q].token # t
      BY <1>7, <2>1, ApprovedOwns
    <3>2. tokenOf(q)' = tokenOf(q)
      BY <1>1, <1>3, <3>1 DEF tokenOf
    <3> QED
      BY <1>1, <3>2, MappingValues
  <2>2. CASE decisions[q].status # "approved"
    <3>1. decisions[q].status \in {"none", "rejected"}
      BY <1>1, <2>2 DEF Decision
    <3>2. GrantOf(decisions'[q], tokenOf(q)') = GrantOf(decisions[q], tokenOf(q))
      BY <1>1, <3>1 DEF GrantOf
    <3> QED
      BY <1>1, <3>2, MappingValues
  <2> QED
    BY <2>1, <2>2
<1>8. AbstractGrant' = [AbstractGrant EXCEPT ![r] = "spent"]
  BY <1>6, <1>7 DEF AbstractGrant
<1>9. AbstractHeld' = AbstractHeld
  <2>1. \A q \in Requests : AbstractHeld'[q] = AbstractHeld[q]
    BY <1>1, MappingValues DEF resOf
  <2> QED
    BY <2>1 DEF AbstractHeld
<1>10. (riskState' \in Trading) = (riskState \in Trading)
  BY <1>1
<1> QED
  BY <1>1, <1>2, <1>5, <1>6, <1>8, <1>9, <1>10 DEF Authority!Spend, AbstractGrant, AbstractHeld

\* release gives back what was held for the reservation's request.
LEMMA GiveBackStep ==
    ASSUME TypeOK, TypeOK', ApprovalBacked, NEW i \in DOMAIN reservations, Release(i),
           NEW r, r = reservations[i].request
    PROVE  r \in Requests /\ Authority!GiveBack(r)
<1>1. /\ decisions \in [Requests -> Decision] /\ decisions' = decisions
      /\ tokens' = tokens /\ riskState' = riskState
      /\ reservations \in Seq(Reservation) /\ tokens \in Seq(Token)
      /\ reserved \in Int /\ consumed \in Int /\ DOMAIN tokens = DOMAIN reservations
      /\ reservations' = [reservations EXCEPT ![i].state = "released"]
  BY DEF TypeOK, Release, ReleaseBudget, ApprovalBacked
<1>2. reservations[i] \in Reservation
  BY <1>1
<1>3. /\ reservations[i].state # "released"
      /\ reservations[i].amount \in Int /\ reservations[i].amount > 0
      /\ reserved' + consumed' = (reserved + consumed) - reservations[i].amount
  BY <1>1, <1>2 DEF Release, ReleaseBudget, Reservation
<1>4. /\ reservations'[i] = [reservations[i] EXCEPT !.state = "released"]
      /\ \A k \in DOMAIN reservations : k # i => reservations'[k] = reservations[k]
  BY <1>1, MoveReservation
<1>5. reservations'[i].state = "released"
  BY <1>2, <1>4 DEF Reservation
<1>6. r \in Requests /\ decisions[r].status = "approved" /\ decisions[r].reservation = i
  <2>0. i \in DOMAIN tokens
    BY <1>1
  <2>1. r = tokens[i].request /\ r \in Requests /\ decisions[r].status = "approved"
    <3>1. reservations[i].request = tokens[i].request
      BY <2>0 DEF ApprovalBacked
    <3> QED
      BY <2>0, <3>1, TokenOwner
  <2>2. decisions[r] = [status |-> "approved", token |-> i, reservation |-> tokens[i].reservation]
        /\ tokens[i].reservation = i
    BY <1>1, <2>1 DEF ApprovalBacked
  <2> QED
    BY <2>1, <2>2
<1>7. AbstractHeld[r] = reservations[i].amount /\ AbstractHeld'[r] = 0
  <2>1. resOf(r) = reservations[i] /\ resOf(r)' = reservations'[i]
    BY <1>1, <1>6 DEF resOf
  <2>2. /\ HeldOf(decisions[r], reservations[i]) = reservations[i].amount
        /\ HeldOf(decisions[r], reservations'[i]) = 0
    BY <1>3, <1>5, <1>6 DEF HeldOf
  <2> QED
    BY <1>1, <1>6, <2>1, <2>2, MappingValues
<1>8. ASSUME NEW q \in Requests, q # r PROVE AbstractHeld'[q] = AbstractHeld[q]
  <2>1. CASE decisions[q].status = "approved"
    <3>1. decisions[q].reservation \in DOMAIN reservations /\ decisions[q].reservation # i
      BY <1>8, <2>1, ApprovedOwns
    <3>2. resOf(q)' = resOf(q)
      BY <1>1, <1>4, <3>1 DEF resOf
    <3> QED
      BY <1>1, <3>2, MappingValues
  <2>2. CASE decisions[q].status # "approved"
    <3>1. HeldOf(decisions'[q], resOf(q)') = HeldOf(decisions[q], resOf(q))
      BY <1>1, <2>2 DEF HeldOf
    <3> QED
      BY <1>1, <3>1, MappingValues
  <2> QED
    BY <2>1, <2>2
<1>9. AbstractHeld' = [AbstractHeld EXCEPT ![r] = 0]
  BY <1>7, <1>8 DEF AbstractHeld
<1>10. AbstractGrant' = AbstractGrant
  <2>1. \A q \in Requests : AbstractGrant'[q] = AbstractGrant[q]
    BY <1>1, MappingValues DEF tokenOf
  <2> QED
    BY <2>1 DEF AbstractGrant
<1>11. (riskState' \in Trading) = (riskState \in Trading)
  BY <1>1
<1> QED
  BY <1>3, <1>6, <1>7, <1>9, <1>10, <1>11 DEF Authority!GiveBack, AbstractGrant, AbstractHeld

\* A fill moves budget from reserved to consumed, which the authority does not
\* tell apart.
LEMMA ConfirmStutter ==
    ASSUME TypeOK, TypeOK', ApprovalBacked, NEW i \in DOMAIN reservations, ConfirmFill(i)
    PROVE  AuthorityStep
<1>1. /\ decisions \in [Requests -> Decision] /\ decisions' = decisions
      /\ tokens' = tokens /\ riskState' = riskState /\ reservations \in Seq(Reservation)
      /\ reserved \in Int /\ consumed \in Int /\ reservations[i].state = "reserved"
      /\ reservations' = [reservations EXCEPT ![i].state = "consumed"]
      /\ reserved' = reserved - reservations[i].amount
      /\ consumed' = consumed + reservations[i].amount
  BY DEF TypeOK, ConfirmFill, Consume
<1>2. reservations[i] \in Reservation
  BY <1>1
<1>3. /\ reservations'[i] = [reservations[i] EXCEPT !.state = "consumed"]
      /\ \A k \in DOMAIN reservations : k # i => reservations'[k] = reservations[k]
  BY <1>1, MoveReservation
<1>4. reserved' + consumed' = reserved + consumed
  BY <1>1, <1>2 DEF Reservation
<1>5. /\ reservations'[i].state = "consumed"
      /\ reservations'[i].amount = reservations[i].amount
  BY <1>2, <1>3 DEF Reservation
<1>6. ASSUME NEW q \in Requests, decisions[q].status = "approved"
      PROVE  /\ GrantOf(decisions[q], tokenOf(q)') = GrantOf(decisions[q], tokenOf(q))
             /\ HeldOf(decisions[q], resOf(q)') = HeldOf(decisions[q], resOf(q))
  <2>1. tokenOf(q)' = tokenOf(q) /\ resOf(q)' = reservations'[decisions[q].reservation]
    BY <1>1 DEF tokenOf, resOf
  <2>2. decisions[q].reservation \in DOMAIN reservations
    BY <1>6, ApprovedOwns
  <2>3. HeldOf(decisions[q], resOf(q)') = HeldOf(decisions[q], resOf(q))
    BY <1>1, <1>3, <1>5, <2>1, <2>2 DEF HeldOf, resOf
  <2> QED
    BY <2>1, <2>3
<1> QED
  BY <1>1, <1>4, <1>6, MappingStutter

\* Every step of the engine is a step or a stutter of the authority.
LEMMA AuthorityStepHolds ==
    ASSUME TypeOK, TypeOK', ApprovalBacked, NoUsableTokenOutsideTrading, [Next]_riskVars
    PROVE  AuthorityStep
<1>0. decisions \in [Requests -> Decision]
  BY DEF TypeOK
<1>a. ASSUME UNCHANGED <<budgetVars, tokens, decisions>>,
             (riskState \in Trading) <=> (riskState' \in Trading)
      PROVE  AuthorityStep
  BY <1>0, <1>a, MappingStutter DEF budgetVars, tokenOf, resOf
<1>1. CASE Lifecycle
  <2>1. UNCHANGED <<budgetVars, tokens, decisions>>
    BY <1>1 DEF Lifecycle, InitEngine, Start, EnterSafeMode, ExitSafeMode
  <2>2. CASE (riskState \in Trading) <=> (riskState' \in Trading)
    BY <1>a, <2>1, <2>2
  <2>3. CASE ~((riskState \in Trading) <=> (riskState' \in Trading))
    <3>1. ~(riskState \in Trading) /\ (riskState' \in Trading) = TRUE
      BY <1>1, <2>3 DEF Lifecycle, InitEngine, Start, EnterSafeMode, ExitSafeMode,
                        Transition, canTransition, VALID, Trading, TypeOK, RiskStates
    <3>2. AbstractGrant' = AbstractGrant /\ AbstractHeld' = AbstractHeld
      BY <2>1 DEF AbstractGrant, AbstractHeld, grantOf, heldFor, budgetVars
    <3>3. Authority!OpenTrading
      BY <2>1, <3>1, <3>2 DEF Authority!OpenTrading, AbstractGrant, AbstractHeld, budgetVars
    <3> QED
      BY <3>3 DEF AuthorityStep, Authority!AuthorityNext
  <2> QED
    BY <2>2, <2>3
<1>2. ASSUME NEW r \in Requests, NEW symbol \in Symbols, NEW notional \in Notionals,
             NEW positions \in PositionSets, NEW equity \in Equities,
             PreTradeCheck(r, symbol, notional, positions, equity)
      PROVE  AuthorityStep
  <2>0. decisions[r].status = "none"
    BY <1>2 DEF PreTradeCheck
  <2>1. CASE RejectNotRunning(r) \/ RejectLimit(r, symbol, notional, positions, equity)
    <3>1. Authority!Refuse(r)
      BY <2>0, <2>1, RefuseStep DEF RejectNotRunning, RejectLimit
    <3> QED
      BY <3>1 DEF AuthorityStep, Authority!AuthorityNext
  <2>2. CASE RejectDrawdown(r, equity)
    <3>1. Authority!CloseTrading({r})
      BY <2>0, <2>2, DrawdownStep
    <3> QED
      BY <3>1 DEF AuthorityStep, Authority!AuthorityNext
  <2>3. CASE Approve(r, symbol, notional, positions, equity)
    <3>1. Authority!Grant(r, notional)
      BY <2>0, <2>3, GrantStep
    <3> QED
      BY <3>1 DEF AuthorityStep, Authority!AuthorityNext
  <2> QED
    BY <1>2, <2>1, <2>2, <2>3 DEF PreTradeCheck
<1>3. ASSUME NEW t \in DOMAIN tokens, AuthorizeExecution(t) PROVE AuthorityStep
  <2>1. PICK r \in Requests : Authority!Spend(r)
    BY <1>3, SpendStep
  <2> QED
    BY <2>1 DEF AuthorityStep, Authority!AuthorityNext
<1>4. ASSUME NEW i \in DOMAIN reservations, Release(i) PROVE AuthorityStep
  <2>1. PICK r \in Requests : Authority!GiveBack(r)
    BY <1>4, GiveBackStep
  <2> QED
    BY <2>1 DEF AuthorityStep, Authority!AuthorityNext
<1>5. ASSUME NEW i \in DOMAIN reservations, ConfirmFill(i) PROVE AuthorityStep
  BY <1>5, ConfirmStutter
<1>6. CASE EmergencyHalt
  BY <1>6, HaltStep
<1>7. ASSUME NEW autoChecks \in {"pass", "fail", "throw"}, StartRecovery(autoChecks)
      PROVE  AuthorityStep
  <2>1. riskState = "HALT" /\ riskState' \notin Trading
    BY <1>7 DEF StartRecovery, canTransition, VALID, Trading, TypeOK, RiskStates
  <2> QED
    BY <1>7, <1>a, <2>1 DEF StartRecovery, Trading
<1>8. CASE UNCHANGED riskVars
  BY <1>8, <1>a DEF riskVars
<1> QED
  BY <1>1, <1>2, <1>3, <1>4, <1>5, <1>6, <1>7, <1>8 DEF Next, Check, Reconcile

\* The engine implements the authority: one answer to a request, a grant only
\* while trading is open and within the budget, spent at most once, voided for
\* good by every halt, and budget held from the grant to its return.
THEOREM EngineImplementsAuthority == Spec => ImplementsAuthority
<1>1. Init => Authority!AuthorityInit
  <2> SUFFICES ASSUME Init PROVE Authority!AuthorityInit
    OBVIOUS
  <2>1. \A r \in Requests : grantOf(r) = "none" /\ heldFor(r) = 0
    BY DEF Init, Undecided, grantOf, heldFor
  <2>2. (riskState \in Trading) = FALSE /\ reserved + consumed = 0
    BY DEF Init, Trading
  <2> QED
    BY <2>1, <2>2 DEF Authority!AuthorityInit
<1>2. TypeOK /\ TypeOK' /\ ApprovalBacked /\ NoUsableTokenOutsideTrading /\ [Next]_riskVars
         => [Authority!AuthorityNext]_<<riskState \in Trading, AbstractGrant, AbstractHeld,
                                        reserved + consumed>>
  BY AuthorityStepHolds DEF AuthorityStep
<1> QED
  BY <1>1, <1>2, TypeCorrect, ApprovalsAreBacked, HaltVoidsApprovals, PTL
  DEF Spec, ImplementsAuthority, Authority!AuthoritySpec, Authority!authorityVars,
      AbstractGrant, AbstractHeld

-----------------------------------------------------------------------------
(* Execution *)

(***************************************************************************)
(* How the callers in the repository use the gateway: an approval is for   *)
(* one order, and a caller of executeAsync calls it once per approval (it  *)
(* reconciles whatever comes back).  A caller of execute may retry.        *)
(***************************************************************************)
CallersKeepToOneOrder ==
    /\ \A r, q \in Requests : OrderOf[r] = OrderOf[q] => r = q
    /\ \A r \in Requests \ SyncRequests : MaxCalls[r] <= 1

PostStates == {"none", "sync", "posted", "accepted", "refused", "resolved"}
Venue == [status : {"none", "live", "closed"}, size : Nat, trades : Seq(Nat \ {0})]
Fill == [trade : Nat, amount : Nat]
Outcome == [status : Statuses \cup {"none"}, request : Requests \cup {"none"}, filled : Int,
            risk_confirmed : BOOLEAN, risk_released : BOOLEAN]

ExecTyped ==
    /\ killEngaged \in BOOLEAN /\ done \subseteq Orders
    /\ calls \in [Requests -> Nat] /\ post \in [Requests -> PostStates]
    /\ okCalls \subseteq Requests /\ refusedCalls \subseteq Requests
    /\ sent \in [Orders -> Nat] /\ venue \in [Orders -> Venue]
    /\ buffer \in [Orders -> Seq(Fill)] /\ settled \in [Orders -> Outcome]

Spent(r) == tokens[token(r)].used

(***************************************************************************)
(* What the gateway knows of a request.  An order on its way has spent its *)
(* token; a request that was refused has nothing on its way.               *)
(***************************************************************************)
GatewayInv(r) ==
    /\ post[r] # "none" => Approved(r) /\ Spent(r)
    /\ calls[r] > 0 => Approved(r)
    /\ calls[r] = 0 => post[r] = "none" /\ r \notin okCalls /\ r \notin refusedCalls
    /\ r \in SyncRequests => /\ r \notin okCalls /\ r \notin refusedCalls
                             /\ post[r] \in {"none", "sync", "resolved"}
    /\ r \notin SyncRequests => post[r] # "sync"
    /\ sent[OrderOf[r]] = IF post[r] = "none" THEN 0 ELSE 1
    /\ OrderOf[r] \in done => post[r] # "none"
    /\ r \in refusedCalls => post[r] \in {"none", "resolved"}

(***************************************************************************)
(* What the venue did with its order.                                      *)
(***************************************************************************)
VenueInv(r) ==
    LET v == venue[OrderOf[r]] IN
    /\ v.status # "none" => /\ post[r] \in {"accepted", "resolved"}
                            /\ v.size = reservationOf(r).amount
    /\ post[r] = "accepted" => v.status # "none"
    /\ r \in okCalls => v.status # "none"
    /\ "lost_response" \notin VenueFaults /\ r \in refusedCalls => v.status = "none"

(***************************************************************************)
(* What became of its budget.  Only reconciliation touches it, once.       *)
(***************************************************************************)
BudgetInv(r) ==
    LET c == OrderOf[r] IN
    /\ Approved(r) /\ settled[c].status = "none" => reservationOf(r).state = "reserved"
    /\ settled[c].status # "none" =>
          /\ settled[c].request = r /\ Approved(r) /\ r \in okCalls \cup refusedCalls
          /\ reservationOf(r).state = IF settled[c].status \in {"FILLED", "PARTIALLY_FILLED"}
                                         THEN "consumed" ELSE "released"
    /\ settled[c].status = "REJECTED" => r \in refusedCalls

OrderInv(r) == GatewayInv(r) /\ VenueInv(r) /\ BudgetInv(r)

(***************************************************************************)
(* An order's trades and the messages about them.  Every buffered fill is  *)
(* of a trade of its own, and an outcome that was not a rejection was made *)
(* of all of them.                                                         *)
(***************************************************************************)
TradesInv(c) ==
    /\ venue[c].status = "none" => venue[c].trades = <<>>
    /\ Traded(c) <= venue[c].size
    /\ \A k \in DOMAIN buffer[c] :
          /\ buffer[c][k].trade \in DOMAIN venue[c].trades
          /\ buffer[c][k].amount = venue[c].trades[buffer[c][k].trade]
    /\ \A j, k \in DOMAIN buffer[c] : buffer[c][j].trade = buffer[c][k].trade => j = k

SettledInv(c) ==
    /\ settled[c].status # "none" \/ venue[c].status # "none" => \E r \in Requests : OrderOf[r] = c
    /\ settled[c].status \in Statuses \ {"REJECTED"} =>
          /\ venue[c].status = "closed" /\ settled[c].filled = Traded(c)
          /\ settled[c].status = "FILLED" <=> Traded(c) = venue[c].size
          /\ settled[c].status = "CANCELLED" <=> Traded(c) = 0

ExecInv ==
    /\ TypeOK /\ ApprovalBacked /\ ExecTyped
    /\ \A r \in Requests : OrderInv(r)
    /\ \A c \in Orders : TradesInv(c) /\ SettledInv(c)
-----------------------------------------------------------------------------
(* What the steps of the risk engine mean for an order. *)

\* The step leaves the approval of q, its token's use and its budget alone.
Undisturbed(q) ==
    /\ decisions'[q] = decisions[q]
    /\ Approved(q) =>
          /\ tokens'[token(q)].used = tokens[token(q)].used
          /\ reservations'[decisions[q].reservation] = reservations[decisions[q].reservation]

\* The step is the one in which q is decided.
Decided(q) ==
    /\ decisions[q].status = "none" /\ decisions'[q].status # "none"
    /\ decisions'[q].status = "approved" =>
          reservations'[decisions'[q].reservation].state = "reserved"

\* Whatever the engine's other users do to it, an approved order keeps its
\* budget and its token's use: a halt only voids tokens, a check only decides
\* the request it was made for.
LEMMA EngineStepEffect ==
    ASSUME TypeOK, ApprovalBacked, NEW q \in Requests,
           Lifecycle \/ Check \/ EmergencyHalt \/ StartRecovery("pass")
    PROVE  Undisturbed(q) \/ Decided(q)
<1>0. /\ tokens \in Seq(Token) /\ reservations \in Seq(Reservation)
      /\ decisions \in [Requests -> Decision]
  BY DEF TypeOK
<1>1. Approved(q) => token(q) \in DOMAIN tokens /\ decisions[q].reservation \in DOMAIN reservations
  BY ApprovedOwns DEF Approved, token
<1>a. ASSUME UNCHANGED <<decisions, tokens, reservations>> PROVE Undisturbed(q)
  BY <1>a DEF Undisturbed
<1>b. ASSUME decisions'[q] = decisions[q], UNCHANGED reservations, InvalidateAll
      PROVE  Undisturbed(q)
  <2>1. \A t \in DOMAIN tokens : tokens'[t].used = tokens[t].used
    BY <1>0, <1>b, InvalidateAllEffect
  <2> QED
    BY <1>1, <1>b, <2>1 DEF Undisturbed
<1>2. CASE Lifecycle
  BY <1>2, <1>a DEF Lifecycle, InitEngine, Start, EnterSafeMode, ExitSafeMode, budgetVars
<1>3. CASE EmergencyHalt
  BY <1>3, <1>b DEF EmergencyHalt, budgetVars
<1>4. CASE StartRecovery("pass")
  BY <1>4, <1>a DEF StartRecovery, budgetVars
<1>5. ASSUME NEW r \in Requests, NEW symbol \in Symbols, NEW notional \in Notionals,
             NEW positions \in PositionSets, NEW equity \in Equities,
             PreTradeCheck(r, symbol, notional, positions, equity)
      PROVE  Undisturbed(q) \/ Decided(q)
  <2>0. decisions[r].status = "none"
    BY <1>5 DEF PreTradeCheck
  <2>1. ASSUME Reject(r)
        PROVE  /\ q # r => decisions'[q] = decisions[q]
               /\ q = r => Decided(q)
    <3>1. q # r => decisions'[q] = decisions[q]
      BY <1>0, <2>1 DEF Reject
    <3>2. q = r => decisions'[q].status = "rejected"
      BY <1>0, <2>1 DEF Reject, Decision
    <3> QED
      BY <2>0, <3>1, <3>2 DEF Decided
  <2>2. CASE RejectNotRunning(r)
    BY <2>1, <2>2 DEF RejectNotRunning, Undisturbed, budgetVars
  <2>3. CASE RejectDrawdown(r, equity)
    BY <2>1, <2>3, <1>b DEF RejectDrawdown, budgetVars
  <2>4. CASE RejectLimit(r, symbol, notional, positions, equity)
    BY <2>1, <2>4 DEF RejectLimit, Undisturbed, budgetVars
  <2>5. CASE Approve(r, symbol, notional, positions, equity)
    <3> DEFINE n == Len(reservations) + 1
    <3>1. /\ reservations' = Append(reservations, [request |-> r, amount |-> notional, state |-> "reserved"])
          /\ tokens' = Append(tokens, [request |-> r, reservation |-> n, used |-> FALSE, valid |-> TRUE])
          /\ decisions' = [decisions EXCEPT ![r] =
                [status |-> "approved", token |-> Len(tokens) + 1, reservation |-> n]]
      BY <2>5 DEF Approve, Reserve, Issue
    <3>2. CASE q = r
      <4>1. decisions'[q].status = "approved" /\ decisions'[q].reservation = n
        BY <1>0, <3>1, <3>2
      <4>2. reservations'[n].state = "reserved"
        BY <1>0, <3>1
      <4> QED
        BY <2>0, <3>2, <4>1, <4>2 DEF Decided
    <3>3. CASE q # r
      <4>1. decisions'[q] = decisions[q]
        BY <1>0, <3>1, <3>3
      <4>2. \A t \in DOMAIN tokens : tokens'[t] = tokens[t]
        BY <1>0, <3>1
      <4>3. \A i \in DOMAIN reservations : reservations'[i] = reservations[i]
        BY <1>0, <3>1
      <4> QED
        BY <1>1, <4>1, <4>2, <4>3 DEF Undisturbed
    <3> QED
      BY <3>2, <3>3
  <2> QED
    BY <1>5, <2>2, <2>3, <2>4, <2>5 DEF PreTradeCheck
<1> QED
  BY <1>2, <1>3, <1>4, <1>5 DEF Check

\* Spending the token of r disturbs no other request.
LEMMA SpendEffect ==
    ASSUME TypeOK, ApprovalBacked, NEW r \in Requests, Approved(r),
           AuthorizeExecution(token(r))
    PROVE  /\ decisions' = decisions /\ reservations' = reservations
           /\ isUsable(token(r)) /\ tokens'[token(r)].used
           /\ \E t \in DOMAIN tokens : AuthorizeExecution(t)
           /\ \A q \in Requests : q # r => Undisturbed(q)
<1>1. PICK t : t = token(r)
  OBVIOUS
<1>2. t \in DOMAIN tokens /\ tokens[t].request = r /\ tokens[t] \in Token
  BY <1>1, ApprovedOwns DEF Approved, token
<1>3. AuthorizeExecution(t) /\ Use(t) /\ isUsable(t)
  BY <1>1 DEF AuthorizeExecution, Use
<1>4. decisions' = decisions /\ reservations' = reservations
  BY <1>3 DEF AuthorizeExecution, budgetVars
<1>5. /\ tokens'[t] = [tokens[t] EXCEPT !.used = TRUE]
      /\ \A u \in DOMAIN tokens : u # t => tokens'[u] = tokens[u]
  BY <1>2, <1>3, UseEffect DEF TypeOK
<1>6. tokens'[t].used = TRUE
  BY <1>2, <1>5 DEF Token
<1>7. ASSUME NEW q \in Requests, q # r PROVE Undisturbed(q)
  <2>1. Approved(q) => token(q) \in DOMAIN tokens /\ tokens[token(q)].request = q
    BY ApprovedOwns DEF Approved, token
  <2>2. Approved(q) => tokens'[token(q)] = tokens[token(q)]
    BY <1>2, <1>5, <1>7, <2>1
  <2> QED
    BY <1>4, <2>2 DEF Undisturbed
<1> QED
  BY <1>1, <1>2, <1>3, <1>4, <1>6, <1>7

\* Moving the reservation of r disturbs no other request.
LEMMA SettleEffect ==
    ASSUME TypeOK, ApprovalBacked, NEW r \in Requests, Approved(r),
           NEW i, i = decisions[r].reservation, ConfirmFill(i) \/ Release(i)
    PROVE  /\ i \in DOMAIN reservations
           /\ decisions' = decisions /\ tokens' = tokens
           /\ ConfirmFill(i) => reservations'[i].state = "consumed"
           /\ Release(i) => reservations'[i].state = "released"
           /\ reservations'[i].amount = reservations[i].amount
           /\ \A q \in Requests : q # r => Undisturbed(q)
<1>1. /\ i \in DOMAIN reservations /\ reservations[i].request = r /\ reservations[i] \in Reservation
  BY ApprovedOwns DEF Approved
<1>2. PICK s \in {"consumed", "released"} :
         /\ reservations' = [reservations EXCEPT ![i].state = s]
         /\ ConfirmFill(i) => reservations' = [reservations EXCEPT ![i].state = "consumed"]
         /\ Release(i) => reservations' = [reservations EXCEPT ![i].state = "released"]
  BY DEF ConfirmFill, Consume, Release, ReleaseBudget
<1>3. /\ reservations'[i].amount = reservations[i].amount
      /\ \A k \in DOMAIN reservations : k # i => reservations'[k] = reservations[k]
  BY <1>1, <1>2, MoveReservation DEF TypeOK
<1>4. ASSUME NEW w, reservations' = [reservations EXCEPT ![i].state = w]
      PROVE  reservations'[i].state = w
  BY <1>1, <1>4 DEF TypeOK, Reservation
<1>5. /\ ConfirmFill(i) => reservations'[i].state = "consumed"
      /\ Release(i) => reservations'[i].state = "released"
  BY <1>2, <1>4
<1>6. decisions' = decisions /\ tokens' = tokens
  BY DEF ConfirmFill, Release
<1>7. ASSUME NEW q \in Requests, q # r PROVE Undisturbed(q)
  <2>1. Approved(q) => /\ decisions[q].reservation \in DOMAIN reservations
                       /\ reservations[decisions[q].reservation].request = q
    BY ApprovedOwns DEF Approved
  <2>2. Approved(q) => reservations'[decisions[q].reservation] = reservations[decisions[q].reservation]
    BY <1>1, <1>3, <1>7, <2>1
  <2> QED
    BY <1>6, <2>2 DEF Undisturbed
<1> QED
  BY <1>1, <1>3, <1>5, <1>6, <1>7

-----------------------------------------------------------------------------
(* Every step keeps what is known of every order. *)

\* The step leaves alone what the order path knows of q, except that the venue
\* may trade or close the order.
PathSame(q) ==
    /\ calls'[q] = calls[q] /\ post'[q] = post[q]
    /\ q \in okCalls' <=> q \in okCalls
    /\ q \in refusedCalls' <=> q \in refusedCalls
    /\ sent'[OrderOf[q]] = sent[OrderOf[q]]
    /\ OrderOf[q] \in done' <=> OrderOf[q] \in done
    /\ venue'[OrderOf[q]].size = venue[OrderOf[q]].size
    /\ venue'[OrderOf[q]].status = "none" <=> venue[OrderOf[q]].status = "none"
    /\ settled'[OrderOf[q]] = settled[OrderOf[q]]

\* What is known of an order survives the steps of others, the decision on its
\* own request included: before it, nothing has happened to the order.
LEMMA OrderFrame ==
    ASSUME ExecTyped, NEW q \in Requests, OrderInv(q), PathSame(q), Undisturbed(q) \/ Decided(q)
    PROVE  OrderInv(q)'
<1>0. calls[q] \in Nat /\ calls'[q] = calls[q] /\ post'[q] = post[q]
  BY DEF ExecTyped, PathSame
<1>1. CASE Undisturbed(q)
  <2>1. /\ Approved(q)' <=> Approved(q)
        /\ Approved(q) => Spent(q)' = Spent(q)
        /\ Approved(q) => reservationOf(q)' = reservationOf(q)
    BY <1>1 DEF Undisturbed, Approved, Spent, token, reservationOf
  <2>2. GatewayInv(q)'
    BY <1>0, <2>1 DEF OrderInv, GatewayInv, PathSame
  <2>3. VenueInv(q)'
    <3>1. venue[OrderOf[q]].status # "none" => Approved(q)
      BY DEF OrderInv, VenueInv, GatewayInv
    <3> QED
      BY <1>0, <2>1, <3>1 DEF OrderInv, VenueInv, PathSame
  <2>4. BudgetInv(q)'
    BY <1>0, <2>1 DEF OrderInv, BudgetInv, PathSame
  <2> QED
    BY <2>2, <2>3, <2>4 DEF OrderInv
<1>2. CASE Decided(q)
  <2>1. ~Approved(q) /\ (Approved(q)' => reservationOf(q)'.state = "reserved")
    BY <1>2 DEF Decided, Approved, reservationOf
  <2>2. /\ post[q] = "none" /\ calls[q] = 0 /\ q \notin okCalls /\ q \notin refusedCalls
        /\ venue[OrderOf[q]].status = "none" /\ settled[OrderOf[q]].status = "none"
    BY <1>0, <2>1 DEF OrderInv, GatewayInv, VenueInv, BudgetInv
  <2>3. GatewayInv(q)'
    BY <1>0, <2>2 DEF OrderInv, GatewayInv, PathSame
  <2>4. VenueInv(q)'
    BY <1>0, <2>2 DEF VenueInv, PathSame
  <2>5. BudgetInv(q)'
    BY <1>0, <2>1, <2>2 DEF BudgetInv, PathSame
  <2> QED
    BY <2>3, <2>4, <2>5 DEF OrderInv
<1> QED
  BY <1>1, <1>2

\* A step that leaves the risk engine alone disturbs nobody.
LEMMA RiskSame ==
    ASSUME UNCHANGED riskVars, NEW q PROVE Undisturbed(q)
  BY DEF riskVars, budgetVars, Undisturbed

\* A request in its first call has nothing on its way and is not done.
LEMMA AsyncStep ==
    ASSUME CallersKeepToOneOrder, ExecInv, NEW r \in Requests, ExecuteAsync(r)
    PROVE  \A q \in Requests : OrderInv(q)'
<1>0. /\ TypeOK /\ ApprovalBacked /\ ExecTyped /\ \A q \in Requests : OrderInv(q)
  BY DEF ExecInv
<1>t. /\ calls \in [Requests -> Nat] /\ post \in [Requests -> PostStates]
      /\ sent \in [Orders -> Nat] /\ OrderOf[r] \in Orders
  BY <1>0, OrderAssumption DEF ExecTyped
<1>1. /\ calls[r] \in Nat /\ calls[r] = 0 /\ Approved(r) /\ r \notin SyncRequests
      /\ calls' = [calls EXCEPT ![r] = 1] /\ calls'[r] = 1
      /\ UNCHANGED <<killEngaged, done, venue, buffer, settled>>
  <2>1. r \notin SyncRequests /\ Call(r) /\ UNCHANGED <<killEngaged, done, venue, buffer, settled>>
    BY DEF ExecuteAsync
  <2>2. MaxCalls[r] \in Nat /\ MaxCalls[r] <= 1
    BY <2>1, CallAssumption DEF CallersKeepToOneOrder
  <2>3. calls[r] = 0 /\ Approved(r) /\ calls' = [calls EXCEPT ![r] = 1]
    <3>1. calls[r] \in Nat /\ calls[r] < MaxCalls[r] /\ calls' = [calls EXCEPT ![r] = calls[r] + 1]
      BY <1>t, <2>1 DEF Call
    <3>2. calls[r] = 0
      BY <2>2, <3>1
    <3> QED
      BY <2>1, <3>1, <3>2 DEF Call
  <2> QED
    BY <1>t, <2>1, <2>3
<1>2. /\ post[r] = "none" /\ r \notin okCalls /\ r \notin refusedCalls
      /\ OrderOf[r] \notin done /\ sent[OrderOf[r]] = 0
      /\ venue[OrderOf[r]].status = "none"
  BY <1>0, <1>1 DEF OrderInv, GatewayInv, VenueInv
<1>3. \A q \in Requests : q # r => calls'[q] = calls[q] /\ OrderOf[q] # OrderOf[r]
  BY <1>0, <1>1 DEF ExecTyped, CallersKeepToOneOrder
<1>4. CASE Blocked(r) /\ refusedCalls' = refusedCalls \cup {r}
           /\ UNCHANGED <<riskVars, okCalls, post, sent>>
  <2>1. ASSUME NEW q \in Requests, q # r PROVE OrderInv(q)'
    <3>1. PathSame(q)
      BY <1>1, <1>3, <1>4, <2>1 DEF PathSame
    <3> QED
      BY <1>0, <1>4, <3>1, RiskSame, OrderFrame
  <2>2. Approved(r)' /\ Undisturbed(r) /\ reservationOf(r)' = reservationOf(r)
    BY <1>1, <1>4 DEF Approved, riskVars, budgetVars, reservationOf, Undisturbed
  <2>3. GatewayInv(r)'
    BY <1>0, <1>1, <1>2, <1>4, <2>2 DEF OrderInv, GatewayInv
  <2>4. VenueInv(r)'
    BY <1>1, <1>2, <1>4 DEF VenueInv
  <2>5. BudgetInv(r)'
    BY <1>0, <1>1, <1>2, <1>4, <2>2 DEF OrderInv, BudgetInv
  <2> QED
    BY <2>1, <2>3, <2>4, <2>5 DEF OrderInv
<1>5. CASE Sends(r) /\ post' = [post EXCEPT ![r] = "posted"]
           /\ UNCHANGED <<okCalls, refusedCalls>>
  <2>0. AuthorizeExecution(token(r)) /\ sent' = [sent EXCEPT ![OrderOf[r]] = @ + 1]
    BY <1>5 DEF Sends
  <2>a. /\ decisions' = decisions /\ reservations' = reservations
        /\ tokens'[token(r)].used
        /\ \A q \in Requests : q # r => Undisturbed(q)
    BY <1>0, <1>1, <2>0, SpendEffect
  <2>1. ASSUME NEW q \in Requests, q # r PROVE OrderInv(q)'
    <3>1. PathSame(q)
      BY <1>0, <1>1, <1>3, <1>5, <2>0, <2>1, OrderAssumption DEF PathSame, ExecTyped
    <3> QED
      BY <1>0, <2>a, <2>1, <3>1, OrderFrame
  <2>2. /\ Approved(r)' /\ Spent(r)' /\ reservationOf(r)' = reservationOf(r)
    BY <1>1, <2>a DEF Approved, reservationOf, Spent, token
  <2>3. post'[r] = "posted" /\ sent'[OrderOf[r]] = 1
    BY <1>t, <1>2, <1>5, <2>0
  <2>4. GatewayInv(r)'
    BY <1>0, <1>1, <1>2, <1>5, <2>2, <2>3 DEF OrderInv, GatewayInv
  <2>5. VenueInv(r)'
    BY <1>1, <1>2, <1>5, <2>3 DEF VenueInv
  <2>6. BudgetInv(r)'
    BY <1>0, <1>1, <1>2, <1>5, <2>2 DEF OrderInv, BudgetInv
  <2> QED
    BY <2>1, <2>4, <2>5, <2>6 DEF OrderInv
<1> QED
  BY <1>2, <1>4, <1>5 DEF ExecuteAsync, AlreadyDone

\* execute may be retried: what was blocked is sent later, what is done stays done.
LEMMA SyncStep ==
    ASSUME CallersKeepToOneOrder, ExecInv, NEW r \in Requests, ExecuteSync(r)
    PROVE  \A q \in Requests : OrderInv(q)'
<1>0. /\ TypeOK /\ ApprovalBacked /\ ExecTyped /\ \A q \in Requests : OrderInv(q)
  BY DEF ExecInv
<1>t. /\ calls \in [Requests -> Nat] /\ post \in [Requests -> PostStates]
      /\ sent \in [Orders -> Nat] /\ OrderOf[r] \in Orders
  BY <1>0, OrderAssumption DEF ExecTyped
<1>1. /\ calls[r] \in Nat /\ Approved(r) /\ r \in SyncRequests
      /\ calls' = [calls EXCEPT ![r] = @ + 1]
      /\ UNCHANGED <<killEngaged, okCalls, refusedCalls, venue, buffer, settled>>
  BY <1>t DEF ExecuteSync, Call
<1>2. calls'[r] = calls[r] + 1 /\ calls'[r] > 0 /\ calls'[r] # 0
  BY <1>t, <1>1
<1>3. \A q \in Requests : q # r => calls'[q] = calls[q] /\ OrderOf[q] # OrderOf[r]
  BY <1>t, <1>1 DEF CallersKeepToOneOrder
<1>4. CASE UNCHANGED <<riskVars, done, post, sent>>
  <2>1. ASSUME NEW q \in Requests, q # r PROVE OrderInv(q)'
    <3>1. PathSame(q)
      BY <1>1, <1>3, <1>4, <2>1 DEF PathSame
    <3> QED
      BY <1>0, <1>4, <3>1, RiskSame, OrderFrame
  <2>2. /\ Approved(r)' /\ reservationOf(r)' = reservationOf(r) /\ Spent(r)' = Spent(r)
    BY <1>1, <1>4 DEF Approved, riskVars, budgetVars, reservationOf, Spent, token
  <2>3. GatewayInv(r)'
    BY <1>0, <1>1, <1>2, <1>4, <2>2 DEF OrderInv, GatewayInv
  <2>4. VenueInv(r)'
    BY <1>0, <1>1, <1>4, <2>2 DEF OrderInv, VenueInv
  <2>5. BudgetInv(r)'
    BY <1>0, <1>1, <1>4, <2>2 DEF OrderInv, BudgetInv
  <2> QED
    BY <2>1, <2>3, <2>4, <2>5 DEF OrderInv
<1>5. CASE Sends(r) /\ done' = done \cup {OrderOf[r]} /\ post' = [post EXCEPT ![r] = "sync"]
  <2>0. /\ AuthorizeExecution(token(r)) /\ sent' = [sent EXCEPT ![OrderOf[r]] = @ + 1]
        /\ isUsable(token(r))
    BY <1>5 DEF Sends, AuthorizeExecution, Use
  <2>a. /\ decisions' = decisions /\ reservations' = reservations
        /\ tokens'[token(r)].used
        /\ \A q \in Requests : q # r => Undisturbed(q)
    BY <1>0, <1>1, <2>0, SpendEffect
  <2>b. post[r] = "none" /\ sent[OrderOf[r]] = 0 /\ venue[OrderOf[r]].status = "none"
    BY <1>0, <2>0 DEF OrderInv, GatewayInv, VenueInv, isUsable, Spent
  <2>1. ASSUME NEW q \in Requests, q # r PROVE OrderInv(q)'
    <3>0. OrderOf[q] \in Orders
      BY OrderAssumption
    <3>1. PathSame(q)
      BY <1>t, <1>1, <1>3, <1>5, <2>0, <2>1, <3>0 DEF PathSame
    <3> QED
      BY <1>0, <2>a, <2>1, <3>1, OrderFrame
  <2>2. /\ Approved(r)' /\ Spent(r)' /\ reservationOf(r)' = reservationOf(r)
    BY <1>1, <2>a DEF Approved, reservationOf, Spent, token
  <2>3. post'[r] = "sync" /\ sent'[OrderOf[r]] = 1
    BY <1>t, <1>5, <2>0, <2>b
  <2>4. GatewayInv(r)'
    BY <1>0, <1>1, <1>2, <2>2, <2>3 DEF OrderInv, GatewayInv
  <2>5. VenueInv(r)'
    BY <1>0, <1>1, <2>3, <2>b DEF OrderInv, VenueInv, GatewayInv
  <2>6. BudgetInv(r)'
    BY <1>0, <1>1, <1>5, <2>2 DEF OrderInv, BudgetInv
  <2> QED
    BY <2>1, <2>4, <2>5, <2>6 DEF OrderInv
<1> QED
  BY <1>4, <1>5 DEF ExecuteSync

\* The answers of the venue, lost ones included, and the call resuming on them.
LEMMA ResumeStep ==
    ASSUME CallersKeepToOneOrder, ExecInv, NEW r \in Requests, GatewayResumes(r)
    PROVE  \A q \in Requests : OrderInv(q)'
<1>0. /\ ExecTyped /\ \A q \in Requests : OrderInv(q)
  BY DEF ExecInv
<1>t. /\ calls[r] \in Nat /\ post \in [Requests -> PostStates] /\ OrderOf[r] \in Orders
  BY <1>0, OrderAssumption DEF ExecTyped
<1>1. /\ UNCHANGED <<riskVars, killEngaged, calls, sent, venue, buffer, settled>>
      /\ post' = [post EXCEPT ![r] = "resolved"] /\ post[r] \in {"posted", "accepted", "refused"}
      /\ done' \in {done, done \cup {OrderOf[r]}}
      /\ okCalls' \in {okCalls, okCalls \cup {r}}
      /\ refusedCalls' \in {refusedCalls, refusedCalls \cup {r}}
  BY DEF GatewayResumes, SubmissionAccepted, SubmissionRejected, SubmissionThrows, Resolve
<1>2. post'[r] = "resolved" /\ \A q \in Requests : q # r => post'[q] = post[q]
  BY <1>t, <1>1
<1>3. /\ r \in okCalls' => r \in okCalls \/ post[r] = "accepted"
      /\ r \in refusedCalls' =>
            \/ r \in refusedCalls \/ post[r] \in {"refused", "posted"}
            \/ "lost_response" \in VenueFaults
  BY DEF GatewayResumes, SubmissionAccepted, SubmissionRejected, SubmissionThrows
<1>4. ASSUME NEW q \in Requests, q # r PROVE OrderInv(q)'
  <2>1. OrderOf[q] # OrderOf[r]
    BY <1>4 DEF CallersKeepToOneOrder
  <2>2. PathSame(q)
    BY <1>1, <1>2, <1>4, <2>1 DEF PathSame
  <2> QED
    BY <1>0, <1>1, <2>2, RiskSame, OrderFrame
<1>5. /\ Approved(r)' = Approved(r) /\ reservationOf(r)' = reservationOf(r) /\ Spent(r)' = Spent(r)
  BY <1>1 DEF Approved, riskVars, budgetVars, reservationOf, Spent, token
<1>6. r \notin SyncRequests
  BY <1>0, <1>1 DEF OrderInv, GatewayInv
<1>7. GatewayInv(r)'
  BY <1>0, <1>t, <1>1, <1>2, <1>5, <1>6 DEF OrderInv, GatewayInv
<1>8. VenueInv(r)'
  BY <1>0, <1>1, <1>2, <1>3, <1>5 DEF OrderInv, VenueInv
<1>9. BudgetInv(r)'
  BY <1>0, <1>1, <1>5 DEF OrderInv, BudgetInv
<1> QED
  BY <1>4, <1>7, <1>8, <1>9 DEF OrderInv

\* What the venue does with an order that reached it leaves every call in order.
LEMMA VenueStep ==
    ASSUME CallersKeepToOneOrder, ExecInv, NEW r \in Requests, VenueResponds(r)
    PROVE  \A q \in Requests : OrderInv(q)'
<1>0. /\ ExecTyped /\ \A q \in Requests : OrderInv(q)
  BY DEF ExecInv
<1>t. /\ calls[r] \in Nat /\ post \in [Requests -> PostStates] /\ OrderOf[r] \in Orders
      /\ venue \in [Orders -> Venue]
  BY <1>0, OrderAssumption DEF ExecTyped
<1>1. /\ UNCHANGED <<riskVars, killEngaged, done, calls, okCalls, refusedCalls, sent, buffer, settled>>
      /\ post[r] \in {"posted", "sync"}
  BY DEF VenueResponds, VenueAccepts, VenueRefuses
<1>2. /\ \A q \in Requests : q # r => post'[q] = post[q]
      /\ \A c \in Orders : c # OrderOf[r] => venue'[c] = venue[c]
  BY <1>t DEF VenueResponds, VenueAccepts, VenueRefuses
<1>3. ASSUME NEW q \in Requests, q # r PROVE OrderInv(q)'
  <2>1. OrderOf[q] # OrderOf[r] /\ OrderOf[q] \in Orders
    BY <1>3, OrderAssumption DEF CallersKeepToOneOrder
  <2>2. PathSame(q)
    BY <1>1, <1>2, <1>3, <2>1 DEF PathSame
  <2> QED
    BY <1>0, <1>1, <2>2, RiskSame, OrderFrame
<1>4. /\ Approved(r)' = Approved(r) /\ reservationOf(r)' = reservationOf(r) /\ Spent(r)' = Spent(r)
  BY <1>1 DEF Approved, riskVars, budgetVars, reservationOf, Spent, token
<1>5. r \notin refusedCalls /\ r \notin okCalls
  BY <1>0, <1>1 DEF OrderInv, GatewayInv, VenueInv
<1>6. post[r] = "sync" => r \in SyncRequests
  BY <1>0 DEF OrderInv, GatewayInv
<1>7. post[r] = "posted" => r \notin SyncRequests
  BY <1>0 DEF OrderInv, GatewayInv
<1>8. BudgetInv(r)'
  BY <1>0, <1>1, <1>4 DEF OrderInv, BudgetInv
<1>9. ASSUME post'[r] \in {"resolved", "accepted", "refused"}, post[r] = "sync" => post'[r] = "resolved"
      PROVE  GatewayInv(r)'
  BY <1>0, <1>1, <1>4, <1>5, <1>6, <1>7, <1>9 DEF OrderInv, GatewayInv
<1>10. CASE VenueAccepts(r)
  <2>1. /\ post'[r] = IF post[r] = "sync" THEN "resolved" ELSE "accepted"
    BY <1>t, <1>10 DEF VenueAccepts
  <2>2. venue'[OrderOf[r]].status = "live" /\ venue'[OrderOf[r]].size = reservationOf(r).amount
    BY <1>t, <1>10 DEF VenueAccepts, Venue
  <2>3. VenueInv(r)'
    BY <1>1, <1>4, <1>5, <2>1, <2>2 DEF VenueInv
  <2> QED
    BY <1>3, <1>8, <1>9, <2>1, <2>3 DEF OrderInv
<1>11. CASE VenueRefuses(r)
  <2>1. /\ post'[r] = (IF post[r] = "sync" THEN "resolved" ELSE "refused") /\ venue' = venue
    BY <1>t, <1>11 DEF VenueRefuses
  <2>2. venue[OrderOf[r]].status = "none"
    BY <1>0, <1>1 DEF OrderInv, VenueInv
  <2>3. VenueInv(r)'
    BY <1>1, <1>5, <2>1, <2>2 DEF VenueInv
  <2> QED
    BY <1>3, <1>8, <1>9, <2>1, <2>3 DEF OrderInv
<1> QED
  BY <1>10, <1>11 DEF VenueResponds

-----------------------------------------------------------------------------
(* The amounts. *)

\* What an order's fill messages add up to is a natural number.
LEMMA AmountsTyped ==
    ASSUME ExecTyped, NEW c \in Orders
    PROVE  /\ Traded(c) \in Nat /\ filledNotional(c) \in Nat
           /\ venue[c].trades \in Seq(Nat) /\ venue[c].trades \in Seq(Nat \ {0})
           /\ buffer[c] \in Seq(Fill)
<1>1. venue[c] \in Venue /\ buffer[c] \in Seq(Fill)
  BY DEF ExecTyped
<1>2. venue[c].trades \in Seq(Nat) /\ venue[c].trades \in Seq(Nat \ {0})
  <2>1. venue[c].trades \in Seq(Nat \ {0})
    BY <1>1 DEF Venue
  <2> QED
    BY <2>1
<1>3. [k \in DOMAIN buffer[c] |-> buffer[c][k].amount] \in Seq(Nat)
  <2>1. DOMAIN buffer[c] = 1 .. Len(buffer[c]) /\ Len(buffer[c]) \in Nat
    BY <1>1
  <2>2. \A k \in 1 .. Len(buffer[c]) : buffer[c][k].amount \in Nat
    <3>1. \A k \in 1 .. Len(buffer[c]) : buffer[c][k] \in Fill
      BY <1>1
    <3> QED
      BY <3>1 DEF Fill
  <2> QED
    BY <2>1, <2>2
<1> QED
  BY <1>1, <1>2, <1>3, SumOfSequence DEF Traded, filledNotional

\* When every trade's message has arrived, the buffer adds up to what was
\* traded: no message is counted twice, however often it was delivered.
LEMMA FillsAddUp ==
    ASSUME ExecTyped, NEW c \in Orders, TradesInv(c), AllFillsSeen(c)
    PROVE  filledNotional(c) = Traded(c)
<1> DEFINE S == DOMAIN buffer[c]
           g == [k \in S |-> buffer[c][k].amount]
           h == [k \in S |-> buffer[c][k].trade]
           f == venue[c].trades
<1>1. buffer[c] \in Seq(Fill) /\ f \in Seq(Nat)
  BY AmountsTyped
<1>2. IsFiniteSet(S)
  <2>1. S = 1 .. Len(buffer[c]) /\ Len(buffer[c]) \in Nat
    BY <1>1
  <2> QED
    BY <2>1, FS_Interval
<1>3. \A j, k \in S : h[j] = h[k] => j = k
  BY DEF TradesInv
<1>4. \A k \in S : g[k] = f[h[k]] /\ g[k] \in Int
  <2>1. \A k \in S : buffer[c][k] \in Fill
    BY <1>1
  <2>2. \A k \in S : buffer[c][k].amount \in Int
    BY <2>1 DEF Fill
  <2>3. \A k \in S : g[k] = buffer[c][k].amount /\ h[k] = buffer[c][k].trade
    OBVIOUS
  <2> QED
    BY <2>2, <2>3 DEF TradesInv
<1>5. {h[k] : k \in S} = DOMAIN f
  <2>1. \A k \in S : h[k] \in DOMAIN f
    BY DEF TradesInv
  <2>2. \A t \in DOMAIN f : \E k \in S : h[k] = t
    BY DEF AllFillsSeen
  <2> HIDE DEF h, f, S
  <2> QED
    BY <2>1, <2>2
<1>6. DOMAIN g = S
  OBVIOUS
<1> HIDE DEF g, h, f, S
<1>7. SumFunctionOnSet(g, S) = SumFunctionOnSet(f, {h[k] : k \in S})
  BY <1>2, <1>3, <1>4, SumReindex
<1>8. SumFunction(g) = SumFunction(f)
  BY <1>5, <1>6, <1>7 DEF SumFunction
<1> QED
  BY <1>8 DEF g, f, S, filledNotional, Traded

\* What reconcile decides: it runs once, finds the budget still reserved, and
\* moves it to where the outcome it records says.
LEMMA ReconcileEffect ==
    ASSUME ExecInv, NEW r \in Requests, r \in okCalls \cup refusedCalls,
           NEW rejected \in BOOLEAN, ReconcileOrder(r, rejected),
           NEW c, c = OrderOf[r], NEW i, i = decisions[r].reservation
    PROVE  /\ Approved(r) /\ c \in Orders
           /\ UNCHANGED <<gatewayVars, venue, buffer>>
           /\ ConfirmFill(i) \/ Release(i)
           /\ settled[c].status = "none"
           /\ settled' = [settled EXCEPT ![c] = settled'[c]]
           /\ settled'[c].request = r /\ settled'[c].filled = filledNotional(c)
           /\ settled'[c].status = deriveStatus(reservations[i].amount, filledNotional(c), rejected)
           /\ settled'[c] \in Outcome
           /\ settled'[c].status \in {"FILLED", "PARTIALLY_FILLED"} => ConfirmFill(i)
           /\ settled'[c].status \in {"CANCELLED", "REJECTED"} => Release(i)
           /\ settled'[c].status # "none"
           /\ settled'[c].status = "REJECTED" => rejected
<1> DEFINE filled == filledNotional(c)
           confirm == ~rejected /\ filled > 0
           out == [status |-> deriveStatus(reservations[i].amount, filled, rejected),
                   request |-> r, filled |-> filled,
                   risk_confirmed |-> confirm, risk_released |-> ~confirm]
<1>0. /\ TypeOK /\ ApprovalBacked /\ ExecTyped /\ OrderInv(r)
  BY DEF ExecInv
<1>1. c \in Orders /\ filled \in Nat /\ calls[r] \in Nat
  BY <1>0, OrderAssumption, AmountsTyped DEF ExecTyped
<1>2. Approved(r)
  BY <1>0, <1>1 DEF OrderInv, GatewayInv
<1>3. settled[c].status = "none" /\ UNCHANGED <<gatewayVars, venue, buffer>>
  BY DEF ReconcileOrder
<1>4. reservations[i].state = "reserved"
  BY <1>0, <1>2, <1>3 DEF OrderInv, BudgetInv, reservationOf
<1>5. /\ confirm => ConfirmFill(i)
      /\ ~confirm => Release(i)
  BY <1>4 DEF ReconcileOrder
<1>6. settled' = [settled EXCEPT ![c] = out]
  <2>1. settled' = [settled EXCEPT ![c] =
              [status |-> deriveStatus(reservations[i].amount, filled, rejected),
               request |-> r, filled |-> filled,
               risk_confirmed |-> confirm /\ (IF confirm THEN reservations[i].state = "reserved"
                                                        ELSE reservations[i].state # "released"),
               risk_released |-> ~confirm /\ (IF confirm THEN reservations[i].state = "reserved"
                                                        ELSE reservations[i].state # "released")]]
    BY DEF ReconcileOrder
  <2>2. /\ (confirm /\ (IF confirm THEN reservations[i].state = "reserved"
                                   ELSE reservations[i].state # "released")) = confirm
        /\ (~confirm /\ (IF confirm THEN reservations[i].state = "reserved"
                                   ELSE reservations[i].state # "released")) = ~confirm
    BY <1>4
  <2> HIDE DEF confirm
  <2> QED
    BY <2>1, <2>2
<1>7. reservations[i].amount \in Nat /\ reservations[i].amount > 0
  <2>1. i \in DOMAIN reservations
    BY <1>0, <1>2, ApprovedOwns DEF Approved
  <2> QED
    BY <1>0, <2>1, ReservationAmount DEF TypeOK
<1>8. /\ out.status \in Statuses
      /\ out.status = "REJECTED" <=> rejected
      /\ out.status \in {"FILLED", "PARTIALLY_FILLED"} <=> confirm
  <2> HIDE DEF filled
  <2> QED
    BY <1>1, <1>7 DEF deriveStatus, Statuses
<1>9. out \in Outcome /\ out.request = r /\ out.filled = filled
  <2> HIDE DEF filled, confirm
  <2>1. confirm \in BOOLEAN
    BY DEF confirm
  <2> QED
    BY <1>1, <1>8, <2>1 DEF Outcome
<1>10. settled'[c] = out
  BY <1>0, <1>1, <1>6 DEF ExecTyped
<1> HIDE DEF out
<1>11. /\ settled'[c].status \in {"FILLED", "PARTIALLY_FILLED"} => ConfirmFill(i)
       /\ settled'[c].status \in {"CANCELLED", "REJECTED"} => Release(i)
  <2> HIDE DEF confirm
  <2> QED
    BY <1>5, <1>8, <1>10
<1>12. settled'[c].status # "none" /\ (settled'[c].status = "REJECTED" => rejected)
  BY <1>8, <1>10 DEF Statuses
<1>13. ConfirmFill(i) \/ Release(i)
  BY <1>5
<1>14. settled'[c].status = deriveStatus(reservations[i].amount, filled, rejected)
  BY <1>10 DEF out
<1> QED
  BY <1>1, <1>2, <1>3, <1>6, <1>9, <1>10, <1>11, <1>12, <1>13, <1>14

\* Settling an order touches its own reservation and that of no other call.
LEMMA ReconcileStep ==
    ASSUME CallersKeepToOneOrder, ExecInv, NEW r \in Requests, r \in okCalls \cup refusedCalls,
           NEW rejected \in BOOLEAN, ReconcileOrder(r, rejected), rejected => r \in refusedCalls
    PROVE  \A q \in Requests : OrderInv(q)'
<1>1. PICK c, i : c = OrderOf[r] /\ i = decisions[r].reservation
  OBVIOUS
<1>0. /\ TypeOK /\ ApprovalBacked /\ ExecTyped /\ \A q \in Requests : OrderInv(q)
  BY DEF ExecInv
<1>2. /\ Approved(r) /\ c \in Orders
      /\ UNCHANGED <<gatewayVars, venue, buffer>>
      /\ ConfirmFill(i) \/ Release(i)
      /\ settled[c].status = "none"
      /\ settled' = [settled EXCEPT ![c] = settled'[c]]
      /\ settled'[c].request = r
      /\ settled'[c] \in Outcome
      /\ settled'[c].status \in {"FILLED", "PARTIALLY_FILLED"} => ConfirmFill(i)
      /\ settled'[c].status \in {"CANCELLED", "REJECTED"} => Release(i)
      /\ settled'[c].status # "none"
      /\ settled'[c].status = "REJECTED" => rejected
  BY <1>1, ReconcileEffect
<1>3. /\ decisions' = decisions /\ tokens' = tokens
      /\ ConfirmFill(i) => reservations'[i].state = "consumed"
      /\ Release(i) => reservations'[i].state = "released"
      /\ reservations'[i].amount = reservations[i].amount
      /\ \A q \in Requests : q # r => Undisturbed(q)
  BY <1>0, <1>1, <1>2, SettleEffect
<1>4. UNCHANGED <<done, calls, post, okCalls, refusedCalls, sent, venue>>
  BY <1>2 DEF gatewayVars
<1>5. ASSUME NEW q \in Requests, q # r PROVE OrderInv(q)'
  <2>1. OrderOf[q] # c /\ OrderOf[q] \in Orders
    BY <1>1, <1>5, OrderAssumption DEF CallersKeepToOneOrder
  <2>2. settled'[OrderOf[q]] = settled[OrderOf[q]]
    BY <1>0, <1>2, <2>1 DEF ExecTyped
  <2>3. PathSame(q)
    BY <1>4, <2>2 DEF PathSame
  <2> QED
    BY <1>0, <1>3, <1>5, <2>3, OrderFrame
<1>6. /\ Approved(r)' = Approved(r) /\ Spent(r)' = Spent(r)
      /\ reservationOf(r)' = reservations'[i] /\ reservationOf(r) = reservations[i]
  BY <1>1, <1>3 DEF Approved, reservationOf, Spent, token
<1>7. GatewayInv(r)'
  BY <1>0, <1>4, <1>6 DEF OrderInv, GatewayInv
<1>8. VenueInv(r)'
  BY <1>0, <1>3, <1>4, <1>6 DEF OrderInv, VenueInv
<1>9. reservations'[i].state = IF settled'[c].status \in {"FILLED", "PARTIALLY_FILLED"}
                                   THEN "consumed" ELSE "released"
  <2>1. settled'[c].status \in Statuses
    BY <1>2 DEF Outcome
  <2> QED
    BY <1>2, <1>3, <2>1 DEF Statuses
<1>10. BudgetInv(r)'
  BY <1>1, <1>2, <1>4, <1>6, <1>9 DEF BudgetInv
<1> QED
  BY <1>5, <1>7, <1>8, <1>10 DEF OrderInv

\* The venue trading or closing an order, and its messages arriving, are not
\* seen by the gateway or the risk engine.
LEMMA OtherSteps ==
    ASSUME ExecInv, \/ ToggleKillSwitch \/ RiskStep
                    \/ \E c \in Orders : VenueWorks(c) \/ FillsArrive(c)
                    \/ UNCHANGED vars
    PROVE  \A q \in Requests : OrderInv(q)'
<1>0. /\ TypeOK /\ ApprovalBacked /\ ExecTyped /\ \A q \in Requests : OrderInv(q)
  BY DEF ExecInv
<1> TAKE q \in Requests
<1>c. OrderOf[q] \in Orders
  BY OrderAssumption
<1>1. CASE RiskStep
  <2>1. UNCHANGED execVars /\ (Undisturbed(q) \/ Decided(q))
    BY <1>0, <1>1, EngineStepEffect DEF RiskStep
  <2>2. PathSame(q)
    BY <2>1 DEF PathSame, execVars, gatewayVars
  <2> QED
    BY <1>0, <2>1, <2>2, OrderFrame
<1>2. CASE ToggleKillSwitch
  <2>1. PathSame(q)
    BY <1>2 DEF ToggleKillSwitch, PathSame
  <2> QED
    BY <1>0, <1>2, <2>1, OrderFrame, RiskSame DEF ToggleKillSwitch
<1>3. CASE UNCHANGED vars
  <2>1. PathSame(q)
    BY <1>3 DEF vars, execVars, gatewayVars, PathSame
  <2> QED
    BY <1>0, <1>3, <2>1, OrderFrame, RiskSame DEF vars
<1>4. ASSUME NEW c \in Orders, VenueWorks(c) \/ FillsArrive(c) PROVE OrderInv(q)'
  <2>1. UNCHANGED <<riskVars, gatewayVars, settled>>
    BY <1>4 DEF VenueWorks, FillsArrive, VenueCloses, VenueTrades, DeliverFill
  <2>2. /\ venue'[OrderOf[q]].size = venue[OrderOf[q]].size
        /\ venue'[OrderOf[q]].status = "none" <=> venue[OrderOf[q]].status = "none"
    <3>0. venue \in [Orders -> Venue]
      BY <1>0 DEF ExecTyped
    <3>1. CASE VenueCloses(c)
      BY <1>c, <3>0, <3>1 DEF VenueCloses, Venue
    <3>2. ASSUME NEW amount, VenueTrades(c, amount)
          PROVE  /\ venue'[OrderOf[q]].size = venue[OrderOf[q]].size
                 /\ venue'[OrderOf[q]].status = venue[OrderOf[q]].status
      BY <1>c, <3>0, <3>2 DEF VenueTrades, Venue
    <3>3. CASE FillsArrive(c)
      BY <3>3 DEF FillsArrive, DeliverFill
    <3> QED
      BY <1>4, <3>1, <3>2, <3>3 DEF VenueWorks
  <2>3. PathSame(q)
    BY <2>1, <2>2 DEF PathSame, gatewayVars
  <2> QED
    BY <1>0, <2>1, <2>3, OrderFrame, RiskSame
<1> QED
  BY <1>1, <1>2, <1>3, <1>4

\* Every step keeps what is known of every order.
LEMMA OrderStep ==
    ASSUME CallersKeepToOneOrder, ExecInv, [ExecNext]_vars
    PROVE  \A q \in Requests : OrderInv(q)'
<1>1. ASSUME NEW r \in Requests, CallerReconciles(r) PROVE \A q \in Requests : OrderInv(q)'
  <2>1. PICK rejected \in BOOLEAN : /\ ReconcileOrder(r, rejected)
                                    /\ r \in okCalls \cup refusedCalls
                                    /\ rejected => r \in refusedCalls
    BY <1>1 DEF CallerReconciles
  <2> QED
    BY <2>1, ReconcileStep
<1> QED
  BY <1>1, AsyncStep, SyncStep, ResumeStep, VenueStep, OtherSteps DEF ExecNext

-----------------------------------------------------------------------------
(* Every step keeps the types, and what is known of trades and outcomes. *)

\* Every step keeps the fields of the order path in their types.
LEMMA ExecTypeStep ==
    ASSUME CallersKeepToOneOrder, ExecInv, [ExecNext]_vars PROVE ExecTyped'
<1>0. /\ TypeOK /\ ApprovalBacked /\ ExecTyped /\ \A q \in Requests : OrderInv(q)
  BY DEF ExecInv
<1>t. /\ killEngaged \in BOOLEAN /\ done \subseteq Orders
      /\ calls \in [Requests -> Nat] /\ post \in [Requests -> PostStates]
      /\ okCalls \subseteq Requests /\ refusedCalls \subseteq Requests
      /\ sent \in [Orders -> Nat] /\ venue \in [Orders -> Venue]
      /\ buffer \in [Orders -> Seq(Fill)] /\ settled \in [Orders -> Outcome]
  BY <1>0 DEF ExecTyped
<1>1. CASE RiskStep \/ UNCHANGED vars
  BY <1>t, <1>1 DEF RiskStep, vars, execVars, gatewayVars, ExecTyped
<1>2. CASE ToggleKillSwitch
  BY <1>t, <1>2 DEF ToggleKillSwitch, ExecTyped
<1>3. ASSUME NEW r \in Requests, NEW s \in PostStates, post' = [post EXCEPT ![r] = s]
      PROVE  post' \in [Requests -> PostStates]
  BY <1>t, <1>3
<1>4. ASSUME NEW r \in Requests, ExecuteAsync(r) \/ ExecuteSync(r) PROVE ExecTyped'
  <2>1. UNCHANGED <<killEngaged, venue, buffer, settled>>
    BY <1>4 DEF ExecuteAsync, ExecuteSync
  <2>2. calls' \in [Requests -> Nat]
    <3>1. calls' = [calls EXCEPT ![r] = @ + 1]
      BY <1>4 DEF ExecuteAsync, ExecuteSync, Call
    <3> QED
      BY <1>t, <3>1
  <2>3. post' \in [Requests -> PostStates]
    <3>1. UNCHANGED post \/ post' = [post EXCEPT ![r] = "posted"] \/ post' = [post EXCEPT ![r] = "sync"]
      BY <1>4 DEF ExecuteAsync, ExecuteSync
    <3> QED
      BY <1>t, <3>1 DEF PostStates
  <2>4. sent' \in [Orders -> Nat]
    <3>1. UNCHANGED sent \/ sent' = [sent EXCEPT ![OrderOf[r]] = @ + 1]
      BY <1>4 DEF ExecuteAsync, ExecuteSync, Sends
    <3>2. OrderOf[r] \in Orders
      BY OrderAssumption
    <3>3. sent \in [Orders -> Nat] /\ sent[OrderOf[r]] + 1 \in Nat
      BY <1>t, <3>2
    <3> QED
      BY <3>1, <3>2, <3>3
  <2>5. done' \subseteq Orders /\ okCalls' \subseteq Requests /\ refusedCalls' \subseteq Requests
    <3>1. /\ done' \in {done, done \cup {OrderOf[r]}}
          /\ okCalls' \in {okCalls, okCalls \cup {r}}
          /\ refusedCalls' \in {refusedCalls, refusedCalls \cup {r}}
      BY <1>4 DEF ExecuteAsync, ExecuteSync
    <3>2. OrderOf[r] \in Orders
      BY OrderAssumption
    <3> QED
      BY <1>t, <3>1, <3>2
  <2> QED
    BY <1>t, <2>1, <2>2, <2>3, <2>4, <2>5 DEF ExecTyped
<1>5. ASSUME NEW r \in Requests, GatewayResumes(r) PROVE ExecTyped'
  <2>1. /\ UNCHANGED <<killEngaged, calls, sent, venue, buffer, settled>>
        /\ post' = [post EXCEPT ![r] = "resolved"]
        /\ done' \in {done, done \cup {OrderOf[r]}}
        /\ okCalls' \in {okCalls, okCalls \cup {r}}
        /\ refusedCalls' \in {refusedCalls, refusedCalls \cup {r}}
    BY <1>5 DEF GatewayResumes, SubmissionAccepted, SubmissionRejected, SubmissionThrows, Resolve
  <2>2. OrderOf[r] \in Orders
    BY OrderAssumption
  <2>3. post' \in [Requests -> PostStates]
    BY <1>3, <2>1 DEF PostStates
  <2>4. done' \subseteq Orders /\ okCalls' \subseteq Requests /\ refusedCalls' \subseteq Requests
    BY <1>t, <2>1, <2>2
  <2> QED
    BY <1>t, <2>1, <2>3, <2>4 DEF ExecTyped
<1>6. ASSUME NEW r \in Requests, VenueResponds(r) PROVE ExecTyped'
  <2>1. /\ UNCHANGED <<killEngaged, done, calls, okCalls, refusedCalls, sent, buffer, settled>>
        /\ OrderOf[r] \in Orders
    BY <1>6, OrderAssumption DEF VenueResponds, VenueAccepts, VenueRefuses
  <2>2. post' \in [Requests -> PostStates]
    BY <1>t, <1>6 DEF VenueResponds, VenueAccepts, VenueRefuses, PostStates
  <2>3. venue' \in [Orders -> Venue]
    <3>1. CASE VenueAccepts(r)
      <4>1. Approved(r)
        BY <1>0, <3>1 DEF VenueAccepts, OrderInv, GatewayInv
      <4>2. reservationOf(r).amount \in Nat
        BY <1>0, <4>1, ApprovedOwns, ReservationAmount DEF TypeOK, Approved, reservationOf
      <4> DEFINE v == [[venue[OrderOf[r]] EXCEPT !.status = "live"] EXCEPT !.size = reservationOf(r).amount]
      <4>3. venue[OrderOf[r]] \in Venue
        BY <1>t, <2>1
      <4>4. v \in Venue
        BY <4>2, <4>3 DEF Venue
      <4>5. venue' = [venue EXCEPT ![OrderOf[r]] = v]
        <5>1. /\ venue \in [Orders -> Venue] /\ OrderOf[r] \in Orders
              /\ venue' = [venue EXCEPT ![OrderOf[r]].status = "live",
                                       ![OrderOf[r]].size = reservationOf(r).amount]
          BY <1>t, <2>1, <3>1 DEF VenueAccepts
        <5> QED
          BY <5>1
      <4> QED
        BY <1>t, <4>4, <4>5
    <3>2. CASE VenueRefuses(r)
      BY <1>t, <3>2 DEF VenueRefuses
    <3> QED
      BY <1>6, <3>1, <3>2 DEF VenueResponds
  <2> QED
    BY <1>t, <2>1, <2>2, <2>3 DEF ExecTyped
<1>7. ASSUME NEW r \in Requests, CallerReconciles(r) PROVE ExecTyped'
  <2>1. PICK rejected \in BOOLEAN : ReconcileOrder(r, rejected) /\ r \in okCalls \cup refusedCalls
    BY <1>7 DEF CallerReconciles
  <2>2. PICK c, i : c = OrderOf[r] /\ i = decisions[r].reservation
    OBVIOUS
  <2>3. /\ c \in Orders /\ UNCHANGED <<gatewayVars, venue, buffer>>
        /\ settled' = [settled EXCEPT ![c] = settled'[c]] /\ settled'[c] \in Outcome
    BY <2>1, <2>2, ReconcileEffect
  <2>4. settled' \in [Orders -> Outcome]
    BY <1>t, <2>3
  <2> QED
    BY <1>t, <2>3, <2>4 DEF ExecTyped, gatewayVars
<1>8. ASSUME NEW c \in Orders, VenueWorks(c) PROVE ExecTyped'
  <2>1. UNCHANGED <<gatewayVars, buffer, settled>>
    BY <1>8 DEF VenueWorks, VenueCloses, VenueTrades
  <2>2. venue[c] \in Venue /\ venue[c].trades \in Seq(Nat \ {0})
    BY <1>0, <1>t, AmountsTyped
  <2>3. PICK v \in Venue : venue' = [venue EXCEPT ![c] = v]
    <3>1. CASE VenueCloses(c)
      <4>1. [venue[c] EXCEPT !.status = "closed"] \in Venue
        BY <2>2 DEF Venue
      <4> QED
        BY <3>1, <4>1 DEF VenueCloses
    <3>2. ASSUME NEW amount \in Notionals, VenueTrades(c, amount)
          PROVE  \E v \in Venue : venue' = [venue EXCEPT ![c] = v]
      <4>1. amount \in Nat \ {0}
        BY <3>2, BudgetAssumption DEF VenueTrades
      <4>2. Append(venue[c].trades, amount) \in Seq(Nat \ {0})
        BY <2>2, <4>1
      <4>3. \A s \in Seq(Nat \ {0}) : [venue[c] EXCEPT !.trades = s] \in Venue
        BY <2>2 DEF Venue
      <4> QED
        BY <3>2, <4>2, <4>3 DEF VenueTrades
    <3> QED
      BY <1>8, <3>1, <3>2 DEF VenueWorks
  <2>4. venue' \in [Orders -> Venue]
    BY <1>t, <2>3
  <2> QED
    BY <1>t, <2>1, <2>4 DEF ExecTyped, gatewayVars
<1>9. ASSUME NEW c \in Orders, FillsArrive(c) PROVE ExecTyped'
  <2>1. PICK t \in DOMAIN venue[c].trades :
           /\ UNCHANGED <<gatewayVars, venue, settled>>
           /\ buffer' = [buffer EXCEPT ![c] =
                            Append(@, [trade |-> t, amount |-> venue[c].trades[t]])]
    BY <1>9 DEF FillsArrive, DeliverFill, Ingest
  <2>2. venue[c].trades \in Seq(Nat) /\ buffer[c] \in Seq(Fill)
    BY <1>0, AmountsTyped
  <2>3. [trade |-> t, amount |-> venue[c].trades[t]] \in Fill
    BY <2>2 DEF Fill
  <2>4. buffer' \in [Orders -> Seq(Fill)]
    BY <1>t, <2>1, <2>2, <2>3
  <2> QED
    BY <1>t, <2>1, <2>4 DEF ExecTyped, gatewayVars
<1> QED
  BY <1>1, <1>2, <1>4, <1>5, <1>6, <1>7, <1>8, <1>9 DEF ExecNext

BookInv(c) == TradesInv(c) /\ SettledInv(c)

\* An order whose trades, messages and outcome a step leaves alone.
LEMMA BookSame ==
    ASSUME NEW c, BookInv(c), venue'[c] = venue[c], buffer'[c] = buffer[c], settled'[c] = settled[c]
    PROVE  BookInv(c)'
<1>1. Traded(c)' = Traded(c)
  BY DEF Traded
<1>2. TradesInv(c)'
  BY <1>1 DEF BookInv, TradesInv
<1>3. SettledInv(c)'
  BY <1>1 DEF BookInv, SettledInv
<1> QED
  BY <1>2, <1>3 DEF BookInv

\* The venue takes, trades and closes an order: nothing is settled yet but a
\* rejection.
LEMMA BookAccepted ==
    ASSUME ExecInv, NEW r \in Requests, VenueAccepts(r), NEW c, c = OrderOf[r]
    PROVE  BookInv(c)'
<1>0. ExecTyped /\ BookInv(c) /\ c \in Orders /\ OrderInv(r) /\ TypeOK /\ ApprovalBacked
  BY OrderAssumption DEF ExecInv, BookInv
<1>1. /\ venue \in [Orders -> Venue] /\ venue[c] \in Venue /\ venue[c].status = "none"
      /\ buffer' = buffer /\ settled' = settled
      /\ venue' = [venue EXCEPT ![c].status = "live", ![c].size = reservationOf(r).amount]
  BY <1>0 DEF VenueAccepts, ExecTyped
<1>2. venue'[c].trades = venue[c].trades /\ venue'[c].status = "live"
      /\ venue'[c].size = reservationOf(r).amount
  BY <1>0, <1>1 DEF Venue
<1>3. reservationOf(r).amount \in Nat
  <2>1. Approved(r)
    BY <1>0 DEF VenueAccepts, OrderInv, GatewayInv
  <2> QED
    BY <1>0, <2>1, ApprovedOwns, ReservationAmount DEF TypeOK, Approved, reservationOf
<1>4. venue[c].trades = <<>> /\ Traded(c) = 0 /\ Traded(c)' = Traded(c)
  <2>1. venue[c].trades = <<>>
    BY <1>0, <1>1 DEF BookInv, TradesInv
  <2>2. venue[c].trades \in Seq(Nat)
    BY <1>0, AmountsTyped
  <2> QED
    BY <1>2, <2>1, <2>2, SumOfSequence DEF Traded
<1>5. TradesInv(c)'
  BY <1>0, <1>1, <1>2, <1>3, <1>4 DEF BookInv, TradesInv
<1>6. SettledInv(c)'
  <2>1. settled[c].status \notin Statuses \ {"REJECTED"}
    BY <1>0, <1>1 DEF BookInv, SettledInv
  <2> QED
    BY <1>1, <2>1 DEF SettledInv
<1> QED
  BY <1>5, <1>6 DEF BookInv

\* Trades and the close of an order come before its outcome is settled.
LEMMA BookWorked ==
    ASSUME ExecInv, NEW c \in Orders, VenueWorks(c)
    PROVE  BookInv(c)'
<1>0. ExecTyped /\ BookInv(c) /\ venue \in [Orders -> Venue] /\ venue[c] \in Venue
  BY DEF ExecInv, BookInv, ExecTyped
<1>1. venue[c].status = "live" /\ buffer' = buffer /\ settled' = settled
  BY DEF VenueWorks, VenueCloses, VenueTrades
<1>2. settled[c].status \notin Statuses \ {"REJECTED"}
  BY <1>0, <1>1 DEF BookInv, SettledInv
<1>3. SettledInv(c)'
  BY <1>0, <1>1, <1>2 DEF BookInv, SettledInv
<1>4. CASE VenueCloses(c)
  <2>1. /\ venue'[c].trades = venue[c].trades /\ venue'[c].size = venue[c].size
        /\ venue'[c].status = "closed"
    BY <1>0, <1>4 DEF VenueCloses, Venue
  <2>2. Traded(c)' = Traded(c)
    BY <2>1 DEF Traded
  <2>3. TradesInv(c)'
    BY <1>0, <1>1, <2>1, <2>2 DEF BookInv, TradesInv
  <2> QED
    BY <1>3, <2>3 DEF BookInv
<1>5. ASSUME NEW amount \in Notionals, VenueTrades(c, amount) PROVE BookInv(c)'
  <2>1. amount \in Nat /\ Traded(c) + amount <= venue[c].size
    BY <1>5, BudgetAssumption DEF VenueTrades
  <2>2. /\ venue'[c].trades = Append(venue[c].trades, amount) /\ venue'[c].size = venue[c].size
        /\ venue'[c].status = venue[c].status
    BY <1>0, <1>5 DEF VenueTrades, Venue
  <2>3. venue[c].trades \in Seq(Nat)
    BY <1>0, AmountsTyped
  <2>4. Traded(c)' = Traded(c) + amount
    BY <2>1, <2>2, <2>3, SumOfSequence DEF Traded
  <2>5. \A t \in DOMAIN venue[c].trades : /\ t \in DOMAIN venue'[c].trades
                                          /\ venue'[c].trades[t] = venue[c].trades[t]
    BY <2>1, <2>2, <2>3
  <2>6. TradesInv(c)'
    BY <1>0, <1>1, <2>1, <2>2, <2>4, <2>5 DEF BookInv, TradesInv
  <2> QED
    BY <1>3, <2>6 DEF BookInv
<1> QED
  BY <1>4, <1>5 DEF VenueWorks

\* A fill message is buffered once, with the amount of its trade.
LEMMA BookDelivered ==
    ASSUME ExecInv, NEW c \in Orders, FillsArrive(c)
    PROVE  BookInv(c)'
<1>0. ExecTyped /\ BookInv(c)
  BY DEF ExecInv, BookInv
<1>1. PICK t \in DOMAIN venue[c].trades :
         /\ \A k \in DOMAIN buffer[c] : buffer[c][k].trade # t
         /\ venue' = venue /\ settled' = settled
         /\ buffer' = [buffer EXCEPT ![c] = Append(@, [trade |-> t, amount |-> venue[c].trades[t]])]
  BY DEF FillsArrive, DeliverFill, Ingest
<1>2. Traded(c)' = Traded(c)
  BY <1>1 DEF Traded
<1>3. SettledInv(c)'
  BY <1>0, <1>1, <1>2 DEF BookInv, SettledInv
<1>4. buffer[c] \in Seq(Fill) /\ buffer \in [Orders -> Seq(Fill)]
  BY <1>0, AmountsTyped DEF ExecTyped
<1> DEFINE b == buffer[c]
           m == [trade |-> t, amount |-> venue[c].trades[t]]
           n == Len(b) + 1
<1>5. buffer'[c] = Append(b, m)
  BY <1>1, <1>4
<1>6. /\ DOMAIN buffer'[c] = DOMAIN b \cup {n} /\ n \notin DOMAIN b
      /\ buffer'[c][n] = m /\ \A k \in DOMAIN b : buffer'[c][k] = b[k]
  <2> HIDE DEF m
  <2> QED
    BY <1>4, <1>5
<1>7. \A k \in DOMAIN buffer'[c] :
          /\ buffer'[c][k].trade \in DOMAIN venue[c].trades
          /\ buffer'[c][k].amount = venue[c].trades[buffer'[c][k].trade]
  <2>1. m.trade = t /\ m.amount = venue[c].trades[t]
    OBVIOUS
  <2>2. \A k \in DOMAIN b : /\ b[k].trade \in DOMAIN venue[c].trades
                            /\ b[k].amount = venue[c].trades[b[k].trade]
    BY <1>0 DEF BookInv, TradesInv
  <2> HIDE DEF m, n, b
  <2> QED
    BY <1>6, <2>1, <2>2
<1>8. \A j, k \in DOMAIN buffer'[c] : buffer'[c][j].trade = buffer'[c][k].trade => j = k
  <2>1. m.trade = t
    OBVIOUS
  <2>2. \A j, k \in DOMAIN b : b[j].trade = b[k].trade => j = k
    BY <1>0 DEF BookInv, TradesInv
  <2>3. \A k \in DOMAIN b : b[k].trade # t
    BY <1>1
  <2> HIDE DEF m, n, b
  <2> QED
    BY <1>6, <2>1, <2>2, <2>3
<1>9. TradesInv(c)'
  BY <1>0, <1>1, <1>2, <1>7, <1>8 DEF BookInv, TradesInv
<1> QED
  BY <1>3, <1>9 DEF BookInv

\* What reconcile records of an order that was not rejected is what the venue
\* traded, and its status says how much of the order that was.
LEMMA BookReconciled ==
    ASSUME ExecInv, NEW r \in Requests, CallerReconciles(r), NEW c, c = OrderOf[r]
    PROVE  BookInv(c)' /\ \A o \in Orders : o # c => settled'[o] = settled[o]
<1>1. PICK rejected \in BOOLEAN :
         /\ ReconcileOrder(r, rejected) /\ r \in okCalls \cup refusedCalls
         /\ ~rejected => r \in okCalls /\ AllFillsSeen(c)
  BY DEF CallerReconciles
<1>2. PICK i : i = decisions[r].reservation
  OBVIOUS
<1>3. /\ Approved(r) /\ c \in Orders /\ UNCHANGED <<gatewayVars, venue, buffer>>
      /\ settled' = [settled EXCEPT ![c] = settled'[c]]
      /\ settled'[c].filled = filledNotional(c)
      /\ settled'[c].status = deriveStatus(reservations[i].amount, filledNotional(c), rejected)
  BY <1>1, <1>2, ReconcileEffect
<1>0. TypeOK /\ ApprovalBacked /\ ExecTyped /\ BookInv(c) /\ OrderInv(r)
  BY <1>3 DEF ExecInv, BookInv
<1>4. \A o \in Orders : o # c => settled'[o] = settled[o]
  BY <1>0, <1>3 DEF ExecTyped
<1>5. Traded(c)' = Traded(c) /\ Traded(c) \in Nat /\ filledNotional(c) \in Nat
  BY <1>0, <1>3, AmountsTyped DEF Traded
<1>6. TradesInv(c)'
  BY <1>0, <1>3, <1>5 DEF BookInv, TradesInv
<1>7. reservations[i].amount \in Nat /\ reservations[i].amount > 0 /\ reservations[i] = reservationOf(r)
  BY <1>0, <1>2, <1>3, ApprovedOwns, ReservationAmount DEF TypeOK, Approved, reservationOf
<1>8. CASE rejected
  <2>1. settled'[c].status = "REJECTED"
    BY <1>3, <1>8 DEF deriveStatus
  <2> QED
    BY <1>4, <1>6, <2>1 DEF BookInv, SettledInv
<1>9. CASE ~rejected
  <2>1. filledNotional(c) = Traded(c) /\ venue[c].status = "closed"
    BY <1>0, <1>1, <1>3, <1>9, FillsAddUp DEF BookInv, AllFillsSeen
  <2>2. venue[c].size = reservations[i].amount /\ Traded(c) <= venue[c].size
    BY <1>0, <1>7, <2>1 DEF OrderInv, VenueInv, BookInv, TradesInv
  <2>3. /\ settled'[c].status = "FILLED" <=> Traded(c) = venue[c].size
        /\ settled'[c].status = "CANCELLED" <=> Traded(c) = 0
    <3> HIDE DEF Traded, filledNotional
    <3> QED
      BY <1>3, <1>5, <1>7, <1>9, <2>1, <2>2 DEF deriveStatus
  <2>4. SettledInv(c)'
    BY <1>3, <1>5, <2>1, <2>3 DEF SettledInv
  <2> QED
    BY <1>4, <1>6, <2>4 DEF BookInv
<1> QED
  BY <1>8, <1>9

\* Every step keeps what is known of trades and outcomes.
LEMMA BookStep ==
    ASSUME ExecInv, [ExecNext]_vars
    PROVE  \A c \in Orders : BookInv(c)'
<1>0. ExecTyped /\ \A c \in Orders : BookInv(c)
  BY DEF ExecInv, BookInv
<1>a. ASSUME UNCHANGED <<venue, buffer, settled>> PROVE \A c \in Orders : BookInv(c)'
  BY <1>0, <1>a, BookSame
<1>1. CASE RiskStep \/ ToggleKillSwitch \/ UNCHANGED vars
  BY <1>1, <1>a DEF RiskStep, ToggleKillSwitch, vars, execVars
<1>2. ASSUME NEW r \in Requests, ExecuteAsync(r) \/ ExecuteSync(r) \/ GatewayResumes(r)
      PROVE  \A c \in Orders : BookInv(c)'
  BY <1>2, <1>a DEF ExecuteAsync, ExecuteSync, GatewayResumes, SubmissionAccepted,
                    SubmissionRejected, SubmissionThrows
<1>3. ASSUME NEW r \in Requests, VenueResponds(r) PROVE \A c \in Orders : BookInv(c)'
  <2>1. CASE VenueRefuses(r)
    BY <2>1, <1>a DEF VenueRefuses
  <2>2. CASE VenueAccepts(r)
    <3>1. PICK o : o = OrderOf[r]
      OBVIOUS
    <3>2. BookInv(o)'
      BY <2>2, <3>1, BookAccepted
    <3>3. /\ \A c \in Orders : c # o => venue'[c] = venue[c]
          /\ buffer' = buffer /\ settled' = settled
      BY <1>0, <2>2, <3>1 DEF VenueAccepts, ExecTyped
    <3>4. ASSUME NEW c \in Orders, c # o PROVE BookInv(c)'
      BY <1>0, <3>3, <3>4, BookSame
    <3> QED
      BY <3>2, <3>4
  <2> QED
    BY <1>3, <2>1, <2>2 DEF VenueResponds
<1>4. ASSUME NEW r \in Requests, CallerReconciles(r) PROVE \A c \in Orders : BookInv(c)'
  <2>1. PICK o : o = OrderOf[r]
    OBVIOUS
  <2>2. BookInv(o)' /\ \A c \in Orders : c # o => settled'[c] = settled[c]
    BY <1>4, <2>1, BookReconciled
  <2>3. UNCHANGED <<venue, buffer>>
    BY <1>4 DEF CallerReconciles, ReconcileOrder
  <2>4. ASSUME NEW c \in Orders, c # o PROVE BookInv(c)'
    BY <1>0, <2>2, <2>3, <2>4, BookSame
  <2> QED
    BY <2>2, <2>4
<1>5. ASSUME NEW o \in Orders, VenueWorks(o) \/ FillsArrive(o) PROVE \A c \in Orders : BookInv(c)'
  <2>1. BookInv(o)'
    BY <1>5, BookWorked, BookDelivered
  <2>2. \A c \in Orders : c # o =>
           venue'[c] = venue[c] /\ buffer'[c] = buffer[c] /\ settled'[c] = settled[c]
    BY <1>0, <1>5 DEF VenueWorks, VenueCloses, VenueTrades, FillsArrive, DeliverFill, Ingest,
                      ExecTyped
  <2>3. ASSUME NEW c \in Orders, c # o PROVE BookInv(c)'
    BY <1>0, <2>2, <2>3, BookSame
  <2> QED
    BY <2>1, <2>3
<1> QED
  BY <1>1, <1>2, <1>3, <1>4, <1>5 DEF ExecNext

\* Every step of the order path is a step of the risk engine or leaves it
\* alone: the gateway spends the token it was given, and the reconciler moves
\* the reservation of a request that was approved.
LEMMA EngineSeesItsOwnSteps ==
    ASSUME ExecInv, [ExecNext]_vars PROVE [Next]_riskVars
<1>0. /\ TypeOK /\ ApprovalBacked /\ ExecTyped /\ \A q \in Requests : OrderInv(q)
  BY DEF ExecInv
<1>1. CASE RiskStep
  BY <1>1 DEF RiskStep, Next
<1>2. CASE ToggleKillSwitch \/ UNCHANGED vars
  BY <1>2 DEF ToggleKillSwitch, vars
<1>3. ASSUME NEW r \in Requests, ExecuteAsync(r) \/ ExecuteSync(r) PROVE [Next]_riskVars
  <2>1. Approved(r) /\ (UNCHANGED riskVars \/ AuthorizeExecution(token(r)))
    BY <1>3 DEF ExecuteAsync, ExecuteSync, Call, Sends
  <2>2. AuthorizeExecution(token(r)) => \E t \in DOMAIN tokens : AuthorizeExecution(t)
    BY <1>0, <2>1, SpendEffect
  <2> QED
    BY <2>1, <2>2 DEF Next
<1>4. ASSUME NEW r \in Requests, VenueResponds(r) \/ GatewayResumes(r) PROVE [Next]_riskVars
  BY <1>4 DEF VenueResponds, VenueAccepts, VenueRefuses, GatewayResumes, SubmissionAccepted,
              SubmissionRejected, SubmissionThrows
<1>5. ASSUME NEW r \in Requests, CallerReconciles(r) PROVE [Next]_riskVars
  <2>1. PICK rejected \in BOOLEAN : ReconcileOrder(r, rejected) /\ r \in okCalls \cup refusedCalls
    BY <1>5 DEF CallerReconciles
  <2>2. PICK i, c : i = decisions[r].reservation /\ c = OrderOf[r]
    OBVIOUS
  <2>3. Approved(r) /\ (ConfirmFill(i) \/ Release(i))
    BY <2>1, <2>2, ReconcileEffect
  <2>4. i \in DOMAIN reservations
    BY <1>0, <2>2, <2>3, ApprovedOwns DEF Approved
  <2> QED
    BY <2>3, <2>4 DEF Next
<1>6. ASSUME NEW c \in Orders, VenueWorks(c) \/ FillsArrive(c) PROVE [Next]_riskVars
  BY <1>6 DEF VenueWorks, VenueCloses, VenueTrades, FillsArrive, DeliverFill
<1> QED
  BY <1>1, <1>2, <1>3, <1>4, <1>5, <1>6 DEF ExecNext

-----------------------------------------------------------------------------
(* The theorems. *)

\* The inductive invariant of the order path.
LEMMA ExecInvariance ==
    ASSUME CallersKeepToOneOrder PROVE ExecSpec => []ExecInv
<1>1. ExecInit => ExecInv
  <2> SUFFICES ASSUME ExecInit PROVE ExecInv
    OBVIOUS
  <2>1. Init
    BY DEF ExecInit
  <2>2. TypeOK
    BY <2>1 DEF Init, TypeOK, RiskStates, Decision, Undecided
  <2>3. ApprovalBacked
    BY <2>1 DEF Init, ApprovalBacked, Undecided
  <2>4. ExecTyped
    <3>1. /\ [status |-> "none", size |-> 0, trades |-> <<>>] \in Venue
          /\ Unsettled \in Outcome /\ <<>> \in Seq(Fill) /\ "none" \in PostStates
      BY DEF Venue, Outcome, Unsettled, PostStates
    <3> QED
      BY <3>1 DEF ExecInit, ExecTyped
  <2>5. ASSUME NEW r \in Requests PROVE OrderInv(r)
    <3>1. OrderOf[r] \in Orders /\ ~Approved(r)
      BY <2>1, OrderAssumption DEF Init, Undecided, Approved
    <3>2. /\ post[r] = "none" /\ calls[r] = 0 /\ r \notin okCalls /\ r \notin refusedCalls
          /\ sent[OrderOf[r]] = 0 /\ OrderOf[r] \notin done
          /\ venue[OrderOf[r]].status = "none" /\ settled[OrderOf[r]].status = "none"
      BY <3>1 DEF ExecInit, Unsettled
    <3> QED
      BY <3>1, <3>2 DEF OrderInv, GatewayInv, VenueInv, BudgetInv
  <2>6. ASSUME NEW c \in Orders PROVE TradesInv(c) /\ SettledInv(c)
    <3>1. /\ venue[c].status = "none" /\ venue[c].trades = <<>> /\ venue[c].size = 0
          /\ buffer[c] = <<>> /\ settled[c].status = "none"
      BY DEF ExecInit, Unsettled
    <3>2. Traded(c) = 0
      BY <2>4, <3>1, AmountsTyped, SumOfSequence DEF Traded
    <3> QED
      BY <3>1, <3>2 DEF TradesInv, SettledInv, Statuses
  <2> QED
    BY <2>2, <2>3, <2>4, <2>5, <2>6 DEF ExecInv
<1>2. ExecInv /\ [ExecNext]_vars => ExecInv'
  <2> SUFFICES ASSUME ExecInv, [ExecNext]_vars PROVE ExecInv'
    OBVIOUS
  <2>1. TypeOK /\ ApprovalBacked /\ [Next]_riskVars
    BY EngineSeesItsOwnSteps DEF ExecInv
  <2>2. TypeOK' /\ ApprovalBacked'
    BY <2>1, TypeStep, BackingStep
  <2>3. ExecTyped' /\ (\A q \in Requests : OrderInv(q)') /\ (\A c \in Orders : BookInv(c)')
    BY ExecTypeStep, OrderStep, BookStep
  <2> QED
    BY <2>2, <2>3 DEF ExecInv, BookInv
<1> QED
  BY <1>1, <1>2, PTL DEF ExecSpec

\* The order path implements the risk engine's specification: the gateway and
\* the reconciler use the engine only through its public methods, on tokens and
\* reservations it has issued, so every theorem about the engine (the budget
\* bound, the voiding of approvals at a HALT, their single use) holds of the
\* composed system.
THEOREM OrderPathUsesEngine ==
    ASSUME CallersKeepToOneOrder PROVE ExecSpec => Spec
<1>1. ExecInit => Init
  BY DEF ExecInit
<1>2. ExecInv /\ [ExecNext]_vars => [Next]_riskVars
  BY EngineSeesItsOwnSteps
<1> QED
  BY <1>1, <1>2, ExecInvariance, PTL DEF ExecSpec, Spec

\* INV-R13 to INV-R16 for any number of orders, trades and calls, lost
\* responses included: an outcome that is not a rejection reports what the
\* venue traded, the budget is consumed or released as the outcome says, and
\* executeAsync answers ok: true only for an order the venue took.
THEOREM OutcomesHold ==
    ASSUME CallersKeepToOneOrder PROVE ExecSpec => []OutcomesAreTruthful
<1>1. ExecInv => OutcomesAreTruthful
  <2> SUFFICES ASSUME ExecInv PROVE OutcomesAreTruthful
    OBVIOUS
  <2>0. /\ ExecTyped /\ (\A r \in Requests : OrderInv(r))
        /\ \A c \in Orders : TradesInv(c) /\ SettledInv(c)
    BY DEF ExecInv
  <2>1. OutcomeMatchesVenue
    BY <2>0 DEF SettledInv, OutcomeMatchesVenue
  <2>2. OutcomeMatchesBudget
    <3> SUFFICES ASSUME NEW c \in Orders, settled[c].status # "none"
                 PROVE  reservationOf(settled[c].request).state =
                           IF settled[c].status \in {"FILLED", "PARTIALLY_FILLED"}
                              THEN "consumed" ELSE "released"
      BY DEF OutcomeMatchesBudget
    <3>1. PICK r \in Requests : OrderOf[r] = c
      BY <2>0 DEF SettledInv
    <3> QED
      BY <2>0, <3>1 DEF OrderInv, BudgetInv
  <2>3. OkMeansAccepted
    BY <2>0 DEF OkMeansAccepted, OrderInv, VenueInv, ExecTyped
  <2> QED
    BY <2>1, <2>2, <2>3 DEF OutcomesAreTruthful
<1> QED
  BY <1>1, ExecInvariance, PTL

\* The reconciler's budget model, for a venue whose responses are not lost:
\* whatever the venue has traded is covered by a reservation that is held or
\* consumed.  (With a lost response the code does give the budget of a live
\* order back; a run shows it.)
THEOREM LiveRiskStaysCovered ==
    ASSUME CallersKeepToOneOrder, "lost_response" \notin VenueFaults
    PROVE  ExecSpec => []LiveRiskCovered
<1>1. ExecInv => LiveRiskCovered
  <2> SUFFICES ASSUME ExecInv, NEW c \in Orders, Traded(c) > 0
               PROVE  \E r \in Requests : /\ OrderOf[r] = c
                                          /\ post[r] \notin {"none", "refused"}
                                          /\ Held(r)
                                          /\ reservationOf(r).amount >= Traded(c)
    BY DEF LiveRiskCovered
  <2>0. /\ ExecTyped /\ (\A r \in Requests : OrderInv(r)) /\ TradesInv(c) /\ SettledInv(c)
    BY DEF ExecInv
  <2>1. venue[c].status # "none"
    <3>1. Traded(c) # 0 /\ venue[c].trades \in Seq(Nat)
      BY <2>0, AmountsTyped
    <3>2. venue[c].trades # <<>>
      BY <3>1, SumOfSequence DEF Traded
    <3> QED
      BY <2>0, <3>2 DEF TradesInv
  <2>2. PICK r \in Requests : OrderOf[r] = c
    BY <2>0, <2>1 DEF SettledInv
  <2>3. /\ post[r] \in {"accepted", "resolved"} /\ venue[c].size = reservationOf(r).amount
        /\ Approved(r) /\ r \notin refusedCalls
    BY <2>0, <2>1, <2>2 DEF OrderInv, VenueInv, GatewayInv
  <2>4. venue[c].size >= Traded(c)
    <3>1. venue[c].size \in Nat /\ Traded(c) \in Nat /\ Traded(c) <= venue[c].size
      BY <2>0, AmountsTyped DEF ExecTyped, Venue, TradesInv
    <3> QED
      BY <3>1
  <2>5. reservationOf(r).state \in {"reserved", "consumed"}
    <3>1. CASE settled[c].status = "none"
      BY <2>0, <2>2, <2>3, <3>1 DEF OrderInv, BudgetInv
    <3>2. CASE settled[c].status # "none"
      <4>1. settled[c].status \in Statuses /\ settled[c].status # "REJECTED"
        BY <2>0, <2>2, <2>3, <3>2 DEF OrderInv, BudgetInv, ExecTyped, Outcome
      <4>2. settled[c].status # "CANCELLED"
        BY <2>0, <4>1 DEF SettledInv
      <4>3. settled[c].status \in {"FILLED", "PARTIALLY_FILLED"}
        BY <4>1, <4>2 DEF Statuses
      <4> QED
        BY <2>0, <2>2, <3>2, <4>3 DEF OrderInv, BudgetInv
    <3> QED
      BY <3>1, <3>2
  <2> QED
    BY <2>2, <2>3, <2>4, <2>5 DEF Held
<1> QED
  BY <1>1, ExecInvariance, PTL

\* INV-R1, INV-R2, INV-R5, INV-R7 and INV-R12 for any number of orders and of
\* retries of execute: an order leaves for the exchange at most once, in a step
\* that spends a token usable at that moment, with its budget reserved, while
\* the machine is trading and the kill switch is not engaged.
THEOREM SendsHold ==
    ASSUME CallersKeepToOneOrder PROVE ExecSpec => SendsAreAuthorized
<1> DEFINE Authorized == \A c \in Orders : Sending(c) =>
                            /\ sent'[c] = 1
                            /\ ~killEngaged
                            /\ riskState \in Trading
                            /\ \E r \in Requests : /\ OrderOf[r] = c /\ Approved(r)
                                                   /\ isUsable(token(r)) /\ ~isUsable(token(r))'
                                                   /\ reservationOf(r).state = "reserved"
<1>1. ExecInv /\ NoUsableTokenOutsideTrading /\ [ExecNext]_vars => [Authorized]_vars
  <2> SUFFICES ASSUME ExecInv, NoUsableTokenOutsideTrading, [ExecNext]_vars,
                      NEW c \in Orders, Sending(c)
               PROVE  /\ sent'[c] = 1
                      /\ ~killEngaged
                      /\ riskState \in Trading
                      /\ \E r \in Requests : /\ OrderOf[r] = c /\ Approved(r)
                                             /\ isUsable(token(r)) /\ ~isUsable(token(r))'
                                             /\ reservationOf(r).state = "reserved"
    OBVIOUS
  <2>0. /\ TypeOK /\ ApprovalBacked /\ ExecTyped /\ (\A r \in Requests : OrderInv(r))
        /\ sent \in [Orders -> Nat]
    BY DEF ExecInv, ExecTyped
  <2>1. sent' # sent
    BY <2>0 DEF Sending
  <2>2. PICK r \in Requests : Approved(r) /\ Sends(r) /\ calls[r] < MaxCalls[r]
    BY <2>1 DEF ExecNext, RiskStep, execVars, gatewayVars, ToggleKillSwitch, vars,
                ExecuteAsync, ExecuteSync, Call, VenueResponds, VenueAccepts, VenueRefuses,
                GatewayResumes, SubmissionAccepted, SubmissionRejected, SubmissionThrows,
                CallerReconciles, ReconcileOrder, VenueWorks, VenueCloses, VenueTrades,
                FillsArrive, DeliverFill
  <2>3. /\ ~killEngaged /\ AuthorizeExecution(token(r))
        /\ sent' = [sent EXCEPT ![OrderOf[r]] = @ + 1]
    BY <2>2 DEF Sends
  <2>4. OrderOf[r] = c
    BY <2>0, <2>3 DEF Sending
  <2>5. /\ decisions' = decisions /\ isUsable(token(r)) /\ tokens'[token(r)].used
    BY <2>0, <2>2, <2>3, SpendEffect
  <2>6. ~isUsable(token(r))'
    BY <2>5 DEF isUsable, token
  <2>7. riskState \in Trading
    BY <2>0, <2>2, <2>5, ApprovedOwns DEF NoUsableTokenOutsideTrading, Approved, token
  <2>8. post[r] = "none" /\ sent[c] = 0
    BY <2>0, <2>4, <2>5 DEF OrderInv, GatewayInv, Spent, isUsable
  <2>9. sent'[c] = 1
    BY <2>0, <2>3, <2>4, <2>8
  <2>10. reservationOf(r).state = "reserved"
    <3>1. r \notin SyncRequests => calls[r] = 0
      BY <2>0, <2>2, CallAssumption DEF CallersKeepToOneOrder, ExecTyped
    <3>2. settled[c].status = "none"
      BY <2>0, <2>4, <3>1 DEF OrderInv, GatewayInv, BudgetInv
    <3> QED
      BY <2>0, <2>2, <2>4, <3>2 DEF OrderInv, BudgetInv
  <2> QED
    BY <2>2, <2>3, <2>4, <2>5, <2>6, <2>7, <2>9, <2>10
<1>2. Spec => []NoUsableTokenOutsideTrading
  BY HaltVoidsApprovals
<1> QED
  BY <1>1, <1>2, ExecInvariance, OrderPathUsesEngine, PTL DEF ExecSpec, SendsAreAuthorized
=============================================================================
