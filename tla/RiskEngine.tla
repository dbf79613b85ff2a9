----------------------------- MODULE RiskEngine -----------------------------
(***************************************************************************)
(* The risk engine (packages/risk-engine): the state machine, the budget   *)
(* of reservations, the registry of single-use approval tokens and the     *)
(* idempotent decision cache, as one sequential object.  Every public      *)
(* method that can change state is one action.  A call that the code       *)
(* answers without changing anything (a cached decision, an unusable       *)
(* token, an invalid transition that throws) is a stuttering step.         *)
(*                                                                         *)
(* The identifiers res-n and tok-n the code draws from its counters are    *)
(* positions in the sequences reservations and tokens.                     *)
(***************************************************************************)
EXTENDS Integers, Sequences, FiniteSets, Functions

CONSTANTS
    Requests,            \* request_ids callers use
    Symbols,             \* traded symbols
    Notionals,           \* notionals a request may carry
    PositionSets,        \* functions Symbols -> exposure handed to preTradeCheck
    Equities,            \* [peak, current] records handed to preTradeCheck
    Total,               \* opts.total_budget
    MaxTotalExposure,    \* opts.limits.maxTotalExposure
    MaxSymbolExposure,   \* opts.limits.maxSymbolExposure
    MaxDrawdownPct,      \* opts.limits.maxDrawdownPct, in percent
    MaxRecoveryAttempts  \* opts.maxRecoveryAttempts ?? 3

ASSUME BudgetAssumption == Total \in Nat /\ Notionals \subseteq Int
ASSUME RecoveryAssumption == MaxRecoveryAttempts \in Nat \ {0}

VARIABLES
    riskState,           \* RiskStateMachine.current()
    reservations,        \* RiskBudget.reservations, res-n at position n
    reserved,            \* RiskBudget.reserved
    consumed,            \* RiskBudget.consumed
    tokens,              \* TokenRegistry.tokens, tok-n at position n
    decisions,           \* RiskEngine.decisions, by request_id
    recoveryAttempts     \* RiskEngine.recoveryAttempts

budgetVars == <<reservations, reserved, consumed>>
riskVars == <<riskState, budgetVars, tokens, decisions, recoveryAttempts>>

-----------------------------------------------------------------------------
(* The state machine. *)

RiskStates == {"INIT", "READY", "RUN", "SAFE_MODE", "HALT", "RECOVERY", "FROZEN"}

VALID ==
    [INIT      |-> {"READY"},
     READY     |-> {"RUN"},
     RUN       |-> {"SAFE_MODE", "HALT"},
     SAFE_MODE |-> {"RUN", "HALT"},
     HALT      |-> {"RECOVERY"},
     RECOVERY  |-> {"READY", "HALT", "FROZEN"},
     FROZEN    |-> {}]

canTransition(from, to) == to \in VALID[from]

\* transition() throws, and changes nothing, when the step is not allowed.
Transition(to) ==
    /\ canTransition(riskState, to)
    /\ riskState' = to

-----------------------------------------------------------------------------
(* Limits: pure functions of the inputs of preTradeCheck. *)

totalExposure(positions) == SumFunction(positions)
symbolExposure(positions, symbol) == positions[symbol]

checkExposure(positions, symbol, addNotional) ==
    /\ totalExposure(positions) + addNotional <= MaxTotalExposure
    /\ symbolExposure(positions, symbol) + addNotional <= MaxSymbolExposure

drawdownBreached(equity) ==
    /\ equity.peak > 0
    /\ 100 * (equity.peak - equity.current) > MaxDrawdownPct * equity.peak

-----------------------------------------------------------------------------
(* The budget. *)

Reservation == [request : Requests, amount : Nat \ {0},
                state : {"reserved", "consumed", "released"}]

\* Mutants of the reservation check: a zero or negative amount is let through;
\* what is already consumed is forgotten.
CanReserveAnyAmount(amount) == reserved + consumed + amount <= Total
CanReserveIgnoringConsumed(amount) == amount > 0 /\ reserved + amount <= Total

CanReserve(amount) ==
    /\ amount > 0
    /\ reserved + consumed + amount <= Total

Reserve(r, amount) ==
    /\ reservations' = Append(reservations,
                              [request |-> r, amount |-> amount, state |-> "reserved"])
    /\ reserved' = reserved + amount
    /\ UNCHANGED consumed

\* Mutant: the state of the reservation is not checked.
ConsumeInAnyState(i) ==
    /\ reservations' = [reservations EXCEPT ![i].state = "consumed"]
    /\ reserved' = reserved - reservations[i].amount
    /\ consumed' = consumed + reservations[i].amount

Consume(i) ==
    /\ reservations[i].state = "reserved"
    /\ reservations' = [reservations EXCEPT ![i].state = "consumed"]
    /\ reserved' = reserved - reservations[i].amount
    /\ consumed' = consumed + reservations[i].amount

\* Mutant: a consumed reservation is given back to the wrong counter.
ReleaseFromReserved(i) ==
    /\ reservations[i].state # "released"
    /\ reserved' = reserved - reservations[i].amount
    /\ reservations' = [reservations EXCEPT ![i].state = "released"]
    /\ UNCHANGED consumed

ReleaseBudget(i) ==
    /\ \/ /\ reservations[i].state = "reserved"
          /\ reserved' = reserved - reservations[i].amount
          /\ UNCHANGED consumed
       \/ /\ reservations[i].state = "consumed"
          /\ consumed' = consumed - reservations[i].amount
          /\ UNCHANGED reserved
    /\ reservations' = [reservations EXCEPT ![i].state = "released"]

-----------------------------------------------------------------------------
(* The token registry. *)

Token == [request : Requests, reservation : Nat, used : BOOLEAN, valid : BOOLEAN]

isUsable(t) == tokens[t].valid /\ ~tokens[t].used

Issue(r, reservation) ==
    tokens' = Append(tokens, [request |-> r, reservation |-> reservation,
                              used |-> FALSE, valid |-> TRUE])

\* Mutant: validity is not checked when a token is used.
UseEvenVoid(t) ==
    /\ ~tokens[t].used
    /\ tokens' = [tokens EXCEPT ![t].used = TRUE]

Use(t) ==
    /\ isUsable(t)
    /\ tokens' = [tokens EXCEPT ![t].used = TRUE]

InvalidateAll == tokens' = [t \in DOMAIN tokens |-> [tokens[t] EXCEPT !.valid = FALSE]]

-----------------------------------------------------------------------------
(* The engine. *)

Decision == [status : {"none", "rejected", "approved"}, token : Nat, reservation : Nat]
Undecided == [status |-> "none", token |-> 0, reservation |-> 0]

Init ==
    /\ riskState = "INIT"
    /\ reservations = << >>
    /\ reserved = 0
    /\ consumed = 0
    /\ tokens = << >>
    /\ decisions = [r \in Requests |-> Undecided]
    /\ recoveryAttempts = 0

InitEngine == Transition("READY") /\ UNCHANGED <<budgetVars, tokens, decisions, recoveryAttempts>>
Start == Transition("RUN") /\ UNCHANGED <<budgetVars, tokens, decisions, recoveryAttempts>>
EnterSafeMode == Transition("SAFE_MODE") /\ UNCHANGED <<budgetVars, tokens, decisions, recoveryAttempts>>
ExitSafeMode == Transition("RUN") /\ UNCHANGED <<budgetVars, tokens, decisions, recoveryAttempts>>

Reject(r) == decisions' = [decisions EXCEPT ![r].status = "rejected"]

\* The gate.  A request_id already decided is answered from the cache.
RejectNotRunning(r) ==
    /\ riskState # "RUN"
    /\ Reject(r)
    /\ UNCHANGED <<riskState, budgetVars, tokens, recoveryAttempts>>

\* emergencyHalt('drawdown breached') runs before the rejection is recorded.
\* Mutant: the machine is halted without going through emergencyHalt.
RejectDrawdownKeepingTokens(r, equity) ==
    /\ riskState = "RUN"
    /\ drawdownBreached(equity)
    /\ Transition("HALT")
    /\ Reject(r)
    /\ UNCHANGED <<budgetVars, tokens, recoveryAttempts>>

RejectDrawdown(r, equity) ==
    /\ riskState = "RUN"
    /\ drawdownBreached(equity)
    /\ InvalidateAll
    /\ Transition("HALT")
    /\ Reject(r)
    /\ UNCHANGED <<budgetVars, recoveryAttempts>>

RejectLimit(r, symbol, notional, positions, equity) ==
    /\ riskState = "RUN"
    /\ ~drawdownBreached(equity)
    /\ checkExposure(positions, symbol, notional) => ~CanReserve(notional)
    /\ Reject(r)
    /\ UNCHANGED <<riskState, budgetVars, tokens, recoveryAttempts>>

Approve(r, symbol, notional, positions, equity) ==
    /\ riskState = "RUN"
    /\ ~drawdownBreached(equity)
    /\ checkExposure(positions, symbol, notional)
    /\ CanReserve(notional)
    /\ Reserve(r, notional)
    /\ Issue(r, Len(reservations) + 1)
    /\ decisions' = [decisions EXCEPT ![r] =
                        [status |-> "approved", token |-> Len(tokens) + 1,
                         reservation |-> Len(reservations) + 1]]
    /\ UNCHANGED <<riskState, recoveryAttempts>>

\* Mutant: the decision cache is not consulted.
PreTradeCheckUncached(r, symbol, notional, positions, equity) ==
    \/ RejectNotRunning(r)
    \/ RejectDrawdown(r, equity)
    \/ RejectLimit(r, symbol, notional, positions, equity)
    \/ Approve(r, symbol, notional, positions, equity)

PreTradeCheck(r, symbol, notional, positions, equity) ==
    /\ decisions[r].status = "none"
    /\ \/ RejectNotRunning(r)
       \/ RejectDrawdown(r, equity)
       \/ RejectLimit(r, symbol, notional, positions, equity)
       \/ Approve(r, symbol, notional, positions, equity)

AuthorizeExecution(t) ==
    /\ Use(t)
    /\ UNCHANGED <<riskState, budgetVars, decisions, recoveryAttempts>>

ConfirmFill(i) ==
    /\ Consume(i)
    /\ UNCHANGED <<riskState, tokens, decisions, recoveryAttempts>>

Release(i) ==
    /\ ReleaseBudget(i)
    /\ UNCHANGED <<riskState, tokens, decisions, recoveryAttempts>>

\* Tokens are voided first; then transition('HALT') throws from INIT, READY
\* and HALT, leaving the state as it was.
EmergencyHalt ==
    /\ riskState # "FROZEN"
    /\ InvalidateAll
    /\ riskState' = IF canTransition(riskState, "HALT") THEN "HALT" ELSE riskState
    /\ UNCHANGED <<budgetVars, decisions, recoveryAttempts>>

\* Position reconciliation: equal positions change nothing.
Reconcile(systemPositions, exchangePositions) ==
    /\ systemPositions # exchangePositions
    /\ EmergencyHalt

\* HALT -> RECOVERY and on, in one call; the caller's autoChecks passes,
\* fails or throws (which leaves the machine in RECOVERY).
\* Mutants: a failed attempt only freezes past the limit; a passed check
\* gives back the approvals that the HALT had voided.
StartRecoveryOneMore(autoChecks) ==
    /\ canTransition(riskState, "RECOVERY")
    /\ autoChecks = "fail"
    /\ recoveryAttempts' = recoveryAttempts + 1
    /\ riskState' = IF recoveryAttempts + 1 > MaxRecoveryAttempts THEN "FROZEN" ELSE "HALT"
    /\ UNCHANGED <<budgetVars, tokens, decisions>>

StartRecoveryRestoringTokens(autoChecks) ==
    /\ canTransition(riskState, "RECOVERY")
    /\ autoChecks = "pass"
    /\ riskState' = "READY"
    /\ recoveryAttempts' = 0
    /\ tokens' = [t \in DOMAIN tokens |-> [tokens[t] EXCEPT !.valid = TRUE]]
    /\ UNCHANGED <<budgetVars, decisions>>

StartRecovery(autoChecks) ==
    /\ canTransition(riskState, "RECOVERY")
    /\ \/ /\ autoChecks = "pass"
          /\ riskState' = "READY"
          /\ recoveryAttempts' = 0
       \/ /\ autoChecks = "fail"
          /\ recoveryAttempts' = recoveryAttempts + 1
          /\ riskState' = IF recoveryAttempts + 1 >= MaxRecoveryAttempts
                            THEN "FROZEN" ELSE "HALT"
       \/ /\ autoChecks = "throw"
          /\ riskState' = "RECOVERY"
          /\ UNCHANGED recoveryAttempts
    /\ UNCHANGED <<budgetVars, tokens, decisions>>

Lifecycle == InitEngine \/ Start \/ EnterSafeMode \/ ExitSafeMode

Check == \E r \in Requests, symbol \in Symbols, notional \in Notionals,
            positions \in PositionSets, equity \in Equities :
            PreTradeCheck(r, symbol, notional, positions, equity)

Next ==
    \/ Lifecycle
    \/ Check
    \/ \E t \in DOMAIN tokens : AuthorizeExecution(t)
    \/ \E i \in DOMAIN reservations : ConfirmFill(i) \/ Release(i)
    \/ EmergencyHalt
    \/ \E sys, exch \in PositionSets : Reconcile(sys, exch)
    \/ \E autoChecks \in {"pass", "fail", "throw"} : StartRecovery(autoChecks)

Spec == Init /\ [][Next]_riskVars

-----------------------------------------------------------------------------
(* Properties. *)

\* Type invariant of the engine's fields.
TypeOK ==
    /\ riskState \in RiskStates
    /\ reservations \in Seq(Reservation)
    /\ reserved \in Int
    /\ consumed \in Int
    /\ tokens \in Seq(Token)
    /\ decisions \in [Requests -> Decision]
    /\ recoveryAttempts \in Nat

\* INV-R4: the running totals never exceed the budget, whatever the order of
\* approvals, fills, releases and halts (reserve, consume and release of
\* RiskBudget).
BudgetBound == reserved + consumed <= Total

HeldIn(state) ==
    LET held == {i \in DOMAIN reservations : reservations[i].state = state}
    IN  SumFunctionOnSet([i \in DOMAIN reservations |-> reservations[i].amount], held)

\* The two counters RiskBudget keeps incrementally are, at every moment, the
\* sums over the reservations in the matching state: no sequence of consume
\* and release calls makes them drift (a drift would grant or withhold budget).
BudgetMatchesReservations ==
    /\ reserved = HeldIn("reserved")
    /\ consumed = HeldIn("consumed")

Trading == {"RUN", "SAFE_MODE"}

\* INV-R2, INV-R3: a usable approval token exists only while the machine is
\* trading.  Every way out of RUN and SAFE_MODE voids every token, so no
\* approval given before a HALT can execute during it, during recovery or
\* after the restart.
NoUsableTokenOutsideTrading ==
    \A t \in DOMAIN tokens : isUsable(t) => riskState \in Trading

\* INV-R1, INV-R7: an approved decision names one token and one reservation,
\* each made for that very request and for each other, and every token and
\* every reservation belongs to exactly one approved decision.  A replayed
\* preTradeCheck can therefore never spend or hold budget twice.
ApprovalBacked ==
    /\ Len(tokens) = Len(reservations)
    /\ \A t \in DOMAIN tokens :
          LET d == decisions[tokens[t].request]
          IN  /\ d = [status |-> "approved", token |-> t, reservation |-> tokens[t].reservation]
              /\ tokens[t].reservation = t
              /\ reservations[t].request = tokens[t].request
    /\ \A r \in Requests :
          decisions[r].status = "approved" =>
              /\ decisions[r].token \in DOMAIN tokens
              /\ tokens[decisions[r].token].request = r

\* The bounded retry of recovery: the machine is FROZEN exactly when the
\* failed attempts since the last passed check reach the limit, however the
\* attempts are interleaved with aborted checks, restarts and new halts.
FrozenExactlyWhenExhausted ==
    (riskState = "FROZEN") <=> (recoveryAttempts >= MaxRecoveryAttempts)

\* INV-R2: a token that is spent or void stays so, and no later decision,
\* recovery or restart rebinds it to another request or reservation.
TokensNeverRevive ==
    [][\A t \in DOMAIN tokens :
          /\ t \in DOMAIN tokens'
          /\ isUsable(t)' => isUsable(t)
          /\ tokens'[t].request = tokens[t].request
          /\ tokens'[t].reservation = tokens[t].reservation]_riskVars

\* INV-R7: a decision is final (the cached answer of preTradeCheck), and a
\* reservation only moves forward: reserved, consumed, released.
DecisionsAndReservationsOnlyAdvance ==
    [][/\ \A r \in Requests : decisions[r].status # "none" => decisions'[r] = decisions[r]
       /\ \A i \in DOMAIN reservations :
             /\ reservations[i].state = "released" => reservations'[i].state = "released"
             /\ reservations[i].state = "consumed" => reservations'[i].state # "reserved"
             /\ reservations'[i].amount = reservations[i].amount]_riskVars
=============================================================================
