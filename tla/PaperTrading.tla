---------------------------- MODULE PaperTrading ----------------------------
(***************************************************************************)
(* The paper pipeline: one cycle takes a market reading through the        *)
(* trading core (TradingCore.tla), sizing, the risk budget, the simulated  *)
(* venue, the simulated fills with their deduplication, reconciliation and *)
(* the paper portfolio; a session runs cycles with chosen options, a live  *)
(* run takes them from the public WebSocket until its deadline.            *)
(*   packages/paper/src/{pipeline,live-run,portfolio,                      *)
(*     simulated-fill-generator}.ts                                        *)
(*   packages/production-engine/src/simulated-exchange-adapter.ts          *)
(* A cycle is two steps, one on each side of the await on its simulated    *)
(* venue; the next one starts when it has returned.  Nothing between the   *)
(* reservation and the reconciliation throws: the gateway turns a venue    *)
(* that does into a refusal.  Amounts are small integers; a price divides  *)
(* every amount it meets.                                                  *)
(***************************************************************************)
EXTENDS TradingCore

CONSTANTS Total,           \* total_budget
          Policy,          \* SizingPolicy: base, minConfidence, maximum, minimum
          MaxCycles,       \* cycles of a session
          Deadline,        \* cycle intervals of a live run
          Plans,           \* how the simulated venue may fill an order
          Networks         \* what the public WebSocket does: "answers", "fails", "silent"

FillPlan == [kind : {"full"}] \cup [kind : {"partial"}, filled : Nat] \cup [kind : {"multi"}, parts : Seq(Nat)]
            \cup [kind : {"none"}]

ASSUME PaperAssumption ==
  /\ Total \in Nat /\ MaxCycles \in Nat /\ Deadline \in Nat
  /\ Policy \in [base : Nat, minConfidence : Nat, maximum : Nat, minimum : Nat \ {0}]
  /\ Plans \subseteq FillPlan /\ Networks \subseteq {"answers", "fails", "silent"}

VARIABLES mode,            \* "session" or "live"
          phase,           \* "connecting", "running", "stopped"
          network,
          budget,          \* RiskBudget: [reserved, consumed]
          awaited,         \* the order the cycle awaits, [side, notional, price], or NoOrder
          position,        \* PaperPortfolio of the one symbol: [qty, notional]
          turn,            \* cycles (session) or intervals (live) done
          history,         \* ghost: the orders that filled, [side, notional, filled]
          metrics

vars == <<mode, phase, network, budget, awaited, position, turn, history, metrics>>

Calm == [n |-> 30, ema |-> 0, macd |-> 0, rsi |-> 50, band |-> 0, volume |-> 100,
         volatility |-> 1, slope |-> 0, bid |-> 0, ask |-> 0]
Readings == {Calm,                                                      \* HOLD
             [Calm EXCEPT !.ema = 40, !.macd = 60, !.slope = 4],        \* BUY
             [Calm EXCEPT !.ema = -40, !.macd = -60, !.slope = -4],     \* SELL
             [Calm EXCEPT !.n = 14]}                                    \* no signal: decide throws

\* What the engines make of a reading; a cycle adds the last price.
Read(r) == LET signals == generate(r) IN [signals |-> signals, strategy |-> select(signals)]
Views == {Read(r) : r \in Readings}
Markets == [view : Views, price : {1, 2}]

NoOrder == [side |-> "HOLD", notional |-> 0, price |-> 1]
Metrics == [cycles |-> 0, exceptions |-> 0, approvals |-> 0, rejections |-> 0, full |-> 0, partial |-> 0]

Init ==
  /\ mode \in {"session", "live"}
  /\ phase = IF mode = "live" THEN "connecting" ELSE "running"
  /\ network \in Networks
  /\ budget = [reserved |-> 0, consumed |-> 0]
  /\ awaited = NoOrder
  /\ position = [qty |-> 0, notional |-> 0]
  /\ turn = 0 /\ history = <<>> /\ metrics = Metrics

-----------------------------------------------------------------------------
(* planAmounts: the funds of each fill *)
PlanAmounts(requested, plan) ==
  CASE plan.kind = "full"    -> <<requested>>
    [] plan.kind = "partial" -> IF plan.filled > 0 THEN <<Min({plan.filled, requested})>> ELSE <<>>
    [] plan.kind = "multi"   -> Filter(plan.parts, {p \in ToSet(plan.parts) : p > 0})
    [] plan.kind = "none"    -> <<>>

\* The venue fills no order by more than it asked for.
ASSUME VenueAssumption ==
  \A plan \in Plans, requested \in Policy.minimum..Policy.maximum : SumFunction(PlanAmounts(requested, plan)) <= requested

\* The messages, numbered by trade_uuid; each is delivered twice on request.
FillMessages(requested, plan, duplicated) ==
  LET amounts == PlanAmounts(requested, plan)
      msgs    == [i \in DOMAIN amounts |-> [trade |-> i, funds |-> amounts[i]]]
  IN  msgs \o IF duplicated THEN msgs ELSE <<>>

\* Mutated form of Fills: every message counted, the trade id ignored.
FillsNotDeduplicated(messages) == [i \in DOMAIN messages |-> messages[i].funds]
\* MyOrderFillBuffer: one fill for each trade id.
Fills(messages) ==
  [t \in {m.trade : m \in ToSet(messages)} |->
     (CHOOSE m \in ToSet(messages) : m.trade = t).funds]

FilledBy(fills) == SumFunction(fills)

\* RiskEngine.preTradeCheck in the paper setting: RUN, full equity, positions [].
Approved(notional) == budget.reserved + budget.consumed + notional <= Total

\* The reconciler confirms what had a fill and releases everything else.
Settled(notional, filled, ok) ==
  IF ok /\ filled > 0
  THEN [reserved |-> budget.reserved - notional, consumed |-> budget.consumed + notional]
  ELSE [reserved |-> budget.reserved - notional, consumed |-> budget.consumed]

\* PaperPortfolio.applyFill
ApplyFill(pos, side, notional, qty) ==
  IF notional <= 0 \/ qty <= 0 THEN pos
  ELSE IF side = "BUY" THEN [qty |-> pos.qty + qty, notional |-> pos.notional + notional]
  ELSE LET left == pos.qty - Min({qty, pos.qty})
       IN  IF left <= 0 THEN [qty |-> 0, notional |-> 0]
           ELSE [qty |-> left, notional |-> (pos.notional * left) \div pos.qty]

\* In the order of their trades, which are numbered from 1.
ApplyFills(side, fills, price) ==
  LET after[t \in 0 .. Len(fills)] ==
        IF t = 0 THEN position ELSE ApplyFill(after[t - 1], side, fills[t], fills[t] \div price)
  IN after[Len(fills)]

Count(flags) == [k \in DOMAIN metrics |-> metrics[k] + IF k \in flags THEN 1 ELSE 0]

\* The budget and exposure the decision engine is shown.
DecisionFor(m) ==
  decide(m.view.strategy, m.view.signals,
         [halted |-> FALSE, budget_available |-> Total - budget.reserved - budget.consumed],
         [exposure |-> position.notional, max_exposure |-> Total])

\* submitOrder of the simulated venue; the gateway answers a refusal and an
\* exception alike.
Acknowledged(venue) == venue = "accept"

\* The reservation of preTradeCheck, held until the reconciliation.
Reserves(decision, notional, price) ==
  /\ budget' = [reserved |-> budget.reserved + notional, consumed |-> budget.consumed]
  /\ awaited' = [side |-> decision.action, notional |-> notional, price |-> price]
  /\ UNCHANGED metrics

\* runPaperCycle up to the gateway's call: it returns, and its caller counts
\* it, or it has an approved order to await.
Cycle(m) ==
  LET decision == DecisionFor(m)
      notional == Notional(decision, m.price, Policy)
      Returns(flags) == metrics' = Count(flags) /\ UNCHANGED <<budget, awaited>>
  IN  /\ awaited = NoOrder
      /\ \/ m.view.signals = <<>> /\ Returns({"exceptions"})     \* DecisionEngine.decide throws
         \/ m.view.signals # <<>> /\ notional = 0 /\ Returns({"cycles"})
         \/ m.view.signals # <<>> /\ notional # 0 /\ ~Approved(notional) /\ Returns({"cycles", "rejections"})
         \/ m.view.signals # <<>> /\ notional # 0 /\ Approved(notional) /\ Reserves(decision, notional, m.price)
      /\ UNCHANGED <<position, history>>

\* From the venue's answer to the return of runPaperCycle, and the metrics of
\* its caller: the fills, the reconciliation and the portfolio.
Answer(plan, duplicated, venue) ==
  LET ok     == Acknowledged(venue)
      fills  == IF ok THEN Fills(FillMessages(awaited.notional, plan, duplicated)) ELSE <<>>
      filled == FilledBy(fills)
  IN  /\ awaited # NoOrder
      /\ budget' = Settled(awaited.notional, filled, ok)
      /\ position' = IF filled > 0 THEN ApplyFills(awaited.side, fills, awaited.price) ELSE position
      /\ history' = IF filled > 0
                    THEN Append(history, [side |-> awaited.side, notional |-> awaited.notional, filled |-> filled])
                    ELSE history
      /\ metrics' = Count({"cycles", "approvals"} \cup
                          IF ~ok \/ filled = 0 THEN {} ELSE {IF filled >= awaited.notional THEN "full" ELSE "partial"})
      /\ awaited' = NoOrder
      /\ UNCHANGED <<mode, phase, network, turn>>

\* One iteration of runPaperSession.
SessionCycle(m) ==
  /\ mode = "session" /\ phase = "running" /\ turn < MaxCycles
  /\ Cycle(m)
  /\ turn' = turn + 1
  /\ UNCHANGED <<mode, phase, network>>
SessionAnswer(plan, duplicated, venue) == mode = "session" /\ Answer(plan, duplicated, venue)

SessionEnds ==
  /\ mode = "session" /\ phase = "running" /\ turn = MaxCycles /\ awaited = NoOrder
  /\ phase' = "stopped"
  /\ UNCHANGED <<mode, network, budget, awaited, position, turn, history, metrics>>

\* runLivePaper: collector.start() resolves when the handshake completes.
Connected ==
  /\ mode = "live" /\ phase = "connecting" /\ network = "answers"
  /\ phase' = "running"
  /\ UNCHANGED <<mode, network, budget, awaited, position, turn, history, metrics>>

\* Mutated form of ConnectFails: the rejection is counted, nothing is shut down.
ConnectFailsOpen ==
  /\ mode = "live" /\ phase = "connecting" /\ network = "fails" /\ metrics.exceptions = 0
  /\ metrics' = Count({"exceptions"})
  /\ UNCHANGED <<mode, phase, network, budget, awaited, position, turn, history>>
\* A socket that cannot be made rejects start(): counted, and the run is over.
ConnectFails ==
  /\ mode = "live" /\ phase = "connecting" /\ network = "fails"
  /\ phase' = "stopped" /\ metrics' = Count({"exceptions"})
  /\ UNCHANGED <<mode, network, budget, awaited, position, turn, history>>

\* One pass of the loop: sleep, rebuild the candles, and a cycle when there
\* are at least 30: the same closed candles may drive several cycles.
LiveInterval(enough, m) ==
  /\ mode = "live" /\ phase = "running" /\ turn < Deadline /\ awaited = NoOrder
  /\ turn' = turn + 1
  /\ \/ enough /\ Cycle(m)
     \/ ~enough /\ UNCHANGED <<budget, awaited, position, history, metrics>>
  /\ UNCHANGED <<mode, phase, network>>
LiveAnswer == mode = "live" /\ Answer([kind |-> "full"], FALSE, "accept")

\* The loop ends at the deadline; the finally block stops the collector.
LiveEnds ==
  /\ mode = "live" /\ phase = "running" /\ turn >= Deadline /\ awaited = NoOrder
  /\ phase' = "stopped"
  /\ UNCHANGED <<mode, network, budget, awaited, position, turn, history, metrics>>

Next ==
  \/ \E m \in Markets : SessionCycle(m)
  \/ \E p \in Plans, d \in BOOLEAN, v \in {"accept", "reject", "throw"} : SessionAnswer(p, d, v)
  \/ SessionEnds
  \/ Connected
  \/ ConnectFails
  \/ \E enough \in BOOLEAN, m \in Markets : LiveInterval(enough, m)
  \/ LiveAnswer
  \/ LiveEnds

(* The handshake of a network that answers completes, timers fire and the  *)
(* process is scheduled.  On a "silent" one no open event ever comes.      *)
Spec == Init /\ [][Next]_vars /\ WF_vars(Next)

-----------------------------------------------------------------------------

Requested == SumFunction([i \in DOMAIN history |-> history[i].notional])
Bought == SumFunction([i \in DOMAIN history |-> IF history[i].side = "BUY" THEN history[i].filled ELSE 0])

(* What is reserved is what the awaited order asks for, nothing between    *)
(* cycles, and what is consumed is exactly the requested notional of the   *)
(* orders that had a fill: whatever the venue did (accept, refuse, throw,  *)
(* fill in part or not at all), every approval of the pipeline was         *)
(* confirmed or given back, and both together keep to the budget.          *)
EveryApprovalIsSettled ==
  /\ budget.reserved = awaited.notional
  /\ budget.consumed = Requested
  /\ budget.reserved + budget.consumed <= Total

(* The paper portfolio never holds more than was bought and paid for from  *)
(* the risk budget, with fills delivered twice, partial fills and sells in *)
(* between (MyOrderFillBuffer, reconcile, applyFill).                      *)
HoldingsArePaidFor ==
  /\ position.notional <= Bought
  /\ position.notional <= budget.consumed
  /\ (position.qty = 0) => (position.notional = 0)

(* Every cycle is accounted for once in the metrics of the caller, also    *)
(* one whose decision engine threw, the awaited one when it returns, and   *)
(* no more orders are reported filled than were approved.                  *)
Awaited == IF awaited = NoOrder THEN 0 ELSE 1
MetricsAddUp ==
  /\ mode = "session" => metrics.cycles + metrics.exceptions + Awaited = turn
  /\ metrics.full + metrics.partial = Len(history)
  /\ metrics.full + metrics.partial <= metrics.approvals
  /\ metrics.approvals + metrics.rejections <= metrics.cycles

(* The books balance: the budget, the holdings and the metrics tell the    *)
(* same story of every cycle.                                              *)
BooksBalance == EveryApprovalIsSettled /\ HoldingsArePaidFor /\ MetricsAddUp

(* live-run.ts:30: "Bounded by durationMs -- it always shuts down".  The    *)
(* live run stops its collector and returns, except on a socket that       *)
(* neither opens nor fails: the deadline is only looked at after           *)
(* `await collector.start()` (live-run.ts:145), which has no timeout, so   *)
(* there, against that line, the run waits for ever.                       *)
LiveRunShutsDown ==
  /\ (mode = "live" /\ network # "silent") ~> (phase = "stopped")
  /\ [](mode = "live" /\ network = "silent" => phase = "connecting")
=============================================================================
