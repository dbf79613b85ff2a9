----------------------------- MODULE Algorithms -----------------------------
(***************************************************************************)
(* The pure functions of the system against reference definitions.  A      *)
(* behaviour is one call: the initial states enumerate the inputs, the     *)
(* step Evaluate makes the call, and each invariant says what the result   *)
(* must be.                                                                *)
(***************************************************************************)
EXTENDS Indicators, TradingCore, MarketSeries, Backfill, FeatureDag, Portfolio, Evaluation

CONSTANTS MaxSeries,         \* longest price series
          CandleInputs, RecordInputs,
          Tf,                \* the length of a candle window
          Samples,           \* values tried for each field of a reading
          TradingInputs, MaxExposure,
          BackfillInputs, ThrottleInputs,
          Period,            \* the time one request of the rate limit takes to earn
          PortfolioInputs, Constraints, RebalanceInputs,
          Features, GraphInputs,
          ChampionInputs,
          Parts,             \* components of the system whose health is watched
          HealthInputs, WarnAfter, CritAfter

Reading == [n : Nat, ema : Int, macd : Int, rsi : Int, band : Int, volume : Int, volatility : Int, slope : Int,
            bid : Nat, ask : Nat]

\* An exchange's history: the times its candles open.
Histories == {s \in Seq(Nat) : \A i, j \in DOMAIN s : i < j => s[i] < s[j]}

CandidateSet == [winProb : 0 .. 100, payoff : Nat \ {0}]
CapSet == [kelly : Nat, maxWeight : Nat, maxGroup : Nat, threshold : Int, maxUtilization : Nat]
Matrix(n) == [(1 .. n) \X (1 .. n) -> Int]

Experiment == [passed : BOOLEAN, folds : Nat, decisions : Nat]
Operation == [do : {"heartbeat"}, component : Parts] \cup {[do |-> "wait"]}
             \cup [do : {"report"}, component : Parts, status : {"healthy", "warning", "critical"}]

Trade == [time : Nat, price : Nat \ {0}, volume : Nat, seq : Nat]

ASSUME AlgorithmBounds == MaxSeries \in Nat

\* The exchange numbers its trades; a trade or a record may come twice, and a
\* quality check is made of records that are there.
ASSUME SeriesAssumption ==
  /\ \A i \in CandleInputs : /\ i.kind = "candles" /\ i.trades \in Seq(Trade) /\ i.asOf \in Nat
                             /\ \A j, k \in DOMAIN i.trades : i.trades[j].seq = i.trades[k].seq => i.trades[j] = i.trades[k]
  /\ \A i \in RecordInputs : /\ i.kind = "records" /\ i.records \in Seq([time : Nat, seq : Nat])
                             /\ i.records # <<>>
  /\ Tf \in Nat \ {0}

ASSUME TradingAssumption ==
  /\ TradingInputs \subseteq [kind : {"trading"}, reading : Reading, halted : BOOLEAN, available : Int, exposure : Int]
  /\ Samples \in [ema : SUBSET Int, macd : SUBSET Int, rsi : SUBSET Int, band : SUBSET Int, volume : SUBSET Int,
                  volatility : SUBSET Int, slope : SUBSET Int, bid : SUBSET Nat]
  /\ MaxExposure \in Int

ASSUME BackfillAssumption ==
  /\ BackfillInputs \subseteq [kind : {"backfill"}, server : Histories, from : Int, to : Int, page : Nat \ {0}]
  /\ ThrottleInputs \subseteq [kind : {"throttle"}, latencies : Seq(Nat), burst : Nat \ {0}]
  /\ Period \in Nat \ {0}

ASSUME PortfolioAssumption ==
  /\ \A i \in PortfolioInputs : /\ i.kind = "portfolio" /\ i.candidates \in Seq(CandidateSet)
                                /\ i.corr \in Matrix(Len(i.candidates)) /\ i.available \in Nat
  /\ Constraints \in CapSet
  /\ \A i \in RebalanceInputs : /\ i.kind = "rebalance" /\ i.minTrade \in Nat
                                /\ i.current \in [DOMAIN i.current -> Int] /\ IsFiniteSet(DOMAIN i.current)
                                /\ i.target \in [DOMAIN i.target -> Int] /\ IsFiniteSet(DOMAIN i.target)

ASSUME GraphAssumption ==
  \A i \in GraphInputs : /\ i.kind = "graph" /\ i.roots \in Seq(Features)
                         /\ IsFiniteSet(DOMAIN i.deps) /\ DOMAIN i.deps \subseteq Features
                         /\ i.deps \in [DOMAIN i.deps -> Seq(Features)]

ASSUME EvaluationAssumption ==
  /\ ChampionInputs \subseteq [kind : {"champion"}, experiments : Seq(Experiment)]
  /\ HealthInputs \subseteq [kind : {"health"}, ops : Seq(Operation)]
  /\ WarnAfter \in Nat /\ CritAfter \in Nat /\ WarnAfter <= CritAfter

VARIABLES input, result
callVars == <<input, result>>

Prices == 1..3
Periods == [fast |-> 1, slow |-> 2, rsi |-> 2, signal |-> 2]

SeriesInputs ==
  UNION {[kind : {"series"}, closes : [1..n -> Prices], volumes : [1..n -> {0, 2}]] : n \in 0..MaxSeries}

Kind(k) == input.kind = k

BudgetOf(i) == [total |-> 1000, available |-> i.available]
CandlesOf(i) == [k \in DOMAIN i.closes |->
  [close |-> i.closes[k], high |-> i.closes[k] + 1, low |-> i.closes[k], volume |-> i.volumes[k]]]

Call(i) ==
  CASE i.kind = "series" -> computeIndicators(CandlesOf(i), Periods)
    [] i.kind = "trading" ->
         runTradingCore(i.reading, [halted |-> i.halted, budget_available |-> i.available],
                        [exposure |-> i.exposure, max_exposure |-> MaxExposure])
    [] i.kind = "candles" -> reconstructCandles(i.trades, Tf, i.asOf)
    [] i.kind = "records" -> [records |-> normalizeInput(i.records), report |-> assessQuality(i.records)]
    [] i.kind = "backfill" -> backfillCandles(i.server, i.from, i.to, i.page)
    [] i.kind = "throttle" -> sendTimes(i.latencies, Period, i.burst)
    [] i.kind = "graph" -> topoOrder(i.deps, i.roots)
    [] i.kind = "portfolio" -> planAllocations(i.candidates, i.corr, Constraints, BudgetOf(i))
    [] i.kind = "champion" -> Championship(i.experiments)
    [] i.kind = "health" -> Monitored(i.ops, Parts)
    [] i.kind = "rebalance" -> rebalance(i.current, i.target, i.minTrade)

CallInit ==
  /\ input \in SeriesInputs \cup TradingInputs \cup CandleInputs \cup RecordInputs \cup BackfillInputs
                 \cup ThrottleInputs \cup GraphInputs \cup PortfolioInputs \cup RebalanceInputs
                 \cup ChampionInputs \cup HealthInputs
  /\ result = <<>>

Evaluate == result = <<>> /\ result' = <<Call(input)>> /\ UNCHANGED input

CallNext == Evaluate
CallSpec == CallInit /\ [][CallNext]_callVars

Returned(k) == result # <<>> /\ Kind(k)
Out == result[1]

-----------------------------------------------------------------------------
(* A moving average (sma, ema) lies between the lowest and the highest     *)
(* close it saw, the volume-weighted price between the lowest and highest  *)
(* price, and the RSI between 0 and 100, for every series: the seed, the   *)
(* smoothing factor and the slices of indicators.ts have to agree for that.*)
IndicatorsStayInTheirWindow ==
  Returned("series") =>
    LET lo == Whole(Min(ToSet(input.closes)))
        hi == Whole(Max(ToSet(input.closes)))
    IN  /\ \A a \in {Out.sma, Out.ema} : a # Null => Leq(lo, a) /\ Leq(a, hi)
        /\ ema(input.closes, 2) # Null => Leq(lo, ema(input.closes, 2)) /\ Leq(ema(input.closes, 2), hi)
        /\ Out.vwap # Null => Leq(lo, Out.vwap) /\ Leq(Out.vwap, Whole(Max(ToSet(input.closes)) + 1))
        /\ Out.rsi # Null => Leq(Whole(0), Out.rsi) /\ Leq(Out.rsi, Whole(100))

(* Turning a price series upside down turns every directional indicator of *)
(* indicators.ts round: the RSI r becomes 100 - r, the slope and the MACD  *)
(* histogram change sign, the other Bollinger band is broken.  A flat      *)
(* series is therefore neutral for all of them.                            *)
IndicatorsMirror ==
  Returned("series") =>
    LET m    == [k \in DOMAIN input.closes |-> 4 - input.closes[k]]
        r    == rsi(m, Periods.rsi)
        s    == trendSlope(m, Periods.slow)
        h    == macdHist(m, Periods.fast, Periods.slow, Periods.signal)
        Equal(a, b) == a[1] * b[2] = b[1] * a[2]
        Opposite(a, b) == a[1] * b[2] = -(b[1] * a[2])
    IN  /\ Out.rsi # Null => Equal(Minus(Whole(100), r), Out.rsi)
        /\ Out.trendSlope # Null => Opposite(Out.trendSlope, s)
        /\ Out.macd # Null => Opposite(Out.macd, h)
        /\ Out.bollinger # Null => bollinger(m, Periods.slow, 1)[1] = -Out.bollinger[1]

(* Both: the indicators are averages of what they saw, without a bias.     *)
IndicatorsAreFair == IndicatorsStayInTheirWindow /\ IndicatorsMirror

(* The strategy a decision names is one with the highest score, it is among*)
(* the selected ones, and a decision exists exactly when there is a signal *)
(* (StrategyEngine.select and TradingCore.run).                            *)
StrategyIsTheBest ==
  Returned("trading") =>
    /\ \A s \in ToSet(Strategies) : Score(s, Out.signals) <= Score(Out.strategy.active, Out.signals)
    /\ Out.strategy.active \in Out.strategy.selected
    /\ (Out.decision # NoDecision) <=> (Out.signals # <<>>)
    /\ ("Decision.created" \in ToSet(Out.events)) <=> (Out.signals # <<>>)

\* b is at least as bullish as r in every indicator (for the RSI: lower).
AtLeastAsBullish(b, r) ==
  /\ b.n = r.n /\ b.ema >= r.ema /\ b.macd >= r.macd /\ b.rsi <= r.rsi /\ b.band >= r.band
  /\ b.volume >= r.volume /\ b.volatility >= r.volatility /\ b.slope >= r.slope
  /\ b.bid >= r.bid /\ b.ask = r.ask

Variations(r) ==
  {[r EXCEPT !.ema = x] : x \in Samples.ema} \cup {[r EXCEPT !.macd = x] : x \in Samples.macd}
  \cup {[r EXCEPT !.rsi = x] : x \in Samples.rsi} \cup {[r EXCEPT !.band = x] : x \in Samples.band}
  \cup {[r EXCEPT !.volume = x] : x \in Samples.volume} \cup {[r EXCEPT !.volatility = x] : x \in Samples.volatility}
  \cup {[r EXCEPT !.slope = x] : x \in Samples.slope} \cup {[r EXCEPT !.bid = x] : x \in Samples.bid}

(* A reading at least as bullish in one indicator (for the RSI: lower) and *)
(* equal in all others never gives a weaker conviction: a sign, threshold  *)
(* or clamp wrong in one of the twelve branches of SignalEngine.generate   *)
(* would make some reading count against its own direction.                *)
ConvictionIsMonotone ==
  Returned("trading") =>
    \A b \in Variations(input.reading) :
      AtLeastAsBullish(b, input.reading) => Net(generate(b)) >= Net(Out.signals)

(* A BUY rests on signals that are all bullish and a SELL on bearish ones  *)
(* (signal_used of DecisionEngine.decide never falls back to "all"), and   *)
(* neither is decided while risk is halted, nor a BUY without budget or    *)
(* above the exposure limit.                                               *)
TradeIsExplained ==
  Returned("trading") =>
    /\ Out.decision.action = "BUY" =>
         /\ \A s \in ToSet(Out.decision.signal_used) : s.value > 0
         /\ ~input.halted /\ input.available > 0 /\ input.exposure < MaxExposure
    /\ Out.decision.action = "SELL" =>
         /\ \A s \in ToSet(Out.decision.signal_used) : s.value < 0
         /\ ~input.halted

(* The three together: from a reading to the decision, nothing is chosen,  *)
(* weighed or explained against the evidence.                              *)
DecisionFollowsEvidence == StrategyIsTheBest /\ ConvictionIsMonotone /\ TradeIsExplained

\* s in every order.
Reorderings(s) == {[i \in DOMAIN s |-> s[p[i]]] : p \in Bijection(DOMAIN s, DOMAIN s)}

\* The trades with every repeated one left out.
WithoutRepeats(trades) ==
  LET kept == AscendingSeq({k \in DOMAIN trades : \A j \in 1..(k - 1) : trades[j] # trades[k]})
  IN  [i \in DOMAIN kept |-> trades[kept[i]]]

(* The order in which trades arrive changes nothing in the candles of the  *)
(* data layer.  A trade that arrives again does: reconstruct.ts:29 adds    *)
(* its volume every time; open, high, low and close stay, and the          *)
(* cross-check with REST reports exactly the candles it has inflated       *)
(* (reconstructCandles, crosscheckCandles).                                *)
ReconstructionIgnoresOrder ==
  Returned("candles") =>
    LET once == reconstructCandles(WithoutRepeats(input.trades), Tf, input.asOf)
        records(c) == Cardinality({k \in DOMAIN input.trades : windowStart(input.trades[k].time, Tf) = c.open_time})
        trades(c)  == Cardinality({t \in ToSet(input.trades) : windowStart(t.time, Tf) = c.open_time})
    IN  /\ \A other \in Reorderings(input.trades) : reconstructCandles(other, Tf, input.asOf) = Out
        /\ crosscheckCandles(Out, once, 0) =
             {<<c.open_time, "volume">> : c \in {d \in ToSet(once) : records(d) > trades(d)}}

(* Only windows closed at asOf appear, in order; the gaps reported are     *)
(* exactly the windows between them without a candle; the candle bridge    *)
(* rejects none of them, and each opens with its earliest trade            *)
(* (reconstructCandles, detectCandleGaps, toSignalCandles).                *)
CandlesAreClosedAndComplete ==
  Returned("candles") =>
    /\ toSignalCandles(Out).rejected = {}
    /\ LET gaps  == detectCandleGaps(Out, Tf)
           times == {c.open_time : c \in ToSet(Out)}
       IN  SumFunction([i \in DOMAIN gaps |-> gaps[i].missing]) =
             Cardinality({w \in 0..input.asOf : w % Tf = 0 /\ w \notin times /\ \E a, b \in times : a < w /\ w < b})
    /\ \A i \in DOMAIN Out :
         /\ Out[i].open_time + Tf <= input.asOf
         /\ i > 1 => Out[i - 1].open_time < Out[i].open_time
         /\ \A t \in ToSet(input.trades) :
              (/\ windowStart(t.time, Tf) = Out[i].open_time
               /\ \A u \in ToSet(input.trades) : windowStart(u.time, Tf) = Out[i].open_time => ~ByTimeThenSeq(u, t))
              => Out[i].open = t.price

\* A candle but for what depends on the order of its trades.
Unordered(c) == [open_time |-> c.open_time, high |-> c.high, low |-> c.low, volume |-> c.volume]

(* The live runtime builds its candles with a function of its own, in      *)
(* order of arrival.  Its windows, high, low and volume are those of the   *)
(* data layer in whatever order the trades come, repeats included; its     *)
(* open and close are when they come in order, and otherwise follow the    *)
(* arrival, so that two arrivals of the same trades can differ in them     *)
(* (snapshot.ts:6 has live and replay snapshots identical).  The snapshot  *)
(* never looks past its as-of time, and a count keeps the newest windows   *)
(* (buildMarketSnapshot).                                                  *)
RuntimeCandlesFollowArrival ==
  Returned("candles") =>
    LET all    == buildMarketSnapshot(input.trades, Tf, input.asOf, Len(input.trades))
        closed == Filter(all, {c \in ToSet(all) : c.open_time + Tf <= input.asOf})
        past   == Filter(input.trades, {t \in ToSet(input.trades) : t.time <= input.asOf})
        sorted == \A i, j \in DOMAIN input.trades : i < j => ~ByTimeThenSeq(input.trades[j], input.trades[i])
    IN  /\ [i \in DOMAIN closed |-> Unordered(closed[i])] = [i \in DOMAIN Out |-> Unordered(Out[i])]
        /\ sorted => closed = Out
        /\ SumFunction([i \in DOMAIN all |-> all[i].volume]) = SumFunction([i \in DOMAIN past |-> past[i].volume])
        /\ buildMarketSnapshot(input.trades, Tf, input.asOf, 1) = SubSeq(all, Max({1, Len(all)}), Len(all))

(* The gaps counted are exactly the sequence numbers between the first and *)
(* the last that never arrived, duplicates and disorder notwithstanding    *)
(* (detectSeqGaps, assessQuality).                                         *)
GapsCountWhatIsMissing ==
  Returned("records") =>
    LET seqs == {r.seq : r \in ToSet(input.records)}
    IN  /\ Out.report.gaps = Cardinality((Min(seqs)..Max(seqs)) \ seqs)
        /\ ("Complete" \in Out.report.states) <=>
             (Out.report.gaps = 0 /\ Out.report.duplicates = 0 /\ Out.report.outOfOrder = 0)

(* What normalizeInput hands to a feature has every sequence number once,  *)
(* from its first arrival, in time order: assessing it again finds neither *)
(* duplicates nor disorder, and the same gaps.                             *)
NormalizedInputIsClean ==
  Returned("records") =>
    LET again == assessQuality(Out.records)
    IN  /\ again.duplicates = 0 /\ again.outOfOrder = 0 /\ again.gaps = Out.report.gaps
        /\ {r.seq : r \in ToSet(Out.records)} = {r.seq : r \in ToSet(input.records)}
        /\ \A r \in ToSet(Out.records) :
             \E k \in DOMAIN input.records : /\ input.records[k] = r
                                             /\ \A j \in 1..(k - 1) : input.records[j].seq # r.seq

(* What the delivery of the feed, late, twice, out of order or with holes, *)
(* can change in the market series, and what it cannot.                    *)
SeriesSurviveDelivery ==
  /\ ReconstructionIgnoresOrder /\ CandlesAreClosedAndComplete /\ RuntimeCandlesFollowArrival
  /\ GapsCountWhatIsMissing /\ NormalizedInputIsClean

(* Paging backward returns every candle of the exchange in [from, to) once,*)
(* in order, whatever the page size and the holes in its history           *)
(* (backfillCandles).                                                      *)
BackfillIsComplete ==
  Returned("backfill") =>
    Out = Filter(input.server, {t \in ToSet(input.server) : t >= input.from /\ t < input.to})

(* As long as no request has to wait, no more are sent after another one   *)
(* than the burst and what the elapsed time earned.  The code does not     *)
(* keep to that rate, which rest-client.ts:14 and :44 promise, once one    *)
(* waits: it is sent without taking the token it waited for (line 58), and *)
(* the next one finds it; then up to TWICE what the time earned are sent,  *)
(* and never more.                                                         *)
WaitersDoubleTheRate ==
  Returned("throttle") =>
    \A i, j \in DOMAIN Out : i <= j =>
      /\ (j - i) * Period <= input.burst * Period + 2 * (Out[j] - Out[i])
      /\ (\A k \in i..(j - 1) : Out[k + 1] = Out[k] + input.latencies[k])
           => (j - i) * Period <= input.burst * Period + (Out[j] - Out[i])

(* A backfill brings every candle once, and is never faster than twice the *)
(* rate its limiter was given.                                             *)
BackfillIsSound == BackfillIsComplete /\ WaitersDoubleTheRate

\* What a feature needs directly, and the transitive closure of refs: what every
\* set of features has that holds refs and what its members need.
Needs(deps, ref) == IF ref \in DOMAIN deps THEN ToSet(deps[ref]) ELSE {}
Closure(deps, refs) ==
  {n \in Features : \A S \in SUBSET Features : refs \subseteq S /\ (\A m \in S : Needs(deps, m) \subseteq S) => n \in S}

(* topoOrder fails exactly when the closure of the roots has a cycle or a  *)
(* feature that is not registered (isDag); otherwise every feature of the  *)
(* closure appears once, after all it depends on.                          *)
DependenciesComeFirst ==
  Returned("graph") =>
    LET needed == Closure(input.deps, ToSet(input.roots))
        cyclic == \E n \in needed : n \in Closure(input.deps, Needs(input.deps, n))
    IN  /\ Out.failed <=> cyclic \/ ~(needed \subseteq DOMAIN input.deps)
        /\ ~Out.failed => /\ ToSet(Out.order) = needed
                          /\ IsInjective(Out.order)
                          /\ \A i \in DOMAIN Out.order : \A d \in Needs(input.deps, Out.order[i]) :
                               \E j \in 1..(i - 1) : Out.order[j] = d

(* The plan of the portfolio engine stays inside every cap at once, though *)
(* the caps are applied one after the other and each rescales what the     *)
(* ones before it left: per symbol, per correlated cluster, utilization,   *)
(* and the budget the risk engine still has.                               *)
PlanRespectsEveryCap ==
  Returned("portfolio") =>
    LET w == optimize(input.candidates, input.corr, Constraints, BudgetOf(input))
    IN  /\ SumFunction(Out) <= input.available
        /\ SumFunction(w) <= Constraints.maxUtilization
        /\ \A s \in DOMAIN input.candidates : w[s] <= Constraints.maxWeight /\ w[s] >= 0
        /\ \A g \in ToSet(clusterByCorrelation(Len(input.candidates), input.corr, Constraints.threshold)) :
             SumFunctionOnSet(w, g) <= Constraints.maxGroup

(* Carrying out the intents brings every holding to its target, to within  *)
(* the smallest trade, holdings without a target included (rebalance).     *)
RebalanceReachesTarget ==
  Returned("rebalance") =>
    \A s \in DOMAIN input.current \cup DOMAIN input.target :
      LET held   == IF s \in DOMAIN input.current THEN input.current[s] ELSE 0
          wanted == IF s \in DOMAIN input.target THEN input.target[s] ELSE 0
          bought == SumFunction([o \in {x \in Out : x.symbol = s} |-> IF o.side = "buy" THEN o.notional ELSE -o.notional])
      IN  Absolute(wanted - (held + bought)) <= input.minTrade

(* The portfolio engine plans within the limits and its intents carry the  *)
(* plan out.                                                               *)
PortfolioIsSound == PlanRespectsEveryCap /\ RebalanceReachesTarget

(* Whatever the order of the experiments, the champion is the first of     *)
(* those with the most decisions among the ones that passed walk-forward   *)
(* validation, and there is none exactly when none passed.                 *)
ChampionIsTheBest ==
  Returned("champion") =>
    LET valid == {i \in DOMAIN input.experiments : Validated(input.experiments[i])}
        n(i)  == input.experiments[i].decisions
        best  == {i \in valid : \A j \in valid : n(j) < n(i) \/ (n(j) = n(i) /\ i <= j)}
    IN  Out = IF valid = {} THEN <<>> ELSE <<input.experiments[CHOOSE i \in best : TRUE]>>

(* A component is healthy exactly when the last thing heard of it was good *)
(* and recent: a beat does not hide a later report, silence never heals,   *)
(* and the overall status is healthy only when every component is          *)
(* (HealthMonitor).                                                        *)
HealthIsEarned ==
  Returned("health") =>
    LET about(c) == {i \in DOMAIN input.ops : input.ops[i].do # "wait" /\ input.ops[i].component = c}
        silence(c) == Cardinality({i \in Max(about(c))..Len(input.ops) : input.ops[i].do = "wait"})
        good(c) == LET op == input.ops[Max(about(c))] IN op.do = "report" => op.status = "healthy"
        status(c) == statusOf(Out.monitor[c], Out.now, WarnAfter, CritAfter)
    IN  /\ \A c \in Parts : (status(c) = "healthy") <=> (about(c) # {} /\ good(c) /\ silence(c) <= WarnAfter)
        /\ (overall({status(c) : c \in Parts}) = "healthy") <=> \A c \in Parts : status(c) = "healthy"

(* A verdict of the evaluation side, who is champion and what is healthy,  *)
(* is earned by what was reported, in whatever order it was.               *)
VerdictsAreEarned == ChampionIsTheBest /\ HealthIsEarned
=============================================================================
