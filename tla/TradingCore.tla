---------------------------- MODULE TradingCore -----------------------------
(***************************************************************************)
(* The trading core: signal engine, strategy engine, decision engine and   *)
(* the sizing bridge of the paper pipeline, as operators.  A market        *)
(* reading is the record of indicator values the signal engine works from; *)
(* strengths and confidences are percent, products of two of them are in   *)
(* units of 1/10000, and strategy weights are in tenths.                   *)
(*   packages/signal-engine/src/engine.ts                                  *)
(*   packages/strategy-engine/src/engine.ts                                *)
(*   packages/decision-engine/src/{engine,pipeline}.ts                     *)
(*   packages/paper/src/sizing.ts                                          *)
(***************************************************************************)
EXTENDS Integers, Sequences, FiniteSets, TLC, SequencesExt, FiniteSetsExt, Filters

Clamp(x) == IF x < 0 THEN 0 ELSE IF x > 100 THEN 100 ELSE x
Magnitude(x) == IF x < 0 THEN -x ELSE x
Sign(x) == IF x < 0 THEN -1 ELSE IF x > 0 THEN 1 ELSE 0

Signal(name, value, strength, confidence) ==
  [name |-> name, value |-> value, strength |-> Clamp(strength), confidence |-> Clamp(confidence)]

When(condition, sig) == IF condition THEN <<sig>> ELSE <<>>

-----------------------------------------------------------------------------
(* SignalEngine.generate: one optional signal per indicator, in the code's *)
(* order.  reading.n is the number of closed candles: an indicator whose   *)
(* window is longer is null and gives no signal.                           *)

EmaSignal(r) == When(r.n >= 21, Signal("EMA_CROSS", Sign(r.ema), Magnitude(r.ema), 50 + Magnitude(r.ema)))

\* Mutated form of MacdSignal: the bearish side reported with the bullish sign.
MacdSignalUnsigned(r) ==
  When(r.n >= 26, Signal(IF r.macd >= 0 THEN "MACD_BULLISH" ELSE "MACD_BEARISH",
                         1, Magnitude(r.macd), 55 + Magnitude(r.macd)))
MacdSignal(r) ==
  When(r.n >= 26, Signal(IF r.macd >= 0 THEN "MACD_BULLISH" ELSE "MACD_BEARISH",
                         IF r.macd >= 0 THEN 1 ELSE -1, Magnitude(r.macd), 55 + Magnitude(r.macd)))

RsiSignal(r) ==
  When(r.n >= 15 /\ r.rsi < 30,
       Signal("RSI_OVERSOLD", 1, ((30 - r.rsi) * 100) \div 30, 60 + ((30 - r.rsi) * 100) \div 60))
  \o When(r.n >= 15 /\ r.rsi > 70,
       Signal("RSI_OVERBOUGHT", -1, ((r.rsi - 70) * 100) \div 30, 60 + ((r.rsi - 70) * 100) \div 60))

\* r.band: how far, in percent of the price, the close is outside its band.
BandSignal(r) == When(r.n >= 20 /\ r.band # 0, Signal("BB_BREAKOUT", Sign(r.band), Magnitude(r.band), 60))

\* r.volume: the last volume in percent of the average.
VolumeSignal(r) ==
  When(r.n >= 20 /\ r.volume > 150,
       Signal("HIGH_VOLUME", 1, (r.volume - 100) \div 2, 50 + (r.volume - 150) \div 3))
  \o When(r.n >= 20 /\ r.volume < 50, Signal("LOW_VOLUME", -1, 100 - r.volume, 50))

VolatilitySignal(r) ==
  When(r.n >= 21 /\ r.volatility > 2, Signal("VOLATILITY_HIGH", 1, r.volatility * 10, 50 + r.volatility * 5))

TrendSignal(r) ==
  When(r.n >= 20 /\ r.slope > 0, Signal("TREND_UP", 1, r.slope * 20, 50 + r.slope * 20))
  \o When(r.n >= 20 /\ r.slope < 0, Signal("TREND_DOWN", -1, -r.slope * 20, 50 - r.slope * 20))

\* The order book is optional: no book is an empty one.  Sizes are in tenths.
BookSignal(r) ==
  LET total == r.bid + r.ask
      imb   == IF total = 0 THEN 0 ELSE ((r.bid - r.ask) * 100) \div total
  IN  When(Magnitude(imb) > 10, Signal("ORDERBOOK_IMBALANCE", Sign(imb), Magnitude(imb), 50 + Magnitude(imb) \div 2))
      \o When(total > 0 /\ total < 10, Signal("LIQUIDITY_LOW", -1, 100 - total * 10, 50))
      \o When(total > 1000, Signal("LIQUIDITY_HIGH", 1, total \div 100, 50))

generate(r) ==
  EmaSignal(r) \o MacdSignal(r) \o RsiSignal(r) \o BandSignal(r) \o VolumeSignal(r)
  \o VolatilitySignal(r) \o TrendSignal(r) \o BookSignal(r)

-----------------------------------------------------------------------------
(* StrategyEngine.select *)

Strategies == <<"trend-following", "mean-reversion", "breakout", "scalping",
                "swing", "range", "momentum", "volatility">>

Weights ==
  [strategy \in ToSet(Strategies) |->
     CASE strategy = "trend-following" -> [TREND_UP |-> 10, TREND_DOWN |-> 10, EMA_CROSS |-> 10, MACD_BULLISH |-> 8,
                                           MACD_BEARISH |-> 8, HIGH_VOLUME |-> 4]
       [] strategy = "mean-reversion"  -> [RSI_OVERSOLD |-> 10, RSI_OVERBOUGHT |-> 10, BB_BREAKOUT |-> 6, LOW_VOLUME |-> 3]
       [] strategy = "breakout"        -> [BB_BREAKOUT |-> 10, HIGH_VOLUME |-> 8, VOLATILITY_HIGH |-> 6]
       [] strategy = "scalping"        -> [HIGH_VOLUME |-> 10, LIQUIDITY_HIGH |-> 8, ORDERBOOK_IMBALANCE |-> 6]
       [] strategy = "swing"           -> [TREND_UP |-> 8, TREND_DOWN |-> 8, EMA_CROSS |-> 8, MACD_BULLISH |-> 5,
                                           MACD_BEARISH |-> 5]
       [] strategy = "range"           -> [RSI_OVERSOLD |-> 6, RSI_OVERBOUGHT |-> 6, LOW_VOLUME |-> 5, LIQUIDITY_HIGH |-> 3]
       [] strategy = "momentum"        -> [MACD_BULLISH |-> 10, MACD_BEARISH |-> 10, TREND_UP |-> 8, TREND_DOWN |-> 8,
                                           HIGH_VOLUME |-> 6]
       [] strategy = "volatility"      -> [VOLATILITY_HIGH |-> 10, BB_BREAKOUT |-> 6, HIGH_VOLUME |-> 4]]

Score(strategy, signals) ==
  LET w == Weights[strategy]
      of(s) == IF s.name \in DOMAIN w THEN w[s.name] * s.strength * s.confidence ELSE 0
  IN  SumFunction([i \in DOMAIN signals |-> of(signals[i])])

\* The first of a stable sort by descending score.
Active(signals) ==
  Strategies[CHOOSE i \in DOMAIN Strategies :
    \A j \in DOMAIN Strategies :
      \/ Score(Strategies[i], signals) > Score(Strategies[j], signals)
      \/ Score(Strategies[i], signals) = Score(Strategies[j], signals) /\ i <= j]

select(signals) ==
  LET positive == {s \in ToSet(Strategies) : Score(s, signals) > 0}
  IN  [active   |-> Active(signals),
       selected |-> IF positive = {} THEN {Active(signals)} ELSE positive,
       confidence |-> Clamp(Score(Active(signals), signals) \div 3000)]

-----------------------------------------------------------------------------
(* DecisionEngine.decide *)

Threshold == 1500      \* 0.15

Net(signals) ==
  SumFunction([i \in DOMAIN signals |-> signals[i].value * signals[i].strength * signals[i].confidence])

Action(net, risk, portfolio) ==
  IF risk.halted THEN "WAIT"
  ELSE IF net > Threshold THEN IF risk.budget_available <= 0 THEN "WAIT"
                               ELSE IF portfolio.exposure >= portfolio.max_exposure THEN "HOLD" ELSE "BUY"
  ELSE IF net < -Threshold THEN "SELL" ELSE "HOLD"

\* Undefined without signals: the code throws (INV-TC4), see runTradingCore.
decide(strategy, signals, risk, portfolio) ==
  LET net       == Net(signals)
      magnitude == Min({100, Magnitude(net) \div 100})
      action    == Action(net, risk, portfolio)
      used      == Filter(signals, {s \in ToSet(signals) : /\ action = "BUY" => s.value > 0
                                                           /\ action = "SELL" => s.value < 0})
  IN  [action |-> action, net |-> net,
       confidence |-> Clamp((strategy.confidence * (50 + magnitude \div 2)) \div 100),
       expected_reward |-> Clamp((magnitude * strategy.confidence) \div 100),
       strategy_used |-> strategy.active,
       signal_used |-> IF used = <<>> THEN signals ELSE used]

\* TradingCore.run: the events it appends and the decision, none without signals.
NoDecision == [action |-> "NONE"]
runTradingCore(r, risk, portfolio) ==
  LET signals  == generate(r)
      strategy == select(signals)
  IN  [signals |-> signals, strategy |-> strategy,
       decision |-> IF signals = <<>> THEN NoDecision ELSE decide(strategy, signals, risk, portfolio),
       events |-> <<"Signal.created", "Strategy.selected">>
                  \o IF signals = <<>> THEN <<>> ELSE <<"Decision.created">>]

-----------------------------------------------------------------------------
(* sizeDecision: 0 stands for "no order". *)

Notional(decision, price, policy) ==
  LET notional == Min({(policy.base * decision.confidence) \div 100, policy.maximum})
  IN  IF \/ decision.action \notin {"BUY", "SELL"} \/ decision.confidence < policy.minConfidence
         \/ price <= 0 \/ notional < policy.minimum
      THEN 0 ELSE notional
=============================================================================
