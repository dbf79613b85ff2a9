---------------------------- MODULE MCAlgorithms ----------------------------
(***************************************************************************)
(* Inputs for the model checking of Algorithms.                            *)
(***************************************************************************)
EXTENDS Algorithms

CONSTANTS Horizon,        \* candle windows 0..Horizon of the exchange's history
          MaxTrades,      \* trades handed to the candle reconstruction
          MaxRecords      \* raw records handed to the quality check

\* n trades in some order of arrival, of which some may come again.
TradeSeqs(n) ==
  {[i \in 1..n |-> [time |-> t[q[i]], price |-> p[q[i]], volume |-> q[i], seq |-> q[i]]] :
     t \in [1..n -> {0, 1, 3, 5}], p \in [1..n -> 1..2], q \in [1..n -> 1..n]}
MCCandleInputs == [kind : {"candles"}, trades : UNION {TradeSeqs(n) : n \in 0..MaxTrades}, asOf : {3, 4, 6}]

MCRecordInputs == [kind : {"records"}, records : UNION {[1..n -> [time : 1..2, seq : 1..4]] : n \in 1..MaxRecords}]

MCSamples ==
  [ema |-> {-60, 0, 60}, macd |-> {-50, 0, 50}, rsi |-> {10, 50, 90}, band |-> {-20, 0, 20},
   volume |-> {30, 100, 300}, volatility |-> {1, 5}, slope |-> {-3, 0, 3}, bid |-> {0, 3, 900}]
MCReadings ==
  [n : {14, 20, 26}, ema : MCSamples.ema, macd : MCSamples.macd, rsi : MCSamples.rsi, band : MCSamples.band,
   volume : MCSamples.volume, volatility : MCSamples.volatility, slope : MCSamples.slope, bid : MCSamples.bid, ask : {4}]
MCTradingInputs ==
  [kind : {"trading"}, reading : MCReadings, halted : {FALSE}, available : {5}, exposure : {0}]
  \cup [kind : {"trading"}, reading : {r \in MCReadings : r.n = 26 /\ r.bid = 3 /\ r.volume = 100 /\ r.band = 0},
        halted : BOOLEAN, available : {0, 5}, exposure : {0, 10}]

MCBackfillInputs ==
  [kind : {"backfill"}, server : {SetToSortSeq(S, <) : S \in SUBSET (0..Horizon)}, from : 0..Horizon,
   to : 0..Horizon + 1, page : 1..2]
MCThrottleInputs == [kind : {"throttle"}, latencies : [1..6 -> {0, 1, 9}], burst : 1..2]

MCPortfolioInputs ==
  LET edge == {[winProb |-> 40, payoff |-> 10], [winProb |-> 60, payoff |-> 10], [winProb |-> 80, payoff |-> 20]}
      sym(c) == [p \in (1..3) \X (1..3) |-> IF p[1] = p[2] THEN 100 ELSE c[p[1] + p[2] - 2]]
  IN  [kind : {"portfolio"}, candidates : [1..3 -> edge], corr : {sym(c) : c \in [1..3 -> {-90, 0, 90}]},
       available : {0, 250, 1000}]
MCConstraints == [kelly |-> 50, maxWeight |-> 2500, maxGroup |-> 3000, threshold |-> 80, maxUtilization |-> 6000]

MCRebalanceInputs ==
  LET holdings == UNION {[S -> 0..2] : S \in SUBSET (1..2)}
  IN  [kind : {"rebalance"}, current : holdings, target : holdings, minTrade : 0..1]

MCGraphInputs ==
  LET deps == {<<>>} \cup {<<a>> : a \in Features} \cup {s \in [1..2 -> 1..3] : s[1] # s[2]}
  IN  [kind : {"graph"}, deps : [1..3 -> deps], roots : {<<1>>, <<2, 1>>}]

MCChampionInputs ==
  [kind : {"champion"}, experiments : UNION {[1..n -> [passed : BOOLEAN, folds : 0..2, decisions : 0..2]] : n \in 0..3}]

MCHealthInputs ==
  LET ops == [do : {"heartbeat"}, component : Parts] \cup {[do |-> "wait"]}
             \cup [do : {"report"}, component : {"risk"}, status : {"warning", "healthy"}]
  IN  [kind : {"health"}, ops : UNION {[1..n -> ops] : n \in 0..5}]
=============================================================================
