-------------------------- MODULE AlgorithmsProofs --------------------------
(***************************************************************************)
(* Theorems about the pure functions of the system, for every input, and   *)
(* about the paper session that runs them: the signals, the strategy and   *)
(* the decision; the books of a session; the caps of the portfolio; paging *)
(* and rate limiting; the champion and the health of the system; the order *)
(* of the features.                                                        *)
(***************************************************************************)
EXTENDS PaperTrading, Algorithms, FoldTheorems

-----------------------------------------------------------------------------
(* The signals: twelve branches, one type. *)

SignalNames == {"EMA_CROSS", "MACD_BULLISH", "MACD_BEARISH", "RSI_OVERSOLD", "RSI_OVERBOUGHT", "BB_BREAKOUT", "HIGH_VOLUME",
                "LOW_VOLUME", "VOLATILITY_HIGH", "TREND_UP", "TREND_DOWN", "ORDERBOOK_IMBALANCE", "LIQUIDITY_LOW",
                "LIQUIDITY_HIGH"}
Signals == [name : SignalNames, value : Int, strength : 0 .. 100, confidence : 0 .. 100]

LEMMA ClampType == \A x \in Int : Clamp(x) \in 0 .. 100
  BY DEF Clamp

LEMMA WhenType ==
    ASSUME NEW c, NEW name \in SignalNames, NEW v \in Int, NEW s \in Int, NEW f \in Int
    PROVE  When(c, Signal(name, v, s, f)) \in Seq(Signals)
<1>1. Clamp(s) \in 0 .. 100 /\ Clamp(f) \in 0 .. 100
  BY ClampType
<1>2. Signal(name, v, s, f) \in Signals
  BY <1>1 DEF Signal, Signals
<1>3. \A x \in Signals : <<x>> \in Seq(Signals) /\ <<>> \in Seq(Signals)
  OBVIOUS
<1> QED
  BY <1>2, <1>3, Zenon DEF When

LEMMA ConcatType == ASSUME NEW s \in Seq(Signals), NEW t \in Seq(Signals) PROVE s \o t \in Seq(Signals)
  OBVIOUS

\* The three signals of an order book of this size and imbalance.
Book(total, imb) ==
  When(Magnitude(imb) > 10, Signal("ORDERBOOK_IMBALANCE", Sign(imb), Magnitude(imb), 50 + Magnitude(imb) \div 2))
  \o When(total > 0 /\ total < 10, Signal("LIQUIDITY_LOW", -1, 100 - total * 10, 50))
  \o When(total > 1000, Signal("LIQUIDITY_HIGH", 1, total \div 100, 50))

LEMMA BookType == ASSUME NEW total \in Nat, NEW imb \in Int PROVE Book(total, imb) \in Seq(Signals)
<1>1. PICK a, b, c : /\ a = When(Magnitude(imb) > 10, Signal("ORDERBOOK_IMBALANCE", Sign(imb), Magnitude(imb),
                                                          50 + Magnitude(imb) \div 2))
                     /\ b = When(total > 0 /\ total < 10, Signal("LIQUIDITY_LOW", -1, 100 - total * 10, 50))
                     /\ c = When(total > 1000, Signal("LIQUIDITY_HIGH", 1, total \div 100, 50))
  OBVIOUS
<1>2. Sign(imb) \in Int /\ Magnitude(imb) \in Int
  BY DEF Sign, Magnitude
<1>3. a \in Seq(Signals)
  <2>1. "ORDERBOOK_IMBALANCE" \in SignalNames /\ 50 + Magnitude(imb) \div 2 \in Int
    BY <1>2 DEF SignalNames
  <2> QED
    BY <1>1, <1>2, <2>1, WhenType, Zenon
<1>4. b \in Seq(Signals)
  <2>1. "LIQUIDITY_LOW" \in SignalNames /\ -1 \in Int /\ 50 \in Int /\ 100 - total * 10 \in Int
    BY DEF SignalNames
  <2> QED
    BY <1>1, <2>1, WhenType, Zenon
<1>5. c \in Seq(Signals)
  <2>1. PICK h, deep : h = total \div 100 /\ deep = (total > 1000)
    OBVIOUS
  <2>2. "LIQUIDITY_HIGH" \in SignalNames /\ 1 \in Int /\ 50 \in Int /\ h \in Int
    BY <2>1 DEF SignalNames
  <2>3. c = When(deep, Signal("LIQUIDITY_HIGH", 1, h, 50))
    BY <1>1, <2>1, ZenonT(40)
  <2> QED
    BY <2>2, <2>3, WhenType, Zenon
<1>6. a \o b \o c \in Seq(Signals)
  BY <1>3, <1>4, <1>5, ConcatType
<1>7. Book(total, imb) = a \o b \o c
  BY <1>1, Zenon DEF Book
<1> QED
  BY <1>6, <1>7, Zenon

LEMMA PiecesType ==
    ASSUME NEW r \in Reading
    PROVE  /\ EmaSignal(r) \in Seq(Signals) /\ MacdSignal(r) \in Seq(Signals) /\ RsiSignal(r) \in Seq(Signals)
           /\ BandSignal(r) \in Seq(Signals) /\ VolumeSignal(r) \in Seq(Signals) /\ VolatilitySignal(r) \in Seq(Signals)
           /\ TrendSignal(r) \in Seq(Signals) /\ BookSignal(r) \in Seq(Signals)
<1>0. /\ "EMA_CROSS" \in SignalNames /\ "MACD_BULLISH" \in SignalNames /\ "MACD_BEARISH" \in SignalNames
      /\ "RSI_OVERSOLD" \in SignalNames /\ "RSI_OVERBOUGHT" \in SignalNames /\ "BB_BREAKOUT" \in SignalNames
      /\ "HIGH_VOLUME" \in SignalNames /\ "LOW_VOLUME" \in SignalNames /\ "VOLATILITY_HIGH" \in SignalNames
      /\ "TREND_UP" \in SignalNames /\ "TREND_DOWN" \in SignalNames /\ "ORDERBOOK_IMBALANCE" \in SignalNames
      /\ "LIQUIDITY_LOW" \in SignalNames /\ "LIQUIDITY_HIGH" \in SignalNames
      /\ {"MACD_BULLISH", "MACD_BEARISH"} \subseteq SignalNames
  BY DEF SignalNames
<1>1. /\ r.n \in Nat /\ r.ema \in Int /\ r.macd \in Int /\ r.rsi \in Int /\ r.band \in Int /\ r.volume \in Int
      /\ r.volatility \in Int /\ r.slope \in Int /\ r.bid \in Nat /\ r.ask \in Nat
  BY DEF Reading
<1>2. \A x \in Int : Magnitude(x) \in Int /\ Sign(x) \in Int
  BY DEF Magnitude, Sign
<1>3. EmaSignal(r) \in Seq(Signals)
  <2>1. Sign(r.ema) \in Int /\ Magnitude(r.ema) \in Int /\ 50 + Magnitude(r.ema) \in Int
    BY <1>1, <1>2
  <2> QED
    BY <1>0, <2>1, WhenType, Zenon DEF EmaSignal
<1>4. MacdSignal(r) \in Seq(Signals)
  <2>1. /\ (IF r.macd >= 0 THEN "MACD_BULLISH" ELSE "MACD_BEARISH") \in {"MACD_BULLISH", "MACD_BEARISH"}
        /\ (IF r.macd >= 0 THEN 1 ELSE -1) \in Int /\ Magnitude(r.macd) \in Int /\ 55 + Magnitude(r.macd) \in Int
    BY <1>1, <1>2
  <2>2. (IF r.macd >= 0 THEN "MACD_BULLISH" ELSE "MACD_BEARISH") \in SignalNames
    BY <1>0, <2>1
  <2> QED
    BY <2>1, <2>2, WhenType, Zenon DEF MacdSignal
<1>5. RsiSignal(r) \in Seq(Signals)
  <2>1. /\ ((30 - r.rsi) * 100) \div 30 \in Int /\ 60 + ((30 - r.rsi) * 100) \div 60 \in Int
        /\ ((r.rsi - 70) * 100) \div 30 \in Int /\ 60 + ((r.rsi - 70) * 100) \div 60 \in Int
        /\ 1 \in Int /\ -1 \in Int
    BY <1>1
  <2>2. When(r.n >= 15 /\ r.rsi < 30, Signal("RSI_OVERSOLD", 1, ((30 - r.rsi) * 100) \div 30,
                                             60 + ((30 - r.rsi) * 100) \div 60)) \in Seq(Signals)
    BY <1>0, <2>1, WhenType, ZenonT(40)
  <2>3. When(r.n >= 15 /\ r.rsi > 70, Signal("RSI_OVERBOUGHT", -1, ((r.rsi - 70) * 100) \div 30,
                                             60 + ((r.rsi - 70) * 100) \div 60)) \in Seq(Signals)
    BY <1>0, <2>1, WhenType, ZenonT(40)
  <2> QED
    BY <2>2, <2>3, ConcatType, ZenonT(40) DEF RsiSignal
<1>6. BandSignal(r) \in Seq(Signals)
  <2>1. Sign(r.band) \in Int /\ Magnitude(r.band) \in Int /\ 60 \in Int
    BY <1>1, <1>2
  <2> QED
    BY <1>0, <2>1, WhenType, Zenon DEF BandSignal
<1>7. VolumeSignal(r) \in Seq(Signals)
  <2>1. /\ (r.volume - 100) \div 2 \in Int /\ 50 + (r.volume - 150) \div 3 \in Int /\ 100 - r.volume \in Int
        /\ 1 \in Int /\ -1 \in Int /\ 50 \in Int
    BY <1>1
  <2>2. When(r.n >= 20 /\ r.volume > 150, Signal("HIGH_VOLUME", 1, (r.volume - 100) \div 2,
                                                 50 + (r.volume - 150) \div 3)) \in Seq(Signals)
    BY <1>0, <2>1, WhenType, ZenonT(40)
  <2>3. When(r.n >= 20 /\ r.volume < 50, Signal("LOW_VOLUME", -1, 100 - r.volume, 50)) \in Seq(Signals)
    BY <1>0, <2>1, WhenType, Zenon
  <2> QED
    BY <2>2, <2>3, ConcatType, ZenonT(40) DEF VolumeSignal
<1>8. VolatilitySignal(r) \in Seq(Signals)
  <2>1. r.volatility * 10 \in Int /\ 50 + r.volatility * 5 \in Int /\ 1 \in Int
    BY <1>1
  <2> QED
    BY <1>0, <2>1, WhenType, Zenon DEF VolatilitySignal
<1>9. TrendSignal(r) \in Seq(Signals)
  <2>1. /\ r.slope * 20 \in Int /\ 50 + r.slope * 20 \in Int /\ -r.slope * 20 \in Int /\ 50 - r.slope * 20 \in Int
        /\ 1 \in Int /\ -1 \in Int
    BY <1>1
  <2>2. When(r.n >= 20 /\ r.slope > 0, Signal("TREND_UP", 1, r.slope * 20, 50 + r.slope * 20)) \in Seq(Signals)
    BY <1>0, <2>1, WhenType, Zenon
  <2>3. When(r.n >= 20 /\ r.slope < 0, Signal("TREND_DOWN", -1, -r.slope * 20, 50 - r.slope * 20)) \in Seq(Signals)
    BY <1>0, <2>1, WhenType, Zenon
  <2> QED
    BY <2>2, <2>3, ConcatType, Zenon DEF TrendSignal
<1>10. BookSignal(r) \in Seq(Signals)
  <2> DEFINE total == r.bid + r.ask
             imb   == IF total = 0 THEN 0 ELSE ((r.bid - r.ask) * 100) \div total
  <2>1. total \in Nat /\ (r.bid - r.ask) * 100 \in Int
    BY <1>1
  <2>2. imb \in Int
    <3>1. PICK a, b : a = (r.bid - r.ask) * 100 /\ b = total
      OBVIOUS
    <3>2. b # 0 => a \div b \in Int
      BY <2>1, <3>1
    <3> QED
      BY <3>1, <3>2
  <2>3. BookSignal(r) = Book(total, imb)
    BY Zenon DEF BookSignal, Book
  <2> QED
    BY <2>1, <2>2, <2>3, BookType
<1> QED
  BY <1>3, <1>4, <1>5, <1>6, <1>7, <1>8, <1>9, <1>10

\* Every signal of a reading has a strength and a confidence in percent.
LEMMA GeneratedType == ASSUME NEW r \in Reading PROVE generate(r) \in Seq(Signals)
  BY PiecesType, ConcatType, Zenon DEF generate

-----------------------------------------------------------------------------
(* The strategy: one with the highest score. *)

LEMMA WeightsType ==
    ASSUME NEW strategy \in ToSet(Strategies)
    PROVE  \A name \in DOMAIN Weights[strategy] : Weights[strategy][name] \in Nat
<1>1. /\ DOMAIN Strategies = 1 .. 8
      /\ Strategies[1] = "trend-following" /\ Strategies[2] = "mean-reversion" /\ Strategies[3] = "breakout"
      /\ Strategies[4] = "scalping" /\ Strategies[5] = "swing" /\ Strategies[6] = "range"
      /\ Strategies[7] = "momentum" /\ Strategies[8] = "volatility"
  BY DEF Strategies
<1>2. strategy \in {"trend-following", "mean-reversion", "breakout", "scalping", "swing", "range", "momentum", "volatility"}
  <2>1. \A i \in 1 .. 8 : i \in {1, 2, 3, 4, 5, 6, 7, 8}
    OBVIOUS
  <2> QED
    BY <1>1, <2>1 DEF ToSet
<1>3. PICK w : w = Weights[strategy]
  OBVIOUS
<1>4. /\ strategy = "trend-following" => w = [TREND_UP |-> 10, TREND_DOWN |-> 10, EMA_CROSS |-> 10, MACD_BULLISH |-> 8,
                                              MACD_BEARISH |-> 8, HIGH_VOLUME |-> 4]
      /\ strategy = "mean-reversion" => w = [RSI_OVERSOLD |-> 10, RSI_OVERBOUGHT |-> 10, BB_BREAKOUT |-> 6, LOW_VOLUME |-> 3]
      /\ strategy = "breakout" => w = [BB_BREAKOUT |-> 10, HIGH_VOLUME |-> 8, VOLATILITY_HIGH |-> 6]
      /\ strategy = "scalping" => w = [HIGH_VOLUME |-> 10, LIQUIDITY_HIGH |-> 8, ORDERBOOK_IMBALANCE |-> 6]
      /\ strategy = "swing" => w = [TREND_UP |-> 8, TREND_DOWN |-> 8, EMA_CROSS |-> 8, MACD_BULLISH |-> 5,
                                    MACD_BEARISH |-> 5]
      /\ strategy = "range" => w = [RSI_OVERSOLD |-> 6, RSI_OVERBOUGHT |-> 6, LOW_VOLUME |-> 5, LIQUIDITY_HIGH |-> 3]
      /\ strategy = "momentum" => w = [MACD_BULLISH |-> 10, MACD_BEARISH |-> 10, TREND_UP |-> 8, TREND_DOWN |-> 8,
                                       HIGH_VOLUME |-> 6]
      /\ strategy = "volatility" => w = [VOLATILITY_HIGH |-> 10, BB_BREAKOUT |-> 6, HIGH_VOLUME |-> 4]
  BY <1>3 DEF Weights
<1>5. \A name \in DOMAIN w : w[name] \in Nat
  BY <1>2, <1>4
<1> QED
  BY <1>3, <1>5, Zenon

\* The positions of the strategies.
LEMMA StrategyPositions ==
    /\ DOMAIN Strategies = 1 .. 8
    /\ \A i \in 1 .. 8 : Strategies[i] \in ToSet(Strategies)
    /\ \A s \in ToSet(Strategies) : \E i \in 1 .. 8 : Strategies[i] = s
<1>1. DOMAIN Strategies = 1 .. 8
  BY DEF Strategies
<1>2. PICK str : str = Strategies
  OBVIOUS
<1>3. DOMAIN str = 1 .. 8
  BY <1>1, <1>2, Zenon
<1>4. ToSet(str) = {str[i] : i \in DOMAIN str}
  BY DEF ToSet
<1>5. /\ \A i \in 1 .. 8 : str[i] \in ToSet(str)
      /\ \A s \in ToSet(str) : \E i \in 1 .. 8 : str[i] = s
  BY <1>3, <1>4
<1> QED
  BY <1>1, <1>2, <1>5, Zenon

LEMMA SignalFields == \A s \in Signals : s.value \in Int /\ s.strength \in 0 .. 100 /\ s.confidence \in 0 .. 100
  BY DEF Signals

LEMMA ScoreType ==
    ASSUME NEW signals \in Seq(Signals), NEW strategy \in ToSet(Strategies)
    PROVE  Score(strategy, signals) \in Nat
<1>1. PICK w : w = Weights[strategy]
  OBVIOUS
<1>2. \A name \in DOMAIN w : w[name] \in Nat
  BY <1>1, WeightsType, Zenon
<1>3. PICK f : f = [i \in DOMAIN signals |->
                      IF signals[i].name \in DOMAIN w
                      THEN w[signals[i].name] * signals[i].strength * signals[i].confidence ELSE 0]
  OBVIOUS
<1>4. Score(strategy, signals) = SumFunction(f)
  BY <1>1, <1>3, Zenon DEF Score
<1>5. DOMAIN signals = 1 .. Len(signals) /\ Len(signals) \in Nat /\ \A i \in 1 .. Len(signals) : signals[i] \in Signals
  OBVIOUS
<1>6. ASSUME NEW i \in 1 .. Len(signals) PROVE f[i] \in Nat
  <2>1. PICK s : s = signals[i]
    OBVIOUS
  <2>2. s.strength \in Nat /\ s.confidence \in Nat
    <3>1. s \in Signals
      BY <1>5, <2>1, Zenon
    <3>2. s.strength \in 0 .. 100 /\ s.confidence \in 0 .. 100
      BY <3>1, SignalFields, Zenon
    <3>3. \A x \in 0 .. 100 : x \in Nat
      OBVIOUS
    <3> QED
      BY <3>2, <3>3, Zenon
  <2>3. PICK a : a = w[s.name]
    OBVIOUS
  <2>4. s.name \in DOMAIN w => a \in Nat
    BY <1>2, <2>3, Zenon
  <2>5. f[i] = IF s.name \in DOMAIN w THEN a * s.strength * s.confidence ELSE 0
    BY <1>3, <1>5, <2>1, <2>3, Zenon
  <2>6. \A x, y, z \in Nat : x * y * z \in Nat
    OBVIOUS
  <2> QED
    BY <2>2, <2>4, <2>5, <2>6
<1>7. f \in Seq(Nat)
  <2>1. DOMAIN f = 1 .. Len(signals) /\ f = [i \in 1 .. Len(signals) |-> f[i]]
    BY <1>3, <1>5
  <2> QED
    BY <1>5, <1>6, <2>1
<1> QED
  BY <1>4, <1>7, SumOfSequence, Zenon

\* The strategy of a decision is one with the highest score: the choice in
\* Active is never empty.
LEMMA ActiveIsBest ==
    ASSUME NEW signals \in Seq(Signals)
    PROVE  /\ Active(signals) \in ToSet(Strategies)
           /\ \A s \in ToSet(Strategies) : Score(s, signals) <= Score(Active(signals), signals)
<1>1. PICK f : f = [i \in 1 .. 8 |-> Score(Strategies[i], signals)]
  OBVIOUS
<1>2. \A i \in 1 .. 8 : f[i] = Score(Strategies[i], signals) /\ f[i] \in Nat
  BY <1>1, StrategyPositions, ScoreType
<1>a. \A i \in 1 .. 8 : f[i] \in Nat
  BY <1>2, Zenon
<1>3. PICK g : g = [i \in 1 .. 8 |-> 8 * f[i] + (8 - i)]
  OBVIOUS
<1>4. \A i \in 1 .. 8 : g[i] \in Nat /\ g[i] = 8 * f[i] + (8 - i)
  <2> TAKE i \in 1 .. 8
  <2>1. g[i] = 8 * f[i] + (8 - i)
    BY <1>3, Zenon
  <2>2. PICK v : v = f[i]
    OBVIOUS
  <2>3. v \in Nat
    BY <1>a, <2>2, Zenon
  <2>4. 8 * v + (8 - i) \in Nat
    BY <2>3
  <2> QED
    BY <2>1, <2>2, <2>4, Zenon
<1>5. PICK P : P = {g[i] : i \in 1 .. 8}
  OBVIOUS
<1>6. IsFiniteSet(P)
  <2>1. g \in Surjection(1 .. 8, P)
    BY <1>3, <1>5 DEF Surjection
  <2>2. IsFiniteSet(1 .. 8)
    <3>1. 1 \in Int /\ 8 \in Int
      OBVIOUS
    <3> QED
      BY <3>1, FS_Interval, Zenon
  <2> QED
    BY <2>1, <2>2, FS_Surjection
<1>7. P \in SUBSET Nat /\ P # {}
  <2>1. 1 \in 1 .. 8
    OBVIOUS
  <2> QED
    BY <1>4, <1>5, <2>1
<1>8. PICK x \in P : \A y \in P : y <= x
  BY <1>6, <1>7, FiniteMax
<1>9. PICK k \in 1 .. 8 : x = g[k]
  BY <1>5, <1>8
<1>10. \A j \in 1 .. 8 : f[k] > f[j] \/ (f[k] = f[j] /\ k <= j)
  <2> TAKE j \in 1 .. 8
  <2>1. g[j] <= g[k]
    BY <1>5, <1>8, <1>9
  <2>2. g[j] = 8 * f[j] + (8 - j) /\ g[k] = 8 * f[k] + (8 - k) /\ f[j] \in Nat /\ f[k] \in Nat
    BY <1>4, <1>a
  <2> QED
    BY <2>1, <2>2, SMTT(30)
<1>11. PICK c : c = CHOOSE i \in 1 .. 8 : \A j \in 1 .. 8 : f[i] > f[j] \/ (f[i] = f[j] /\ i <= j)
  OBVIOUS
<1>12. c \in 1 .. 8 /\ \A j \in 1 .. 8 : f[c] > f[j] \/ (f[c] = f[j] /\ c <= j)
  BY <1>10, <1>11, Zenon
<1>13. Active(signals) = Strategies[c]
  <2>1. Active(signals) = Strategies[CHOOSE i \in 1 .. 8 : \A j \in 1 .. 8 :
                                       \/ Score(Strategies[i], signals) > Score(Strategies[j], signals)
                                       \/ Score(Strategies[i], signals) = Score(Strategies[j], signals) /\ i <= j]
    BY StrategyPositions, Zenon DEF Active
  <2>2. (CHOOSE i \in 1 .. 8 : \A j \in 1 .. 8 :
           \/ Score(Strategies[i], signals) > Score(Strategies[j], signals)
           \/ Score(Strategies[i], signals) = Score(Strategies[j], signals) /\ i <= j) = c
    BY <1>2, <1>11
  <2> QED
    BY <2>1, <2>2, Zenon
<1>14. Active(signals) \in ToSet(Strategies)
  BY <1>12, <1>13, StrategyPositions, Zenon
<1>15. Score(Active(signals), signals) = f[c]
  BY <1>2, <1>12, <1>13, Zenon
<1>16. ASSUME NEW s \in ToSet(Strategies) PROVE Score(s, signals) <= Score(Active(signals), signals)
  <2>1. PICK i \in 1 .. 8 : Strategies[i] = s
    BY StrategyPositions
  <2>2. Score(s, signals) = f[i]
    BY <1>2, <2>1, Zenon
  <2>3. f[i] <= f[c]
    <3>1. f[i] \in Nat /\ f[c] \in Nat
      BY <1>a, <1>12, Zenon
    <3>2. f[c] > f[i] \/ (f[c] = f[i] /\ c <= i)
      BY <1>12, Zenon
    <3> QED
      BY <3>1, <3>2
  <2> QED
    BY <1>15, <2>2, <2>3, Zenon
<1> QED
  BY <1>14, <1>16

LEMMA SelectType ==
    ASSUME NEW signals \in Seq(Signals)
    PROVE  /\ select(signals).confidence \in 0 .. 100
           /\ select(signals).active = Active(signals)
<1>1. PICK a : a = Score(Active(signals), signals)
  OBVIOUS
<1>2. a \in Nat
  BY <1>1, ActiveIsBest, ScoreType
<1>3. PICK q : q = a \div 3000
  OBVIOUS
<1>4. q \in Int
  BY <1>2, <1>3
<1>5. select(signals).confidence = Clamp(q) /\ select(signals).active = Active(signals)
  BY <1>1, <1>3 DEF select
<1>6. Clamp(q) \in 0 .. 100
  BY <1>4, ClampType, Zenon
<1> QED
  BY <1>5, <1>6, Zenon

LEMMA NetType == ASSUME NEW signals \in Seq(Signals) PROVE Net(signals) \in Int
<1>1. PICK f : f = [i \in DOMAIN signals |-> signals[i].value * signals[i].strength * signals[i].confidence]
  OBVIOUS
<1>2. DOMAIN signals = 1 .. Len(signals) /\ Len(signals) \in Nat /\ \A i \in 1 .. Len(signals) : signals[i] \in Signals
  OBVIOUS
<1>3. \A i \in 1 .. Len(signals) : f[i] \in Int
  <2> TAKE i \in 1 .. Len(signals)
  <2>1. signals[i].value \in Int /\ signals[i].strength \in Int /\ signals[i].confidence \in Int
    <3>1. PICK s : s = signals[i]
      OBVIOUS
    <3>2. s \in Signals
      BY <1>2, <3>1, Zenon
    <3>a. s.value \in Int /\ s.strength \in 0 .. 100 /\ s.confidence \in 0 .. 100
      BY <3>2, SignalFields, Zenon
    <3>b. \A x \in 0 .. 100 : x \in Int
      OBVIOUS
    <3>3. s.value \in Int /\ s.strength \in Int /\ s.confidence \in Int
      BY <3>a, <3>b, Zenon
    <3> QED
      BY <3>1, <3>3, Zenon
  <2>2. \A x, y, z \in Int : x * y * z \in Int
    OBVIOUS
  <2>3. f[i] = signals[i].value * signals[i].strength * signals[i].confidence
    BY <1>1, <1>2
  <2> QED
    BY <2>1, <2>2, <2>3
<1>4. IsFiniteSet(1 .. Len(signals))
  BY <1>2, FS_Interval
<1>5. DOMAIN f = 1 .. Len(signals)
  BY <1>1, <1>2
<1> QED
  BY <1>1, <1>3, <1>4, <1>5, SumType, Zenon DEF Net, SumFunction

LEMMA MinOfTwo == \A a, b \in Int : Min({a, b}) = IF a <= b THEN a ELSE b
<1> TAKE a, b \in Int
<1>1. PICK m : m = IF a <= b THEN a ELSE b
  OBVIOUS
<1>2. m \in {a, b} /\ \A y \in {a, b} : m <= y
  BY <1>1
<1>3. \A x \in {a, b} : (\A y \in {a, b} : x <= y) => x = m
  BY <1>2
<1>4. Min({a, b}) = m
  BY <1>2, <1>3 DEF Min
<1> QED
  BY <1>1, <1>4

\* What a decision is, for any of its four inputs.
LEMMA DecideType ==
    ASSUME NEW signals \in Seq(Signals), NEW strategy, strategy.confidence \in 0 .. 100, NEW risk, NEW portfolio
    PROVE  /\ decide(strategy, signals, risk, portfolio).confidence \in 0 .. 100
           /\ decide(strategy, signals, risk, portfolio).action = Action(Net(signals), risk, portfolio)
<1>1. PICK d : d = decide(strategy, signals, risk, portfolio)
  OBVIOUS
<1>2. PICK net, mag, c : net = Net(signals) /\ mag = Min({100, Magnitude(net) \div 100}) /\ c = strategy.confidence
  OBVIOUS
<1>3. d.confidence = Clamp((c * (50 + mag \div 2)) \div 100) /\ d.action = Action(net, risk, portfolio)
  BY <1>1, <1>2 DEF decide
<1>4. mag \in Int
  <2>1. Magnitude(net) \div 100 \in Int
    BY <1>2, NetType DEF Magnitude
  <2> QED
    BY <1>2, <2>1, MinOfTwo
<1>5. (c * (50 + mag \div 2)) \div 100 \in Int
  <2>1. PICK e : e = 50 + mag \div 2
    OBVIOUS
  <2>2. e \in Int /\ c \in Int
    <3>1. mag \div 2 \in Int
      BY <1>4
    <3>2. c \in 0 .. 100
      BY <1>2, Zenon
    <3> QED
      BY <2>1, <3>1, <3>2
  <2>3. PICK p : p = c * e
    OBVIOUS
  <2>4. p \in Int
    BY <2>2, <2>3
  <2>5. p \div 100 \in Int
    BY <2>4
  <2> QED
    BY <2>1, <2>3, <2>5
<1>6. d.confidence \in 0 .. 100
  BY <1>3, <1>5, ClampType
<1> QED
  BY <1>1, <1>2, <1>3, <1>6, Zenon

\* An order is never smaller than the policy's minimum, nor larger than its
\* maximum.
LEMMA NotionalType ==
    ASSUME NEW decision, decision.confidence \in 0 .. 100, NEW price \in Int,
           NEW policy, policy.base \in Nat, policy.maximum \in Nat, policy.minimum \in Nat,
           Notional(decision, price, policy) # 0
    PROVE  /\ Notional(decision, price, policy) \in policy.minimum .. policy.maximum
           /\ decision.action \in {"BUY", "SELL"} /\ price > 0
<1>1. PICK x, m : x = (policy.base * decision.confidence) \div 100 /\ m = Min({x, policy.maximum})
  OBVIOUS
<1>2. x \in Int
  <2>1. PICK p : p = policy.base * decision.confidence
    OBVIOUS
  <2>2. p \in Int
    BY <2>1
  <2> QED
    BY <1>1, <2>1, <2>2
<1>3. m \in Int /\ m <= policy.maximum
  BY <1>1, <1>2, MinOfTwo
<1>4. Notional(decision, price, policy) =
        IF \/ decision.action \notin {"BUY", "SELL"} \/ decision.confidence < policy.minConfidence
           \/ price <= 0 \/ m < policy.minimum
        THEN 0 ELSE m
  BY <1>1, Zenon DEF Notional
<1> QED
  BY <1>3, <1>4

-----------------------------------------------------------------------------
(* The decision: what it weighs and what it is explained with. *)

Worth(s) == s.value * s.strength * s.confidence

LEMMA WorthType == ASSUME NEW s \in Signals PROVE Worth(s) \in Int /\ (s.value <= 0 => Worth(s) <= 0) /\ (s.value >= 0 => Worth(s) >= 0)
<1>1. s.value \in Int /\ s.strength \in Nat /\ s.confidence \in Nat
  <2>1. s.value \in Int /\ s.strength \in 0 .. 100 /\ s.confidence \in 0 .. 100
    BY SignalFields
  <2> QED
    BY <2>1
<1>2. \A v \in Int, a, b \in Nat : v * a * b \in Int /\ (v <= 0 => v * a * b <= 0) /\ (v >= 0 => v * a * b >= 0)
  <2> TAKE v \in Int, a \in Nat, b \in Nat
  <2>1. PICK x : x = v * a
    OBVIOUS
  <2>2. x \in Int /\ (v <= 0 => x <= 0) /\ (v >= 0 => x >= 0)
    BY <2>1
  <2>3. x * b \in Int /\ (x <= 0 => x * b <= 0) /\ (x >= 0 => x * b >= 0)
    BY <2>2
  <2> QED
    BY <2>1, <2>2, <2>3
<1> QED
  BY <1>1, <1>2, Zenon DEF Worth

\* The conviction adds the worth of the signals up.
LEMMA NetIs ==
    ASSUME NEW signals \in Seq(Signals)
    PROVE  \E f : /\ DOMAIN f = 1 .. Len(signals) /\ Net(signals) = SumFunctionOnSet(f, 1 .. Len(signals))
                  /\ \A i \in 1 .. Len(signals) : f[i] = Worth(signals[i]) /\ f[i] \in Int
<1>1. PICK f : f = [i \in DOMAIN signals |-> signals[i].value * signals[i].strength * signals[i].confidence]
  OBVIOUS
<1>2. DOMAIN signals = 1 .. Len(signals) /\ \A i \in 1 .. Len(signals) : signals[i] \in Signals
  OBVIOUS
<1>3. DOMAIN f = 1 .. Len(signals)
  BY <1>1, <1>2
<1>4. Net(signals) = SumFunctionOnSet(f, 1 .. Len(signals))
  BY <1>1, <1>3, Zenon DEF Net, SumFunction
<1>5. \A i \in 1 .. Len(signals) : f[i] = Worth(signals[i])
  BY <1>1, <1>2, Zenon DEF Worth
<1>6. \A i \in 1 .. Len(signals) : f[i] \in Int
  BY <1>2, <1>5, WorthType, Zenon
<1> QED
  BY <1>3, <1>4, <1>5, <1>6

\* A conviction upward rests on a bullish signal, one downward on a bearish one.
LEMMA ConvictionHasCause ==
    ASSUME NEW signals \in Seq(Signals)
    PROVE  /\ Net(signals) > 0 => \E i \in 1 .. Len(signals) : signals[i].value > 0
           /\ Net(signals) < 0 => \E i \in 1 .. Len(signals) : signals[i].value < 0
<1>1. PICK f : /\ Net(signals) = SumFunctionOnSet(f, 1 .. Len(signals))
               /\ \A i \in 1 .. Len(signals) : f[i] = Worth(signals[i]) /\ f[i] \in Int
  BY NetIs
<1>2. Len(signals) \in Nat /\ \A i \in 1 .. Len(signals) : signals[i] \in Signals
  OBVIOUS
<1>3. IsFiniteSet(1 .. Len(signals))
  BY <1>2, FS_Interval
<1>4. \A i \in 1 .. Len(signals) : signals[i].value \in Int
  BY <1>2, SignalFields, Zenon
<1>5. /\ Net(signals) \in Int
      /\ (\A i \in 1 .. Len(signals) : f[i] >= 0) => Net(signals) >= 0
      /\ (\A i \in 1 .. Len(signals) : f[i] <= 0) => Net(signals) <= 0
  BY <1>1, <1>3, SumType, Zenon
<1>6. ASSUME \A i \in 1 .. Len(signals) : ~(signals[i].value > 0) PROVE ~(Net(signals) > 0)
  <2>1. \A i \in 1 .. Len(signals) : signals[i].value <= 0
    BY <1>4, <1>6
  <2>2. \A i \in 1 .. Len(signals) : f[i] <= 0
    BY <1>1, <1>2, <2>1, WorthType, Zenon
  <2>3. Net(signals) <= 0
    BY <1>5, <2>2, Zenon
  <2> QED
    BY <1>5, <2>3
<1>7. ASSUME \A i \in 1 .. Len(signals) : ~(signals[i].value < 0) PROVE ~(Net(signals) < 0)
  <2>1. \A i \in 1 .. Len(signals) : signals[i].value >= 0
    BY <1>4, <1>7
  <2>2. \A i \in 1 .. Len(signals) : f[i] >= 0
    BY <1>1, <1>2, <2>1, WorthType, Zenon
  <2>3. Net(signals) >= 0
    BY <1>5, <2>2, Zenon
  <2> QED
    BY <1>5, <2>3
<1> QED
  BY <1>6, <1>7, Zenon

\* When there is a signal in the direction of a trade, the trade is explained
\* with the signals of its direction only.
LEMMA UsedAreOfDirection ==
    ASSUME NEW signals \in Seq(Signals), NEW strategy, NEW risk, NEW portfolio, NEW action,
           action = Action(Net(signals), risk, portfolio)
    PROVE  LET d == decide(strategy, signals, risk, portfolio) IN
           /\ (action = "BUY" /\ Net(signals) > 0) => \A s \in ToSet(d.signal_used) : s.value > 0
           /\ (action = "SELL" /\ Net(signals) < 0) => \A s \in ToSet(d.signal_used) : s.value < 0
<1>1. PICK keep : keep = {s \in ToSet(signals) : /\ action = "BUY" => s.value > 0
                                                 /\ action = "SELL" => s.value < 0}
  OBVIOUS
<1>2. PICK used : used = Filter(signals, keep)
  OBVIOUS
<1>3. PICK d : d = decide(strategy, signals, risk, portfolio)
  OBVIOUS
<1>4. d.signal_used = IF used = <<>> THEN signals ELSE used
  BY <1>1, <1>2, <1>3 DEF decide
<1>5. used \in Seq(Signals)
  BY <1>2, FilterType
<1>6. DOMAIN used = 1 .. Len(used) /\ DOMAIN signals = 1 .. Len(signals) /\ Len(<<>>) = 0
  BY <1>5
<1>7. /\ \A j \in 1 .. Len(used) : used[j] \in keep
      /\ \A i \in 1 .. Len(signals) : signals[i] \in keep => \E j \in 1 .. Len(used) : used[j] = signals[i]
  BY <1>2, FilterKeeps, Zenon
<1>8. ASSUME NEW i \in 1 .. Len(signals), signals[i] \in keep PROVE d.signal_used = used /\ \A s \in ToSet(used) : s \in keep
  <2>1. \E j \in 1 .. Len(used) : used[j] = signals[i]
    BY <1>7, <1>8
  <2>2. used # <<>>
    BY <1>6, <2>1
  <2>3. \A s \in ToSet(used) : s \in keep
    BY <1>6, <1>7, Zenon DEF ToSet
  <2> QED
    BY <1>4, <2>2, <2>3, Zenon
<1>9. \A i \in 1 .. Len(signals) : signals[i] \in ToSet(signals)
  BY <1>6, Zenon DEF ToSet
<1>10. ASSUME action = "BUY", Net(signals) > 0 PROVE \A s \in ToSet(d.signal_used) : s.value > 0
  <2>1. PICK i \in 1 .. Len(signals) : signals[i].value > 0
    BY <1>10, ConvictionHasCause
  <2>2. signals[i] \in keep
    BY <1>1, <1>9, <1>10, <2>1
  <2>3. \A s \in keep : s.value > 0
    BY <1>1, <1>10
  <2> QED
    BY <1>8, <2>2, <2>3, Zenon
<1>11. ASSUME action = "SELL", Net(signals) < 0 PROVE \A s \in ToSet(d.signal_used) : s.value < 0
  <2>1. PICK i \in 1 .. Len(signals) : signals[i].value < 0
    BY <1>11, ConvictionHasCause
  <2>2. signals[i] \in keep
    BY <1>1, <1>9, <1>11, <2>1
  <2>3. \A s \in keep : s.value < 0
    BY <1>1, <1>11
  <2> QED
    BY <1>8, <2>2, <2>3, Zenon
<1> QED
  BY <1>3, <1>10, <1>11, Zenon

\* No trade while risk is halted, and none against the conviction.
LEMMA ActionHasCause ==
    ASSUME NEW net \in Int, NEW risk, risk.halted \in BOOLEAN, risk.budget_available \in Int,
           NEW portfolio, portfolio.exposure \in Int, portfolio.max_exposure \in Int,
           NEW a, a = Action(net, risk, portfolio)
    PROVE  /\ a \in {"WAIT", "BUY", "SELL", "HOLD"}
           /\ a = "BUY" => net > 0 /\ ~risk.halted /\ risk.budget_available > 0 /\ portfolio.exposure < portfolio.max_exposure
           /\ a = "SELL" => net < 0 /\ ~risk.halted
  BY DEF Action, Threshold

\* For every reading and whatever risk and the portfolio say: a BUY is
\* explained with bullish signals only and a SELL with bearish ones, the list
\* never falls back to all the signals; neither is decided while risk is halted,
\* nor a BUY without budget or at the exposure limit (DecisionEngine.decide).
THEOREM TradesAreExplained ==
    ASSUME NEW r \in Reading, NEW risk, risk.halted \in BOOLEAN, risk.budget_available \in Int,
           NEW portfolio, portfolio.exposure \in Int, portfolio.max_exposure \in Int
    PROVE  LET d == runTradingCore(r, risk, portfolio).decision IN
           /\ d.action = "BUY" => /\ \A s \in ToSet(d.signal_used) : s.value > 0
                                  /\ ~risk.halted /\ risk.budget_available > 0
                                  /\ portfolio.exposure < portfolio.max_exposure
           /\ d.action = "SELL" => (\A s \in ToSet(d.signal_used) : s.value < 0) /\ ~risk.halted
<1>1. PICK signals, strategy : signals = generate(r) /\ strategy = select(signals)
  OBVIOUS
<1>2. signals \in Seq(Signals)
  BY <1>1, GeneratedType
<1>3. PICK d : d = runTradingCore(r, risk, portfolio).decision
  OBVIOUS
<1>4. d = IF signals = <<>> THEN NoDecision ELSE decide(strategy, signals, risk, portfolio)
  BY <1>1, <1>3 DEF runTradingCore
<1>5. CASE signals = <<>>
  <2>1. d.action = "NONE"
    BY <1>4, <1>5 DEF NoDecision
  <2> QED
    BY <1>3, <2>1
<1>6. CASE signals # <<>>
  <2>1. d = decide(strategy, signals, risk, portfolio)
    BY <1>4, <1>6
  <2>2. PICK net, a : net = Net(signals) /\ a = Action(net, risk, portfolio)
    OBVIOUS
  <2>3. d.action = a
    BY <2>1, <2>2 DEF decide
  <2>4. net \in Int
    BY <1>2, <2>2, NetType
  <2>5. /\ a = "BUY" => net > 0 /\ ~risk.halted /\ risk.budget_available > 0 /\ portfolio.exposure < portfolio.max_exposure
        /\ a = "SELL" => net < 0 /\ ~risk.halted
    BY <2>2, <2>4, ActionHasCause
  <2>6. /\ (a = "BUY" /\ net > 0) => \A s \in ToSet(d.signal_used) : s.value > 0
        /\ (a = "SELL" /\ net < 0) => \A s \in ToSet(d.signal_used) : s.value < 0
    BY <1>2, <2>1, <2>2, UsedAreOfDirection, Zenon
  <2> QED
    BY <1>3, <2>3, <2>5, <2>6, Zenon
<1> QED
  BY <1>5, <1>6

\* For every reading: the strategy a decision names has the highest score of
\* all, it is one of those selected, and there is a decision, and an event that
\* says so, exactly when there is a signal (StrategyEngine.select,
\* TradingCore.run).
THEOREM StrategyIsBest ==
    ASSUME NEW r \in Reading, NEW risk, risk.halted \in BOOLEAN, risk.budget_available \in Int,
           NEW portfolio, portfolio.exposure \in Int, portfolio.max_exposure \in Int
    PROVE  LET out == runTradingCore(r, risk, portfolio) IN
           /\ \A s \in ToSet(Strategies) : Score(s, out.signals) <= Score(out.strategy.active, out.signals)
           /\ out.strategy.active \in out.strategy.selected
           /\ out.decision # NoDecision => out.decision.strategy_used = out.strategy.active
           /\ (out.decision # NoDecision) <=> (out.signals # <<>>)
           /\ ("Decision.created" \in ToSet(out.events)) <=> (out.signals # <<>>)
<1>1. PICK signals, strategy : signals = generate(r) /\ strategy = select(signals)
  OBVIOUS
<1>2. signals \in Seq(Signals)
  BY <1>1, GeneratedType
<1>3. PICK out : out = runTradingCore(r, risk, portfolio)
  OBVIOUS
<1>4. /\ out.signals = signals /\ out.strategy = strategy
      /\ out.decision = IF signals = <<>> THEN NoDecision ELSE decide(strategy, signals, risk, portfolio)
      /\ out.events = <<"Signal.created", "Strategy.selected">> \o IF signals = <<>> THEN <<>> ELSE <<"Decision.created">>
  BY <1>1, <1>3 DEF runTradingCore
<1>5. PICK best : best = Active(signals)
  OBVIOUS
<1>6. strategy.active = best /\ best \in ToSet(Strategies) /\ \A s \in ToSet(Strategies) : Score(s, signals) <= Score(best, signals)
  BY <1>1, <1>2, <1>5, ActiveIsBest, SelectType, Zenon
<1>7. best \in strategy.selected
  <2>1. PICK positive : positive = {s \in ToSet(Strategies) : Score(s, signals) > 0}
    OBVIOUS
  <2>2. strategy.selected = IF positive = {} THEN {best} ELSE positive
    BY <1>1, <1>5, <2>1 DEF select
  <2>3. ASSUME NEW s \in positive PROVE best \in positive
    <3>1. Score(s, signals) > 0 /\ Score(s, signals) <= Score(best, signals) /\ s \in ToSet(Strategies)
      BY <1>6, <2>1
    <3>2. Score(s, signals) \in Nat /\ Score(best, signals) \in Nat
      BY <1>2, <1>6, <3>1, ScoreType
    <3>3. Score(best, signals) > 0
      <4> HIDE DEF Score
      <4> QED
        BY <3>1, <3>2
    <3> QED
      BY <1>6, <2>1, <3>3
  <2> QED
    BY <2>2, <2>3
<1>8. ASSUME signals # <<>> PROVE out.decision # NoDecision /\ out.decision.strategy_used = best
  <2>1. PICK d : d = decide(strategy, signals, risk, portfolio)
    OBVIOUS
  <2>2. PICK net, a : net = Net(signals) /\ a = Action(net, risk, portfolio)
    OBVIOUS
  <2>3. d.action = a /\ d.strategy_used = strategy.active
    BY <2>1, <2>2 DEF decide
  <2>4. net \in Int
    BY <1>2, <2>2, NetType
  <2>5. a \in {"WAIT", "BUY", "SELL", "HOLD"}
    BY <2>2, <2>4, ActionHasCause
  <2>6. NoDecision.action = "NONE"
    BY DEF NoDecision
  <2>7. d # NoDecision
    BY <2>3, <2>5, <2>6
  <2> QED
    BY <1>4, <1>6, <1>8, <2>1, <2>3, <2>7, Zenon
<1>9. ("Decision.created" \in ToSet(out.events)) <=> (signals # <<>>)
  <2>0. PICK a, b, c : a = "Signal.created" /\ b = "Strategy.selected" /\ c = "Decision.created"
    OBVIOUS
  <2>1. PICK two : two = <<a, b>>
    OBVIOUS
  <2>a. a # c /\ b # c
    BY <2>0
  <2>2. two \in Seq({a, b, c}) /\ Len(two) = 2 /\ DOMAIN two = {1, 2} /\ two[1] = a /\ two[2] = b
    <3>1. two \in Seq({a, b, c}) /\ Len(two) = 2 /\ two[1] = a /\ two[2] = b
      BY <2>1
    <3>2. DOMAIN two = 1 .. 2
      BY <3>1
    <3>3. 1 .. 2 = {1, 2}
      OBVIOUS
    <3> QED
      BY <3>1, <3>2, <3>3, Zenon
  <2>3. two \o <<c>> = Append(two, c) /\ two \o <<>> = two
    BY <2>2, ConcatOne
  <2>4. PICK more : more = Append(two, c)
    OBVIOUS
  <2>5. 3 \in DOMAIN more /\ more[3] = c
    <3>1. PICK S : S = {a, b, c}
      OBVIOUS
    <3>2. c \in S /\ two \in Seq(S) /\ Len(two) = 2
      BY <2>2, <3>1
    <3>3. more \in Seq(S) /\ Len(more) = Len(two) + 1 /\ more[Len(two) + 1] = c
      BY <2>4, <3>2
    <3>4. DOMAIN more = 1 .. Len(more) /\ Len(two) + 1 = 3
      BY <3>2, <3>3
    <3> QED
      BY <3>3, <3>4
  <2>6. c \in ToSet(more)
    BY <2>5 DEF ToSet
  <2>7. c \notin ToSet(two)
    BY <2>a, <2>2 DEF ToSet
  <2>8. out.events = IF signals = <<>> THEN two ELSE more
    BY <1>4, <2>0, <2>1, <2>3, <2>4, Zenon
  <2> QED
    BY <2>0, <2>6, <2>7, <2>8, Zenon
<1> QED
  BY <1>3, <1>4, <1>6, <1>7, <1>8, <1>9, Zenon

-----------------------------------------------------------------------------
(* The conviction: what it adds up, and that it follows the evidence. *)

\* One more signal adds its worth.
LEMMA NetAppend ==
    ASSUME NEW s \in Seq(Signals), NEW x \in Signals
    PROVE  Net(Append(s, x)) = Net(s) + Worth(x)
<1>1. PICK t, n : t = Append(s, x) /\ n = Len(s)
  OBVIOUS
<1>2. /\ t \in Seq(Signals) /\ n \in Nat /\ Len(t) = n + 1 /\ Len(s) = n
      /\ \A i \in 1 .. n : t[i] = s[i] /\ t[n + 1] = x
  BY <1>1
<1>x. t[n + 1] = x
  BY <1>1
<1>3. PICK f : /\ Net(s) = SumFunctionOnSet(f, 1 .. n)
               /\ \A i \in 1 .. n : f[i] = Worth(s[i]) /\ f[i] \in Int
  BY <1>2, NetIs
<1>4. PICK g : /\ Net(t) = SumFunctionOnSet(g, 1 .. Len(t))
               /\ \A i \in 1 .. Len(t) : g[i] = Worth(t[i]) /\ g[i] \in Int
  BY <1>2, NetIs
<1>5. 1 .. Len(t) = (1 .. n) \cup {n + 1} /\ n + 1 \notin 1 .. n /\ IsFiniteSet(1 .. n)
  <2>1. 1 .. n + 1 = (1 .. n) \cup {n + 1} /\ n + 1 \notin 1 .. n
    BY <1>2
  <2>2. IsFiniteSet(1 .. n)
    BY <1>2, FS_Interval
  <2> QED
    BY <1>2, <2>1, <2>2, Zenon
<1>6. \A i \in (1 .. n) \cup {n + 1} : g[i] = Worth(t[i]) /\ g[i] \in Int
  BY <1>4, <1>5, Zenon
<1>7. \A i \in 1 .. n : f[i] = g[i]
  BY <1>2, <1>3, <1>6, Zenon
<1>8. SumFunctionOnSet(f, 1 .. n) = SumFunctionOnSet(g, 1 .. n)
  BY <1>5, <1>7, SumAgrees, Zenon
<1>9. SumFunctionOnSet(g, (1 .. n) \cup {n + 1}) = g[n + 1] + SumFunctionOnSet(g, 1 .. n)
  BY <1>5, <1>6, SumAdd, Zenon
<1>10. g[n + 1] = Worth(x) /\ Worth(x) \in Int /\ Net(s) \in Int
  BY <1>x, <1>6, WorthType, NetType, Zenon
<1>11. Net(t) = Worth(x) + Net(s)
  BY <1>3, <1>4, <1>5, <1>8, <1>9, <1>10, Zenon
<1> QED
  BY <1>1, <1>10, <1>11

LEMMA NetEmpty == Net(<<>>) = 0
<1>1. PICK s : s = <<>>
  OBVIOUS
<1>2. s \in Seq(Signals) /\ 1 .. Len(s) = {}
  BY <1>1
<1>3. PICK f : Net(s) = SumFunctionOnSet(f, 1 .. Len(s))
  BY <1>2, NetIs
<1>4. Net(s) = 0
  BY <1>2, <1>3, SumEmpty, Zenon
<1> QED
  BY <1>1, <1>4, Zenon

\* The conviction of two lists together is the sum of theirs.
LEMMA NetConcat ==
    ASSUME NEW s \in Seq(Signals), NEW t \in Seq(Signals)
    PROVE  Net(s \o t) = Net(s) + Net(t) /\ s \o t \in Seq(Signals)
<1> DEFINE P(u) == Net(s \o u) = Net(s) + Net(u)
           T == {n \in Nat : \A u \in Seq(Signals) : Len(u) = n => P(u)}
<1>1. 0 \in T
  <2>1. \A u \in Seq(Signals) : Len(u) = 0 => u = <<>>
    OBVIOUS
  <2>2. s \o <<>> = s
    OBVIOUS
  <2>3. Net(s) \in Int
    BY NetType
  <2>4. P(<<>>)
    BY <2>2, <2>3, NetEmpty
  <2> HIDE DEF P
  <2> QED
    BY <2>1, <2>4
<1>2. ASSUME NEW n \in Nat, n \in T PROVE n + 1 \in T
  <2> SUFFICES ASSUME NEW u \in Seq(Signals), Len(u) = n + 1 PROVE P(u)
    OBVIOUS
  <2>1. PICK v, x : v = SubSeq(u, 1, n) /\ x = u[n + 1]
    OBVIOUS
  <2>2. /\ v \in Seq(Signals) /\ Len(v) = n /\ x \in Signals
        /\ \A i \in 1 .. n : v[i] = u[i]
    BY <2>1
  <2>3. PICK w : w = Append(v, x)
    OBVIOUS
  <2>4. w \in Seq(Signals) /\ Len(w) = Len(u) /\ \A i \in 1 .. Len(u) : w[i] = u[i]
    BY <2>1, <2>2, <2>3
  <2>5. w = u
    BY <2>4, SameElements, Zenon
  <2>6. PICK c, d : c = s \o v /\ d = s \o w
    OBVIOUS
  <2>7. /\ c \in Seq(Signals) /\ Len(s) \in Nat /\ Len(c) = Len(s) + n
        /\ \A i \in 1 .. Len(s) : c[i] = s[i]
        /\ \A i \in 1 .. n : c[Len(s) + i] = v[i]
    <3>1. /\ s \o v \in Seq(Signals) /\ Len(s) \in Nat /\ Len(v) \in Nat /\ Len(s \o v) = Len(s) + Len(v)
          /\ \A i \in 1 .. Len(s) : (s \o v)[i] = s[i]
          /\ \A i \in 1 .. Len(v) : (s \o v)[Len(s) + i] = v[i]
      <4>1. v \in Seq(Signals)
        BY <2>2
      <4> QED
        BY <4>1, ConcatFacts
    <3> QED
      BY <2>2, <2>6, <3>1, Zenon
  <2>w. w \in Seq(Signals)
    BY <2>4
  <2>8. /\ d \in Seq(Signals) /\ Len(d) = Len(s) + Len(w)
        /\ \A i \in 1 .. Len(s) : d[i] = s[i]
        /\ \A i \in 1 .. Len(w) : d[Len(s) + i] = w[i]
    <3>1. /\ s \o w \in Seq(Signals) /\ Len(s) \in Nat /\ Len(w) \in Nat /\ Len(s \o w) = Len(s) + Len(w)
          /\ \A i \in 1 .. Len(s) : (s \o w)[i] = s[i]
          /\ \A i \in 1 .. Len(w) : (s \o w)[Len(s) + i] = w[i]
      BY <2>w, ConcatFacts
    <3> QED
      BY <2>6, <3>1, Zenon
  <2>9. PICK e : e = Append(c, x)
    OBVIOUS
  <2>10. /\ e \in Seq(Signals) /\ Len(e) = Len(c) + 1 /\ e[Len(c) + 1] = x /\ \A i \in 1 .. Len(c) : e[i] = c[i]
    <3>1. c \in Seq(Signals) /\ x \in Signals
      BY <2>2, <2>7, Zenon
    <3> QED
      BY <2>9, <3>1
  <2>11. Len(e) = Len(d)
    BY <2>4, <2>7, <2>8, <2>10
  <2>12. \A i \in 1 .. Len(e) : e[i] = d[i]
    <3> TAKE i \in 1 .. Len(e)
    <3>1. CASE i <= Len(s)
      <4>1. i \in 1 .. Len(s) /\ i \in 1 .. Len(c)
        <5>1. Len(s) \in Nat /\ Len(c) = Len(s) + n /\ i \in Int /\ 1 <= i
          BY <2>7
        <5> QED
          BY <3>1, <5>1
      <4>2. e[i] = c[i]
        BY <2>10, <4>1, Zenon
      <4>3. c[i] = s[i]
        BY <2>7, <4>1, Zenon
      <4>4. d[i] = s[i]
        BY <2>8, <4>1, Zenon
      <4> QED
        BY <4>2, <4>3, <4>4, Zenon
    <3>2. CASE i > Len(s)
      <4>1. PICK k \in 1 .. n + 1 : i = Len(s) + k
        <5>1. i - Len(s) \in 1 .. n + 1 /\ i = Len(s) + (i - Len(s))
          BY <2>7, <2>10, <3>2
        <5> QED
          BY <5>1, Zenon
      <4>2. d[i] = w[k]
        BY <2>4, <2>8, <4>1
      <4>3. CASE k <= n
        <5>1. e[i] = c[i] /\ c[i] = v[k]
          BY <2>7, <2>10, <4>1, <4>3
        <5>2. v[k] = w[k]
          BY <2>2, <2>4, <4>3
        <5> QED
          BY <4>2, <5>1, <5>2
      <4>4. CASE k = n + 1
        BY <2>1, <2>4, <2>7, <2>10, <4>1, <4>2, <4>4
      <4> QED
        BY <4>3, <4>4
    <3> QED
      BY <2>7, <3>1, <3>2
  <2>13. e = d
    BY <2>8, <2>10, <2>11, <2>12, SameElements, Zenon
  <2>14. P(v)
    BY <1>2, <2>2
  <2>15. Net(e) = Net(c) + Worth(x) /\ Net(w) = Net(v) + Worth(x)
    BY <2>2, <2>3, <2>7, <2>9, NetAppend
  <2>16. Net(s) \in Int /\ Net(v) \in Int /\ Worth(x) \in Int
    BY <2>2, NetType, WorthType
  <2>17. Net(c) = Net(s) + Net(v)
    BY <2>6, <2>14
  <2>18. Net(d) = Net(s) + Net(w)
    BY <2>13, <2>15, <2>16, <2>17
  <2> QED
    BY <2>5, <2>6, <2>18, Zenon
<1> HIDE DEF T
<1>3. \A n \in Nat : n \in T
  BY <1>1, <1>2, SetInduction
<1>4. Len(t) \in Nat
  OBVIOUS
<1>5. P(t)
  BY <1>3, <1>4 DEF T
<1> QED
  BY <1>5, ConcatType

Power(s, f) == Clamp(s) * Clamp(f)

LEMMA PowerType == \A s, f \in Int : Power(s, f) \in Nat /\ (s <= 0 => Power(s, f) = 0) /\ Power(s, f) <= 10000
<1> TAKE s, f \in Int
<1>1. PICK a, c : a = Clamp(s) /\ c = Clamp(f)
  OBVIOUS
<1>2. a \in 0 .. 100 /\ c \in 0 .. 100 /\ (s <= 0 => a = 0)
  BY <1>1 DEF Clamp
<1>3. a * c \in Nat /\ a * c <= 100 * c /\ (a = 0 => a * c = 0)
  BY <1>2
<1>4. PICK p : p = a * c
  OBVIOUS
<1>5. p \in Nat /\ (s <= 0 => p = 0) /\ p <= 10000
  BY <1>2, <1>3, <1>4
<1>6. Power(s, f) = p
  BY <1>1, <1>4, Zenon DEF Power
<1> QED
  BY <1>5, <1>6

LEMMA PowerGrows == \A s, t, f, g \in Int : s <= t /\ f <= g => Power(s, f) <= Power(t, g)
<1> SUFFICES ASSUME NEW s \in Int, NEW t \in Int, NEW f \in Int, NEW g \in Int, s <= t, f <= g
             PROVE  Power(s, f) <= Power(t, g)
  BY Zenon
<1>1. PICK a, b, c, d : a = Clamp(s) /\ b = Clamp(t) /\ c = Clamp(f) /\ d = Clamp(g)
  OBVIOUS
<1>2. a \in 0 .. 100 /\ b \in 0 .. 100 /\ c \in 0 .. 100 /\ d \in 0 .. 100 /\ a <= b /\ c <= d
  BY <1>1 DEF Clamp
<1>3. PICK p, q, m : p = a * c /\ q = b * d /\ m = b * c
  OBVIOUS
<1>4. p \in Int /\ q \in Int /\ m \in Int
  BY <1>2, <1>3
<1>5. a * c <= b * c /\ b * c <= b * d
  BY <1>2
<1>6. p <= q
  BY <1>3, <1>4, <1>5
<1>7. Power(s, f) = p /\ Power(t, g) = q
  BY <1>1, <1>3, Zenon DEF Power
<1> QED
  BY <1>6, <1>7

\* These signals weigh w together.
Weighs(signals, w) == signals \in Seq(Signals) /\ Net(signals) = w

LEMMA NetWhen ==
    ASSUME NEW c, NEW name \in SignalNames, NEW v \in Int, NEW s \in Int, NEW f \in Int
    PROVE  Weighs(When(c, Signal(name, v, s, f)), IF c THEN v * Power(s, f) ELSE 0)
<1>1. PICK x : x = Signal(name, v, s, f)
  OBVIOUS
<1>2. Clamp(s) \in 0 .. 100 /\ Clamp(f) \in 0 .. 100
  BY ClampType
<1>3. x \in Signals
  BY <1>1, <1>2 DEF Signal, Signals
<1>4. Worth(x) = v * Clamp(s) * Clamp(f)
  BY <1>1, Zenon DEF Worth, Signal
<1>5. \A p, q \in 0 .. 100 : v * p * q = v * (p * q)
  OBVIOUS
<1>6. Worth(x) = v * Power(s, f)
  BY <1>2, <1>4, <1>5, Zenon DEF Power
<1>7. PICK e : e = <<>>
  OBVIOUS
<1>8. e \in Seq(Signals) /\ Append(e, x) = <<x>>
  BY <1>7
<1>11. Net(<<x>>) = Net(e) + Worth(x)
  BY <1>3, <1>8, NetAppend, Zenon
<1>12. Net(e) = 0 /\ Worth(x) \in Int
  BY <1>3, <1>7, NetEmpty, WorthType, Zenon
<1>13. Net(<<x>>) = Worth(x)
  BY <1>11, <1>12
<1>9. c => When(c, x) = <<x>>
  BY Zenon DEF When
<1>10. ~c => When(c, x) = <<>>
  BY Zenon DEF When
<1> QED
  <2>1. Net(When(c, x)) = IF c THEN v * Power(s, f) ELSE 0
    BY <1>6, <1>9, <1>10, <1>13, NetEmpty, Zenon
  <2>2. When(c, x) \in Seq(Signals)
    BY <1>1, WhenType, Zenon
  <2> QED
    BY <1>1, <2>1, <2>2, Zenon DEF Weighs

LEMMA PowerNat == \A s, f \in Int : Power(s, f) \in Nat
<1> TAKE s, f \in Int
<1> QED
  BY PowerType

LEMMA PowerBound == \A s, f \in Int : Power(s, f) <= 10000
<1> TAKE s, f \in Int
<1> QED
  BY PowerType

LEMMA NetUp ==
    ASSUME NEW c, NEW name \in SignalNames, NEW s \in Int, NEW f \in Int
    PROVE  Weighs(When(c, Signal(name, 1, s, f)), IF c THEN Power(s, f) ELSE 0)
<1>1. PICK v : v = 1
  OBVIOUS
<1>2. v \in Int /\ Power(s, f) \in Nat
  BY <1>1, PowerNat
<1>3. v * Power(s, f) = Power(s, f)
  BY <1>1, <1>2
<1>4. Weighs(When(c, Signal(name, v, s, f)), IF c THEN v * Power(s, f) ELSE 0)
  BY <1>2, NetWhen, Zenon
<1> QED
  BY <1>1, <1>3, <1>4, Zenon

LEMMA NetDown ==
    ASSUME NEW c, NEW name \in SignalNames, NEW s \in Int, NEW f \in Int
    PROVE  Weighs(When(c, Signal(name, -1, s, f)), IF c THEN -Power(s, f) ELSE 0)
<1>1. PICK v : v = -1
  OBVIOUS
<1>2. v \in Int /\ Power(s, f) \in Nat
  BY <1>1, PowerNat
<1>3. v * Power(s, f) = -Power(s, f)
  BY <1>1, <1>2
<1>4. Weighs(When(c, Signal(name, v, s, f)), IF c THEN v * Power(s, f) ELSE 0)
  BY <1>2, NetWhen, Zenon
<1> QED
  BY <1>1, <1>3, <1>4, Zenon

LEMMA WeighBoth ==
    ASSUME NEW a, NEW p, Weighs(a, p), NEW b, NEW q, Weighs(b, q)
    PROVE  Weighs(a \o b, p + q)
<1>1. Net(a \o b) = Net(a) + Net(b) /\ a \o b \in Seq(Signals)
  BY NetConcat DEF Weighs
<1> QED
  BY <1>1, Zenon DEF Weighs


LEMMA PowerIs ==
    ASSUME NEW s \in Int, NEW t \in Int, s <= t, NEW f \in Int, NEW g \in Int, f <= g
    PROVE  Power(s, f) \in Nat /\ Power(t, g) \in Nat /\ Power(s, f) <= Power(t, g)
<1>1. Power(s, f) \in Nat /\ Power(t, g) \in Nat
  BY PowerNat, Zenon
<1>2. Power(s, f) <= Power(t, g)
  BY PowerGrows, Zenon
<1> QED
  BY <1>1, <1>2

LEMMA SignedGrows ==
    ASSUME NEW x \in Int, NEW y \in Int, x <= y, NEW p \in Nat, NEW q \in Nat, x >= 0 => p <= q, y <= 0 => q <= p
    PROVE  Sign(x) * p <= Sign(y) * q
  BY DEF Sign

LEMMA ReadingFields ==
    ASSUME NEW r \in Reading
    PROVE  /\ r.n \in Nat /\ r.ema \in Int /\ r.macd \in Int /\ r.rsi \in Int /\ r.band \in Int /\ r.volume \in Int
           /\ r.volatility \in Int /\ r.slope \in Int /\ r.bid \in Nat /\ r.ask \in Nat
  BY DEF Reading

LEMMA SignedPower ==
    ASSUME NEW x \in Int, NEW y \in Int, x <= y, NEW k \in Int
    PROVE  Sign(x) * Power(Magnitude(x), k + Magnitude(x)) <= Sign(y) * Power(Magnitude(y), k + Magnitude(y))
<1>1. PICK m, n : m = Magnitude(x) /\ n = Magnitude(y)
  OBVIOUS
<1>2. m \in Int /\ n \in Int /\ (x >= 0 => m <= n) /\ (y <= 0 => n <= m)
  BY <1>1 DEF Magnitude
<1>3. PICK p, q : p = Power(m, k + m) /\ q = Power(n, k + n)
  OBVIOUS
<1>a. k + m \in Int /\ k + n \in Int /\ (m <= n => k + m <= k + n) /\ (n <= m => k + n <= k + m)
  BY <1>2
<1>4. p \in Nat /\ q \in Nat
  BY <1>2, <1>a, <1>3, PowerNat, Zenon
<1>5. m <= n => p <= q
  BY <1>2, <1>a, <1>3, PowerGrows, Zenon
<1>6. n <= m => q <= p
  BY <1>2, <1>a, <1>3, PowerGrows, Zenon
<1>7. Sign(x) * p <= Sign(y) * q
  BY <1>2, <1>4, <1>5, <1>6, SignedGrows
<1> QED
  BY <1>1, <1>3, <1>7

LEMMA EmaGrows ==
    ASSUME NEW r \in Reading, NEW b \in Reading, AtLeastAsBullish(b, r)
    PROVE  Net(EmaSignal(r)) <= Net(EmaSignal(b))
<1> DEFINE worth(x) == Sign(x) * Power(Magnitude(x), 50 + Magnitude(x))
<1>1. \A x \in Int : Sign(x) \in Int /\ Magnitude(x) \in Int /\ 50 + Magnitude(x) \in Int
  BY DEF Sign, Magnitude
<1>2. "EMA_CROSS" \in SignalNames
  BY DEF SignalNames
<1>3. ASSUME NEW q \in Reading PROVE Weighs(EmaSignal(q), IF q.n >= 21 THEN worth(q.ema) ELSE 0)
  <2>1. q.ema \in Int /\ (q.n >= 21) \in BOOLEAN
    BY ReadingFields
  <2> QED
    BY <1>1, <1>2, <2>1, NetWhen, Zenon DEF EmaSignal
<1>4. worth(r.ema) <= worth(b.ema)
  BY ReadingFields, SignedPower DEF AtLeastAsBullish
<1> HIDE DEF worth
<1>5. r.n = b.n
  BY DEF AtLeastAsBullish
<1> QED
  BY <1>3, <1>4, <1>5 DEF Weighs

LEMMA MacdGrows ==
    ASSUME NEW r \in Reading, NEW b \in Reading, AtLeastAsBullish(b, r)
    PROVE  Net(MacdSignal(r)) <= Net(MacdSignal(b))
<1> DEFINE name(x) == IF x >= 0 THEN "MACD_BULLISH" ELSE "MACD_BEARISH"
           dir(x) == IF x >= 0 THEN 1 ELSE -1
           worth(x) == dir(x) * Power(Magnitude(x), 55 + Magnitude(x))
<1>1. \A x \in Int : dir(x) \in Int /\ Magnitude(x) \in Int /\ 55 + Magnitude(x) \in Int /\ name(x) \in SignalNames
  BY DEF Magnitude, SignalNames
<1>2. ASSUME NEW q \in Reading PROVE Weighs(MacdSignal(q), IF q.n >= 26 THEN worth(q.macd) ELSE 0)
  <2>1. q.macd \in Int /\ (q.n >= 26) \in BOOLEAN
    BY ReadingFields
  <2>2. MacdSignal(q) = When(q.n >= 26, Signal(name(q.macd), dir(q.macd), Magnitude(q.macd), 55 + Magnitude(q.macd)))
    BY Zenon DEF MacdSignal
  <2>3. PICK c, a, d, m, f : /\ c = (q.n >= 26) /\ a = name(q.macd) /\ d = dir(q.macd)
                             /\ m = Magnitude(q.macd) /\ f = 55 + Magnitude(q.macd)
    OBVIOUS
  <2>4. a \in SignalNames /\ d \in Int /\ m \in Int /\ f \in Int
    BY <1>1, <2>1, <2>3, Zenon
  <2>5. Weighs(When(c, Signal(a, d, m, f)), IF c THEN d * Power(m, f) ELSE 0)
    BY <2>4, NetWhen, Zenon
  <2>6. MacdSignal(q) = When(c, Signal(a, d, m, f))
    BY <2>2, <2>3, Zenon
  <2>7. worth(q.macd) = d * Power(m, f)
    BY <2>3, Zenon
  <2> HIDE DEF worth
  <2> QED
    BY <2>3, <2>5, <2>6, <2>7, Zenon
<1>3. ASSUME NEW x \in Int PROVE worth(x) = Sign(x) * Power(Magnitude(x), 55 + Magnitude(x))
  <2>1. PICK p : p = Power(Magnitude(x), 55 + Magnitude(x))
    OBVIOUS
  <2>2. Magnitude(x) \in Int /\ (x = 0 => Magnitude(x) = 0)
    BY DEF Magnitude
  <2>3. p \in Nat /\ (x = 0 => p = 0)
    <3>1. PICK m : m = Magnitude(x)
      OBVIOUS
    <3>2. m \in Int /\ 55 + m \in Int /\ (x = 0 => m <= 0)
      BY <2>2, <3>1
    <3>3. Power(m, 55 + m) \in Nat /\ (m <= 0 => Power(m, 55 + m) = 0)
      BY <3>2, PowerType
    <3>4. p = Power(m, 55 + m)
      BY <2>1, <3>1, Zenon
    <3> QED
      BY <3>2, <3>3, <3>4, Zenon
  <2>4. dir(x) * p = Sign(x) * p
    BY <2>3 DEF Sign
  <2> QED
    BY <2>1, <2>4
<1>4. worth(r.macd) <= worth(b.macd)
  <2>1. r.macd \in Int /\ b.macd \in Int /\ r.macd <= b.macd
    BY ReadingFields DEF AtLeastAsBullish
  <2>2. Sign(r.macd) * Power(Magnitude(r.macd), 55 + Magnitude(r.macd))
          <= Sign(b.macd) * Power(Magnitude(b.macd), 55 + Magnitude(b.macd))
    BY <2>1, SignedPower
  <2> HIDE DEF worth
  <2> QED
    BY <1>3, <2>1, <2>2
<1> HIDE DEF worth
<1>5. r.n = b.n
  BY DEF AtLeastAsBullish
<1> QED
  BY <1>2, <1>4, <1>5 DEF Weighs

LEMMA RsiGrows ==
    ASSUME NEW r \in Reading, NEW b \in Reading, AtLeastAsBullish(b, r)
    PROVE  Net(RsiSignal(r)) <= Net(RsiSignal(b))
<1> DEFINE low(x) == Power(((30 - x) * 100) \div 30, 60 + ((30 - x) * 100) \div 60)
           high(x) == Power(((x - 70) * 100) \div 30, 60 + ((x - 70) * 100) \div 60)
           worth(n, x) == (IF n >= 15 /\ x < 30 THEN low(x) ELSE 0) + (IF n >= 15 /\ x > 70 THEN -high(x) ELSE 0)
<1>1. \A x \in Int : /\ ((30 - x) * 100) \div 30 \in Int /\ 60 + ((30 - x) * 100) \div 60 \in Int
                     /\ ((x - 70) * 100) \div 30 \in Int /\ 60 + ((x - 70) * 100) \div 60 \in Int
  OBVIOUS
<1>2. "RSI_OVERSOLD" \in SignalNames /\ "RSI_OVERBOUGHT" \in SignalNames
  BY DEF SignalNames
<1>3. ASSUME NEW q \in Reading PROVE Weighs(RsiSignal(q), worth(q.n, q.rsi))
  <2>1. q.rsi \in Int
    BY ReadingFields
  <2>2. Weighs(When(q.n >= 15 /\ q.rsi < 30, Signal("RSI_OVERSOLD", 1, ((30 - q.rsi) * 100) \div 30,
                                                     60 + ((30 - q.rsi) * 100) \div 60)),
               IF q.n >= 15 /\ q.rsi < 30 THEN low(q.rsi) ELSE 0)
    BY <1>1, <1>2, <2>1, NetUp, ZenonT(40)
  <2>3. Weighs(When(q.n >= 15 /\ q.rsi > 70, Signal("RSI_OVERBOUGHT", -1, ((q.rsi - 70) * 100) \div 30,
                                                     60 + ((q.rsi - 70) * 100) \div 60)),
               IF q.n >= 15 /\ q.rsi > 70 THEN -high(q.rsi) ELSE 0)
    BY <1>1, <1>2, <2>1, NetDown, ZenonT(40)
  <2> HIDE DEF low, high
  <2>4. PICK l, h, u, v : /\ l = When(q.n >= 15 /\ q.rsi < 30, Signal("RSI_OVERSOLD", 1, ((30 - q.rsi) * 100) \div 30,
                                                                     60 + ((30 - q.rsi) * 100) \div 60))
                          /\ h = When(q.n >= 15 /\ q.rsi > 70, Signal("RSI_OVERBOUGHT", -1, ((q.rsi - 70) * 100) \div 30,
                                                                     60 + ((q.rsi - 70) * 100) \div 60))
                          /\ u = (IF q.n >= 15 /\ q.rsi < 30 THEN low(q.rsi) ELSE 0)
                          /\ v = (IF q.n >= 15 /\ q.rsi > 70 THEN -high(q.rsi) ELSE 0)
    OBVIOUS
  <2>5. Weighs(l, u) /\ Weighs(h, v)
    BY <2>2, <2>3, <2>4, Zenon
  <2>6. Weighs(l \o h, u + v)
    BY <2>5, WeighBoth, Zenon
  <2>7. RsiSignal(q) = l \o h
    BY <2>4, Zenon DEF RsiSignal
  <2> QED
    BY <2>4, <2>6, <2>7, Zenon
<1>4. ASSUME NEW x \in Int, NEW y \in Int, y <= x
      PROVE  low(x) \in Nat /\ low(y) \in Nat /\ low(x) <= low(y) /\ high(x) \in Nat /\ high(y) \in Nat /\ high(y) <= high(x)
  <2>1. /\ ((30 - x) * 100) \div 30 <= ((30 - y) * 100) \div 30 /\ ((y - 70) * 100) \div 30 <= ((x - 70) * 100) \div 30
    BY <1>4
  <2>2. /\ 60 + ((30 - x) * 100) \div 60 <= 60 + ((30 - y) * 100) \div 60
        /\ 60 + ((y - 70) * 100) \div 60 <= 60 + ((x - 70) * 100) \div 60
    BY <1>4
  <2>3. \A k \in 0 .. 10000 : k \in Nat
    OBVIOUS
  <2>4. low(x) \in Nat /\ low(y) \in Nat /\ low(x) <= low(y)
    BY <1>1, <2>1, <2>2, PowerIs, Zenon
  <2>5. high(y) \in Nat /\ high(x) \in Nat /\ high(y) <= high(x)
    BY <1>1, <2>1, <2>2, PowerIs, Zenon
  <2> HIDE DEF low, high
  <2> QED
    BY <2>4, <2>5, Zenon
<1> HIDE DEF low, high
<1>5. r.n = b.n /\ r.n \in Nat /\ b.rsi \in Int /\ r.rsi \in Int /\ b.rsi <= r.rsi
  BY ReadingFields DEF AtLeastAsBullish
<1>6. worth(r.n, r.rsi) <= worth(b.n, b.rsi)
  BY <1>4, <1>5, SMTT(30)
<1> QED
  BY <1>3, <1>6, Zenon DEF Weighs

LEMMA BandGrows ==
    ASSUME NEW r \in Reading, NEW b \in Reading, AtLeastAsBullish(b, r)
    PROVE  Net(BandSignal(r)) <= Net(BandSignal(b))
<1> DEFINE power(x) == Power(Magnitude(x), 60)
           worth(x) == Sign(x) * power(x)
<1>1. \A x \in Int : Sign(x) \in Int /\ Magnitude(x) \in Int /\ 60 \in Int
  BY DEF Sign, Magnitude
<1>2. "BB_BREAKOUT" \in SignalNames
  BY DEF SignalNames
<1>3. ASSUME NEW q \in Reading PROVE Weighs(BandSignal(q), IF q.n >= 20 /\ q.band # 0 THEN worth(q.band) ELSE 0)
  <2>1. q.band \in Int
    BY ReadingFields
  <2> QED
    BY <1>1, <1>2, <2>1, NetWhen, Zenon DEF BandSignal
<1>4. \A x \in Int : power(x) \in Nat
  BY <1>1, PowerNat, Zenon
<1>5. r.n = b.n /\ r.band \in Int /\ b.band \in Int /\ r.band <= b.band
  BY ReadingFields DEF AtLeastAsBullish
<1>6. worth(r.band) <= worth(b.band)
  <2>1. /\ r.band >= 0 => Magnitude(r.band) <= Magnitude(b.band)
        /\ b.band <= 0 => Magnitude(b.band) <= Magnitude(r.band)
    BY <1>5 DEF Magnitude
  <2>2. 60 <= 60
    OBVIOUS
  <2>3. r.band >= 0 => power(r.band) <= power(b.band)
    BY <1>1, <1>5, <2>1, <2>2, PowerGrows, Zenon
  <2>4. b.band <= 0 => power(b.band) <= power(r.band)
    BY <1>1, <1>5, <2>1, <2>2, PowerGrows, Zenon
  <2> HIDE DEF power
  <2> QED
    BY <1>4, <1>5, <2>3, <2>4, SignedGrows
<1>7. \A x \in Int : worth(x) \in Int /\ (x = 0 => worth(x) = 0)
  <2> TAKE x \in Int
  <2>1. Sign(x) \in Int /\ (x = 0 => Sign(x) = 0) /\ power(x) \in Nat
    BY <1>4 DEF Sign
  <2> HIDE DEF power
  <2> QED
    BY <2>1
<1> HIDE DEF worth
<1>8. /\ Net(BandSignal(r)) = IF r.n >= 20 /\ r.band # 0 THEN worth(r.band) ELSE 0
      /\ Net(BandSignal(b)) = IF b.n >= 20 /\ b.band # 0 THEN worth(b.band) ELSE 0
  BY <1>3, Zenon DEF Weighs
<1>9. /\ Net(BandSignal(r)) = IF r.n >= 20 THEN worth(r.band) ELSE 0
      /\ Net(BandSignal(b)) = IF r.n >= 20 THEN worth(b.band) ELSE 0
  BY <1>5, <1>7, <1>8
<1> QED
  BY <1>5, <1>6, <1>7, <1>9

LEMMA VolumeGrows ==
    ASSUME NEW r \in Reading, NEW b \in Reading, AtLeastAsBullish(b, r)
    PROVE  Net(VolumeSignal(r)) <= Net(VolumeSignal(b))
<1> DEFINE high(x) == Power((x - 100) \div 2, 50 + (x - 150) \div 3)
           low(x) == Power(100 - x, 50)
           worth(n, x) == (IF n >= 20 /\ x > 150 THEN high(x) ELSE 0) + (IF n >= 20 /\ x < 50 THEN -low(x) ELSE 0)
<1>1. \A x \in Int : (x - 100) \div 2 \in Int /\ 50 + (x - 150) \div 3 \in Int /\ 100 - x \in Int /\ 50 \in Int
  OBVIOUS
<1>2. "HIGH_VOLUME" \in SignalNames /\ "LOW_VOLUME" \in SignalNames
  BY DEF SignalNames
<1>3. ASSUME NEW q \in Reading PROVE Weighs(VolumeSignal(q), worth(q.n, q.volume))
  <2>1. q.volume \in Int
    BY ReadingFields
  <2>2. Weighs(When(q.n >= 20 /\ q.volume > 150, Signal("HIGH_VOLUME", 1, (q.volume - 100) \div 2,
                                                        50 + (q.volume - 150) \div 3)),
               IF q.n >= 20 /\ q.volume > 150 THEN high(q.volume) ELSE 0)
    BY <1>1, <1>2, <2>1, NetUp, ZenonT(40)
  <2>3. Weighs(When(q.n >= 20 /\ q.volume < 50, Signal("LOW_VOLUME", -1, 100 - q.volume, 50)),
               IF q.n >= 20 /\ q.volume < 50 THEN -low(q.volume) ELSE 0)
    BY <1>1, <1>2, <2>1, NetDown, Zenon
  <2> HIDE DEF low, high
  <2> QED
    BY <2>2, <2>3, WeighBoth, ZenonT(40) DEF VolumeSignal
<1>4. ASSUME NEW x \in Int, NEW y \in Int, x <= y
      PROVE  low(x) \in Nat /\ low(y) \in Nat /\ low(y) <= low(x) /\ high(x) \in Nat /\ high(y) \in Nat /\ high(x) <= high(y)
  <2>1. (x - 100) \div 2 <= (y - 100) \div 2 /\ 50 + (x - 150) \div 3 <= 50 + (y - 150) \div 3 /\ 100 - y <= 100 - x /\ 50 <= 50
    BY <1>4
  <2>2. high(x) \in Nat /\ high(y) \in Nat /\ high(x) <= high(y)
    BY <1>1, <2>1, PowerIs, Zenon
  <2>3. low(x) \in Nat /\ low(y) \in Nat /\ low(y) <= low(x)
    <3>1. 50 <= 50
      OBVIOUS
    <3> QED
      BY <1>1, <2>1, <3>1, PowerIs, Zenon
  <2> HIDE DEF low, high
  <2> QED
    BY <2>2, <2>3, Zenon
<1> HIDE DEF low, high
<1>5. r.n = b.n /\ r.n \in Nat /\ b.volume \in Int /\ r.volume \in Int /\ r.volume <= b.volume
  BY ReadingFields DEF AtLeastAsBullish
<1>6. worth(r.n, r.volume) <= worth(b.n, b.volume)
  BY <1>4, <1>5, SMTT(30)
<1> QED
  BY <1>3, <1>6, Zenon DEF Weighs

LEMMA VolatilityGrows ==
    ASSUME NEW r \in Reading, NEW b \in Reading, AtLeastAsBullish(b, r)
    PROVE  Net(VolatilitySignal(r)) <= Net(VolatilitySignal(b))
<1> DEFINE worth(x) == Power(x * 10, 50 + x * 5)
<1>1. \A x \in Int : x * 10 \in Int /\ 50 + x * 5 \in Int
  OBVIOUS
<1>2. "VOLATILITY_HIGH" \in SignalNames
  BY DEF SignalNames
<1>3. ASSUME NEW q \in Reading
      PROVE  Weighs(VolatilitySignal(q), IF q.n >= 21 /\ q.volatility > 2 THEN worth(q.volatility) ELSE 0)
  <2>1. q.volatility \in Int
    BY ReadingFields
  <2> QED
    BY <1>1, <1>2, <2>1, NetUp, Zenon DEF VolatilitySignal
<1>4. r.n = b.n /\ r.volatility \in Int /\ b.volatility \in Int /\ r.volatility <= b.volatility
  BY ReadingFields DEF AtLeastAsBullish
<1>5. r.volatility * 10 <= b.volatility * 10 /\ 50 + r.volatility * 5 <= 50 + b.volatility * 5
  BY <1>4
<1>6. worth(r.volatility) \in Nat /\ worth(b.volatility) \in Nat /\ worth(r.volatility) <= worth(b.volatility)
  BY <1>1, <1>4, <1>5, PowerIs, Zenon
<1> HIDE DEF worth
<1> QED
  BY <1>3, <1>4, <1>6 DEF Weighs

LEMMA TrendGrows ==
    ASSUME NEW r \in Reading, NEW b \in Reading, AtLeastAsBullish(b, r)
    PROVE  Net(TrendSignal(r)) <= Net(TrendSignal(b))
<1> DEFINE up(x) == Power(x * 20, 50 + x * 20)
           down(x) == Power(-x * 20, 50 - x * 20)
           worth(n, x) == (IF n >= 20 /\ x > 0 THEN up(x) ELSE 0) + (IF n >= 20 /\ x < 0 THEN -down(x) ELSE 0)
<1>1. \A x \in Int : x * 20 \in Int /\ 50 + x * 20 \in Int /\ -x * 20 \in Int /\ 50 - x * 20 \in Int
  OBVIOUS
<1>2. "TREND_UP" \in SignalNames /\ "TREND_DOWN" \in SignalNames
  BY DEF SignalNames
<1>3. ASSUME NEW q \in Reading PROVE Weighs(TrendSignal(q), worth(q.n, q.slope))
  <2>1. q.slope \in Int
    BY ReadingFields
  <2>2. Weighs(When(q.n >= 20 /\ q.slope > 0, Signal("TREND_UP", 1, q.slope * 20, 50 + q.slope * 20)),
               IF q.n >= 20 /\ q.slope > 0 THEN up(q.slope) ELSE 0)
    BY <1>1, <1>2, <2>1, NetUp, Zenon
  <2>3. Weighs(When(q.n >= 20 /\ q.slope < 0, Signal("TREND_DOWN", -1, -q.slope * 20, 50 - q.slope * 20)),
               IF q.n >= 20 /\ q.slope < 0 THEN -down(q.slope) ELSE 0)
    BY <1>1, <1>2, <2>1, NetDown, Zenon
  <2> HIDE DEF up, down
  <2> QED
    BY <2>2, <2>3, WeighBoth, Zenon DEF TrendSignal
<1>4. ASSUME NEW x \in Int, NEW y \in Int, x <= y
      PROVE  up(x) \in Nat /\ up(y) \in Nat /\ up(x) <= up(y) /\ down(x) \in Nat /\ down(y) \in Nat /\ down(y) <= down(x)
  <2>1. x * 20 <= y * 20 /\ 50 + x * 20 <= 50 + y * 20 /\ -y * 20 <= -x * 20 /\ 50 - y * 20 <= 50 - x * 20
    BY <1>4
  <2>2. up(x) \in Nat /\ up(y) \in Nat /\ up(x) <= up(y)
    BY <1>1, <2>1, PowerIs, Zenon
  <2>3. down(x) \in Nat /\ down(y) \in Nat /\ down(y) <= down(x)
    BY <1>1, <2>1, PowerIs, Zenon
  <2> HIDE DEF up, down
  <2> QED
    BY <2>2, <2>3, Zenon
<1> HIDE DEF up, down
<1>5. r.n = b.n /\ r.n \in Nat /\ b.slope \in Int /\ r.slope \in Int /\ r.slope <= b.slope
  BY ReadingFields DEF AtLeastAsBullish
<1>6. worth(r.n, r.slope) <= worth(b.n, b.slope)
  BY <1>4, <1>5
<1> QED
  BY <1>3, <1>6, Zenon DEF Weighs

\* The imbalance of a book, in percent.
Imbalance(bid, ask) == IF bid + ask = 0 THEN 0 ELSE ((bid - ask) * 100) \div (bid + ask)

\* The part of a quotient: the largest multiple that fits.
LEMMA Quotient ==
    ASSUME NEW x \in Int, NEW n \in Nat, n > 0
    PROVE  x \div n \in Int /\ (x \div n) * n <= x /\ x < (x \div n + 1) * n
  OBVIOUS

LEMMA ImbalanceGrows ==
    ASSUME NEW bid \in Nat, NEW more \in Nat, bid <= more, NEW ask \in Nat, bid + ask > 0
    PROVE  Imbalance(bid, ask) \in Int /\ Imbalance(more, ask) \in Int /\ Imbalance(bid, ask) <= Imbalance(more, ask)
<1>1. PICK m, n, x, y : m = bid + ask /\ n = more + ask /\ x = (bid - ask) * 100 /\ y = (more - ask) * 100
  OBVIOUS
<1>2. m \in Nat /\ n \in Nat /\ m > 0 /\ n > 0 /\ x \in Int /\ y \in Int
  BY <1>1
<1>3. PICK p, q : p = x \div m /\ q = y \div n
  OBVIOUS
<1>4. p \in Int /\ p * m <= x /\ x < (p + 1) * m
  BY <1>2, <1>3, Quotient
<1>5. q \in Int /\ q * n <= y /\ y < (q + 1) * n
  BY <1>2, <1>3, Quotient
<1>6. p <= 100
  <2>1. p * m <= 100 * m
    BY <1>1, <1>4
  <2> QED
    BY <1>2, <1>4, <2>1
<1>7. p * n <= y
  <2>1. PICK k \in Nat : more = bid + k
    <3>1. more - bid \in Nat /\ more = bid + (more - bid)
      OBVIOUS
    <3> QED
      BY <3>1, Zenon
  <2>2. n = m + k /\ y = x + 100 * k
    BY <1>1, <2>1
  <2>3. p * n = p * m + p * k
    BY <1>2, <1>4, <2>2
  <2>4. p * k <= 100 * k
    BY <1>4, <1>6, <2>1
  <2> QED
    BY <1>2, <1>4, <2>1, <2>2, <2>3, <2>4
<1>8. p <= q
  <2> SUFFICES ASSUME p >= q + 1 PROVE FALSE
    BY <1>4, <1>5
  <2>1. (q + 1) * n <= p * n
    BY <1>2, <1>4, <1>5
  <2>2. PICK d, e : d = (q + 1) * n /\ e = p * n
    OBVIOUS
  <2>3. d \in Int /\ e \in Int
    BY <1>2, <1>4, <1>5, <2>2
  <2> QED
    BY <1>2, <1>5, <1>7, <2>1, <2>2, <2>3
<1>9. Imbalance(bid, ask) = p /\ Imbalance(more, ask) = q
  <2>1. m # 0 /\ n # 0
    BY <1>2
  <2> QED
    BY <1>1, <1>3, <2>1, Zenon DEF Imbalance
<1> QED
  BY <1>4, <1>5, <1>8, <1>9
LEMMA ImbalanceAlone == ASSUME NEW bid \in Nat, bid > 0 PROVE Imbalance(bid, 0) = 100
<1>1. PICK x, q : x = bid * 100 /\ q = x \div bid
  OBVIOUS
<1>2. q \in Int /\ q * bid <= bid * 100 /\ bid * 100 < (q + 1) * bid
  BY <1>1, Quotient
<1>3. q = 100
  <2>1. ~(q <= 99)
    <3> SUFFICES ASSUME q <= 99 PROVE FALSE
      OBVIOUS
    <3>1. (q + 1) * bid <= 100 * bid
      BY <1>2
    <3> QED
      BY <1>2, <3>1
  <2>2. ~(q >= 101)
    <3> SUFFICES ASSUME q >= 101 PROVE FALSE
      OBVIOUS
    <3>1. q * bid >= 101 * bid
      BY <1>2
    <3> QED
      BY <1>2, <3>1
  <2> QED
    BY <1>2, <2>1, <2>2
<1>4. bid + 0 # 0 /\ (bid - 0) * 100 = x /\ bid + 0 = bid
  BY <1>1
<1> QED
  BY <1>1, <1>3, <1>4, Zenon DEF Imbalance

LEMMA BookGrows ==
    ASSUME NEW r \in Reading, NEW b \in Reading, AtLeastAsBullish(b, r)
    PROVE  Net(BookSignal(r)) <= Net(BookSignal(b))
<1> DEFINE power(x) == Power(Magnitude(x), 50 + Magnitude(x) \div 2)
           side(x) == IF Magnitude(x) > 10 THEN power(x) ELSE 0
           tilt(x) == Sign(x) * side(x)
           thin(t) == Power(100 - t * 10, 50)
           deep(t) == Power(t \div 100, 50)
           low(t) == IF t > 0 /\ t < 10 THEN -thin(t) ELSE 0
           high(t) == IF t > 1000 THEN deep(t) ELSE 0
<1>1. /\ \A x \in Int : Sign(x) \in Int /\ Magnitude(x) \in Int /\ 50 + Magnitude(x) \div 2 \in Int
      /\ \A t \in Int : 100 - t * 10 \in Int /\ t \div 100 \in Int /\ 50 \in Int
  BY DEF Sign, Magnitude
<1>2. "ORDERBOOK_IMBALANCE" \in SignalNames /\ "LIQUIDITY_LOW" \in SignalNames /\ "LIQUIDITY_HIGH" \in SignalNames
  BY DEF SignalNames
<1>3. /\ \A x \in Int : power(x) \in Nat
      /\ \A t \in Int : thin(t) \in Nat /\ thin(t) <= 10000 /\ deep(t) \in Nat
  <2>1. \A x \in Int : power(x) \in Nat
    BY <1>1, PowerNat, Zenon
  <2>2. \A t \in Int : thin(t) \in Nat
    BY <1>1, PowerNat, Zenon
  <2>3. \A t \in Int : deep(t) \in Nat
    BY <1>1, PowerNat, Zenon
  <2>4. \A t \in Int : thin(t) <= 10000
    <3> TAKE t \in Int
    <3>1. 100 - t * 10 \in Int /\ 50 \in Int
      OBVIOUS
    <3> QED
      BY <3>1, PowerBound
  <2> HIDE DEF power, thin, deep
  <2> QED
    BY <2>1, <2>2, <2>3, <2>4
<1>4. ASSUME NEW q \in Reading, NEW x \in Int, NEW t \in Nat, t = q.bid + q.ask, x = Imbalance(q.bid, q.ask)
      PROVE  Net(BookSignal(q)) = tilt(x) + low(t) + high(t)
  <2>1. PICK i, l, h : /\ i = When(Magnitude(x) > 10, Signal("ORDERBOOK_IMBALANCE", Sign(x), Magnitude(x),
                                                              50 + Magnitude(x) \div 2))
                       /\ l = When(t > 0 /\ t < 10, Signal("LIQUIDITY_LOW", -1, 100 - t * 10, 50))
                       /\ h = When(t > 1000, Signal("LIQUIDITY_HIGH", 1, t \div 100, 50))
    OBVIOUS
  <2>2. BookSignal(q) = i \o l \o h
    <3>0. BookSignal(q) = Book(q.bid + q.ask, Imbalance(q.bid, q.ask))
      BY Zenon DEF BookSignal, Book, Imbalance
    <3>1. BookSignal(q) = Book(t, x)
      BY <1>4, <3>0, Zenon
    <3> QED
      BY <2>1, <3>1, ZenonT(40) DEF Book
  <2>3. Weighs(i, IF Magnitude(x) > 10 THEN Sign(x) * power(x) ELSE 0)
    BY <1>1, <1>2, <2>1, NetWhen, Zenon
  <2>t. t \in Int
    OBVIOUS
  <2>4. Weighs(l, low(t))
    BY <1>1, <1>2, <2>1, <2>t, NetDown, Zenon
  <2>5. Weighs(h, high(t))
    <3>1. PICK c, k : c = (t > 1000) /\ k = t \div 100
      OBVIOUS
    <3>2. k \in Int /\ 50 \in Int
      BY <3>1
    <3>3. h = When(c, Signal("LIQUIDITY_HIGH", 1, k, 50))
      BY <2>1, <3>1, ZenonT(40)
    <3>4. Weighs(When(c, Signal("LIQUIDITY_HIGH", 1, k, 50)), IF c THEN Power(k, 50) ELSE 0)
      BY <1>2, <3>2, NetUp, Zenon
    <3>5. high(t) = IF c THEN Power(k, 50) ELSE 0
      BY <3>1, Zenon
    <3> HIDE DEF high
    <3> QED
      BY <3>3, <3>4, <3>5, Zenon
  <2>6. (IF Magnitude(x) > 10 THEN Sign(x) * power(x) ELSE 0) = tilt(x)
    <3>1. Sign(x) \in Int /\ power(x) \in Nat
      BY <1>1, <1>3
    <3> HIDE DEF power
    <3> QED
      BY <3>1
  <2> HIDE DEF tilt, low, high
  <2>7. Weighs(i, tilt(x))
    BY <2>3, <2>6, Zenon
  <2>8. Weighs(i \o l, tilt(x) + low(t))
    BY <2>4, <2>7, WeighBoth, Zenon
  <2>9. Weighs(i \o l \o h, tilt(x) + low(t) + high(t))
    BY <2>5, <2>8, WeighBoth, Zenon
  <2> QED
    BY <2>2, <2>9, Zenon DEF Weighs
<1>5. PICK s, t, x, y : /\ s = r.bid + r.ask /\ t = b.bid + b.ask
                        /\ x = Imbalance(r.bid, r.ask) /\ y = Imbalance(b.bid, b.ask)
  OBVIOUS
<1>6. /\ r.bid \in Nat /\ b.bid \in Nat /\ r.ask \in Nat /\ b.ask = r.ask /\ r.bid <= b.bid
  BY ReadingFields DEF AtLeastAsBullish
<1>7. s \in Nat /\ t \in Nat /\ s <= t
  BY <1>5, <1>6
<1>8. ASSUME NEW u \in Int, NEW v \in Int, u <= v
      PROVE  tilt(u) <= tilt(v)
  <2>1. side(u) \in Nat /\ side(v) \in Nat
    <3>1. power(u) \in Nat /\ power(v) \in Nat
      BY <1>3
    <3> HIDE DEF power
    <3> QED
      BY <3>1
  <2>2. ASSUME Magnitude(u) <= Magnitude(v) PROVE side(u) <= side(v)
    <3>1. Magnitude(u) \in Int /\ Magnitude(v) \in Int
      BY <1>1
    <3>2. 50 + Magnitude(u) \div 2 <= 50 + Magnitude(v) \div 2
      BY <2>2, <3>1
    <3>3. power(u) <= power(v)
      BY <1>1, <2>2, <3>2, PowerGrows, Zenon
    <3> HIDE DEF power
    <3>4. power(v) \in Nat
      BY <1>3
    <3> QED
      BY <2>2, <3>1, <3>3, <3>4
  <2>3. ASSUME Magnitude(v) <= Magnitude(u) PROVE side(v) <= side(u)
    <3>1. Magnitude(u) \in Int /\ Magnitude(v) \in Int
      BY <1>1
    <3>2. 50 + Magnitude(v) \div 2 <= 50 + Magnitude(u) \div 2
      BY <2>3, <3>1
    <3>3. power(v) <= power(u)
      BY <1>1, <2>3, <3>2, PowerGrows, Zenon
    <3> HIDE DEF power
    <3>4. power(u) \in Nat
      BY <1>3
    <3> QED
      BY <2>3, <3>1, <3>3, <3>4
  <2>4. (u >= 0 => Magnitude(u) <= Magnitude(v)) /\ (v <= 0 => Magnitude(v) <= Magnitude(u))
    BY <1>8 DEF Magnitude
  <2> HIDE DEF side
  <2> QED
    BY <1>8, <2>1, <2>2, <2>3, <2>4, SignedGrows
<1>9. high(s) \in Nat /\ high(t) \in Nat /\ high(s) <= high(t)
  <2>1. s \in Int /\ t \in Int /\ s \div 100 <= t \div 100 /\ 50 <= 50
    BY <1>7
  <2>2. deep(s) \in Nat /\ deep(t) \in Nat
    BY <1>3, <2>1
  <2>3. s \div 100 <= t \div 100 /\ 50 <= 50 /\ 50 \in Int
    BY <2>1
  <2>4. deep(s) <= deep(t)
    BY <1>1, <2>1, <2>3, PowerGrows, Zenon
  <2> HIDE DEF deep
  <2> QED
    BY <1>7, <2>2, <2>4
<1>10. CASE s > 0
  <2>1. x \in Int /\ y \in Int /\ x <= y
    BY <1>5, <1>6, <1>10, ImbalanceGrows
  <2>2. low(s) \in Int /\ low(t) \in Int /\ low(s) <= low(t)
    <3>1. thin(s) \in Nat /\ thin(t) \in Nat
      BY <1>3, <1>7
    <3>2. 100 - t * 10 <= 100 - s * 10 /\ s \in Int /\ t \in Int
      BY <1>7
    <3>3. 50 <= 50
      OBVIOUS
    <3>4. thin(t) <= thin(s)
      BY <1>1, <3>2, <3>3, PowerGrows, Zenon
    <3> HIDE DEF thin
    <3> QED
      BY <1>7, <1>10, <3>1, <3>4
  <2>3. tilt(x) <= tilt(y) /\ tilt(x) \in Int /\ tilt(y) \in Int
    <3>1. tilt(x) <= tilt(y)
      BY <1>8, <2>1
    <3>2. ASSUME NEW z \in Int PROVE tilt(z) \in Int
      <4>1. power(z) \in Nat /\ Sign(z) \in Int
        BY <1>1, <1>3
      <4> HIDE DEF power
      <4> QED
        BY <4>1
    <3> QED
      BY <2>1, <3>1, <3>2
  <2>4. /\ Net(BookSignal(r)) = tilt(x) + low(s) + high(s)
        /\ Net(BookSignal(b)) = tilt(y) + low(t) + high(t)
    BY <1>4, <1>5, <1>7, <2>1
  <2> HIDE DEF tilt, low, high
  <2> QED
    BY <1>9, <2>2, <2>3, <2>4
<1>11. CASE s = 0
  <2>1. x = 0 /\ r.bid = 0 /\ r.ask = 0
    <3>1. r.bid = 0 /\ r.ask = 0
      BY <1>5, <1>6, <1>11
    <3>2. r.bid + r.ask = 0
      BY <3>1
    <3> QED
      BY <1>5, <3>1, <3>2, Zenon DEF Imbalance
  <2>2. tilt(0) = 0
    BY DEF Magnitude, Sign
  <2>3. low(s) = 0 /\ high(s) = 0
    BY <1>11
  <2>4. Net(BookSignal(r)) = 0
    <3> HIDE DEF tilt, low, high
    <3>0. x \in Int
      BY <2>1
    <3>1. Net(BookSignal(r)) = tilt(x) + low(s) + high(s)
      BY <1>4, <1>5, <1>7, <3>0, Zenon
    <3> QED
      BY <2>1, <2>2, <2>3, <3>1
  <2>5. CASE t = 0
    <3>1. b.bid = 0 /\ b.ask = 0
      BY <1>5, <1>6, <2>1, <2>5
    <3>2. y = x /\ s = t
      BY <1>5, <1>11, <2>1, <2>5, <3>1
    <3> HIDE DEF tilt, low, high
    <3>0. x \in Int /\ s = b.bid + b.ask /\ x = Imbalance(b.bid, b.ask)
      BY <1>5, <2>1, <3>2
    <3>3. Net(BookSignal(r)) = tilt(x) + low(s) + high(s)
      BY <1>4, <1>5, <1>7, <3>0, Zenon
    <3>4. Net(BookSignal(b)) = tilt(x) + low(s) + high(s)
      BY <1>4, <1>7, <3>0, Zenon
    <3>5. Net(BookSignal(r)) = Net(BookSignal(b))
      BY <3>3, <3>4, Zenon
    <3> QED
      BY <2>4, <3>5
  <2>6. CASE t > 0
    <3>1. b.ask = 0 /\ b.bid > 0
      BY <1>5, <1>6, <2>1, <2>6
    <3>2. y = 100
      BY <1>5, <1>6, <3>1, ImbalanceAlone
    <3>3. tilt(100) = 10000
      BY DEF Magnitude, Sign, Power, Clamp
    <3>4. Net(BookSignal(b)) = tilt(y) + low(t) + high(t)
      <4> HIDE DEF tilt, low, high
      <4>1. y \in Int
        BY <3>2
      <4> QED
        BY <1>4, <1>5, <1>7, <4>1, Zenon
    <3>5. low(t) \in Int /\ low(t) >= -10000
      <4>1. thin(t) \in Nat /\ thin(t) <= 10000
        BY <1>3, <1>7
      <4> HIDE DEF thin
      <4> QED
        BY <4>1
    <3> HIDE DEF tilt, low, high
    <3> QED
      BY <1>9, <2>4, <3>2, <3>3, <3>4, <3>5
  <2> QED
    BY <1>7, <2>5, <2>6
<1> QED
  BY <1>7, <1>10, <1>11

\* For every two readings of as many candles, the one that is more bullish in
\* any of its indicators and less in none never has the lower conviction: no
\* sign, threshold or clamp of SignalEngine.generate counts a signal against
\* its own direction, alone or together with the others.
THEOREM ConvictionFollowsEvidence ==
    ASSUME NEW r \in Reading, NEW b \in Reading, AtLeastAsBullish(b, r)
    PROVE  Net(generate(r)) <= Net(generate(b))
<1>1. ASSUME NEW q \in Reading
      PROVE  /\ EmaSignal(q) \in Seq(Signals) /\ MacdSignal(q) \in Seq(Signals) /\ RsiSignal(q) \in Seq(Signals)
             /\ BandSignal(q) \in Seq(Signals) /\ VolumeSignal(q) \in Seq(Signals) /\ VolatilitySignal(q) \in Seq(Signals)
             /\ TrendSignal(q) \in Seq(Signals) /\ BookSignal(q) \in Seq(Signals)
  BY PiecesType, Zenon
<1>2. ASSUME NEW q \in Reading
      PROVE  Net(generate(q)) = Net(EmaSignal(q)) + Net(MacdSignal(q)) + Net(RsiSignal(q)) + Net(BandSignal(q))
                                + Net(VolumeSignal(q)) + Net(VolatilitySignal(q)) + Net(TrendSignal(q)) + Net(BookSignal(q))
  <2>1. Weighs(EmaSignal(q), Net(EmaSignal(q))) /\ Weighs(MacdSignal(q), Net(MacdSignal(q)))
        /\ Weighs(RsiSignal(q), Net(RsiSignal(q))) /\ Weighs(BandSignal(q), Net(BandSignal(q)))
        /\ Weighs(VolumeSignal(q), Net(VolumeSignal(q))) /\ Weighs(VolatilitySignal(q), Net(VolatilitySignal(q)))
        /\ Weighs(TrendSignal(q), Net(TrendSignal(q))) /\ Weighs(BookSignal(q), Net(BookSignal(q)))
    BY <1>1, Zenon DEF Weighs
  <2>2. Weighs(generate(q), Net(EmaSignal(q)) + Net(MacdSignal(q)) + Net(RsiSignal(q)) + Net(BandSignal(q))
                            + Net(VolumeSignal(q)) + Net(VolatilitySignal(q)) + Net(TrendSignal(q)) + Net(BookSignal(q)))
    BY <2>1, WeighBoth, Zenon DEF generate
  <2> QED
    BY <2>2, Zenon DEF Weighs
<1>3. ASSUME NEW q \in Reading
      PROVE  /\ Net(EmaSignal(q)) \in Int /\ Net(MacdSignal(q)) \in Int /\ Net(RsiSignal(q)) \in Int
             /\ Net(BandSignal(q)) \in Int /\ Net(VolumeSignal(q)) \in Int /\ Net(VolatilitySignal(q)) \in Int
             /\ Net(TrendSignal(q)) \in Int /\ Net(BookSignal(q)) \in Int
  BY <1>1, NetType, Zenon
<1> QED
  BY <1>2, <1>3, EmaGrows, MacdGrows, RsiGrows, BandGrows, VolumeGrows, VolatilityGrows, TrendGrows, BookGrows

-----------------------------------------------------------------------------
(* The venue: what is counted of what it delivers. *)

Venue == Plans \cup {[kind |-> "full"]}

\* The fills of an order, and together no more than it asked for.
LEMMA AmountsType ==
    ASSUME NEW n \in Policy.minimum .. Policy.maximum, n > 0, NEW plan \in Venue
    PROVE  /\ PlanAmounts(n, plan) \in Seq(Nat)
           /\ \A i \in 1 .. Len(PlanAmounts(n, plan)) : PlanAmounts(n, plan)[i] > 0
           /\ SumFunction(PlanAmounts(n, plan)) <= n
<1>1. PICK a : a = PlanAmounts(n, plan)
  OBVIOUS
<1>2. n \in Nat /\ n > 0
  BY PaperAssumption
<1>3. ASSUME plan.kind = "full" PROVE a = <<n>>
  BY <1>1, <1>3 DEF PlanAmounts
<1>4. \A x \in Nat : x > 0 => /\ <<x>> \in Seq(Nat) /\ \A i \in 1 .. Len(<<x>>) : <<x>>[i] > 0
  OBVIOUS
<1>5. SumFunction(<<n>>) = n
  <2>1. <<>> \in Seq(Nat) /\ <<n>> = Append(<<>>, n)
    OBVIOUS
  <2>2. SumFunction(<<>>) = 0
    BY <2>1, SumOfSequence
  <2>3. SumFunction(Append(<<>>, n)) = SumFunction(<<>>) + n
    BY <1>2, <2>1, SumOfSequence
  <2> QED
    BY <1>2, <2>1, <2>2, <2>3
<1>6. plan \in Plans => SumFunction(a) <= n
  BY <1>1, VenueAssumption, Zenon
<1>7. CASE plan = [kind |-> "full"]
  <2>1. plan.kind = "full"
    BY <1>7
  <2>2. a = <<n>>
    BY <1>3, <2>1, Zenon
  <2>3. SumFunction(<<n>>) <= n
    BY <1>2, <1>5
  <2>4. <<n>> \in Seq(Nat) /\ \A i \in 1 .. Len(<<n>>) : <<n>>[i] > 0
    BY <1>2, <1>4, Zenon
  <2> QED
    BY <1>1, <2>2, <2>3, <2>4, Zenon
<1>8. CASE plan \in Plans
  <2>1. plan \in FillPlan
    BY <1>8, PaperAssumption
  <2>2. \/ plan.kind = "full" \/ plan.kind = "none"
        \/ plan.kind = "partial" /\ plan.filled \in Nat
        \/ plan.kind = "multi" /\ plan.parts \in Seq(Nat)
    <3>1. PICK P, N : P = Seq(Nat) /\ N = Nat
      OBVIOUS
    <3>2. \/ plan \in [kind : {"full"}] \/ plan \in [kind : {"none"}]
          \/ plan \in [kind : {"partial"}, filled : N] \/ plan \in [kind : {"multi"}, parts : P]
      BY <2>1, <3>1, Zenon DEF FillPlan
    <3>3. \A p \in [kind : {"full"}] : p.kind = "full"
      OBVIOUS
    <3>4. \A p \in [kind : {"none"}] : p.kind = "none"
      OBVIOUS
    <3>5. \A p \in [kind : {"partial"}, filled : N] : p.kind = "partial" /\ p.filled \in N
      OBVIOUS
    <3>6. \A p \in [kind : {"multi"}, parts : P] : p.kind = "multi" /\ p.parts \in P
      OBVIOUS
    <3> QED
      BY <3>1, <3>2, <3>3, <3>4, <3>5, <3>6, Zenon
  <2>3. /\ a \in Seq(Nat)
        /\ \A i \in 1 .. Len(a) : a[i] > 0
    <3>1. CASE plan.kind = "full"
      BY <1>2, <1>3, <1>4, <3>1, Zenon
    <3>2. CASE plan.kind = "none"
      <4>1. a = <<>>
        BY <1>1, <3>2 DEF PlanAmounts
      <4>2. <<>> \in Seq(Nat) /\ \A i \in 1 .. Len(<<>>) : <<>>[i] > 0
        <5>1. Len(<<>>) = 0 /\ \A i \in 1 .. 0 : FALSE
          OBVIOUS
        <5> QED
          BY <5>1
      <4> QED
        BY <4>1, <4>2, Zenon
    <3>3. CASE plan.kind = "partial"
      <4>1. PICK x : x = plan.filled
        OBVIOUS
      <4>2. a = IF x > 0 THEN <<Min({x, n})>> ELSE <<>>
        BY <1>1, <3>3, <4>1 DEF PlanAmounts
      <4>3. x \in Nat
        <5>1. "partial" # "full" /\ "partial" # "none" /\ "partial" # "multi"
          OBVIOUS
        <5> QED
          BY <2>2, <3>3, <4>1, <5>1, Zenon
      <4>4. x > 0 => Min({x, n}) \in Nat /\ Min({x, n}) > 0
        BY <1>2, <4>3, MinOfTwo
      <4>5. CASE x > 0
        BY <1>4, <4>2, <4>4, <4>5, Zenon
      <4>6. CASE ~(x > 0)
        <5>1. a = <<>>
          BY <4>2, <4>6, Zenon
        <5>2. <<>> \in Seq(Nat) /\ \A i \in 1 .. Len(<<>>) : <<>>[i] > 0
          <6>1. Len(<<>>) = 0 /\ \A i \in 1 .. 0 : FALSE
            OBVIOUS
          <6> QED
            BY <6>1
        <5> QED
          BY <5>1, <5>2, Zenon
      <4> QED
        BY <4>5, <4>6
    <3>4. CASE plan.kind = "multi"
      <4>1. PICK s, keep : s = plan.parts /\ keep = {p \in ToSet(plan.parts) : p > 0}
        OBVIOUS
      <4>2. a = Filter(s, keep)
        BY <1>1, <3>4, <4>1 DEF PlanAmounts
      <4>3. s \in Seq(Nat)
        <5>1. "multi" # "full" /\ "multi" # "none" /\ "multi" # "partial"
          OBVIOUS
        <5> QED
          BY <2>2, <3>4, <4>1, <5>1, Zenon
      <4>4. Filter(s, keep) \in Seq(Nat)
        BY <4>3, FilterType
      <4>5. \A j \in 1 .. Len(Filter(s, keep)) :
              \E i \in 1 .. Len(s) : Filter(s, keep)[j] = s[i] /\ s[i] \in keep
        BY <4>3, FilterKeeps
      <4>6. \A x \in keep : x > 0
        BY <4>1
      <4>7. \A j \in 1 .. Len(a) : a[j] > 0
        BY <4>2, <4>5, <4>6, Zenon
      <4> QED
        BY <4>2, <4>4, <4>7, Zenon
    <3> QED
      BY <2>2, <3>1, <3>2, <3>3, <3>4, Zenon
  <2> QED
    BY <1>1, <1>6, <1>8, <2>3
<1> QED
  BY <1>7, <1>8 DEF Venue

FillsAmong(received) ==
  [t \in {m.trade : m \in received} |-> (CHOOSE m \in received : m.trade = t).funds]

\* However often a message is delivered, its fill is counted once
\* (MyOrderFillBuffer).
LEMMA EachFillOnce ==
    ASSUME NEW n, NEW plan, NEW duplicated \in BOOLEAN, PlanAmounts(n, plan) \in Seq(Nat)
    PROVE  Fills(FillMessages(n, plan, duplicated)) = PlanAmounts(n, plan)
<1>1. PICK a : a = PlanAmounts(n, plan)
  OBVIOUS
<1>2. a \in Seq(Nat) /\ DOMAIN a = 1 .. Len(a) /\ Len(a) \in Nat
  BY <1>1
<1>3. PICK msgs : msgs = [i \in DOMAIN a |-> [trade |-> i, funds |-> a[i]]]
  OBVIOUS
<1>4. PICK M : M = [trade : Nat, funds : Nat]
  OBVIOUS
<1>5. msgs \in Seq(M) /\ Len(msgs) = Len(a) /\ DOMAIN msgs = 1 .. Len(a)
  BY <1>2, <1>3, <1>4
<1>6. \A i \in 1 .. Len(a) : msgs[i] = [trade |-> i, funds |-> a[i]]
  BY <1>2, <1>3, Zenon
<1>a. \A x, y : [trade |-> x, funds |-> y].trade = x /\ [trade |-> x, funds |-> y].funds = y
  OBVIOUS
<1>b. \A i \in 1 .. Len(a) : msgs[i].trade = i /\ msgs[i].funds = a[i]
  <2> TAKE i \in 1 .. Len(a)
  <2>1. PICK y : y = a[i]
    OBVIOUS
  <2>2. msgs[i] = [trade |-> i, funds |-> y]
    BY <1>6, <2>1, Zenon
  <2>3. [trade |-> i, funds |-> y].trade = i /\ [trade |-> i, funds |-> y].funds = y
    BY <1>a, Zenon
  <2> QED
    BY <2>1, <2>2, <2>3, Zenon
<1>7. PICK all : all = msgs \o IF duplicated THEN msgs ELSE <<>>
  OBVIOUS
<1>8. FillMessages(n, plan, duplicated) = all
  BY <1>1, <1>3, <1>7, Zenon DEF FillMessages
<1>9. PICK got : got = {msgs[i] : i \in 1 .. Len(a)}
  OBVIOUS
<1>10. ToSet(all) = got
  <2>1. CASE duplicated
    <3>1. all = msgs \o msgs
      BY <1>7, <2>1
    <3>2. /\ all \in Seq(M) /\ Len(all) = Len(a) + Len(a)
          /\ \A i \in 1 .. Len(a) : all[i] = msgs[i] /\ all[Len(a) + i] = msgs[i]
      <4>1. /\ msgs \o msgs \in Seq(M) /\ Len(msgs \o msgs) = Len(msgs) + Len(msgs)
            /\ \A i \in 1 .. Len(msgs) : (msgs \o msgs)[i] = msgs[i]
            /\ \A i \in 1 .. Len(msgs) : (msgs \o msgs)[Len(msgs) + i] = msgs[i]
        <5>1. msgs \in Seq(M)
          BY <1>5, Zenon
        <5> QED
          BY <5>1, ConcatFacts
      <4> QED
        BY <1>5, <3>1, <4>1, Zenon
    <3>3. DOMAIN all = 1 .. Len(a) + Len(a)
      BY <3>2
    <3>4. \A i \in 1 .. Len(a) + Len(a) : \E j \in 1 .. Len(a) : all[i] = msgs[j]
      <4> TAKE i \in 1 .. Len(a) + Len(a)
      <4>1. CASE i <= Len(a)
        <5>1. i \in 1 .. Len(a)
          BY <1>2, <4>1
        <5> QED
          BY <3>2, <5>1, Zenon
      <4>2. CASE i > Len(a)
        <5>1. i - Len(a) \in 1 .. Len(a) /\ Len(a) + (i - Len(a)) = i
          BY <1>2, <4>2
        <5> QED
          BY <3>2, <5>1
      <4> QED
        BY <1>2, <4>1, <4>2
    <3>5. \A i \in 1 .. Len(a) : i \in 1 .. Len(a) + Len(a)
      BY <1>2
    <3>6. ToSet(all) = {all[i] : i \in 1 .. Len(a) + Len(a)}
      BY <3>3, Zenon DEF ToSet
    <3>7. \A i \in 1 .. Len(a) : all[i] = msgs[i]
      BY <3>2, Zenon
    <3>8. \A x \in ToSet(all) : x \in got
      BY <1>9, <3>4, <3>6, Zenon
    <3>9. \A x \in got : x \in ToSet(all)
      <4> TAKE x \in got
      <4>1. PICK j \in 1 .. Len(a) : x = msgs[j]
        BY <1>9, Zenon
      <4>2. x = all[j] /\ j \in 1 .. Len(a) + Len(a)
        BY <3>5, <3>7, <4>1, Zenon
      <4> QED
        BY <3>6, <4>2, Zenon
    <3> QED
      BY <3>8, <3>9, Zenon
  <2>2. CASE ~duplicated
    <3>1. all = msgs \o <<>>
      BY <1>7, <2>2, Zenon
    <3>2. all = msgs
      BY <1>5, <3>1, ConcatOne
    <3>3. ToSet(msgs) = {msgs[i] : i \in DOMAIN msgs}
      BY Zenon DEF ToSet
    <3>4. {msgs[i] : i \in DOMAIN msgs} = got
      BY <1>5, <1>9, Zenon
    <3> QED
      BY <3>2, <3>3, <3>4, Zenon
  <2> QED
    BY <2>1, <2>2
<1>11. {m.trade : m \in got} = 1 .. Len(a)
  <2>1. PICK tr : tr = [i \in 1 .. Len(a) |-> msgs[i].trade]
    OBVIOUS
  <2>2. {m.trade : m \in got} = {msgs[i].trade : i \in 1 .. Len(a)}
    BY <1>9, Zenon
  <2>3. {msgs[i].trade : i \in 1 .. Len(a)} = {i : i \in 1 .. Len(a)}
    BY <1>b, Zenon
  <2> QED
    BY <2>2, <2>3, Zenon
<1>12. ASSUME NEW t \in 1 .. Len(a) PROVE (CHOOSE m \in got : m.trade = t).funds = a[t]
  <2>1. \A m \in got : m.trade = t => m = msgs[t]
    <3> TAKE m \in got
    <3>1. PICK j \in 1 .. Len(a) : m = msgs[j]
      BY <1>9, Zenon
    <3>2. m.trade = j
      BY <1>b, <3>1, Zenon
    <3> QED
      BY <3>1, <3>2, Zenon
  <2>2. msgs[t] \in got /\ msgs[t].trade = t
    BY <1>b, <1>9, Zenon
  <2>3. (CHOOSE m \in got : m.trade = t) = msgs[t]
    BY <2>1, <2>2, Zenon
  <2>4. msgs[t].funds = a[t]
    BY <1>b, Zenon
  <2> QED
    BY <2>3, <2>4, Zenon
<1>13. Fills(all) = [t \in 1 .. Len(a) |-> (CHOOSE m \in got : m.trade = t).funds]
  <2>1. Fills(all) = FillsAmong(ToSet(all))
    BY Zenon DEF Fills, FillsAmong
  <2>2. Fills(all) = FillsAmong(got)
    BY <1>10, <2>1, Zenon
  <2>3. FillsAmong(got) = [t \in {m.trade : m \in got} |-> (CHOOSE m \in got : m.trade = t).funds]
    BY Zenon DEF FillsAmong
  <2> QED
    BY <1>11, <2>2, <2>3, Zenon
<1>14. Fills(all) = [t \in 1 .. Len(a) |-> a[t]]
  BY <1>12, <1>13
<1>15. [t \in 1 .. Len(a) |-> a[t]] = a
  BY <1>2
<1> QED
  BY <1>1, <1>8, <1>14, <1>15, Zenon

-----------------------------------------------------------------------------
(* The paper portfolio: applyFill. *)

\* A holding without units has no notional.
Position == {p \in [qty : Nat, notional : Nat] : p.qty = 0 => p.notional = 0}

LEMMA ShareIsPart ==
    ASSUME NEW n \in Nat, NEW left \in Nat, NEW qty \in Nat, qty > 0, left <= qty
    PROVE  (n * left) \div qty \in Nat /\ (n * left) \div qty <= n
  OBVIOUS

\* A fill adds what it cost, a sale leaves a part of what was there.
LEMMA ApplyFillType ==
    ASSUME NEW pos \in Position, NEW side, NEW n \in Nat, NEW qty \in Nat
    PROVE  /\ ApplyFill(pos, side, n, qty) \in Position
           /\ ApplyFill(pos, side, n, qty).notional <= pos.notional + (IF side = "BUY" THEN n ELSE 0)
<1>1. PICK q, m : q = pos.qty /\ m = pos.notional
  OBVIOUS
<1>2. q \in Nat /\ m \in Nat /\ (q = 0 => m = 0)
  BY <1>1 DEF Position
<1>3. \A x, y \in Nat : (x = 0 => y = 0) => /\ [qty |-> x, notional |-> y] \in Position
                                            /\ [qty |-> x, notional |-> y].notional = y
  BY DEF Position
<1>4. CASE n <= 0 \/ qty <= 0
  <2>1. ApplyFill(pos, side, n, qty) = pos
    BY <1>4, Zenon DEF ApplyFill
  <2>2. m <= m + (IF side = "BUY" THEN n ELSE 0)
    BY <1>2
  <2> QED
    BY <1>1, <2>1, <2>2, Zenon
<1>5. CASE ~(n <= 0 \/ qty <= 0) /\ side = "BUY"
  <2>1. ApplyFill(pos, side, n, qty) = [qty |-> q + qty, notional |-> m + n]
    BY <1>1, <1>5, Zenon DEF ApplyFill
  <2>2. q + qty \in Nat /\ m + n \in Nat /\ q + qty # 0 /\ m + n <= m + n
    BY <1>2, <1>5
  <2> QED
    BY <1>1, <1>3, <1>5, <2>1, <2>2, Zenon
<1>6. CASE ~(n <= 0 \/ qty <= 0) /\ side # "BUY"
  <2>1. PICK left : left = q - Min({qty, q})
    OBVIOUS
  <2>2. left \in Nat /\ left <= q
    BY <1>2, <2>1, MinOfTwo
  <2>3. ApplyFill(pos, side, n, qty) =
          IF left <= 0 THEN [qty |-> 0, notional |-> 0] ELSE [qty |-> left, notional |-> (m * left) \div q]
    BY <1>1, <1>6, <2>1, Zenon DEF ApplyFill
  <2>4. CASE left <= 0
    <3>1. ApplyFill(pos, side, n, qty) = [qty |-> 0, notional |-> 0]
      BY <2>3, <2>4, Zenon
    <3>2. 0 \in Nat /\ 0 <= m + 0
      BY <1>2
    <3> QED
      BY <1>1, <1>3, <1>6, <3>1, <3>2, Zenon
  <2>5. CASE ~(left <= 0)
    <3>1. PICK part : part = (m * left) \div q
      OBVIOUS
    <3>2. q > 0
      BY <1>2, <2>2, <2>5
    <3>3. part \in Nat /\ part <= m
      BY <1>2, <2>2, <3>1, <3>2, ShareIsPart
    <3>4. ApplyFill(pos, side, n, qty) = [qty |-> left, notional |-> part]
      BY <2>3, <2>5, <3>1, Zenon
    <3>5. left # 0 /\ part <= m + 0
      BY <1>2, <2>2, <2>5, <3>3
    <3> QED
      BY <1>1, <1>3, <1>6, <2>2, <3>3, <3>4, <3>5, Zenon
  <2> QED
    BY <2>4, <2>5
<1> QED
  BY <1>4, <1>5, <1>6

\* The fills of one order, one after the other.
LEMMA ApplyFillsType ==
    ASSUME position \in Position, NEW side, NEW fills \in Seq(Nat), NEW price \in {1, 2}
    PROVE  /\ ApplyFills(side, fills, price) \in Position
           /\ ApplyFills(side, fills, price).notional
                <= position.notional + (IF side = "BUY" THEN SumFunction(fills) ELSE 0)
<1>1. PICK n : n = Len(fills)
  OBVIOUS
<1>2. n \in Nat /\ DOMAIN fills = 1 .. n /\ \A i \in 1 .. n : fills[i] \in Nat
  BY <1>1
<1>3. \A i \in 1 .. n : fills[i] \div price \in Nat
  <2> TAKE i \in 1 .. n
  <2>1. PICK x : x = fills[i]
    OBVIOUS
  <2>2. x \in Nat
    BY <1>2, <2>1, Zenon
  <2>3. x \div 1 \in Nat /\ x \div 2 \in Nat
    BY <2>2
  <2> QED
    BY <2>1, <2>3
<1>4. PICK F : F = [a \in Position |-> [i \in 1 .. n |-> ApplyFill(a, side, fills[i], fills[i] \div price)]]
  OBVIOUS
<1>5. \A a \in Position : \A i \in 1 .. n : /\ F[a][i] = ApplyFill(a, side, fills[i], fills[i] \div price)
                                            /\ F[a][i] \in Position
  <2> TAKE a \in Position
  <2> TAKE i \in 1 .. n
  <2>1. F[a][i] = ApplyFill(a, side, fills[i], fills[i] \div price)
    BY <1>4, Zenon
  <2>2. ApplyFill(a, side, fills[i], fills[i] \div price) \in Position
    BY <1>2, <1>3, ApplyFillType, Zenon
  <2> QED
    BY <2>1, <2>2, Zenon
<1>6. PICK h : StepsFrom(h, position, F, n)
  BY <1>2, StepsExist, Zenon
<1>7. \A i \in 0 .. n : h[i] \in Position
  BY <1>2, <1>5, <1>6, StepsStay
<1>8. h = [t \in 0 .. n |-> IF t = 0 THEN position ELSE ApplyFill(h[t - 1], side, fills[t], fills[t] \div price)]
  <2>1. h = [t \in 0 .. n |-> IF t = 0 THEN position ELSE F[h[t - 1]][t]]
    BY <1>6 DEF StepsFrom
  <2>2. \A t \in 0 .. n : t # 0 => F[h[t - 1]][t] = ApplyFill(h[t - 1], side, fills[t], fills[t] \div price)
    <3> TAKE t \in 0 .. n
    <3> HAVE t # 0
    <3>1. t \in 1 .. n /\ t - 1 \in 0 .. n
      BY <1>2
    <3> QED
      BY <1>5, <1>7, <3>1, Zenon
  <2> QED
    BY <2>1, <2>2
<1>9. PICK after : after = CHOOSE g : g = [t \in 0 .. n |-> IF t = 0 THEN position
                                              ELSE ApplyFill(g[t - 1], side, fills[t], fills[t] \div price)]
  OBVIOUS
<1>10. after = [t \in 0 .. n |-> IF t = 0 THEN position
                                 ELSE ApplyFill(after[t - 1], side, fills[t], fills[t] \div price)]
  BY <1>8, <1>9, Zenon
<1>11. ApplyFills(side, fills, price) = after[n]
  BY <1>1, <1>9, Zenon DEF ApplyFills
<1>12. PICK buys : buys = (side = "BUY")
  OBVIOUS
<1> DEFINE sum(k) == SumFunctionOnSet(fills, 1 .. k)
           T == {k \in Nat : k <= n => /\ after[k] \in Position /\ sum(k) \in Nat
                                       /\ after[k].notional <= position.notional + (IF side = "BUY" THEN sum(k) ELSE 0)}
<1>13. 0 \in T
  <2>1. 1 .. 0 = {} /\ after[0] = position
    BY <1>2, <1>10
  <2>2. sum(0) = 0
    BY <2>1, SumEmpty
  <2>3. PICK m : m = position.notional
    OBVIOUS
  <2>4. m \in Nat
    BY <2>3 DEF Position
  <2>5. m <= m + (IF side = "BUY" THEN 0 ELSE 0)
    BY <2>4
  <2>6. after[0].notional <= position.notional + (IF side = "BUY" THEN sum(0) ELSE 0)
    BY <2>1, <2>2, <2>3, <2>5, Zenon
  <2> HIDE DEF sum
  <2> QED
    BY <2>1, <2>2, <2>6
<1>14. ASSUME NEW k \in Nat, k \in T PROVE k + 1 \in T
  <2> SUFFICES ASSUME k + 1 <= n
               PROVE  /\ after[k + 1] \in Position /\ sum(k + 1) \in Nat
                      /\ after[k + 1].notional <= position.notional + (IF side = "BUY" THEN sum(k + 1) ELSE 0)
    OBVIOUS
  <2>1. PICK x, p : x = fills[k + 1] /\ p = after[k]
    OBVIOUS
  <2>2. k + 1 \in 1 .. n /\ k + 1 \in 0 .. n /\ k + 1 # 0 /\ (k + 1) - 1 = k /\ k <= n
    BY <1>2
  <2>3. x \in Nat /\ x \div price \in Nat
    BY <1>2, <1>3, <2>1, <2>2, Zenon
  <2>4. p \in Position /\ sum(k) \in Nat /\ p.notional <= position.notional + (IF side = "BUY" THEN sum(k) ELSE 0)
    <3> HIDE DEF sum
    <3> QED
      BY <1>14, <2>1, <2>2
  <2>5. after[k + 1] = ApplyFill(p, side, x, x \div price)
    BY <1>10, <2>1, <2>2
  <2>6. PICK q : q = ApplyFill(p, side, x, x \div price)
    OBVIOUS
  <2>7. q \in Position /\ q.notional <= p.notional + (IF side = "BUY" THEN x ELSE 0)
    BY <2>3, <2>4, <2>6, ApplyFillType, Zenon
  <2>8. sum(k + 1) = x + sum(k)
    <3>1. IsFiniteSet(1 .. k)
      BY FS_Interval
    <3>2. k + 1 \notin 1 .. k /\ 1 .. k + 1 = (1 .. k) \cup {k + 1}
      OBVIOUS
    <3>3. \A i \in (1 .. k) \cup {k + 1} : fills[i] \in Int
      BY <1>2, <2>2
    <3> QED
      BY <2>1, <3>1, <3>2, <3>3, SumAdd
  <2>9. PICK a, b, c, s, t : /\ a = q.notional /\ b = p.notional /\ c = position.notional
                             /\ s = sum(k) /\ t = sum(k + 1)
    OBVIOUS
  <2>10. a \in Nat /\ b \in Nat /\ c \in Nat
    BY <2>4, <2>7, <2>9 DEF Position
  <2>11. /\ t = x + s /\ s \in Nat /\ a <= b + (IF side = "BUY" THEN x ELSE 0)
         /\ b <= c + (IF side = "BUY" THEN s ELSE 0)
    BY <2>4, <2>7, <2>8, <2>9, Zenon
  <2>12. t \in Nat /\ a <= c + (IF side = "BUY" THEN t ELSE 0)
    BY <2>3, <2>10, <2>11
  <2> QED
    BY <2>5, <2>6, <2>7, <2>9, <2>12, Zenon
<1> HIDE DEF T
<1>15. \A k \in Nat : k \in T
  BY <1>13, <1>14, SetInduction
<1>16. SumFunction(fills) = sum(n)
  BY <1>2 DEF SumFunction
<1> QED
  <2>1. n \in Nat /\ n <= n
    BY <1>2
  <2>2. /\ after[n] \in Position
        /\ after[n].notional <= position.notional + (IF side = "BUY" THEN sum(n) ELSE 0)
    BY <1>15, <2>1, Zenon DEF T
  <2> QED
    BY <1>11, <1>16, <2>2, Zenon

-----------------------------------------------------------------------------
(* The books: budget, holdings and metrics against the history of the orders *)
(* that filled.                                                              *)

Order == [side : {"BUY", "SELL"}, notional : Nat, filled : Nat]
Notionals(h) == [i \in DOMAIN h |-> h[i].notional]
Purchases(h) == [i \in DOMAIN h |-> IF h[i].side = "BUY" THEN h[i].filled ELSE 0]

LEMMA AppendIs ==
    ASSUME NEW s \in Seq(Nat), NEW z \in Nat
    PROVE  [i \in 1 .. Len(s) + 1 |-> IF i = Len(s) + 1 THEN z ELSE s[i]] = Append(s, z)
<1>1. PICK n, t : n = Len(s) /\ t = [i \in 1 .. Len(s) + 1 |-> IF i = Len(s) + 1 THEN z ELSE s[i]]
  OBVIOUS
<1>2. n \in Nat /\ \A i \in 1 .. n : s[i] \in Nat
  BY <1>1
<1>3. t = [i \in 1 .. n + 1 |-> IF i = n + 1 THEN z ELSE s[i]]
  BY <1>1
<1>4. \A i \in 1 .. n + 1 : t[i] \in Nat /\ t[i] = IF i = n + 1 THEN z ELSE s[i]
  BY <1>2, <1>3
<1>5. t \in Seq(Nat) /\ Len(t) = n + 1
  BY <1>2, <1>3, <1>4
<1>6. Append(s, z) \in Seq(Nat) /\ Len(Append(s, z)) = n + 1
  BY <1>1
<1>7. \A i \in 1 .. n + 1 : Append(s, z)[i] = IF i = n + 1 THEN z ELSE s[i]
  BY <1>1, <1>2
<1>8. \A i \in 1 .. Len(t) : t[i] = Append(s, z)[i]
  BY <1>4, <1>5, <1>7
<1>9. Len(t) = Len(Append(s, z))
  BY <1>5, <1>6
<1> QED
  BY <1>1, <1>5, <1>6, <1>8, <1>9, SameElements, Zenon

LEMMA HistoryGrows ==
    ASSUME NEW h \in Seq(Order), NEW o \in Order
    PROVE  /\ SumFunction(Notionals(h)) \in Nat /\ SumFunction(Purchases(h)) \in Nat
           /\ SumFunction(Notionals(Append(h, o))) = SumFunction(Notionals(h)) + o.notional
           /\ SumFunction(Purchases(Append(h, o)))
                = SumFunction(Purchases(h)) + (IF o.side = "BUY" THEN o.filled ELSE 0)
<1>1. PICK a, b : a = Notionals(h) /\ b = Purchases(h)
  OBVIOUS
<1>2. PICK x, y : x = o.notional /\ y = IF o.side = "BUY" THEN o.filled ELSE 0
  OBVIOUS
<1>3. DOMAIN h = 1 .. Len(h) /\ Len(h) \in Nat /\ \A i \in 1 .. Len(h) : h[i] \in Order
  OBVIOUS
<1>4. \A p \in Order : p.notional \in Nat /\ p.filled \in Nat
  BY DEF Order
<1>5. x \in Nat /\ y \in Nat
  BY <1>2, <1>4
<1>6. /\ a = [i \in 1 .. Len(h) |-> h[i].notional]
      /\ b = [i \in 1 .. Len(h) |-> IF h[i].side = "BUY" THEN h[i].filled ELSE 0]
  BY <1>1, <1>3, Zenon DEF Notionals, Purchases
<1>7. \A i \in 1 .. Len(h) : a[i] \in Nat /\ b[i] \in Nat
  BY <1>3, <1>4, <1>6
<1>8. a \in Seq(Nat) /\ b \in Seq(Nat) /\ Len(a) = Len(h) /\ Len(b) = Len(h)
  BY <1>3, <1>6, <1>7
<1>9. PICK g : g = Append(h, o)
  OBVIOUS
<1>10. /\ DOMAIN g = 1 .. Len(h) + 1 /\ g[Len(h) + 1] = o
       /\ \A i \in 1 .. Len(h) : g[i] = h[i]
  BY <1>3, <1>9
<1>11. Notionals(g) = Append(a, x)
  <2>1. Notionals(g) = [i \in 1 .. Len(h) + 1 |-> g[i].notional]
    BY <1>10, Zenon DEF Notionals
  <2>2. \A i \in 1 .. Len(h) + 1 : g[i].notional = IF i = Len(h) + 1 THEN x ELSE a[i]
    <3> TAKE i \in 1 .. Len(h) + 1
    <3>1. i = Len(h) + 1 \/ i \in 1 .. Len(h)
      BY <1>3
    <3>2. i \in 1 .. Len(h) => i # Len(h) + 1
      BY <1>3
    <3> QED
      BY <1>2, <1>6, <1>10, <3>1, <3>2, Zenon
  <2>3. Notionals(g) = [i \in 1 .. Len(a) + 1 |-> IF i = Len(a) + 1 THEN x ELSE a[i]]
    BY <1>8, <2>1, <2>2
  <2> QED
    BY <1>5, <1>8, <2>3, AppendIs
<1>12. Purchases(g) = Append(b, y)
  <2>1. Purchases(g) = [i \in 1 .. Len(h) + 1 |-> IF g[i].side = "BUY" THEN g[i].filled ELSE 0]
    BY <1>10, Zenon DEF Purchases
  <2>2. \A i \in 1 .. Len(h) + 1 :
          (IF g[i].side = "BUY" THEN g[i].filled ELSE 0) = IF i = Len(h) + 1 THEN y ELSE b[i]
    <3> TAKE i \in 1 .. Len(h) + 1
    <3>1. i = Len(h) + 1 \/ i \in 1 .. Len(h)
      BY <1>3
    <3>2. i \in 1 .. Len(h) => i # Len(h) + 1
      BY <1>3
    <3> QED
      BY <1>2, <1>6, <1>10, <3>1, <3>2, Zenon
  <2>3. Purchases(g) = [i \in 1 .. Len(b) + 1 |-> IF i = Len(b) + 1 THEN y ELSE b[i]]
    BY <1>8, <2>1, <2>2
  <2> QED
    BY <1>5, <1>8, <2>3, AppendIs
<1>13. /\ SumFunction(a) \in Nat /\ SumFunction(b) \in Nat
       /\ SumFunction(Append(a, x)) = SumFunction(a) + x
       /\ SumFunction(Append(b, y)) = SumFunction(b) + y
  BY <1>5, <1>8, SumOfSequence
<1> QED
  BY <1>1, <1>2, <1>9, <1>11, <1>12, <1>13, Zenon

Counters == [cycles : Nat, exceptions : Nat, approvals : Nat, rejections : Nat, full : Nat, partial : Nat]
Tick(flags, k) == IF k \in flags THEN 1 ELSE 0

LEMMA CountType ==
    ASSUME metrics \in Counters, NEW flags
    PROVE  /\ Count(flags) \in Counters
           /\ Count(flags).cycles = metrics.cycles + Tick(flags, "cycles")
           /\ Count(flags).exceptions = metrics.exceptions + Tick(flags, "exceptions")
           /\ Count(flags).approvals = metrics.approvals + Tick(flags, "approvals")
           /\ Count(flags).rejections = metrics.rejections + Tick(flags, "rejections")
           /\ Count(flags).full = metrics.full + Tick(flags, "full")
           /\ Count(flags).partial = metrics.partial + Tick(flags, "partial")
  BY DEF Counters, Count, Tick

\* What a cycle may await.
Awaitable == {NoOrder} \cup [side : {"BUY", "SELL"}, notional : Policy.minimum .. Policy.maximum, price : {1, 2}]

Books ==
  /\ history \in Seq(Order)
  /\ awaited \in Awaitable
  /\ budget = [reserved |-> awaited.notional, consumed |-> SumFunction(Notionals(history))]
  /\ awaited.notional + SumFunction(Notionals(history)) <= Total
  /\ SumFunction(Purchases(history)) <= SumFunction(Notionals(history))
  /\ position \in Position /\ position.notional <= SumFunction(Purchases(history))
  /\ metrics \in Counters
  /\ metrics.full + metrics.partial = Len(history)
  /\ metrics.full + metrics.partial <= metrics.approvals
  /\ metrics.approvals + metrics.rejections <= metrics.cycles

PaperInv ==
  /\ turn \in Nat
  /\ mode \in {"session", "live"}
  /\ Books
  /\ mode = "session" => metrics.cycles + metrics.exceptions + Awaited = turn

\* What a cycle is given.
LEMMA MarketType ==
    ASSUME NEW m \in Markets
    PROVE  /\ m.view.signals \in Seq(Signals) /\ m.view.strategy = select(m.view.signals)
           /\ m.price \in {1, 2}
<1>1. PICK v : v = m.view
  OBVIOUS
<1>2. v \in Views /\ m.price \in {1, 2}
  BY <1>1 DEF Markets
<1>3. PICK r \in Readings : v = Read(r)
  BY <1>2 DEF Views
<1>4. r \in Reading
  <2>1. Calm \in Reading
    BY DEF Calm, Reading
  <2>3. \A x \in Reading, a \in Nat : [x EXCEPT !.n = a] \in Reading
    BY DEF Reading
  <2>5. \A x \in Reading, a, b, c \in Int : [x EXCEPT !.ema = a, !.macd = b, !.slope = c] \in Reading
    BY DEF Reading
  <2>6. PICK up, down, short : /\ up = [Calm EXCEPT !.ema = 40, !.macd = 60, !.slope = 4]
                               /\ down = [Calm EXCEPT !.ema = -40, !.macd = -60, !.slope = -4]
                               /\ short = [Calm EXCEPT !.n = 14]
    OBVIOUS
  <2>7. up \in Reading
    <3>1. PICK a, b, c : a = 40 /\ b = 60 /\ c = 4
      OBVIOUS
    <3>2. a \in Int /\ b \in Int /\ c \in Int
      BY <3>1
    <3>3. up = [Calm EXCEPT !.ema = a, !.macd = b, !.slope = c]
      BY <2>6, <3>1
    <3> QED
      BY <2>1, <2>5, <3>2, <3>3, Zenon
  <2>8. down \in Reading
    <3>1. PICK a, b, c : a = -40 /\ b = -60 /\ c = -4
      OBVIOUS
    <3>2. a \in Int /\ b \in Int /\ c \in Int
      BY <3>1
    <3>3. down = [Calm EXCEPT !.ema = a, !.macd = b, !.slope = c]
      BY <2>6, <3>1
    <3> QED
      BY <2>1, <2>5, <3>2, <3>3, Zenon
  <2>9. short \in Reading
    BY <2>1, <2>3, <2>6
  <2>10. Readings = {Calm, up, down, short}
    BY <2>6, Zenon DEF Readings
  <2> QED
    BY <1>3, <2>1, <2>7, <2>8, <2>9, <2>10
<1>5. PICK g : g = generate(r)
  OBVIOUS
<1>6. v = [signals |-> g, strategy |-> select(g)]
  BY <1>3, <1>5, Zenon DEF Read
<1>7. \A x, y : [signals |-> x, strategy |-> y].signals = x /\ [signals |-> x, strategy |-> y].strategy = y
  OBVIOUS
<1>8. v.signals = g /\ v.strategy = select(g)
  BY <1>6, <1>7, Zenon
<1>9. g \in Seq(Signals)
  BY <1>4, <1>5, GeneratedType, Zenon
<1> QED
  BY <1>1, <1>2, <1>8, <1>9, Zenon

CyclesBack == metrics.cycles + metrics.exceptions

LEMMA AwaitableType ==
    /\ NoOrder \in Awaitable /\ NoOrder.notional = 0
    /\ \A o \in Awaitable : o.notional \in Nat
<1>1. Policy.minimum \in Nat /\ Policy.maximum \in Nat
  BY PaperAssumption
<1> QED
  BY <1>1 DEF Awaitable, NoOrder

\* A cycle that trades nothing.
LEMMA IdleCycleKeeps ==
    ASSUME Books, NEW flags \in {{"exceptions"}, {"cycles"}, {"cycles", "rejections"}},
           metrics' = Count(flags), UNCHANGED <<budget, awaited, position, history>>
    PROVE  Books' /\ CyclesBack' = CyclesBack + 1
<1>1. PICK old, new : old = metrics /\ new = Count(flags)
  OBVIOUS
<1>2. old \in Counters /\ new \in Counters
  BY <1>1, CountType, Zenon DEF Books
<1>3. /\ new.cycles = old.cycles + Tick(flags, "cycles")
      /\ new.exceptions = old.exceptions + Tick(flags, "exceptions")
      /\ new.approvals = old.approvals + Tick(flags, "approvals")
      /\ new.rejections = old.rejections + Tick(flags, "rejections")
      /\ new.full = old.full + Tick(flags, "full")
      /\ new.partial = old.partial + Tick(flags, "partial")
  BY <1>1, CountType, Zenon DEF Books
<1>4. PICK c, e, r : c = Tick(flags, "cycles") /\ e = Tick(flags, "exceptions") /\ r = Tick(flags, "rejections")
  OBVIOUS
<1>5. /\ Tick(flags, "approvals") = 0 /\ Tick(flags, "full") = 0 /\ Tick(flags, "partial") = 0
      /\ c \in Nat /\ e \in Nat /\ r \in Nat /\ c + e = 1 /\ r <= c
  BY <1>4 DEF Tick
<1>6. /\ old.cycles \in Nat /\ old.exceptions \in Nat /\ old.approvals \in Nat /\ old.rejections \in Nat
      /\ old.full \in Nat /\ old.partial \in Nat
  BY <1>2 DEF Counters
<1>7. /\ old.full + old.partial = Len(history) /\ old.full + old.partial <= old.approvals
      /\ old.approvals + old.rejections <= old.cycles
  BY <1>1, Zenon DEF Books
<1>8. /\ new.full + new.partial = Len(history) /\ new.full + new.partial <= new.approvals
      /\ new.approvals + new.rejections <= new.cycles
      /\ new.cycles + new.exceptions = old.cycles + old.exceptions + 1
  <2>1. /\ new.cycles = old.cycles + c /\ new.exceptions = old.exceptions + e
        /\ new.approvals = old.approvals + 0 /\ new.rejections = old.rejections + r
        /\ new.full = old.full + 0 /\ new.partial = old.partial + 0
    BY <1>3, <1>4, <1>5, Zenon
  <2>2. PICK w, x, y, z, f, p, l : /\ w = old.cycles /\ x = old.exceptions /\ y = old.approvals
                                   /\ z = old.rejections /\ f = old.full /\ p = old.partial /\ l = Len(history)
    OBVIOUS
  <2>3. w \in Nat /\ x \in Nat /\ y \in Nat /\ z \in Nat /\ f \in Nat /\ p \in Nat
    BY <1>6, <2>2, Zenon
  <2>4. f + p = l /\ f + p <= y /\ y + z <= w
    BY <1>7, <2>2, Zenon
  <2>5. /\ (f + 0) + (p + 0) = l /\ (f + 0) + (p + 0) <= y + 0 /\ (y + 0) + (z + r) <= w + c
        /\ (w + c) + (x + e) = w + x + 1
    BY <1>5, <2>3, <2>4
  <2> QED
    BY <2>1, <2>2, <2>5, Zenon
<1>9. Books'
  BY <1>1, <1>2, <1>8, Zenon DEF Books
<1> QED
  BY <1>1, <1>8, <1>9, Zenon DEF CyclesBack

\* The end of a cycle whose order was approved: the reservation is settled, and
\* what the venue filled is in the portfolio and in the history.
LEMMA SettlingKeeps ==
    ASSUME Books, NEW n \in Nat, NEW fills \in Seq(Nat), NEW filled, filled = SumFunction(fills), filled <= n,
           NEW ok \in BOOLEAN, filled > 0 => ok, NEW action \in {"BUY", "SELL"}, NEW price \in {1, 2},
           awaited.notional = n, awaited' = NoOrder,
           budget' = Settled(n, filled, ok),
           position' = IF filled > 0 THEN ApplyFills(action, fills, price) ELSE position,
           history' = IF filled > 0 THEN Append(history, [side |-> action, notional |-> n, filled |-> filled])
                      ELSE history,
           metrics' = Count({"cycles", "approvals"} \cup
                            IF ~ok \/ filled = 0 THEN {} ELSE {IF filled >= n THEN "full" ELSE "partial"})
    PROVE  Books' /\ CyclesBack' = CyclesBack + 1
<1>1. PICK flags : flags = {"cycles", "approvals"} \cup
                           IF ~ok \/ filled = 0 THEN {} ELSE {IF filled >= n THEN "full" ELSE "partial"}
  OBVIOUS
<1>2. PICK old, new : old = metrics /\ new = Count(flags)
  OBVIOUS
<1>3. old \in Counters /\ new \in Counters
  BY <1>2, CountType, Zenon DEF Books
<1>4. /\ new.cycles = old.cycles + Tick(flags, "cycles")
      /\ new.exceptions = old.exceptions + Tick(flags, "exceptions")
      /\ new.approvals = old.approvals + Tick(flags, "approvals")
      /\ new.rejections = old.rejections + Tick(flags, "rejections")
      /\ new.full = old.full + Tick(flags, "full")
      /\ new.partial = old.partial + Tick(flags, "partial")
  BY <1>2, CountType, Zenon DEF Books
<1>5. filled \in Nat
  BY SumOfSequence
<1>6. PICK f, p : f = Tick(flags, "full") /\ p = Tick(flags, "partial")
  OBVIOUS
<1>7. /\ Tick(flags, "cycles") = 1 /\ Tick(flags, "approvals") = 1
      /\ Tick(flags, "exceptions") = 0 /\ Tick(flags, "rejections") = 0
      /\ f \in Nat /\ p \in Nat /\ f + p = IF filled > 0 THEN 1 ELSE 0
  BY <1>1, <1>5, <1>6 DEF Tick
<1>8. /\ old.cycles \in Nat /\ old.exceptions \in Nat /\ old.approvals \in Nat /\ old.rejections \in Nat
      /\ old.full \in Nat /\ old.partial \in Nat
  BY <1>3 DEF Counters
<1>9. /\ old.full + old.partial = Len(history) /\ old.full + old.partial <= old.approvals
      /\ old.approvals + old.rejections <= old.cycles
  BY <1>2, Zenon DEF Books
<1>10. /\ new.full + new.partial = Len(history) + IF filled > 0 THEN 1 ELSE 0
       /\ new.full + new.partial <= new.approvals
       /\ new.approvals + new.rejections <= new.cycles
       /\ new.cycles + new.exceptions = old.cycles + old.exceptions + 1
  <2>1. /\ new.cycles = old.cycles + 1 /\ new.exceptions = old.exceptions + 0
        /\ new.approvals = old.approvals + 1 /\ new.rejections = old.rejections + 0
        /\ new.full = old.full + f /\ new.partial = old.partial + p
    BY <1>4, <1>6, <1>7, Zenon
  <2>2. PICK one : one = IF filled > 0 THEN 1 ELSE 0
    OBVIOUS
  <2>3. f \in Nat /\ p \in Nat /\ one \in {0, 1} /\ f + p = one
    BY <1>7, <2>2
  <2>4. PICK w, x, y, z, g, q, l : /\ w = old.cycles /\ x = old.exceptions /\ y = old.approvals
                                   /\ z = old.rejections /\ g = old.full /\ q = old.partial /\ l = Len(history)
    OBVIOUS
  <2>5. w \in Nat /\ x \in Nat /\ y \in Nat /\ z \in Nat /\ g \in Nat /\ q \in Nat
    BY <1>8, <2>4, Zenon
  <2>6. g + q = l /\ g + q <= y /\ y + z <= w
    BY <1>9, <2>4, Zenon
  <2>7. /\ (g + f) + (q + p) = l + one /\ (g + f) + (q + p) <= y + 1 /\ (y + 1) + (z + 0) <= w + 1
        /\ (w + 1) + (x + 0) = w + x + 1
    <3>1. one \in Nat /\ one <= 1 /\ l \in Nat /\ l = g + q /\ one = f + p
      BY <2>3, <2>5, <2>6
    <3>2. (g + f) + (q + p) = l + one
      BY <2>3, <2>5, <3>1
    <3>3. l + one <= y + 1
      BY <2>5, <2>6, <3>1
    <3>4. (y + 1) + (z + 0) <= w + 1 /\ (w + 1) + (x + 0) = w + x + 1
      BY <2>5, <2>6
    <3> QED
      BY <3>2, <3>3, <3>4
  <2> QED
    BY <2>1, <2>2, <2>4, <2>7, Zenon
<1>11. metrics' = new
  BY <1>1, <1>2, Zenon
<1>12. CyclesBack' = CyclesBack + 1
  BY <1>2, <1>10, <1>11, Zenon DEF CyclesBack
<1>r. PICK req, buy : req = SumFunction(Notionals(history)) /\ buy = SumFunction(Purchases(history))
  OBVIOUS
<1>s. req \in Nat /\ buy \in Nat
  <2>1. history \in Seq(Order)
    BY Zenon DEF Books
  <2>2. PICK o : o = [side |-> "BUY", notional |-> 0, filled |-> 0]
    OBVIOUS
  <2>3. o \in Order
    BY <2>2 DEF Order
  <2> QED
    BY <1>r, <2>1, <2>3, HistoryGrows, Zenon
<1>t. budget = [reserved |-> n, consumed |-> req] /\ n + req <= Total /\ buy <= req
  BY <1>r, Zenon DEF Books
<1>u. budget.reserved - n = 0 /\ budget.consumed = req
  BY <1>t
<1>v. awaited' \in Awaitable /\ awaited'.notional = 0
  BY AwaitableType, Zenon
<1>w. Total \in Nat
  BY PaperAssumption
<1>13. CASE ~(filled > 0)
  <2>1. position' = position /\ history' = history
    BY <1>13, Zenon
  <2>b. budget' = [reserved |-> 0, consumed |-> req] /\ 0 + req <= Total
    <3>1. budget' = [reserved |-> budget.reserved - n, consumed |-> budget.consumed]
      BY <1>13, Zenon DEF Settled
    <3> QED
      BY <1>s, <1>t, <1>u, <1>w, <3>1
  <2>2. new.full + new.partial = Len(history)
    BY <1>9, <1>8, <1>10, <1>13
  <2>3. Books'
    BY <1>3, <1>10, <1>11, <1>r, <1>v, <2>1, <2>b, <2>2, Zenon DEF Books
  <2> QED
    BY <1>12, <2>3
<1>14. CASE filled > 0
  <2>1. PICK o : o = [side |-> action, notional |-> n, filled |-> filled]
    OBVIOUS
  <2>2. o \in Order /\ o.side = action /\ o.notional = n /\ o.filled = filled
    BY <1>5, <2>1 DEF Order
  <2>3. history' = Append(history, o)
    BY <1>14, <2>1, Zenon
  <2>4. history \in Seq(Order)
    BY Zenon DEF Books
  <2>5. history' \in Seq(Order) /\ Len(history') = Len(history) + 1
    BY <2>2, <2>3, <2>4
  <2>7. PICK add : add = IF action = "BUY" THEN filled ELSE 0
    OBVIOUS
  <2>8. /\ req \in Nat /\ buy \in Nat
        /\ SumFunction(Notionals(history')) = req + n
        /\ SumFunction(Purchases(history')) = buy + add
    <3>1. /\ SumFunction(Notionals(Append(history, o))) = req + o.notional
          /\ SumFunction(Purchases(Append(history, o))) = buy + (IF o.side = "BUY" THEN o.filled ELSE 0)
      BY <2>2, <2>4, <1>r, HistoryGrows, Zenon
    <3>2. req \in Nat /\ buy \in Nat
      BY <2>2, <2>4, <1>r, HistoryGrows, Zenon
    <3>4. o.notional = n /\ (IF o.side = "BUY" THEN o.filled ELSE 0) = add
      BY <2>2, <2>7
    <3>3. /\ SumFunction(Notionals(Append(history, o))) = req + n
          /\ SumFunction(Purchases(Append(history, o))) = buy + add
      BY <3>1, <3>4, Zenon
    <3> QED
      BY <2>3, <3>2, <3>3, Zenon
  <2>11. budget' = [reserved |-> 0, consumed |-> req + n]
    <3>1. budget' = [reserved |-> budget.reserved - n, consumed |-> budget.consumed + n]
      BY <1>14, Zenon DEF Settled
    <3> QED
      BY <1>u, <3>1
  <2>12. 0 + (req + n) <= Total
    BY <1>s, <1>t, <1>w
  <2>13. add \in Nat /\ add <= n /\ buy + add <= req + n
    BY <1>5, <2>7, <2>8, <1>t
  <2>14. PICK pos, held : pos = ApplyFills(action, fills, price) /\ held = position.notional
    OBVIOUS
  <2>15. position' = pos
    BY <1>14, <2>14, Zenon
  <2>16. position \in Position /\ held \in Nat /\ held <= buy
    <3>1. position \in Position /\ held <= buy
      BY <1>r, <2>14, Zenon DEF Books
    <3> QED
      BY <2>14, <3>1 DEF Position
  <2>17. pos \in Position /\ pos.notional <= held + add
    BY <2>7, <2>14, <2>16, ApplyFillsType, Zenon
  <2>18. pos.notional <= buy + add
    <3>1. pos.notional \in Nat
      BY <2>17 DEF Position
    <3> QED
      BY <2>8, <2>13, <2>16, <2>17, <3>1
  <2>19. new.full + new.partial = Len(history')
    BY <1>10, <1>14, <2>5
  <2>20. /\ history' \in Seq(Order)
         /\ budget' = [reserved |-> 0, consumed |-> SumFunction(Notionals(history'))]
         /\ 0 + SumFunction(Notionals(history')) <= Total
         /\ SumFunction(Purchases(history')) <= SumFunction(Notionals(history'))
         /\ position' \in Position /\ position'.notional <= SumFunction(Purchases(history'))
    BY <2>5, <2>8, <2>11, <2>12, <2>13, <2>15, <2>17, <2>18, Zenon
  <2>21. Books'
    BY <1>3, <1>10, <1>11, <1>v, <2>19, <2>20, Zenon DEF Books
  <2> QED
    BY <1>12, <2>21
<1> QED
  BY <1>13, <1>14

\* The reservation of an approved awaited.
LEMMA ReservingKeeps ==
    ASSUME Books, awaited = NoOrder, NEW decision, NEW n \in Policy.minimum .. Policy.maximum, NEW price \in {1, 2},
           decision.action \in {"BUY", "SELL"}, Approved(n),
           Reserves(decision, n, price), UNCHANGED <<position, history>>
    PROVE  Books' /\ CyclesBack' = CyclesBack /\ awaited' # NoOrder
<1>1. PICK side : side = decision.action
  OBVIOUS
<1>2. awaited' = [side |-> side, notional |-> n, price |-> price]
  BY <1>1, Zenon DEF Reserves
<1>3. awaited' \in Awaitable /\ awaited'.notional = n /\ awaited'.side # "HOLD"
  BY <1>1, <1>2 DEF Awaitable
<1>4. PICK req : req = SumFunction(Notionals(history))
  OBVIOUS
<1>5. budget = [reserved |-> 0, consumed |-> req]
  BY <1>4, AwaitableType, Zenon DEF Books
<1>6. n \in Nat
  BY PaperAssumption
<1>7. budget' = [reserved |-> n, consumed |-> req]
  <2>1. budget' = [reserved |-> budget.reserved + n, consumed |-> budget.consumed]
    BY Zenon DEF Reserves
  <2> QED
    BY <1>5, <1>6, <2>1
<1>8. req \in Nat
  <2>1. history \in Seq(Order)
    BY Zenon DEF Books
  <2>2. PICK o : o = [side |-> "BUY", notional |-> 0, filled |-> 0]
    OBVIOUS
  <2>3. o \in Order
    BY <2>2 DEF Order
  <2> QED
    BY <1>4, <2>1, <2>3, HistoryGrows, Zenon
<1>9. n + req <= Total
  <2>1. budget.reserved + budget.consumed + n <= Total
    BY Zenon DEF Approved
  <2> QED
    BY <1>5, <1>6, <1>8, <2>1, PaperAssumption
<1>10. metrics' = metrics
  BY Zenon DEF Reserves
<1>11. Books'
  BY <1>3, <1>4, <1>7, <1>9, <1>10, Zenon DEF Books
<1>12. awaited' # NoOrder
  BY <1>3 DEF NoOrder
<1> QED
  BY <1>10, <1>11, <1>12, Zenon DEF CyclesBack

\* A cycle up to the await keeps the books; it returned or awaits an awaited.
LEMMA CycleKeeps ==
    ASSUME Books, NEW m \in Markets, Cycle(m)
    PROVE  /\ Books' /\ awaited = NoOrder
           /\ \/ CyclesBack' = CyclesBack + 1 /\ awaited' = awaited
              \/ CyclesBack' = CyclesBack /\ awaited' # NoOrder
<1>1. PICK d, n : d = DecisionFor(m) /\ n = Notional(d, m.price, Policy)
  OBVIOUS
<1>2. awaited = NoOrder /\ UNCHANGED <<position, history>>
  BY Zenon DEF Cycle
<1>3. \/ metrics' = Count({"exceptions"}) /\ UNCHANGED <<budget, awaited>>
      \/ metrics' = Count({"cycles"}) /\ UNCHANGED <<budget, awaited>>
      \/ metrics' = Count({"cycles", "rejections"}) /\ UNCHANGED <<budget, awaited>>
      \/ m.view.signals # <<>> /\ n # 0 /\ Approved(n) /\ Reserves(d, n, m.price)
  BY <1>1, Zenon DEF Cycle
<1>4. ASSUME NEW flags \in {{"exceptions"}, {"cycles"}, {"cycles", "rejections"}},
             metrics' = Count(flags), UNCHANGED <<budget, awaited>>
      PROVE  Books' /\ CyclesBack' = CyclesBack + 1 /\ awaited' = awaited
  BY <1>2, <1>4, IdleCycleKeeps
<1>5. CASE n # 0 /\ Approved(n) /\ Reserves(d, n, m.price)
  <2>1. d.confidence \in 0 .. 100
    <3>1. PICK s, st : s = m.view.signals /\ st = m.view.strategy
      OBVIOUS
    <3>2. s \in Seq(Signals) /\ st.confidence \in 0 .. 100
      BY <3>1, MarketType, SelectType, Zenon
    <3>3. PICK risk, pf : /\ risk = [halted |-> FALSE, budget_available |-> Total - budget.reserved - budget.consumed]
                          /\ pf = [exposure |-> position.notional, max_exposure |-> Total]
      OBVIOUS
    <3>4. d = decide(st, s, risk, pf)
      BY <1>1, <3>1, <3>3, Zenon DEF DecisionFor
    <3> QED
      BY <3>2, <3>4, DecideType, Zenon
  <2>2. m.price \in {1, 2} /\ m.price \in Int
    BY MarketType
  <2>3. Policy.base \in Nat /\ Policy.maximum \in Nat /\ Policy.minimum \in Nat /\ Policy.minimum > 0
    BY PaperAssumption
  <2>4. n \in Policy.minimum .. Policy.maximum /\ d.action \in {"BUY", "SELL"}
    BY <1>1, <1>5, <2>1, <2>2, <2>3, NotionalType, Zenon
  <2> QED
    BY <1>2, <1>5, <2>2, <2>4, ReservingKeeps, Zenon
<1> QED
  BY <1>2, <1>3, <1>4, <1>5, Zenon

\* And so does what follows the venue's answer; the cycle has returned.
LEMMA AnswerKeeps ==
    ASSUME Books, NEW plan \in Venue, NEW duplicated \in BOOLEAN, NEW venue, Answer(plan, duplicated, venue)
    PROVE  Books' /\ CyclesBack' = CyclesBack + 1 /\ awaited # NoOrder /\ awaited' = NoOrder
<1>1. PICK n, side, price : n = awaited.notional /\ side = awaited.side /\ price = awaited.price
  OBVIOUS
<1>2. PICK ok : ok = Acknowledged(venue)
  OBVIOUS
<1>3. PICK fills : fills = IF ok THEN Fills(FillMessages(n, plan, duplicated)) ELSE <<>>
  OBVIOUS
<1>4. PICK filled : filled = SumFunction(fills)
  OBVIOUS
<1>5. /\ awaited # NoOrder /\ awaited' = NoOrder
      /\ budget' = Settled(n, filled, ok)
      /\ position' = IF filled > 0 THEN ApplyFills(side, fills, price) ELSE position
      /\ history' = IF filled > 0 THEN Append(history, [side |-> side, notional |-> n, filled |-> filled])
                    ELSE history
      /\ metrics' = Count({"cycles", "approvals"} \cup
                          IF ~ok \/ filled = 0 THEN {} ELSE {IF filled >= n THEN "full" ELSE "partial"})
  BY <1>1, <1>2, <1>3, <1>4, Zenon DEF Answer, FilledBy
<1>6. n \in Policy.minimum .. Policy.maximum /\ side \in {"BUY", "SELL"} /\ price \in {1, 2}
  <2>1. awaited \in [side : {"BUY", "SELL"}, notional : Policy.minimum .. Policy.maximum, price : {1, 2}]
    BY <1>5, Zenon DEF Books, Awaitable
  <2> QED
    BY <1>1, <2>1
<1>7. n \in Nat /\ n > 0
  <2>1. Policy.maximum \in Nat /\ Policy.minimum \in Nat /\ Policy.minimum > 0
    BY PaperAssumption
  <2> QED
    BY <1>6, <2>1
<1>8. fills \in Seq(Nat) /\ filled <= n
  <2>1. CASE ok
    <3>1. PICK a : a = PlanAmounts(n, plan)
      OBVIOUS
    <3>2. a \in Seq(Nat) /\ SumFunction(a) <= n
      BY <1>6, <1>7, <3>1, AmountsType, Zenon
    <3>3. Fills(FillMessages(n, plan, duplicated)) = a
      BY <3>1, <3>2, EachFillOnce, Zenon
    <3> QED
      BY <1>3, <1>4, <2>1, <3>2, <3>3, Zenon
  <2>2. CASE ~ok
    <3>1. fills = <<>> /\ <<>> \in Seq(Nat)
      BY <1>3, <2>2
    <3>2. SumFunction(<<>>) = 0
      BY <3>1, SumOfSequence
    <3> QED
      BY <1>4, <1>7, <3>1, <3>2
  <2> QED
    BY <2>1, <2>2
<1>9. filled > 0 => ok
  <2>1. CASE ~ok
    <3>1. fills = <<>> /\ <<>> \in Seq(Nat)
      BY <1>3, <2>1
    <3>2. filled = 0
      BY <1>4, <3>1, SumOfSequence
    <3> QED
      BY <3>2
  <2> QED
    BY <2>1
<1>10. ok \in BOOLEAN
  BY <1>2 DEF Acknowledged
<1>11. Books' /\ CyclesBack' = CyclesBack + 1
  BY <1>1, <1>4, <1>5, <1>6, <1>7, <1>8, <1>9, <1>10, SettlingKeeps, Zenon
<1> QED
  BY <1>5, <1>11

LEMMA PaperInitially == Init => PaperInv
<1> SUFFICES ASSUME Init PROVE PaperInv
  OBVIOUS
<1>1. history = <<>> /\ budget = [reserved |-> 0, consumed |-> 0] /\ turn = 0 /\ mode \in {"session", "live"}
     /\ awaited = NoOrder /\ Awaited = 0
  BY DEF Init, Awaited
<1>2. position = [qty |-> 0, notional |-> 0] /\ position \in Position /\ position.notional = 0
  BY DEF Init, Position
<1>3. /\ metrics \in Counters /\ metrics.full + metrics.partial = 0 /\ metrics.approvals = 0
      /\ metrics.approvals + metrics.rejections = 0 /\ metrics.cycles = 0 /\ metrics.cycles + metrics.exceptions = 0
  BY DEF Init, Metrics, Counters
<1>4. Notionals(<<>>) = <<>> /\ Purchases(<<>>) = <<>> /\ <<>> \in Seq(Nat) /\ <<>> \in Seq(Order) /\ Len(<<>>) = 0
  BY DEF Notionals, Purchases
<1>5. SumFunction(<<>>) = 0
  BY <1>4, SumOfSequence
<1>6. Total \in Nat
  BY PaperAssumption
<1>7. Books
  <2>1. /\ SumFunction(Notionals(history)) = 0 /\ SumFunction(Purchases(history)) = 0
        /\ history \in Seq(Order) /\ Len(history) = 0
        /\ awaited \in Awaitable /\ awaited.notional = 0
    BY <1>1, <1>4, <1>5, AwaitableType, Zenon
  <2>2. 0 + 0 <= Total /\ 0 <= 0
    BY <1>6
  <2> QED
    BY <1>1, <1>2, <1>3, <2>1, <2>2, Zenon DEF Books
<1> QED
  BY <1>1, <1>3, <1>7 DEF PaperInv

\* What follows from the books' not being touched.
LEMMA PaperRests ==
    ASSUME PaperInv, UNCHANGED <<mode, budget, awaited, position, turn, history, metrics>> PROVE PaperInv'
<1>1. Books'
  BY Zenon DEF PaperInv, Books
<1> QED
  BY <1>1, Zenon DEF PaperInv, Awaited

LEMMA PaperSteps == PaperInv /\ [Next]_vars => PaperInv'
<1> SUFFICES ASSUME PaperInv, [Next]_vars PROVE PaperInv'
  OBVIOUS
<1>a. Books /\ turn \in Nat /\ mode \in {"session", "live"} /\ (mode = "session" => CyclesBack + Awaited = turn)
  BY Zenon DEF PaperInv, CyclesBack
<1>b. CyclesBack \in Nat
  <2>1. metrics \in Counters
    BY <1>a, Zenon DEF Books
  <2> QED
    BY <2>1 DEF Counters, CyclesBack
<1>c. ASSUME NEW m \in Markets, Cycle(m) PROVE Books' /\ CyclesBack' + Awaited' = CyclesBack + Awaited + 1
  <2>1. /\ Books' /\ awaited = NoOrder
        /\ \/ CyclesBack' = CyclesBack + 1 /\ awaited' = awaited
           \/ CyclesBack' = CyclesBack /\ awaited' # NoOrder
    BY <1>a, <1>c, CycleKeeps
  <2>2. Awaited = 0 /\ (awaited' = NoOrder => Awaited' = 0) /\ (awaited' # NoOrder => Awaited' = 1)
    BY <2>1, Zenon DEF Awaited
  <2> QED
    BY <1>b, <2>1, <2>2
<1>d. ASSUME NEW p \in Venue, NEW d \in BOOLEAN, NEW v, Answer(p, d, v) PROVE PaperInv'
  <2>1. Books' /\ CyclesBack' = CyclesBack + 1 /\ awaited # NoOrder /\ awaited' = NoOrder
    BY <1>a, <1>d, AnswerKeeps
  <2>2. Awaited = 1 /\ Awaited' = 0
    BY <2>1, Zenon DEF Awaited
  <2>3. CyclesBack' + Awaited' = CyclesBack + Awaited
    BY <1>b, <2>1, <2>2
  <2>4. UNCHANGED <<mode, turn>>
    BY <1>d, Zenon DEF Answer
  <2> QED
    BY <1>a, <2>1, <2>3, <2>4, Zenon DEF PaperInv, CyclesBack
<1>1. ASSUME NEW m \in Markets, SessionCycle(m) PROVE PaperInv'
  <2>1. Cycle(m) /\ turn' = turn + 1 /\ mode' = mode
    BY <1>1, Zenon DEF SessionCycle
  <2>2. Books' /\ CyclesBack' + Awaited' = CyclesBack + Awaited + 1
    BY <1>c, <2>1
  <2>3. turn' \in Nat
    BY <1>a, <2>1
  <2>4. mode' = "session" => CyclesBack' + Awaited' = turn'
    BY <1>a, <2>1, <2>2, Zenon
  <2> QED
    BY <1>a, <2>1, <2>2, <2>3, <2>4, Zenon DEF PaperInv, CyclesBack
<1>e. ASSUME NEW p \in Plans, NEW d \in BOOLEAN, NEW v \in {"accept", "reject", "throw"}, SessionAnswer(p, d, v)
      PROVE  PaperInv'
  BY <1>d, <1>e, Zenon DEF SessionAnswer, Venue
<1>f. CASE LiveAnswer
  <2>1. [kind |-> "full"] \in Venue /\ FALSE \in BOOLEAN
    BY Zenon DEF Venue
  <2> QED
    BY <1>d, <1>f, <2>1, Zenon DEF LiveAnswer
<1>2. CASE SessionEnds
  BY <1>2, PaperRests, Zenon DEF SessionEnds
<1>3. CASE Connected
  BY <1>3, PaperRests, Zenon DEF Connected
<1>4. CASE ConnectFails
  <2>1. /\ mode = "live" /\ metrics' = Count({"exceptions"}) /\ UNCHANGED <<mode, turn>>
        /\ UNCHANGED <<budget, awaited, position, history>>
    BY <1>4, Zenon DEF ConnectFails
  <2>2. Books'
    BY <1>a, <2>1, IdleCycleKeeps
  <2>3. mode' # "session"
    BY <2>1
  <2> QED
    BY <1>a, <2>1, <2>2, <2>3, Zenon DEF PaperInv
<1>5. ASSUME NEW enough \in BOOLEAN, NEW m \in Markets, LiveInterval(enough, m) PROVE PaperInv'
  <2>1. mode = "live" /\ mode' = mode /\ turn' = turn + 1
    BY <1>5, Zenon DEF LiveInterval
  <2>2. Books'
    <3>1. CASE Cycle(m)
      BY <1>c, <3>1
    <3>2. CASE UNCHANGED <<budget, awaited, position, history, metrics>>
      BY <1>a, <3>2, Zenon DEF Books
    <3> QED
      BY <1>5, <3>1, <3>2, Zenon DEF LiveInterval
  <2>3. turn' \in Nat /\ mode' # "session"
    BY <1>a, <2>1
  <2> QED
    BY <1>a, <2>1, <2>2, <2>3, Zenon DEF PaperInv
<1>6. CASE LiveEnds
  BY <1>6, PaperRests, Zenon DEF LiveEnds
<1>7. CASE UNCHANGED vars
  BY <1>7, PaperRests, Zenon DEF vars
<1> QED
  BY <1>1, <1>2, <1>3, <1>4, <1>5, <1>6, <1>7, <1>e, <1>f, Zenon DEF Next

LEMMA BooksAreBalanced == PaperInv => BooksBalance
<1> SUFFICES ASSUME PaperInv PROVE BooksBalance
  OBVIOUS
<1>1. Books /\ (mode = "session" => metrics.cycles + metrics.exceptions + Awaited = turn)
  BY Zenon DEF PaperInv
<1>2. PICK req, buy : req = SumFunction(Notionals(history)) /\ buy = SumFunction(Purchases(history))
  OBVIOUS
<1>3. /\ budget = [reserved |-> awaited.notional, consumed |-> req] /\ awaited.notional + req <= Total /\ buy <= req
      /\ position \in Position /\ position.notional <= buy
  BY <1>1, <1>2, Zenon DEF Books
<1>4. Requested = req /\ Bought = buy
  BY <1>2, Zenon DEF Requested, Bought, Notionals, Purchases
<1>5. budget.reserved = awaited.notional /\ budget.consumed = req
  BY <1>3
<1>6. EveryApprovalIsSettled
  BY <1>3, <1>4, <1>5, Zenon DEF EveryApprovalIsSettled
<1>7. req \in Nat /\ buy \in Nat
  <2>1. history \in Seq(Order)
    BY <1>1, Zenon DEF Books
  <2>2. PICK o : o = [side |-> "BUY", notional |-> 0, filled |-> 0]
    OBVIOUS
  <2>3. o \in Order
    BY <2>2 DEF Order
  <2> QED
    BY <1>2, <2>1, <2>3, HistoryGrows, Zenon
<1>8. HoldingsArePaidFor
  <2>1. position.notional \in Nat /\ (position.qty = 0 => position.notional = 0)
    BY <1>3 DEF Position
  <2>2. position.notional <= req
    BY <1>3, <1>7, <2>1
  <2> QED
    BY <1>3, <1>4, <1>5, <2>1, <2>2, Zenon DEF HoldingsArePaidFor
<1>9. MetricsAddUp
  BY <1>1, Zenon DEF Books, MetricsAddUp
<1> QED
  BY <1>6, <1>8, <1>9 DEF BooksBalance

(* The books balance (runPaperCycle and its callers): in every state of    *)
(* every session and live run, with any budget, sizing policy and number   *)
(* of cycles, and any venue that fills no order by more than it asked for, *)
(* only the awaited order is reserved, what is consumed is what the orders *)
(* that filled asked for, the holdings were bought and paid for, and the   *)
(* metrics count every cycle once.                                         *)
THEOREM BooksHold == Spec => []BooksBalance
<1>1. Init => PaperInv
  BY PaperInitially
<1>2. PaperInv /\ [Next]_vars => PaperInv'
  BY PaperSteps
<1>3. PaperInv => BooksBalance
  BY BooksAreBalanced
<1> QED
  BY <1>1, <1>2, <1>3, PTL DEF Spec

-----------------------------------------------------------------------------
(* The portfolio: every cap holds in the end. *)

\* A share of a part is at most the part.
LEMMA ScaledType ==
    ASSUME NEW cap \in Nat, NEW total \in Nat, NEW w \in Nat
    PROVE  ScaledTo(cap, total, w) \in Nat /\ ScaledTo(cap, total, w) <= w
<1>1. CASE total > cap /\ total > 0
  <2>1. (w * cap) \div total \in Nat /\ (w * cap) \div total <= w
    BY <1>1, ShareIsPart
  <2> QED
    BY <1>1, <2>1 DEF ScaledTo
<1>2. CASE ~(total > cap /\ total > 0)
  BY <1>2 DEF ScaledTo
<1> QED
  BY <1>1, <1>2

\* Scaled to a cap, weights add up to no more than the cap.
LEMMA ScaledFits ==
    ASSUME NEW S, IsFiniteSet(S), NEW f, \A x \in S : f[x] \in Nat, NEW cap \in Nat,
           NEW g, \A x \in S : g[x] = ScaledTo(cap, SumFunctionOnSet(f, S), f[x])
    PROVE  SumFunctionOnSet(g, S) <= cap
<1>1. PICK total, out : total = SumFunctionOnSet(f, S) /\ out = SumFunctionOnSet(g, S)
  OBVIOUS
<1>2. total \in Nat
  <2>1. \A x \in S : f[x] \in Int /\ f[x] >= 0
    OBVIOUS
  <2>2. SumFunctionOnSet(f, S) \in Int /\ SumFunctionOnSet(f, S) >= 0
    BY <2>1, SumType
  <2> QED
    BY <1>1, <2>2
<1>3. \A x \in S : g[x] = ScaledTo(cap, total, f[x]) /\ g[x] \in Nat
  BY <1>1, <1>2, ScaledType
<1>4. out \in Int
  <2>1. \A x \in S : g[x] \in Int
    BY <1>3
  <2> QED
    BY <1>1, <2>1, SumType
<1>5. CASE total > cap /\ total > 0
  <2>1. ASSUME NEW x \in S PROVE g[x] \in Int /\ f[x] \in Int /\ g[x] * total <= f[x] * cap
    <3>1. g[x] = (f[x] * cap) \div total
      BY <1>3, <1>5 DEF ScaledTo
    <3>2. PICK w, y : w = f[x] /\ y = f[x] * cap
      OBVIOUS
    <3>3. w \in Nat /\ y \in Int
      BY <3>2
    <3>4. (y \div total) * total <= y
      BY <1>2, <1>5, <3>3, Quotient
    <3> QED
      BY <1>3, <3>1, <3>2, <3>3, <3>4
  <2>2. SumFunctionOnSet(g, S) * total <= SumFunctionOnSet(f, S) * cap
    <3>1. \A x \in S : g[x] \in Int /\ f[x] \in Int /\ g[x] * total <= f[x] * cap
      BY <2>1
    <3>2. total \in Int /\ cap \in Int
      BY <1>2
    <3> QED
      BY <3>1, <3>2, SumCompared, Zenon
  <2>3. out * total <= total * cap
    BY <1>1, <2>2
  <2>4. ~(out >= cap + 1)
    <3> SUFFICES ASSUME out >= cap + 1 PROVE FALSE
      OBVIOUS
    <3>1. out * total >= (cap + 1) * total
      BY <1>2, <1>4
    <3>2. (cap + 1) * total = total * cap + total
      BY <1>2
    <3>3. PICK m, n : m = out * total /\ n = total * cap
      OBVIOUS
    <3>4. m \in Int /\ n \in Int
      BY <1>2, <1>4, <3>3
    <3> QED
      BY <1>2, <1>5, <2>3, <3>1, <3>2, <3>3, <3>4
  <2> QED
    BY <1>1, <1>4, <2>4
<1>6. CASE ~(total > cap /\ total > 0)
  <2>1. total <= cap
    BY <1>2, <1>6
  <2>2. \A x \in S : g[x] = f[x]
    BY <1>3, <1>6 DEF ScaledTo
  <2>3. out = total
    BY <1>1, <2>2, SumAgrees
  <2> QED
    BY <1>1, <2>1, <2>3
<1> QED
  BY <1>5, <1>6


\* One cluster brought under its cap: no weight grows.
LEMMA GroupFits ==
    ASSUME NEW n \in Nat, NEW w \in [1 .. n -> Nat], NEW group \in SUBSET (1 .. n), NEW cap \in Nat
    PROVE  LET v == groupCapped(w, group, cap) IN
           v \in [1 .. n -> Nat] /\ (\A s \in 1 .. n : v[s] <= w[s]) /\ SumFunctionOnSet(v, group) <= cap
<1>1. PICK v, total : v = groupCapped(w, group, cap) /\ total = SumFunctionOnSet(w, group)
  OBVIOUS
<1>2. IsFiniteSet(group)
  <2>1. IsFiniteSet(1 .. n)
    BY FS_Interval
  <2> QED
    BY <2>1, FS_Subset
<1>3. total \in Nat
  <2>1. \A x \in group : w[x] \in Int /\ w[x] >= 0
    OBVIOUS
  <2>2. SumFunctionOnSet(w, group) \in Int /\ SumFunctionOnSet(w, group) >= 0
    BY <1>2, <2>1, SumType
  <2> QED
    BY <1>1, <2>2
<1>4. v = [s \in 1 .. n |-> IF s \in group THEN ScaledTo(cap, total, w[s]) ELSE w[s]]
  BY <1>1 DEF groupCapped
<1>5. \A s \in 1 .. n : ScaledTo(cap, total, w[s]) \in Nat /\ ScaledTo(cap, total, w[s]) <= w[s]
  BY <1>3, ScaledType
<1>6. v \in [1 .. n -> Nat] /\ \A s \in 1 .. n : v[s] <= w[s]
  BY <1>4, <1>5
<1>7. \A s \in group : v[s] = ScaledTo(cap, SumFunctionOnSet(w, group), w[s]) /\ w[s] \in Nat
  BY <1>1, <1>4
<1>8. SumFunctionOnSet(v, group) <= cap
  BY <1>2, <1>7, ScaledFits
<1> QED
  BY <1>1, <1>6, <1>8

\* The clusters one after the other: none leaves its cap again.
LEMMA ClustersFit ==
    ASSUME NEW n \in Nat, NEW w \in [1 .. n -> Nat], NEW groups \in Seq(SUBSET (1 .. n)), NEW cap \in Nat
    PROVE  LET v == clustersCapped(w, groups, cap) IN
           /\ v \in [1 .. n -> Nat] /\ \A s \in 1 .. n : v[s] <= w[s]
           /\ \A i \in 1 .. Len(groups) : SumFunctionOnSet(v, groups[i]) <= cap
<1>1. PICK W, m : W = [1 .. n -> Nat] /\ m = Len(groups)
  OBVIOUS
<1>2. m \in Nat /\ \A i \in 1 .. m : groups[i] \in SUBSET (1 .. n)
  BY <1>1
<1>3. PICK F : F = [a \in W |-> [i \in 1 .. m |-> groupCapped(a, groups[i], cap)]]
  OBVIOUS
<1>4. PICK h : StepsFrom(h, w, F, m)
  BY <1>2, StepsExist
<1>5. ASSUME NEW a \in W, NEW i \in 1 .. m
      PROVE  /\ F[a][i] = groupCapped(a, groups[i], cap) /\ F[a][i] \in W
             /\ \A s \in 1 .. n : F[a][i][s] <= a[s]
             /\ SumFunctionOnSet(F[a][i], groups[i]) <= cap
  <2>1. F[a][i] = groupCapped(a, groups[i], cap)
    BY <1>3
  <2>2. a \in [1 .. n -> Nat] /\ groups[i] \in SUBSET (1 .. n)
    BY <1>1, <1>2
  <2>3. LET v == groupCapped(a, groups[i], cap) IN
        v \in [1 .. n -> Nat] /\ (\A s \in 1 .. n : v[s] <= a[s]) /\ SumFunctionOnSet(v, groups[i]) <= cap
    BY <2>2, GroupFits, Zenon
  <2> QED
    BY <1>1, <2>1, <2>3, Zenon
<1>6. \A i \in 0 .. m : h[i] \in W
  <2>1. w \in W /\ \A a \in W : \A i \in 1 .. m : F[a][i] \in W
    BY <1>1, <1>5
  <2> QED
    BY <1>2, <1>4, <2>1, StepsStay, Zenon
<1>7. h = [i \in 0 .. m |-> IF i = 0 THEN w ELSE F[h[i - 1]][i]]
  BY <1>4 DEF StepsFrom
<1>8. \A i \in 1 .. m : i - 1 \in 0 .. m /\ h[i] = groupCapped(h[i - 1], groups[i], cap)
  BY <1>2, <1>5, <1>6, <1>7
<1>9. h = [i \in 0 .. m |-> IF i = 0 THEN w ELSE groupCapped(h[i - 1], groups[i], cap)]
  <2>1. \A i \in 0 .. m : i # 0 => i \in 1 .. m
    BY <1>2
  <2>2. \A i \in 0 .. m : (IF i = 0 THEN w ELSE F[h[i - 1]][i]) = (IF i = 0 THEN w ELSE groupCapped(h[i - 1], groups[i], cap))
    BY <1>7, <1>8, <2>1
  <2> QED
    BY <1>7, <2>2
<1>10. PICK g : /\ g = [i \in 0 .. m |-> IF i = 0 THEN w ELSE groupCapped(g[i - 1], groups[i], cap)]
                /\ clustersCapped(w, groups, cap) = g[m]
  BY <1>1, <1>9 DEF clustersCapped
<1> DEFINE Capped(k) == /\ g[k] \in W /\ \A s \in 1 .. n : g[k][s] <= w[s]
                        /\ \A i \in 1 .. k : SumFunctionOnSet(g[k], groups[i]) <= cap
           T == {k \in Nat : k \in 0 .. m => Capped(k)}
<1>11. 0 \in T
  <2>1. g[0] = w
    BY <1>2, <1>10
  <2>2. \A s \in 1 .. n : w[s] <= w[s]
    OBVIOUS
  <2> QED
    BY <1>1, <2>1, <2>2
<1>12. ASSUME NEW k \in Nat, k \in T PROVE k + 1 \in T
  <2> SUFFICES ASSUME k + 1 \in 0 .. m PROVE Capped(k + 1)
    OBVIOUS
  <2>1. k \in 0 .. m /\ k + 1 \in 1 .. m /\ k + 1 # 0 /\ (k + 1) - 1 = k
    BY <1>2
  <2>2. Capped(k)
    BY <1>12, <2>1
  <2>3. PICK a, b : a = g[k] /\ b = g[k + 1]
    OBVIOUS
  <2>4. b = groupCapped(a, groups[k + 1], cap)
    BY <1>10, <2>1, <2>3
  <2>5. a \in [1 .. n -> Nat] /\ (\A s \in 1 .. n : a[s] <= w[s]) /\ \A i \in 1 .. k : SumFunctionOnSet(a, groups[i]) <= cap
    BY <1>1, <2>2, <2>3
  <2>6. b \in [1 .. n -> Nat] /\ (\A s \in 1 .. n : b[s] <= a[s]) /\ SumFunctionOnSet(b, groups[k + 1]) <= cap
    <3>1. groups[k + 1] \in SUBSET (1 .. n)
      BY <1>2, <2>1
    <3>2. LET v == groupCapped(a, groups[k + 1], cap) IN
          v \in [1 .. n -> Nat] /\ (\A s \in 1 .. n : v[s] <= a[s]) /\ SumFunctionOnSet(v, groups[k + 1]) <= cap
      BY <2>5, <3>1, GroupFits, Zenon
    <3> QED
      BY <2>4, <3>2, Zenon
  <2>7. \A s \in 1 .. n : b[s] <= w[s]
    BY <2>5, <2>6
  <2>8. ASSUME NEW i \in 1 .. k PROVE SumFunctionOnSet(b, groups[i]) <= cap
    <3>1. PICK u : u = groups[i]
      OBVIOUS
    <3>2. u \in SUBSET (1 .. n) /\ IsFiniteSet(u)
      <4>0. m \in Nat
        BY <1>2
      <4>1. i \in 1 .. m
        BY <2>1, <4>0
      <4>2. IsFiniteSet(1 .. n)
        BY FS_Interval
      <4> QED
        BY <1>2, <3>1, <4>1, <4>2, FS_Subset
    <3>3. \A x \in u : b[x] \in Int /\ a[x] \in Int /\ b[x] <= a[x]
      BY <2>5, <2>6, <3>2
    <3>4. PICK p, q : p = SumFunctionOnSet(b, u) /\ q = SumFunctionOnSet(a, u)
      OBVIOUS
    <3>5. p <= q
      BY <3>2, <3>3, <3>4, SumBelow, Zenon
    <3>6. q <= cap
      BY <2>5, <3>1, <3>4
    <3>7. p \in Int /\ q \in Int
      BY <3>2, <3>3, <3>4, SumType
    <3>8. p <= cap
      BY <3>5, <3>6, <3>7
    <3> QED
      BY <3>1, <3>4, <3>8
  <2>9. \A i \in 1 .. k + 1 : SumFunctionOnSet(b, groups[i]) <= cap
    <3>1. \A i \in 1 .. k + 1 : i \in 1 .. k \/ i = k + 1
      OBVIOUS
    <3> QED
      BY <2>6, <2>8, <3>1
  <2> QED
    BY <1>1, <2>3, <2>6, <2>7, <2>9
<1> HIDE DEF T
<1>13. \A k \in Nat : k \in T
  BY <1>11, <1>12, SetInduction
<1>14. Capped(m)
  <2> HIDE DEF Capped
  <2>1. m \in 0 .. m
    BY <1>2
  <2> QED
    BY <1>2, <1>13, <2>1 DEF T
<1> QED
  BY <1>1, <1>10, <1>14

\* No two of the groups share a symbol, and every symbol is in one.
Partitions(groups, symbols) ==
  /\ \A i, j \in DOMAIN groups : i # j => groups[i] \cap groups[j] = {}
  /\ \A s \in symbols : \E i \in DOMAIN groups : s \in groups[i]

\* The clusters are sets of symbols, and every symbol is in exactly one.
LEMMA ClustersType ==
    ASSUME NEW n \in Nat, NEW corr, NEW threshold
    PROVE  /\ clusterByCorrelation(n, corr, threshold) \in Seq(SUBSET (1 .. n))
           /\ Partitions(clusterByCorrelation(n, corr, threshold), 1 .. n)
<1> DEFINE assigned(groups) == UNION ToSet(groups)
           Next1(groups, s) == IF s \in assigned(groups) THEN groups
                               ELSE Append(groups, {s} \cup {t \in (1 .. n) \ assigned(groups) : Absolute(corr[s, t]) >= threshold})
<1>1. PICK S, A : S = SUBSET (1 .. n) /\ A = Seq(S)
  OBVIOUS
<1>2. PICK F : F = [a \in A |-> [i \in 1 .. n |-> Next1(a, i)]]
  OBVIOUS
<1>3. PICK h : StepsFrom(h, <<>>, F, n)
  BY StepsExist
<1>4. ASSUME NEW a \in A, NEW i \in 1 .. n PROVE F[a][i] = Next1(a, i) /\ Next1(a, i) \in A
  <2>1. F[a][i] = Next1(a, i)
    BY <1>2
  <2>2. PICK c : c = {i} \cup {t \in (1 .. n) \ assigned(a) : Absolute(corr[i, t]) >= threshold}
    OBVIOUS
  <2>3. c \in S
    BY <1>1, <2>2
  <2>4. Append(a, c) \in A
    BY <1>1, <2>3
  <2> QED
    BY <2>1, <2>2, <2>4
<1>a. ASSUME NEW a \in A, NEW k \in 0 .. n, k + 1 \in 1 .. n, Partitions(a, 1 .. k)
      PROVE  Partitions(Next1(a, k + 1), 1 .. k + 1)
  <2>1. PICK c : c = {k + 1} \cup {t \in (1 .. n) \ assigned(a) : Absolute(corr[k + 1, t]) >= threshold}
    OBVIOUS
  <2>2. \A t : t \in assigned(a) <=> \E i \in DOMAIN a : t \in a[i]
    BY DEF ToSet
  <2> HIDE DEF assigned
  <2>3. \A s \in 1 .. k + 1 : s \in 1 .. k \/ s = k + 1
    OBVIOUS
  <2>4. CASE k + 1 \in assigned(a)
    <3>1. Next1(a, k + 1) = a
      BY <2>4
    <3> QED
      BY <1>a, <2>2, <2>3, <2>4, <3>1 DEF Partitions
  <2>5. CASE k + 1 \notin assigned(a)
    <3>1. Next1(a, k + 1) = Append(a, c)
      BY <2>1, <2>5
    <3>2. c \in S /\ k + 1 \in c /\ \A t \in c : t \notin assigned(a)
      <4>1. \A t \in c : t = k + 1 \/ (t \in 1 .. n /\ t \notin assigned(a))
        BY <2>1, Zenon
      <4>2. k + 1 \in c
        BY <2>1, Zenon
      <4>3. \A t \in c : t \in 1 .. n
        BY <4>1, <1>a
      <4>4. c \in S
        BY <1>1, <4>3
      <4>5. \A t \in c : t \notin assigned(a)
        BY <2>5, <4>1, Zenon
      <4> QED
        BY <4>2, <4>4, <4>5
    <3>3. PICK b, m : b = Append(a, c) /\ m = Len(a)
      OBVIOUS
    <3>4. /\ m \in Nat /\ DOMAIN a = 1 .. m /\ DOMAIN b = 1 .. m + 1
          /\ b[m + 1] = c /\ \A i \in 1 .. m : b[i] = a[i]
      BY <1>1, <3>2, <3>3
    <3>5. \A i \in 1 .. m + 1 : i \in 1 .. m \/ i = m + 1
      BY <3>4
    <3>6. \A i \in 1 .. m : i \in 1 .. m + 1 /\ b[i] \cap c = {}
      <4> TAKE i \in 1 .. m
      <4>1. b[i] = a[i] /\ i \in DOMAIN a /\ i \in 1 .. m + 1
        BY <3>4
      <4>2. \A t \in a[i] : t \in assigned(a)
        BY <2>2, <4>1, Zenon
      <4> QED
        BY <3>2, <4>1, <4>2, Zenon
    <3>7. \A i, j \in 1 .. m + 1 : i # j => b[i] \cap b[j] = {}
      BY <1>a, <3>4, <3>5, <3>6 DEF Partitions
    <3>8. \A s \in 1 .. k + 1 : \E i \in 1 .. m + 1 : s \in b[i]
      <4> TAKE s \in 1 .. k + 1
      <4>1. CASE s = k + 1
        BY <3>2, <3>4, <4>1
      <4>2. CASE s \in 1 .. k
        BY <1>a, <3>4, <3>6, <4>2 DEF Partitions
      <4> QED
        BY <2>3, <4>1, <4>2
    <3> QED
      BY <3>1, <3>3, <3>4, <3>7, <3>8 DEF Partitions
  <2> QED
    BY <2>4, <2>5
<1> HIDE DEF Next1
<1>5. \A i \in 0 .. n : h[i] \in A
  <2>1. <<>> \in A /\ \A a \in A : \A i \in 1 .. n : F[a][i] \in A
    BY <1>1, <1>4
  <2> QED
    BY <1>3, <2>1, StepsStay, Zenon
<1>6. h = [i \in 0 .. n |-> IF i = 0 THEN <<>> ELSE F[h[i - 1]][i]]
  BY <1>3 DEF StepsFrom
<1>7. h = [i \in 0 .. n |-> IF i = 0 THEN <<>> ELSE Next1(h[i - 1], i)]
  <2>1. \A i \in 0 .. n : i # 0 => i \in 1 .. n /\ i - 1 \in 0 .. n
    OBVIOUS
  <2>2. \A i \in 0 .. n : (IF i = 0 THEN <<>> ELSE F[h[i - 1]][i]) = (IF i = 0 THEN <<>> ELSE Next1(h[i - 1], i))
    BY <1>4, <1>5, <2>1
  <2> QED
    BY <1>6, <2>2
<1>8. PICK g : /\ g = [i \in 0 .. n |-> IF i = 0 THEN <<>> ELSE Next1(g[i - 1], i)]
               /\ clusterByCorrelation(n, corr, threshold) = g[n]
  BY <1>7 DEF clusterByCorrelation, Next1
<1> DEFINE T == {k \in Nat : k \in 0 .. n => g[k] \in A /\ Partitions(g[k], 1 .. k)}
<1>9. 0 \in T
  <2>1. g[0] = <<>>
    BY <1>8
  <2>2. Partitions(<<>>, 1 .. 0)
    BY DEF Partitions
  <2>3. <<>> \in A
    BY <1>1
  <2>4. g[0] \in A /\ Partitions(g[0], 1 .. 0)
    BY <2>1, <2>2, <2>3, Zenon
  <2> QED
    BY <2>4, Zenon
<1>10. ASSUME NEW k \in Nat, k \in T PROVE k + 1 \in T
  <2> SUFFICES ASSUME k + 1 \in 0 .. n PROVE g[k + 1] \in A /\ Partitions(g[k + 1], 1 .. k + 1)
    OBVIOUS
  <2>1. k \in 0 .. n /\ k + 1 \in 1 .. n /\ k + 1 # 0 /\ (k + 1) - 1 = k
    OBVIOUS
  <2>2. g[k] \in A /\ Partitions(g[k], 1 .. k) /\ g[k + 1] = Next1(g[k], k + 1)
    BY <1>8, <1>10, <2>1
  <2> QED
    BY <1>4, <1>a, <2>1, <2>2, Zenon
<1> HIDE DEF T
<1>11. n \in T
  BY <1>9, <1>10, SetInduction
<1> QED
  BY <1>1, <1>8, <1>11 DEF T

LEMMA MaxOfTwo == \A a, b \in Int : Max({a, b}) = IF a >= b THEN a ELSE b
<1> TAKE a, b \in Int
<1>1. PICK m : m = IF a >= b THEN a ELSE b
  OBVIOUS
<1>2. m \in {a, b} /\ \A y \in {a, b} : m >= y
  BY <1>1
<1>3. \A x \in {a, b} : (\A y \in {a, b} : x >= y) => x = m
  BY <1>2
<1>4. Max({a, b}) = m
  BY <1>2, <1>3 DEF Max
<1> QED
  BY <1>1, <1>4

\* The budget the risk engine has left.
LeftSet == [total : Nat, available : Nat]

LEMMA QuotientNat == ASSUME NEW x \in Nat, NEW n \in Nat, n > 0 PROVE x \div n \in Nat
  OBVIOUS

LEMMA CorrelationType ==
    ASSUME NEW n \in Nat, NEW corr \in [(1 .. n) \X (1 .. n) -> Int], NEW s \in 1 .. n
    PROVE  avgAbsCorr(corr, s, 1 .. n) \in Nat
<1>1. PICK rest, f : rest = (1 .. n) \ {s} /\ f = [t \in rest |-> Absolute(corr[s, t])]
  OBVIOUS
<1>2. IsFiniteSet(rest) /\ Cardinality(rest) \in Nat /\ (rest # {} => Cardinality(rest) > 0)
  <2>1. IsFiniteSet(1 .. n)
    BY FS_Interval
  <2>2. IsFiniteSet(rest)
    BY <1>1, <2>1, FS_Subset
  <2>3. Cardinality(rest) \in Nat /\ (Cardinality(rest) = 0 <=> rest = {})
    BY <2>2, FS_CardinalityType, FS_EmptySet
  <2> QED
    BY <2>2, <2>3
<1>3. \A t \in rest : f[t] \in Int /\ f[t] >= 0
  <2> TAKE t \in rest
  <2>1. PICK x : x = corr[s, t]
    OBVIOUS
  <2>2. t \in 1 .. n /\ <<s, t>> \in (1 .. n) \X (1 .. n)
    BY <1>1
  <2>3. x \in Int
    BY <2>1, <2>2
  <2>4. f[t] = Absolute(x)
    BY <1>1, <2>1
  <2> QED
    BY <2>3, <2>4 DEF Absolute
<1>4. SumFunctionOnSet(f, rest) \in Int /\ SumFunctionOnSet(f, rest) >= 0
  BY <1>2, <1>3, SumType
<1>5. DOMAIN f = rest
  BY <1>1
<1>6. PICK sum : sum = SumFunction(f)
  OBVIOUS
<1>7. sum \in Nat
  BY <1>4, <1>5, <1>6 DEF SumFunction
<1>8. avgAbsCorr(corr, s, 1 .. n) = IF rest = {} THEN 0 ELSE sum \div Cardinality(rest)
  BY <1>1, <1>6, Zenon DEF avgAbsCorr
<1>9. rest # {} => sum \div Cardinality(rest) \in Nat
  BY <1>2, <1>7, QuotientNat
<1> QED
  BY <1>8, <1>9

LEMMA CappedType ==
    ASSUME NEW n \in Nat, NEW corr \in [(1 .. n) \X (1 .. n) -> Int], NEW s \in 1 .. n, NEW c \in CandidateSet, NEW k \in CapSet
    PROVE  cappedWeight(c, corr, s, 1 .. n, k) \in 0 .. k.maxWeight
<1>1. PICK p, b, v, m, q : p = c.winProb /\ b = c.payoff /\ v = k.kelly /\ m = k.maxWeight /\ q = avgAbsCorr(corr, s, 1 .. n)
  OBVIOUS
<1>2. p \in 0 .. 100 /\ b \in Nat /\ b > 0 /\ v \in Nat /\ m \in Nat /\ q \in Nat
  <2>1. q \in Nat
    BY <1>1, CorrelationType, Zenon
  <2>2. p \in 0 .. 100 /\ b \in Nat /\ b > 0
    BY <1>1 DEF CandidateSet
  <2>3. v \in Nat /\ m \in Nat
    BY <1>1 DEF CapSet
  <2> QED
    BY <2>1, <2>2, <2>3
<1>3. PICK x, y : y = ((100 - p) * 1000) \div b /\ x = p * 100 - y
  OBVIOUS
<1>4. y \in Nat
  <2>1. (100 - p) * 1000 \in Nat
    BY <1>2
  <2> QED
    BY <1>2, <1>3, <2>1, QuotientNat
<1>5. x \in Int
  BY <1>2, <1>3, <1>4
<1>6. kellyFraction(c) = Max({0, x})
  BY <1>1, <1>3 DEF kellyFraction
<1>7. kellyFraction(c) \in Nat
  BY <1>5, <1>6, MaxOfTwo
<1>8. PICK w, z : w = kellyFraction(c) /\ z = (w * v) \div (100 + q)
  OBVIOUS
<1>9. z \in Nat
  <2>1. w * v \in Nat /\ 100 + q \in Nat /\ 100 + q > 0
    BY <1>2, <1>7, <1>8
  <2> QED
    BY <1>8, <2>1, QuotientNat
<1>10. cappedWeight(c, corr, s, 1 .. n, k) = Min({z, m})
  BY <1>1, <1>8, Zenon DEF cappedWeight
<1>11. Min({z, m}) \in 0 .. m
  BY <1>2, <1>9, MinOfTwo
<1> QED
  BY <1>1, <1>10, <1>11

LEMMA UtilizationType ==
    ASSUME NEW k \in CapSet, NEW left \in LeftSet
    PROVE  utilizationCap(k, left) \in 0 .. k.maxUtilization
<1>1. PICK m, t, a, z : m = k.maxUtilization /\ t = left.total /\ a = left.available
                        /\ z = IF t > 0 THEN (a * WholeBudget) \div t ELSE 0
  OBVIOUS
<1>2. m \in Nat /\ t \in Nat /\ a \in Nat
  BY <1>1 DEF CapSet, LeftSet
<1>3. z \in Nat
  <2>1. a * WholeBudget \in Nat
    BY <1>2 DEF WholeBudget
  <2>2. t > 0 => (a * WholeBudget) \div t \in Nat
    BY <1>2, <2>1, QuotientNat
  <2> QED
    BY <1>1, <2>2
<1>4. utilizationCap(k, left) = Min({m, z})
  BY <1>1 DEF utilizationCap
<1>5. Min({m, z}) \in 0 .. m
  BY <1>2, <1>3, MinOfTwo
<1> QED
  BY <1>1, <1>4, <1>5

\* For every number of candidates with any edge, every correlation matrix, caps
\* and budget: the plan of the portfolio engine stays inside every cap at once,
\* though the caps are applied one after the other and each rescales what the
\* ones before it left: per symbol, per correlated cluster (every symbol is in
\* exactly one), utilization, and the budget the risk engine still has.
THEOREM PlanStaysInsideCaps ==
    ASSUME NEW candidates \in Seq(CandidateSet),
           NEW corr \in [(1 .. Len(candidates)) \X (1 .. Len(candidates)) -> Int],
           NEW k \in CapSet, NEW left \in LeftSet
    PROVE  LET n    == Len(candidates)
               w    == optimize(candidates, corr, k, left)
               plan == planAllocations(candidates, corr, k, left)
           IN  /\ Partitions(clusterByCorrelation(n, corr, k.threshold), 1 .. n)
               /\ plan \in [1 .. n -> Nat] /\ SumFunction(plan) <= left.available
               /\ \A s \in 1 .. n : w[s] \in 0 .. k.maxWeight
               /\ \A g \in ToSet(clusterByCorrelation(n, corr, k.threshold)) : SumFunctionOnSet(w, g) <= k.maxGroup
               /\ SumFunction(w) <= k.maxUtilization
<1>1. PICK n, S : n = Len(candidates) /\ S = 1 .. n
  OBVIOUS
<1>2. n \in Nat /\ DOMAIN candidates = S /\ IsFiniteSet(S) /\ \A s \in S : candidates[s] \in CandidateSet
  <2>1. n \in Nat /\ DOMAIN candidates = S /\ \A s \in S : candidates[s] \in CandidateSet
    BY <1>1
  <2> QED
    BY <1>1, <2>1, FS_Interval
<1>3. PICK m, maxGroup, total, available, threshold :
             /\ m = k.maxWeight /\ maxGroup = k.maxGroup /\ total = left.total /\ available = left.available
             /\ threshold = k.threshold
  OBVIOUS
<1>4. m \in Nat /\ maxGroup \in Nat /\ total \in Nat /\ available \in Nat
  BY <1>3 DEF CapSet, LeftSet
<1>5. PICK capped : capped = [s \in S |-> cappedWeight(candidates[s], corr, s, S, k)]
  OBVIOUS
<1>6. capped \in [S -> Nat] /\ \A s \in S : capped[s] \in 0 .. m
  <2>1. \A s \in S : cappedWeight(candidates[s], corr, s, S, k) \in 0 .. m
    BY <1>1, <1>2, <1>3, CappedType
  <2>2. \A x \in 0 .. m : x \in Nat
    BY <1>4
  <2> QED
    BY <1>5, <2>1, <2>2
<1>7. PICK groups, grouped : groups = clusterByCorrelation(n, corr, threshold) /\ grouped = clustersCapped(capped, groups, maxGroup)
  OBVIOUS
<1>8. groups \in Seq(SUBSET S) /\ Partitions(groups, S)
  BY <1>1, <1>2, <1>7, ClustersType
<1>9. /\ grouped \in [S -> Nat] /\ \A s \in S : grouped[s] <= capped[s]
      /\ \A i \in 1 .. Len(groups) : SumFunctionOnSet(grouped, groups[i]) <= maxGroup
  <2>1. capped \in [1 .. n -> Nat] /\ groups \in Seq(SUBSET (1 .. n))
    BY <1>1, <1>6, <1>8
  <2>2. LET v == clustersCapped(capped, groups, maxGroup) IN
        /\ v \in [1 .. n -> Nat] /\ \A s \in 1 .. n : v[s] <= capped[s]
        /\ \A i \in 1 .. Len(groups) : SumFunctionOnSet(v, groups[i]) <= maxGroup
    BY <1>2, <1>4, <2>1, ClustersFit, Zenon
  <2> QED
    BY <1>1, <1>7, <2>2, Zenon
<1>10. PICK cap, sum, w : cap = utilizationCap(k, left) /\ sum = SumFunction(grouped)
                          /\ w = optimize(candidates, corr, k, left)
  OBVIOUS
<1>11. w = [s \in S |-> ScaledTo(cap, sum, grouped[s])]
  BY <1>1, <1>2, <1>3, <1>5, <1>7, <1>10, Zenon DEF optimize
<1>12. cap \in Nat /\ cap <= k.maxUtilization /\ k.maxUtilization \in Nat
  <2>1. k.maxUtilization \in Nat
    BY DEF CapSet
  <2>2. cap \in 0 .. k.maxUtilization
    BY <1>10, UtilizationType
  <2> QED
    BY <2>1, <2>2
<1>13. sum = SumFunctionOnSet(grouped, S) /\ sum \in Nat
  <2>1. DOMAIN grouped = S /\ \A s \in S : grouped[s] \in Int /\ grouped[s] >= 0
    BY <1>9
  <2>2. SumFunctionOnSet(grouped, S) \in Int /\ SumFunctionOnSet(grouped, S) >= 0
    BY <1>2, <2>1, SumType
  <2> QED
    BY <1>10, <2>1, <2>2 DEF SumFunction
<1>14. w \in [S -> Nat] /\ \A s \in S : w[s] <= grouped[s]
  <2>1. \A s \in S : ScaledTo(cap, sum, grouped[s]) \in Nat /\ ScaledTo(cap, sum, grouped[s]) <= grouped[s]
    BY <1>9, <1>12, <1>13, ScaledType
  <2> QED
    BY <1>11, <2>1
<1>15. SumFunction(w) <= k.maxUtilization
  <2>1. \A s \in S : grouped[s] \in Nat /\ w[s] = ScaledTo(cap, SumFunctionOnSet(grouped, S), grouped[s])
    BY <1>9, <1>11, <1>13
  <2>2. SumFunctionOnSet(w, S) <= cap
    BY <1>2, <1>12, <2>1, ScaledFits
  <2>3. SumFunctionOnSet(w, S) \in Int
    BY <1>2, <1>14, SumType
  <2>4. SumFunction(w) = SumFunctionOnSet(w, S)
    BY <1>14 DEF SumFunction
  <2> QED
    BY <1>12, <2>2, <2>3, <2>4
<1>16. \A s \in S : w[s] \in 0 .. m
  BY <1>4, <1>6, <1>9, <1>14
<1>17. ASSUME NEW g \in ToSet(groups) PROVE SumFunctionOnSet(w, g) <= maxGroup
  <2>1. PICK i \in 1 .. Len(groups) : g = groups[i]
    BY <1>8 DEF ToSet
  <2>2. g \in SUBSET S
    BY <1>8, <2>1
  <2>3. IsFiniteSet(g)
    BY <1>2, <2>2, FS_Subset
  <2>4. \A x \in g : w[x] \in Int /\ grouped[x] \in Int /\ w[x] <= grouped[x]
    BY <1>9, <1>14, <2>2
  <2>5. PICK p, q : p = SumFunctionOnSet(w, g) /\ q = SumFunctionOnSet(grouped, g)
    OBVIOUS
  <2>6. p <= q
    BY <2>3, <2>4, <2>5, SumBelow, Zenon
  <2>7. q <= maxGroup
    BY <1>9, <2>1, <2>5
  <2>8. p \in Int /\ q \in Int
    BY <2>3, <2>4, <2>5, SumType
  <2> QED
    BY <1>4, <2>5, <2>6, <2>7, <2>8
<1>18. PICK notional, plan : /\ notional = [s \in S |-> (w[s] * total) \div WholeBudget]
                             /\ plan = planAllocations(candidates, corr, k, left)
  OBVIOUS
<1>19. notional \in [S -> Nat]
  <2>1. ASSUME NEW s \in S PROVE (w[s] * total) \div WholeBudget \in Nat
    <3>1. w[s] * total \in Nat
      BY <1>4, <1>14
    <3> QED
      BY <3>1 DEF WholeBudget
  <2> QED
    BY <1>18, <2>1
<1>20. plan = [s \in S |-> ScaledTo(available, SumFunctionOnSet(notional, S), notional[s])]
  <2>1. plan = [s \in S |-> ScaledTo(available, SumFunction(notional), notional[s])]
    BY <1>2, <1>3, <1>10, <1>18, Zenon DEF planAllocations
  <2>2. DOMAIN notional = S
    BY <1>19
  <2> QED
    BY <2>1, <2>2, Zenon DEF SumFunction
<1>21. plan \in [S -> Nat] /\ SumFunction(plan) <= available
  <2>1. \A s \in S : notional[s] \in Nat /\ plan[s] = ScaledTo(available, SumFunctionOnSet(notional, S), notional[s])
    BY <1>19, <1>20
  <2>2. SumFunctionOnSet(plan, S) <= available
    BY <1>2, <1>4, <2>1, ScaledFits
  <2>3. SumFunctionOnSet(notional, S) \in Nat
    <3>1. \A s \in S : notional[s] \in Int /\ notional[s] >= 0
      BY <1>19
    <3>2. SumFunctionOnSet(notional, S) \in Int /\ SumFunctionOnSet(notional, S) >= 0
      BY <1>2, <3>1, SumType
    <3> QED
      BY <3>2
  <2>4. \A s \in S : ScaledTo(available, SumFunctionOnSet(notional, S), notional[s]) \in Nat
    BY <1>4, <1>19, <2>3, ScaledType
  <2>5. plan \in [S -> Nat]
    BY <1>20, <2>4
  <2>6. DOMAIN plan = S
    BY <2>5
  <2> QED
    BY <2>2, <2>5, <2>6 DEF SumFunction
<1> QED
  BY <1>1, <1>3, <1>7, <1>8, <1>10, <1>15, <1>16, <1>17, <1>18, <1>21

-----------------------------------------------------------------------------
(* Sorting numbers. *)

Distinct(s) == \A i, j \in DOMAIN s : i # j => s[i] # s[j]

\* p gives each of 1 to m once.
Ranks(p, n, m) ==
    /\ p \in [1 .. n -> 1 .. m]
    /\ \A i, j \in 1 .. n : p[i] = p[j] => i = j
    /\ \A k \in 1 .. m : \E i \in 1 .. n : p[i] = k

\* Positions of bounded value, when the values are 1 to m, once each.
LEMMA BoundedPositions ==
    ASSUME NEW n \in Nat, NEW m \in Nat, NEW p, Ranks(p, n, m)
    PROVE  \A k \in 0 .. m : Cardinality({i \in 1 .. n : p[i] <= k}) = k
<1> DEFINE U(k) == {i \in 1 .. n : p[i] <= k}
           T == {k \in Nat : k <= m => IsFiniteSet(U(k)) /\ Cardinality(U(k)) = k}
<1>0. /\ p \in [1 .. n -> 1 .. m] /\ \A k \in 1 .. m : \E i \in 1 .. n : p[i] = k
      /\ \A i, j \in 1 .. n : p[i] = p[j] => i = j
  BY DEF Ranks
<1>1. 0 \in T
  <2>1. U(0) = {}
    BY <1>0
  <2> QED
    BY <2>1, FS_EmptySet
<1>2. ASSUME NEW k \in Nat, k \in T PROVE k + 1 \in T
  <2> HIDE DEF U
  <2> SUFFICES ASSUME k + 1 <= m PROVE IsFiniteSet(U(k + 1)) /\ Cardinality(U(k + 1)) = k + 1
    OBVIOUS
  <2>1. k + 1 \in 1 .. m
    OBVIOUS
  <2>2. PICK x \in 1 .. n : p[x] = k + 1
    BY <1>0, <2>1
  <2>3. U(k + 1) = U(k) \cup {x} /\ x \notin U(k)
    <3>1. \A i \in 1 .. n : p[i] <= k + 1 <=> p[i] <= k \/ i = x
      BY <1>0, <2>2
    <3> QED
      BY <2>2, <3>1 DEF U
  <2>4. IsFiniteSet(U(k)) /\ Cardinality(U(k)) = k
    BY <1>2, <2>1
  <2>5. PICK u, v : u = U(k) /\ v = U(k + 1)
    OBVIOUS
  <2>6. v = u \cup {x} /\ x \notin u /\ IsFiniteSet(u) /\ Cardinality(u) = k
    BY <2>3, <2>4, <2>5
  <2>7. IsFiniteSet(v) /\ Cardinality(v) = k + 1
    BY <2>6, FS_AddElement
  <2> QED
    BY <2>5, <2>7
<1>3. \A k \in Nat : k \in T
  <2> HIDE DEF T
  <2> QED
    BY <1>1, <1>2, SetInduction
<1>4. \A k \in 0 .. m : k \in Nat /\ k <= m
  OBVIOUS
<1> QED
  BY <1>3, <1>4

\* Sorting distinct numbers gives the increasing sequence of them.
Ascending(q) == StableSort(q, LAMBDA a, b : a < b)

\* The same values, whatever their order.
Same(q, a, n, m) ==
    /\ \A i \in 1 .. n : \E k \in 1 .. m : q[i] = a[k]
    /\ \A k \in 1 .. m : \E i \in 1 .. n : q[i] = a[k]

LEMMA SortIncreases ==
    ASSUME NEW q \in Seq(Nat), Distinct(q), NEW m \in Nat, NEW a \in [1 .. m -> Nat], Increasing(a), Same(q, a, Len(q), m)
    PROVE  Ascending(q) = a
<1>1. PICK n : n = Len(q)
  OBVIOUS
<1>2. n \in Nat /\ DOMAIN q = 1 .. n /\ \A i \in 1 .. n : q[i] \in Nat
  BY <1>1
<1>s. /\ \A i \in 1 .. n : \E k \in 1 .. m : q[i] = a[k]
      /\ \A k \in 1 .. m : \E i \in 1 .. n : q[i] = a[k]
  BY <1>1, Zenon DEF Same
<1>3. PICK p : p = [i \in 1 .. n |-> CHOOSE k \in 1 .. m : q[i] = a[k]]
  OBVIOUS
<1>4. p \in [1 .. n -> 1 .. m] /\ \A i \in 1 .. n : q[i] = a[p[i]]
  <2>1. \A i \in 1 .. n : p[i] \in 1 .. m /\ q[i] = a[p[i]]
    BY <1>s, <1>3
  <2> QED
    BY <1>3, <2>1
<1>5. \A k, l \in 1 .. m : (a[k] <= a[l] <=> k <= l) /\ a[k] \in Nat
  <2> TAKE k, l \in 1 .. m
  <2>0. DOMAIN a = 1 .. m
    OBVIOUS
  <2>1. /\ k < l => a[k] < a[l]
        /\ l < k => a[l] < a[k]
        /\ a[k] \in Nat /\ a[l] \in Nat
    BY <2>0 DEF Increasing
  <2>2. k \in Int /\ l \in Int
    OBVIOUS
  <2>3. k = l => a[k] = a[l]
    OBVIOUS
  <2>4. PICK x, y : x = a[k] /\ y = a[l]
    OBVIOUS
  <2>5. x \in Nat /\ y \in Nat /\ (k < l => x < y) /\ (l < k => y < x) /\ (k = l => x = y)
    BY <2>1, <2>3, <2>4
  <2>6. x <= y <=> k <= l
    BY <2>2, <2>5
  <2> QED
    BY <2>4, <2>5, <2>6
<1>6. \A i, j \in 1 .. n : q[j] <= q[i] <=> p[j] <= p[i]
  BY <1>4, <1>5
<1>7. \A i, j \in 1 .. n : p[i] = p[j] => i = j
  <2>1. \A i, j \in 1 .. n : i # j => q[i] # q[j]
    BY <1>2 DEF Distinct
  <2> QED
    BY <1>4, <2>1
<1>8. \A k \in 1 .. m : \E i \in 1 .. n : p[i] = k
  <2> TAKE k \in 1 .. m
  <2>1. PICK i \in 1 .. n : q[i] = a[k]
    BY <1>s
  <2>2. a[p[i]] = a[k] /\ p[i] \in 1 .. m
    BY <1>4, <2>1
  <2>3. PICK l : l = p[i]
    OBVIOUS
  <2>4. a[l] = a[k] /\ l \in 1 .. m /\ a[k] \in Nat
    BY <1>5, <2>2, <2>3
  <2>5. l <= k /\ k <= l
    BY <1>5, <2>4
  <2>6. l = k
    BY <2>4, <2>5
  <2> QED
    BY <2>3, <2>6
<1>9. \A k \in 0 .. m : Cardinality({i \in 1 .. n : p[i] <= k}) = k
  <2>1. n \in Nat /\ Ranks(p, n, m)
    BY <1>2, <1>4, <1>7, <1>8, Zenon DEF Ranks
  <2> QED
    BY <2>1, BoundedPositions, Zenon
<1>10. n = m
  <2>1. {i \in 1 .. n : p[i] <= m} = 1 .. n
    BY <1>4
  <2>2. Cardinality(1 .. n) = n
    BY <1>2, FS_Interval
  <2>3. m \in 0 .. m
    OBVIOUS
  <2> QED
    BY <1>9, <2>1, <2>2, <2>3, Zenon
<1> DEFINE Before(x, y) == x < y
           place(i) == Cardinality({j \in DOMAIN q : Before(q[j], q[i]) \/ (~Before(q[i], q[j]) /\ j <= i)})
<1>11. \A i \in 1 .. n : place(i) = p[i]
  <2> TAKE i \in 1 .. n
  <2>1. \A j \in 1 .. n : (Before(q[j], q[i]) \/ (~Before(q[i], q[j]) /\ j <= i)) <=> p[j] <= p[i]
    <3> TAKE j \in 1 .. n
    <3>1. PICK x, y : x = q[i] /\ y = q[j]
      OBVIOUS
    <3>2. x \in Nat /\ y \in Nat /\ (y <= x <=> p[j] <= p[i]) /\ (i # j => x # y)
      BY <1>2, <1>6, <3>1 DEF Distinct
    <3>3. (y < x \/ (~(x < y) /\ j <= i)) <=> y <= x
      BY <3>2, <1>2
    <3> QED
      BY <3>1, <3>2, <3>3
  <2>2. {j \in DOMAIN q : Before(q[j], q[i]) \/ (~Before(q[i], q[j]) /\ j <= i)} = {j \in 1 .. n : p[j] <= p[i]}
    BY <1>2, <2>1
  <2>3. p[i] \in 0 .. m
    <3>1. p[i] \in 1 .. m
      BY <1>4
    <3> QED
      BY <3>1
  <2> QED
    BY <1>9, <2>2, <2>3
<1> HIDE DEF place
<1>12. \A k \in 1 .. n : q[CHOOSE i \in DOMAIN q : place(i) = k] = a[k]
  <2> TAKE k \in 1 .. n
  <2>1. PICK i : i = CHOOSE x \in DOMAIN q : place(x) = k
    OBVIOUS
  <2>2. \E x \in DOMAIN q : place(x) = k
    <3>1. PICK x \in 1 .. n : p[x] = k
      BY <1>8, <1>10
    <3> QED
      BY <1>2, <1>11, <3>1
  <2>3. i \in DOMAIN q /\ place(i) = k
    BY <2>1, <2>2, Zenon
  <2> QED
    BY <1>2, <1>4, <1>11, <2>1, <2>3
<1>13. Ascending(q) = [k \in DOMAIN q |-> q[CHOOSE i \in DOMAIN q : place(i) = k]]
  BY DEF Ascending, StableSort, place
<1> QED
  BY <1>2, <1>10, <1>12, <1>13

-----------------------------------------------------------------------------
(* The backfill: every candle, once, in order. *)

\* The first m of an increasing sequence are the ones below c.
Below(s, c, m) == m \in 0 .. Len(s) /\ \A i \in 1 .. Len(s) : s[i] < c <=> i <= m

LEMMA BelowExists ==
    ASSUME NEW s \in Seq(Nat), Increasing(s), NEW c \in Int
    PROVE  \E m : Below(s, c, m)
<1>1. PICK n, D : n = Len(s) /\ D = {i \in 1 .. n : s[i] < c}
  OBVIOUS
<1>2. n \in Nat /\ \A i, j \in 1 .. n : s[i] \in Nat /\ (i < j => s[i] < s[j])
  BY <1>1 DEF Increasing
<1>3. CASE D = {}
  <2>1. Below(s, c, 0)
    BY <1>1, <1>2, <1>3 DEF Below
  <2> QED
    BY <2>1
<1>4. CASE D # {}
  <2>1. D \in SUBSET Nat /\ IsFiniteSet(D)
    <3>1. D \in SUBSET (1 .. n) /\ IsFiniteSet(1 .. n)
      BY <1>1, <1>2, FS_Interval
    <3>2. IsFiniteSet(D)
      BY <3>1, FS_Subset
    <3> QED
      BY <1>2, <3>1, <3>2
  <2>2. PICK m \in D : \A y \in D : y <= m
    BY <1>4, <2>1, FiniteMax
  <2>3. \A i \in 1 .. n : s[i] < c <=> i <= m
    <3> TAKE i \in 1 .. n
    <3>1. s[i] < c => i <= m
      BY <1>1, <2>2
    <3>2. m \in 1 .. n /\ s[m] < c /\ (i < m => s[i] < s[m]) /\ s[i] \in Nat /\ s[m] \in Nat
      BY <1>1, <1>2, <2>2
    <3>3. i <= m => i < m \/ i = m
      BY <3>2
    <3> QED
      BY <3>1, <3>2, <3>3
  <2>4. Below(s, c, m)
    BY <1>1, <2>2, <2>3 DEF Below
  <2> QED
    BY <2>4
<1> QED
  BY <1>3, <1>4

LEMMA LeastOf ==
    ASSUME NEW P \in SUBSET Nat, NEW x \in P, \A y \in P : x <= y
    PROVE  Min(P) = x
<1>1. PICK z : z = Min(P)
  OBVIOUS
<1>2. z \in P /\ \A y \in P : z <= y
  BY <1>1 DEF Min
<1>3. x \in Nat /\ z \in Nat /\ x <= z /\ z <= x
  BY <1>2
<1> QED
  BY <1>1, <1>3

LEMMA GreaterOf == \A a, b \in Int : Max({a, b}) = IF a >= b THEN a ELSE b
<1> TAKE a, b \in Int
<1>1. PICK z : z = Max({a, b})
  OBVIOUS
<1>2. z \in {a, b} /\ \A y \in {a, b} : z >= y
  BY <1>1 DEF Max
<1> QED
  BY <1>1, <1>2

LEMMA SubSeqIs ==
    ASSUME NEW b \in Seq(Nat), NEW m \in 1 .. Len(b), NEW lo \in 1 .. m
    PROVE  /\ SubSeq(b, lo, m) \in Seq(Nat) /\ Len(SubSeq(b, lo, m)) = m - lo + 1
           /\ \A j \in 1 .. m - lo + 1 : SubSeq(b, lo, m)[j] = b[lo + j - 1]
<1>1. PICK q, n : q = SubSeq(b, lo, m) /\ n = m - lo + 1
  OBVIOUS
<1>2. n \in Nat /\ Len(b) \in Nat
  BY <1>1
<1>3. Len(q) = n
  BY <1>1, <1>2
<1>4. q \in Seq(Nat)
  BY <1>1, <1>2
<1>5. \A j \in 1 .. n : q[j] = b[lo + j - 1]
  BY <1>1, <1>2
<1> QED
  BY <1>1, <1>3, <1>4, <1>5

\* A page holds the candles from the lo-th to the m-th, the last before the cursor.
PageOf(page, x, s, m) ==
    /\ m = 0 => page = <<>>
    /\ m > 0 => \E lo \in 1 .. m :
         /\ page \in Seq(Nat) /\ Len(page) = m - lo + 1
         /\ \A j \in 1 .. m - lo + 1 : page[j] = s[lo + j - 1]
         /\ x = s[lo]

LEMMA PageIs ==
    ASSUME NEW s \in Seq(Nat), Increasing(s), NEW c \in Int, NEW m, Below(s, c, m), NEW size \in Nat \ {0}
    PROVE  PageOf(getCandles(s, c, size), Min(ToSet(getCandles(s, c, size))), s, m)
<1>0. PICK page : page = getCandles(s, c, size)
  OBVIOUS
<1>1. PICK n, b : n = Len(s) /\ b = Filter(s, {t \in ToSet(s) : t < c})
  OBVIOUS
<1>2. /\ n \in Nat /\ m \in 0 .. n /\ \A i \in 1 .. n : s[i] \in Nat /\ (s[i] < c <=> i <= m)
      /\ \A i, j \in 1 .. n : i < j => s[i] < s[j]
  BY <1>1 DEF Below, Increasing
<1>3. b \in Seq(Nat) /\ Len(b) = m /\ \A j \in 1 .. m : b[j] = s[j]
  <2>1. PICK p : p = [j \in 1 .. m |-> j]
    OBVIOUS
  <2>2. p \in [1 .. m -> 1 .. n] /\ Increasing(p)
    BY <1>2, <2>1 DEF Increasing
  <2>3. \A i \in 1 .. n : s[i] \in {t \in ToSet(s) : t < c} <=> \E j \in 1 .. m : p[j] = i
    <3> TAKE i \in 1 .. n
    <3>1. s[i] \in ToSet(s)
      BY <1>1 DEF ToSet
    <3>2. i <= m <=> \E j \in 1 .. m : p[j] = i
      BY <1>2, <2>1
    <3> QED
      BY <1>2, <3>1, <3>2
  <2>4. Selects(p, s, {t \in ToSet(s) : t < c}, m)
    BY <1>1, <2>2, <2>3 DEF Selects
  <2>5. m \in Nat
    BY <1>2
  <2>6. b \in Seq(Nat)
    BY <1>1, FilterType
  <2>7. Len(b) = m /\ \A j \in 1 .. m : b[j] = s[p[j]]
    <3>1. PICK keep : keep = {t \in ToSet(s) : t < c}
      OBVIOUS
    <3>2. Selects(p, s, keep, m) /\ b = Filter(s, keep)
      BY <1>1, <2>4, <3>1
    <3> QED
      BY <2>5, <3>2, FilterSelects
  <2> QED
    BY <2>1, <2>6, <2>7
<1>4. PICK lo : lo = Max({1, m - size + 1})
  OBVIOUS
<1>5. lo \in Int /\ lo >= 1 /\ (m > 0 => lo <= m)
  BY <1>2, <1>4, GreaterOf
<1>6. page = SubSeq(b, lo, m)
  BY <1>0, <1>1, <1>3, <1>4, Zenon DEF getCandles
<1>7. page \in Seq(Nat) /\ (m = 0 => page = <<>>)
      /\ (m > 0 => Len(page) = m - lo + 1 /\ \A j \in 1 .. m - lo + 1 : page[j] = s[lo + j - 1])
  <2>1. CASE m = 0
    <3>1. page = <<>>
      BY <1>3, <1>5, <1>6, <2>1
    <3> QED
      BY <2>1, <3>1
  <2>2. CASE m > 0
    <3>1. lo \in 1 .. m
      BY <1>2, <1>5, <2>2
    <3>2. page \in Seq(Nat) /\ Len(page) = m - lo + 1 /\ \A j \in 1 .. m - lo + 1 : page[j] = b[lo + j - 1]
      <4>1. m \in 1 .. Len(b) /\ b \in Seq(Nat)
        BY <1>2, <1>3, <2>2
      <4> QED
        BY <1>6, <3>1, <4>1, SubSeqIs, Zenon
    <3>3. \A j \in 1 .. m - lo + 1 : lo + j - 1 \in 1 .. m
      BY <1>2, <3>1
    <3>4. \A j \in 1 .. m - lo + 1 : page[j] = s[lo + j - 1]
      BY <1>3, <3>2, <3>3
    <3> QED
      BY <2>2, <3>2, <3>4
  <2> QED
    BY <1>2, <2>1, <2>2
<1>8. ASSUME m > 0 PROVE Min(ToSet(page)) = s[lo]
  <2>1. lo \in 1 .. m /\ 1 \in 1 .. m - lo + 1
    BY <1>2, <1>5, <1>8
  <2>2. page[1] = s[lo] /\ 1 \in DOMAIN page /\ DOMAIN page = 1 .. m - lo + 1
    BY <1>7, <1>8, <2>1
  <2>3. \A j \in 1 .. m - lo + 1 : s[lo] <= page[j]
    <3> TAKE j \in 1 .. m - lo + 1
    <3>1. PICK i : i = lo + j - 1
      OBVIOUS
    <3>2. i \in 1 .. n /\ lo \in 1 .. n /\ lo <= i /\ page[j] = s[i]
      BY <1>2, <1>7, <1>8, <2>1, <3>1
    <3>3. s[lo] \in Nat /\ s[i] \in Nat /\ (lo < i => s[lo] < s[i]) /\ (lo = i => s[lo] = s[i])
      BY <1>2, <3>2
    <3> QED
      BY <3>2, <3>3
  <2>4. \A y \in ToSet(page) : \E j \in 1 .. m - lo + 1 : y = page[j]
    BY <2>2 DEF ToSet
  <2>5. s[lo] \in ToSet(page) /\ ToSet(page) \in SUBSET Nat
    <3>1. s[lo] \in ToSet(page)
      BY <2>1, <2>2 DEF ToSet
    <3>2. \A j \in 1 .. m - lo + 1 : page[j] \in Nat
      <4>1. \A j \in DOMAIN page : page[j] \in Nat
        BY <1>7
      <4> QED
        BY <2>2, <4>1, Zenon
    <3>3. \A y \in ToSet(page) : y \in Nat
      BY <2>4, <3>2
    <3> QED
      BY <3>1, <3>3
  <2>6. \A y \in ToSet(page) : s[lo] <= y
    BY <2>3, <2>4
  <2> QED
    BY <2>5, <2>6, LeastOf
<1>9. PageOf(page, Min(ToSet(page)), s, m)
  BY <1>2, <1>5, <1>7, <1>8 DEF PageOf
<1> QED
  BY <1>0, <1>9, Zenon

States == [cursor : Int, out : Seq(Nat), done : BOOLEAN]

\* What o holds of s after its m-th element, and the page from the lo-th to the m-th.
Holds(o, s, m, M) ==
    /\ Distinct(o)
    /\ \A j \in 1 .. Len(o) : \E i \in m + 1 .. M : o[j] = s[i]
    /\ \A i \in m + 1 .. M : \E j \in 1 .. Len(o) : o[j] = s[i]

\* What is paged: of the M candles before `to`, the m before the cursor are
\* still to come and the others are there, once each.
Paged(s, from, to, M, st, m, k) ==
    /\ st \in States /\ m \in 0 .. M /\ Below(s, st.cursor, m)
    /\ (m = M /\ st.cursor = to) \/ (m < M /\ st.cursor = s[m + 1])
    /\ Holds(st.out, s, m, M)
    /\ st.done => m = 0
    /\ st.done \/ st.cursor <= from \/ m + k <= M

State(c, o, d) == [cursor |-> c, out |-> o, done |-> d]

\* What a turn makes of the state, given the page and its earliest candle.
Turned(e, from, c, o, d, page, x) ==
    e = IF d \/ c <= from THEN State(c, o, d)
        ELSE IF page = <<>> THEN State(c, o, TRUE)
        ELSE IF x >= c THEN State(c, o \o page, TRUE)
        ELSE State(x, o \o page, FALSE)

LEMMA PageBackIs ==
    ASSUME NEW s, NEW from, NEW size, NEW c, NEW o, NEW d
    PROVE  Turned(PageBack(s, from, size, State(c, o, d)), from, c, o, d,
                  getCandles(s, c, size), Min(ToSet(getCandles(s, c, size))))
<1>0. PICK page, x : page = getCandles(s, c, size) /\ x = Min(ToSet(page))
  OBVIOUS
<1>1. PICK st : st = State(c, o, d)
  OBVIOUS
<1>2. PICK q : q = o \o page
  OBVIOUS
<1>3. st.cursor = c /\ st.out = o /\ st.done = d
  BY <1>1 DEF State
<1>4. PageBack(s, from, size, st) =
             IF d \/ c <= from THEN st
             ELSE IF page = <<>> THEN State(c, o, TRUE)
             ELSE IF x >= c THEN State(c, q, TRUE)
             ELSE State(x, q, FALSE)
  BY <1>0, <1>2, <1>3, Zenon DEF PageBack, backfillStep, State
<1>5. Turned(PageBack(s, from, size, st), from, c, o, d, page, x)
  BY <1>1, <1>2, <1>4, Zenon DEF Turned
<1> QED
  BY <1>0, <1>1, <1>5, Zenon

LEMMA StateParts ==
    ASSUME NEW st \in States
    PROVE  \E c \in Int, o \in Seq(Nat), d \in BOOLEAN :
             st = State(c, o, d) /\ st.cursor = c /\ st.out = o /\ st.done = d
  BY DEF State, States

LEMMA StateType ==
    ASSUME NEW c \in Int, NEW o \in Seq(Nat), NEW d \in BOOLEAN
    PROVE  /\ State(c, o, d) \in States
           /\ State(c, o, d).cursor = c /\ State(c, o, d).out = o /\ State(c, o, d).done = d
  BY DEF State, States

LEMMA PageBackType ==
    ASSUME NEW s \in Seq(Nat), NEW from \in Int, NEW size \in Nat \ {0}, Increasing(s), NEW st \in States
    PROVE  PageBack(s, from, size, st) \in States
<1>1. PICK c \in Int, o \in Seq(Nat), d \in BOOLEAN : st = State(c, o, d)
  BY StateParts
<1>2. PICK page : page = getCandles(s, c, size)
  OBVIOUS
<1>3. PICK x : x = Min(ToSet(page))
  OBVIOUS
<1>4. PICK m : Below(s, c, m)
  BY BelowExists
<1>5. PageOf(page, x, s, m)
  BY <1>2, <1>3, <1>4, PageIs, Zenon
<1>6. PICK e : e = PageBack(s, from, size, State(c, o, d))
  OBVIOUS
<1>7. Turned(e, from, c, o, d, page, x)
  BY <1>2, <1>3, <1>6, PageBackIs, Zenon
<1>8. m \in 0 .. Len(s)
  BY <1>4 DEF Below
<1>9. page # <<>> => page \in Seq(Nat) /\ x \in Nat
  <2>1. CASE m = 0
    BY <1>5, <2>1 DEF PageOf
  <2>2. CASE m > 0
    <3>1. PICK lo \in 1 .. m : page \in Seq(Nat) /\ x = s[lo]
      BY <1>5, <2>2 DEF PageOf
    <3>2. lo \in 1 .. Len(s)
      BY <1>8, <3>1
    <3> QED
      BY <3>1, <3>2
  <2> QED
    BY <1>8, <2>1, <2>2
<1>10. page # <<>> => o \o page \in Seq(Nat)
  BY <1>9, ConcatFacts
<1>11. \A a \in Int : \A b \in Seq(Nat) : \A f \in BOOLEAN : State(a, b, f) \in States
  BY StateType
<1>12. TRUE \in BOOLEAN /\ (x \in Nat => x \in Int)
  OBVIOUS
<1>13. e \in States
  BY <1>7, <1>9, <1>10, <1>11, <1>12, Zenon DEF Turned
<1> QED
  BY <1>1, <1>6, <1>13

LEMMA Concatenated ==
    ASSUME NEW o \in Seq(Nat), NEW page \in Seq(Nat)
    PROVE /\ o \o page \in Seq(Nat) /\ Len(o \o page) = Len(o) + Len(page)
          /\ \A i \in 1 .. Len(o) : (o \o page)[i] = o[i]
          /\ \A i \in 1 .. Len(page) : (o \o page)[Len(o) + i] = page[i]
  OBVIOUS

LEMMA PageAdds ==
    ASSUME NEW s \in Seq(Nat), Increasing(s), NEW M \in 0 .. Len(s), NEW m \in 0 .. M, NEW o \in Seq(Nat), Holds(o, s, m, M),
           NEW lo \in 1 .. m, NEW page \in Seq(Nat), Len(page) = m - lo + 1,
           \A j \in 1 .. m - lo + 1 : page[j] = s[lo + j - 1]
    PROVE  Holds(o \o page, s, lo - 1, M)
<1>1. PICK n, q, u, v, l : n = Len(s) /\ q = o \o page /\ u = Len(o) /\ v = m - lo + 1 /\ l = lo - 1
  OBVIOUS
<1>2. n \in Nat /\ u \in Nat /\ v \in Nat /\ l \in Nat /\ M \in 0 .. n /\ m \in 0 .. M /\ l + 1 = lo /\ lo <= m /\ Len(page) = v
  BY <1>1
<1>a. /\ o \o page \in Seq(Nat) /\ Len(o \o page) = Len(o) + Len(page)
      /\ \A i \in 1 .. Len(o) : (o \o page)[i] = o[i]
      /\ \A i \in 1 .. Len(page) : (o \o page)[Len(o) + i] = page[i]
  BY Concatenated
<1>3. q \in Seq(Nat) /\ Len(q) = u + v
  BY <1>1, <1>2, <1>a, Zenon
<1>4. (\A j \in 1 .. u : q[j] = o[j]) /\ (\A j \in 1 .. v : q[u + j] = page[j])
  BY <1>1, <1>2, <1>a, Zenon
<1>5. \A j \in 1 .. v : lo + j - 1 \in l + 1 .. m
  BY <1>1, <1>2
<1>6. \A j \in 1 .. v : q[u + j] = s[lo + j - 1]
  BY <1>1, <1>4
<1>7. \A j \in 1 .. u + v : j \in 1 .. u \/ \E i \in 1 .. v : j = u + i
  <2> TAKE j \in 1 .. u + v
  <2>1. CASE j <= u
    BY <1>2, <2>1
  <2>2. CASE j > u
    <3>1. j - u \in 1 .. v /\ j = u + (j - u)
      BY <1>2, <2>2
    <3> QED
      BY <3>1
  <2> QED
    BY <1>2, <2>1, <2>2
<1>8. \A i, j \in 1 .. n : s[i] \in Nat /\ (i < j => s[i] < s[j])
  <2>1. DOMAIN s = 1 .. n /\ \A i \in 1 .. n : s[i] \in Nat
    BY <1>1
  <2> QED
    BY <2>1 DEF Increasing
<1>9. /\ \A j \in 1 .. u : \E i \in m + 1 .. M : o[j] = s[i]
      /\ \A i \in m + 1 .. M : \E j \in 1 .. u : o[j] = s[i]
  BY <1>1 DEF Holds
<1>10. \A i \in m + 1 .. M : i \in l + 1 .. M /\ i \in 1 .. n
  BY <1>2
<1>11. \A i \in l + 1 .. m : i \in l + 1 .. M /\ i \in 1 .. n
  BY <1>2
<1>12. \A j \in 1 .. u + v : \E i \in l + 1 .. M : q[j] = s[i]
  <2> TAKE j \in 1 .. u + v
  <2>1. CASE j \in 1 .. u
    <3>1. PICK i \in m + 1 .. M : o[j] = s[i]
      BY <1>9, <2>1
    <3>2. i \in l + 1 .. M /\ q[j] = s[i]
      BY <1>4, <1>10, <2>1, <3>1
    <3> QED
      BY <3>2
  <2>2. ASSUME NEW i \in 1 .. v, j = u + i PROVE \E a \in l + 1 .. M : q[j] = s[a]
    <3>1. lo + i - 1 \in l + 1 .. m /\ q[j] = s[lo + i - 1]
      BY <1>5, <1>6, <2>2
    <3> QED
      BY <1>11, <3>1
  <2> QED
    BY <1>7, <2>1, <2>2
<1>13. \A i \in l + 1 .. M : \E j \in 1 .. u + v : q[j] = s[i]
  <2> TAKE i \in l + 1 .. M
  <2>1. CASE i <= m
    <3>1. PICK j : j = i - lo + 1
      OBVIOUS
    <3>2. j \in 1 .. v /\ lo + j - 1 = i /\ u + j \in 1 .. u + v
      BY <1>1, <1>2, <2>1, <3>1
    <3>3. q[u + j] = s[i]
      BY <1>6, <3>2
    <3> QED
      BY <3>2, <3>3
  <2>2. CASE i > m
    <3>1. i \in m + 1 .. M
      BY <1>2, <2>2
    <3>2. PICK j \in 1 .. u : o[j] = s[i]
      BY <1>9, <3>1
    <3>3. j \in 1 .. u + v /\ q[j] = s[i]
      BY <1>2, <1>4, <3>2
    <3> QED
      BY <3>3
  <2>3. i <= m \/ i > m
    BY <1>2
  <2> QED
    BY <2>1, <2>2, <2>3, Zenon
<1>14. \A i \in 1 .. u : \A j \in 1 .. v : q[i] # q[u + j]
  <2> TAKE i \in 1 .. u
  <2> TAKE j \in 1 .. v
  <2>1. PICK a \in m + 1 .. M : q[i] = s[a]
    BY <1>4, <1>9
  <2>2. PICK b \in l + 1 .. m : q[u + j] = s[b]
    BY <1>5, <1>6
  <2>3. a \in 1 .. n /\ b \in 1 .. n /\ b < a
    BY <1>2, <1>10, <1>11
  <2>4. s[b] < s[a] /\ s[b] \in Nat /\ s[a] \in Nat
    BY <1>8, <2>3
  <2>5. \A y, z \in Nat : z < y => y # z
    OBVIOUS
  <2>6. s[a] # s[b]
    BY <2>4, <2>5, Zenon
  <2> QED
    BY <2>1, <2>2, <2>6, Zenon
<1>15. \A i, j \in 1 .. u : i # j => q[i] # q[j]
  <2>1. DOMAIN o = 1 .. u
    BY <1>1
  <2>2. \A i, j \in 1 .. u : i # j => o[i] # o[j]
    BY <2>1 DEF Holds, Distinct
  <2> QED
    BY <1>4, <2>2
<1>16. \A i, j \in 1 .. v : i # j => q[u + i] # q[u + j]
  <2> TAKE i, j \in 1 .. v
  <2>1. PICK a, b : a = lo + i - 1 /\ b = lo + j - 1
    OBVIOUS
  <2>2. a \in 1 .. n /\ b \in 1 .. n /\ q[u + i] = s[a] /\ q[u + j] = s[b]
    BY <1>5, <1>6, <1>11, <2>1
  <2>3. i # j => a < b \/ b < a
    BY <1>2, <2>1
  <2>4. s[a] \in Nat /\ s[b] \in Nat /\ (a < b => s[a] < s[b]) /\ (b < a => s[b] < s[a])
    BY <1>8, <2>2
  <2>5. \A y, z \in Nat : z < y \/ y < z => y # z
    OBVIOUS
  <2>6. i # j => s[a] # s[b]
    BY <2>3, <2>4, <2>5, Zenon
  <2> QED
    BY <2>2, <2>6, Zenon
<1>17. ASSUME NEW i \in 1 .. u + v, NEW j \in 1 .. u + v, i # j PROVE q[i] # q[j]
  <2>1. CASE i \in 1 .. u /\ j \in 1 .. u
    BY <1>15, <1>17, <2>1
  <2>2. ASSUME i \in 1 .. u, NEW b \in 1 .. v, j = u + b PROVE q[i] # q[j]
    BY <1>14, <2>2
  <2>3. ASSUME j \in 1 .. u, NEW a \in 1 .. v, i = u + a PROVE q[i] # q[j]
    BY <1>14, <2>3
  <2>4. ASSUME NEW a \in 1 .. v, i = u + a, NEW b \in 1 .. v, j = u + b PROVE q[i] # q[j]
    <3>1. a # b
      BY <1>17, <2>4
    <3> QED
      BY <1>16, <2>4, <3>1
  <2> QED
    BY <1>7, <2>1, <2>2, <2>3, <2>4
<1>18. DOMAIN q = 1 .. u + v
  BY <1>3
<1>19. Distinct(q)
  BY <1>17, <1>18 DEF Distinct
<1>20. Holds(q, s, l, M)
  BY <1>3, <1>12, <1>13, <1>19 DEF Holds
<1> QED
  BY <1>1, <1>20

LEMMA PageBackKeeps ==
    ASSUME NEW s \in Seq(Nat), NEW from \in Int, NEW to \in Int, NEW size \in Nat \ {0}, Increasing(s),
           NEW M, Below(s, to, M), NEW st, NEW m, NEW k \in Nat, Paged(s, from, to, M, st, m, k)
    PROVE  \E l : Paged(s, from, to, M, PageBack(s, from, size, st), l, k + 1)
<1>1. PICK c \in Int, o \in Seq(Nat), d \in BOOLEAN : st = State(c, o, d) /\ st.cursor = c /\ st.out = o /\ st.done = d
  <2>1. st \in States
    BY DEF Paged
  <2> QED
    BY <2>1, StateParts
<1>2. PICK page, n : page = getCandles(s, c, size) /\ n = Len(s)
  OBVIOUS
<1>3. /\ m \in 0 .. M /\ Below(s, c, m) /\ ((m = M /\ c = to) \/ (m < M /\ c = s[m + 1]))
      /\ Holds(o, s, m, M) /\ (d => m = 0) /\ (d \/ c <= from \/ m + k <= M)
  BY <1>1 DEF Paged
<1>4. n \in Nat /\ M \in 0 .. n
  BY <1>2 DEF Below
<1>5. PICK x : x = Min(ToSet(page))
  OBVIOUS
<1>6. PICK e : e = PageBack(s, from, size, State(c, o, d))
  OBVIOUS
<1>7. PageOf(page, x, s, m)
  BY <1>2, <1>3, <1>5, PageIs, Zenon
<1>a. Turned(e, from, c, o, d, page, x)
  BY <1>2, <1>5, <1>6, PageBackIs, Zenon
<1>8. CASE d \/ c <= from
  <2>1. e = st
    BY <1>1, <1>a, <1>8, Zenon DEF Turned
  <2>2. Paged(s, from, to, M, st, m, k + 1)
    BY <1>1, <1>8 DEF Paged
  <2> QED
    BY <1>1, <1>6, <2>1, <2>2
<1>9. CASE ~(d \/ c <= from) /\ m = 0
  <2>1. page = <<>>
    BY <1>7, <1>9 DEF PageOf
  <2>2. e = State(c, o, TRUE)
    BY <1>a, <1>9, <2>1, Zenon DEF Turned
  <2>3. e \in States /\ e.cursor = c /\ e.out = o /\ e.done = TRUE
    BY <2>2, StateType
  <2>4. Paged(s, from, to, M, e, m, k + 1)
    BY <1>3, <1>9, <2>3 DEF Paged
  <2> QED
    BY <1>1, <1>6, <2>4
<1>10. CASE ~(d \/ c <= from) /\ m > 0
  <2>1. PICK lo \in 1 .. m :
          /\ page \in Seq(Nat) /\ Len(page) = m - lo + 1
          /\ \A j \in 1 .. m - lo + 1 : page[j] = s[lo + j - 1]
          /\ x = s[lo]
    BY <1>7, <1>10 DEF PageOf
  <2>2. \A i, j \in 1 .. n : s[i] \in Nat /\ (i < j => s[i] < s[j])
    <3>1. DOMAIN s = 1 .. n /\ \A i \in 1 .. n : s[i] \in Nat
      BY <1>2
    <3> QED
      BY <3>1 DEF Increasing
  <2>3. \A i \in 1 .. n : s[i] < c <=> i <= m
    BY <1>2, <1>3 DEF Below
  <2>4. PICK l, q : l = lo - 1 /\ q = o \o page
    OBVIOUS
  <2>5. lo \in 1 .. n /\ l \in 0 .. M /\ l < M /\ l + 1 = lo /\ l + 1 <= m
    BY <1>3, <1>4, <2>4
  <2>6. x = s[lo] /\ x \in Nat /\ x < c
    <3>1. s[lo] \in Nat
      BY <2>2, <2>5
    <3>2. s[lo] < c
      BY <2>3, <2>5
    <3>3. x = s[lo]
      BY <2>1, Zenon
    <3> QED
      BY <3>1, <3>2, <3>3, Zenon
  <2>7. page # <<>> /\ ~(x >= c)
    <3>1. Len(page) # 0
      BY <1>3, <1>4, <2>1
    <3> QED
      BY <2>6, <3>1
  <2>8. e = State(x, q, FALSE)
    BY <1>a, <1>10, <2>4, <2>7, Zenon DEF Turned
  <2>9. Holds(q, s, l, M)
    BY <1>2, <1>3, <1>4, <2>1, <2>4, PageAdds
  <2>10. q \in Seq(Nat)
    BY <2>1, <2>4, ConcatFacts
  <2>11. e \in States /\ e.cursor = x /\ e.out = q /\ e.done = FALSE
    <3>1. x \in Int /\ FALSE \in BOOLEAN
      BY <2>6
    <3> QED
      BY <2>8, <2>10, <3>1, StateType, Zenon
  <2>12. Below(s, x, l)
    <3>1. \A i \in 1 .. n : s[i] < x <=> i <= l
      <4> TAKE i \in 1 .. n
      <4>1. /\ i < lo => s[i] < s[lo]
            /\ lo < i => s[lo] < s[i]
            /\ i = lo => s[i] = s[lo]
            /\ s[i] \in Nat /\ s[lo] \in Nat
        BY <2>2, <2>5
      <4>2. PICK a, b : a = s[i] /\ b = s[lo]
        OBVIOUS
      <4> QED
        BY <2>5, <2>6, <4>1, <4>2
    <3>2. l \in 0 .. n
      BY <1>4, <2>5
    <3> QED
      BY <1>2, <3>1, <3>2 DEF Below
  <2>13. (x <= from \/ l + (k + 1) <= M)
    BY <1>3, <1>4, <1>10, <2>5
  <2>14. Paged(s, from, to, M, e, l, k + 1)
    BY <2>5, <2>6, <2>9, <2>11, <2>12, <2>13 DEF Paged
  <2> QED
    BY <1>1, <1>6, <2>14
<1> QED
  BY <1>3, <1>4, <1>8, <1>9, <1>10

\* The turns of the loop, and what is made of the last one's state.
PageTurns(g, n, out, keep, s, from, to, size) ==
    /\ n = Len(s) + 1 /\ g[0] = State(to, <<>>, FALSE)
    /\ \A k \in 1 .. n : g[k] = PageBack(s, from, size, g[k - 1])
    /\ out = g[n].out /\ keep = {t \in ToSet(out) : t >= from}
    /\ backfillCandles(s, from, to, size) = Ascending(Filter(out, keep))

LEMMA TurnsAre ==
    ASSUME NEW s \in Seq(Nat), NEW from \in Int, NEW to \in Int, NEW size \in Nat \ {0}, Increasing(s)
    PROVE  \E g, n, out, keep : PageTurns(g, n, out, keep, s, from, to, size)
<1> DEFINE Next1(st) == PageBack(s, from, size, st)
<1>1. PICK n : n = Len(s) + 1
  OBVIOUS
<1>n. n \in Nat
  BY <1>1
<1>2. PICK F : F = [st \in States |-> [i \in 1 .. n |-> Next1(st)]]
  OBVIOUS
<1>3. PICK h : StepsFrom(h, State(to, <<>>, FALSE), F, n)
  BY <1>n, StepsExist
<1>4. ASSUME NEW st \in States, NEW i \in 1 .. n PROVE F[st][i] = Next1(st) /\ Next1(st) \in States
  BY <1>2, PageBackType
<1> HIDE DEF Next1
<1>5. \A i \in 0 .. n : h[i] \in States
  <2>1. State(to, <<>>, FALSE) \in States
    <3>1. <<>> \in Seq(Nat) /\ FALSE \in BOOLEAN
      OBVIOUS
    <3> QED
      BY <3>1, StateType
  <2>2. \A a \in States : \A i \in 1 .. n : F[a][i] \in States
    BY <1>4
  <2> QED
    BY <1>n, <1>3, <2>1, <2>2, StepsStay, Zenon
<1>6. h = [i \in 0 .. n |-> IF i = 0 THEN State(to, <<>>, FALSE) ELSE F[h[i - 1]][i]]
  BY <1>3 DEF StepsFrom
<1>7. h = [i \in 0 .. n |-> IF i = 0 THEN State(to, <<>>, FALSE) ELSE Next1(h[i - 1])]
  <2>1. \A i \in 0 .. n : i # 0 => i \in 1 .. n /\ i - 1 \in 0 .. n
    BY <1>n
  <2>2. \A i \in 0 .. n : (IF i = 0 THEN State(to, <<>>, FALSE) ELSE F[h[i - 1]][i])
                          = (IF i = 0 THEN State(to, <<>>, FALSE) ELSE Next1(h[i - 1]))
    BY <1>4, <1>5, <2>1
  <2> QED
    BY <1>6, <2>2
<1>8. PICK g : /\ g = [i \in 0 .. n |-> IF i = 0 THEN State(to, <<>>, FALSE) ELSE Next1(g[i - 1])]
               /\ g = CHOOSE f : f = [i \in 0 .. n |-> IF i = 0 THEN State(to, <<>>, FALSE) ELSE Next1(f[i - 1])]
  BY <1>7, Zenon
<1>9. g[0] = State(to, <<>>, FALSE) /\ \A k \in 1 .. n : g[k] = PageBack(s, from, size, g[k - 1])
  <2>1. 0 \in 0 .. n /\ \A k \in 1 .. n : k \in 0 .. n /\ k # 0
    BY <1>n
  <2> QED
    BY <1>8, <2>1 DEF Next1
<1>10. PICK out, keep : out = g[n].out /\ keep = {t \in ToSet(out) : t >= from}
  OBVIOUS
<1>11. backfillCandles(s, from, to, size) = Ascending(Filter(out, keep))
  BY <1>1, <1>8, <1>10, Zenon DEF backfillCandles, Next1, State, Ascending
<1>12. PageTurns(g, n, out, keep, s, from, to, size)
  BY <1>1, <1>9, <1>10, <1>11, Zenon DEF PageTurns
<1> QED
  BY <1>12, Zenon

LEMMA TurnsBring ==
    ASSUME NEW s \in Seq(Nat), NEW from \in Int, NEW to \in Int, NEW size \in Nat \ {0}, Increasing(s),
           NEW M, Below(s, to, M), NEW n, n = Len(s) + 1, NEW g, g[0] = State(to, <<>>, FALSE),
           \A k \in 1 .. n : g[k] = PageBack(s, from, size, g[k - 1])
    PROVE  \E l : Paged(s, from, to, M, g[n], l, n)
<1>n. n \in Nat /\ M \in Nat /\ M \in 0 .. Len(s)
  BY DEF Below
<1> DEFINE T == {k \in Nat : k \in 0 .. n => \E l : Paged(s, from, to, M, g[k], l, k)}
<1>1. 0 \in T
  <2>1. <<>> \in Seq(Nat) /\ FALSE \in BOOLEAN /\ Len(<<>>) = 0 /\ DOMAIN <<>> = {}
    OBVIOUS
  <2>2. PICK st : st = State(to, <<>>, FALSE)
    OBVIOUS
  <2>3. st \in States /\ st.cursor = to /\ st.out = <<>> /\ st.done = FALSE
    BY <2>1, <2>2, StateType, Zenon
  <2>4. Holds(<<>>, s, M, M)
    BY <1>n, <2>1 DEF Holds, Distinct
  <2>5. Paged(s, from, to, M, st, M, 0)
    <3>1. M \in 0 .. M /\ M + 0 <= M
      BY <1>n
    <3>2. Below(s, st.cursor, M)
      BY <2>3, Zenon
    <3>3. Holds(st.out, s, M, M) /\ ~st.done
      BY <2>3, <2>4, Zenon
    <3> QED
      BY <1>n, <2>3, <3>1, <3>2, <3>3, Zenon DEF Paged
  <2>6. g[0] = st
    BY <2>2
  <2> QED
    BY <2>5, <2>6, Zenon
<1>2. ASSUME NEW k \in Nat, k \in T PROVE k + 1 \in T
  <2> SUFFICES ASSUME k + 1 \in 0 .. n PROVE \E l : Paged(s, from, to, M, g[k + 1], l, k + 1)
    OBVIOUS
  <2>1. k \in 0 .. n /\ k + 1 \in 1 .. n /\ (k + 1) - 1 = k
    BY <1>n
  <2>2. PICK l : Paged(s, from, to, M, g[k], l, k)
    BY <1>2, <2>1, Zenon
  <2>3. \E m : Paged(s, from, to, M, PageBack(s, from, size, g[k]), m, k + 1)
    BY <2>2, PageBackKeeps, Zenon
  <2>4. g[k + 1] = PageBack(s, from, size, g[k])
    BY <2>1
  <2> QED
    BY <2>3, <2>4, Zenon
<1> HIDE DEF T
<1>3. n \in T
  BY <1>n, <1>1, <1>2, SetInduction
<1>4. n \in 0 .. n
  BY <1>n
<1> QED
  BY <1>3, <1>4, Zenon DEF T

Kept(f, m, s, n, keep) ==
    /\ f \in Seq(Nat) /\ m \in Nat /\ f \in [1 .. m -> Nat] /\ DOMAIN f = 1 .. m
    /\ \E p : Selects(p, s, keep, m) /\ \A j \in 1 .. m : f[j] = s[p[j]]
    /\ \A j \in 1 .. m : \E i \in 1 .. n : f[j] = s[i] /\ s[i] \in keep
    /\ \A i \in 1 .. n : s[i] \in keep => \E j \in 1 .. m : f[j] = s[i]

\* What Filter gives, by its positions and by its elements.
LEMMA Filtered ==
    ASSUME NEW s \in Seq(Nat), NEW keep, NEW f, f = Filter(s, keep), NEW m, m = Len(f)
    PROVE  Kept(f, m, s, Len(s), keep)
<1>1. f \in Seq(Nat)
  BY FilterType
<1>2. m \in Nat /\ f \in [1 .. m -> Nat] /\ DOMAIN f = 1 .. m
  BY <1>1
<1>3. \E p : Selects(p, s, keep, m) /\ \A j \in 1 .. m : f[j] = s[p[j]]
  BY FilterPositions
<1>4. /\ \A j \in 1 .. m : \E i \in 1 .. Len(s) : f[j] = s[i] /\ s[i] \in keep
      /\ \A i \in 1 .. Len(s) : s[i] \in keep => \E j \in 1 .. m : f[j] = s[i]
  BY FilterKeeps
<1> QED
  BY <1>1, <1>2, <1>3, <1>4, Zenon DEF Kept

\* Paging backward from `to`, each page ending where the one before it began,
\* brings every candle of the exchange in [from, to) once and in order, for every
\* history, range and page size (backfillCandles).
THEOREM BackfillBringsEverything ==
    ASSUME NEW s \in Seq(Nat), NEW from \in Int, NEW to \in Int, NEW size \in Nat \ {0}, Increasing(s)
    PROVE  backfillCandles(s, from, to, size) = Filter(s, {t \in ToSet(s) : from <= t /\ t < to})
<1>0. PICK g, n, out, keep : PageTurns(g, n, out, keep, s, from, to, size)
  BY TurnsAre, Zenon
<1>1. /\ n = Len(s) + 1 /\ g[0] = State(to, <<>>, FALSE)
      /\ \A k \in 1 .. n : g[k] = PageBack(s, from, size, g[k - 1])
      /\ out = g[n].out /\ keep = {t \in ToSet(out) : t >= from}
      /\ backfillCandles(s, from, to, size) = Ascending(Filter(out, keep))
  BY <1>0, Zenon DEF PageTurns
<1>2. PICK M : Below(s, to, M)
  BY BelowExists
<1>3. PICK l : Paged(s, from, to, M, g[n], l, n)
  <2>1. /\ n = Len(s) + 1 /\ g[0] = State(to, <<>>, FALSE)
        /\ \A k \in 1 .. n : g[k] = PageBack(s, from, size, g[k - 1])
    BY <1>1, Zenon
  <2> QED
    BY <1>2, <2>1, TurnsBring, Zenon
<1>4. PICK N : N = Len(s)
  OBVIOUS
<1>5. /\ N \in Nat /\ M \in 0 .. N /\ n = N + 1
      /\ \A i \in 1 .. N : s[i] \in Nat /\ s[i] \in ToSet(s) /\ (s[i] < to <=> i <= M)
      /\ \A i, j \in 1 .. N : i < j => s[i] < s[j]
  <2>1. DOMAIN s = 1 .. N
    BY <1>4
  <2>2. n = N + 1
    BY <1>1, <1>4, Zenon
  <2>3. \A i \in 1 .. N : s[i] \in Nat /\ s[i] \in ToSet(s)
    BY <1>4, <2>1 DEF ToSet
  <2>4. M \in 0 .. N /\ \A i \in 1 .. N : s[i] < to <=> i <= M
    BY <1>2, <1>4, Zenon DEF Below
  <2>5. \A i, j \in 1 .. N : i < j => s[i] < s[j]
    BY <2>1, Zenon DEF Increasing
  <2>6. N \in Nat
    BY <1>4
  <2> QED
    BY <2>2, <2>3, <2>4, <2>5, <2>6, Zenon
<1>6. PICK st : st = g[n]
  OBVIOUS
<1>7. Paged(s, from, to, M, st, l, n) /\ out = st.out
  BY <1>1, <1>3, <1>6, Zenon
<1>8. st \in States /\ l \in 0 .. M /\ Below(s, st.cursor, l) /\ Holds(out, s, l, M)
      /\ (st.done => l = 0) /\ (st.done \/ st.cursor <= from \/ l + n <= M)
  BY <1>7, Zenon DEF Paged
<1>9. \A i \in 1 .. N : s[i] >= from => i > l
  <2> TAKE i \in 1 .. N
  <2>1. st.cursor \in Int
    BY <1>8 DEF States
  <2>2. s[i] < st.cursor <=> i <= l
    BY <1>4, <1>8 DEF Below
  <2>3. l = 0 \/ st.cursor <= from
    BY <1>5, <1>8
  <2>4. s[i] \in Nat
    BY <1>5
  <2> QED
    BY <1>5, <1>8, <2>1, <2>2, <2>3, <2>4
<1>10. out \in Seq(Nat)
  BY <1>7, <1>8 DEF States
<1>11. PICK q : q = Filter(out, keep)
  OBVIOUS
<1>12. PICK wanted, a, m : /\ wanted = {t \in ToSet(s) : from <= t /\ t < to}
                           /\ a = Filter(s, wanted) /\ m = Len(a)
  OBVIOUS
<1>b. PICK w : w = Len(q)
  OBVIOUS
<1>13. /\ a \in Seq(Nat) /\ m \in Nat /\ a \in [1 .. m -> Nat] /\ DOMAIN a = 1 .. m
       /\ \E p : Selects(p, s, wanted, m) /\ \A j \in 1 .. m : a[j] = s[p[j]]
       /\ \A j \in 1 .. m : \E i \in 1 .. N : a[j] = s[i] /\ s[i] \in wanted
       /\ \A i \in 1 .. N : s[i] \in wanted => \E j \in 1 .. m : a[j] = s[i]
  <2>1. a = Filter(s, wanted) /\ m = Len(a)
    BY <1>12, Zenon
  <2> QED
    <3>1. Kept(a, m, s, N, wanted)
      BY <1>4, <2>1, Filtered, Zenon
    <3> QED
      BY <3>1, Zenon DEF Kept
<1>c. /\ q \in Seq(Nat) /\ w \in Nat /\ DOMAIN q = 1 .. w
      /\ \E p : Selects(p, out, keep, w) /\ \A j \in 1 .. w : q[j] = out[p[j]]
      /\ \A j \in 1 .. w : \E i \in 1 .. Len(out) : q[j] = out[i] /\ out[i] \in keep
      /\ \A i \in 1 .. Len(out) : out[i] \in keep => \E j \in 1 .. w : q[j] = out[i]
  <2>1. Kept(q, w, out, Len(out), keep)
    BY <1>10, <1>11, <1>b, Filtered, Zenon
  <2> QED
    BY <2>1, Zenon DEF Kept
<1>14. a \in [1 .. m -> Nat] /\ Increasing(a)
  <2>1. PICK p : Selects(p, s, wanted, m) /\ \A j \in 1 .. m : a[j] = s[p[j]]
    BY <1>13, Zenon
  <2>2. p \in [1 .. m -> 1 .. N] /\ \A i, j \in 1 .. m : i < j => p[i] < p[j]
    BY <1>4, <2>1 DEF Selects, Increasing
  <2>4. \A i, j \in 1 .. m : i < j => a[i] < a[j]
    BY <1>5, <2>1, <2>2
  <2> QED
    BY <1>13, <2>4, Zenon DEF Increasing
<1>15. Distinct(q)
  <2>1. PICK r : Selects(r, out, keep, w) /\ \A j \in 1 .. w : q[j] = out[r[j]]
    BY <1>c, Zenon
  <2>2. DOMAIN q = 1 .. w /\ DOMAIN out = 1 .. Len(out) /\ w \in Nat
    BY <1>10, <1>c
  <2>3. r \in [1 .. w -> 1 .. Len(out)] /\ Increasing(r)
    BY <2>1, Zenon DEF Selects
  <2>4. \A i, j \in 1 .. w : i # j => r[i] # r[j]
    <3> TAKE i, j \in 1 .. w
    <3>1. (i < j => r[i] < r[j]) /\ (j < i => r[j] < r[i])
      BY <2>3 DEF Increasing
    <3>2. r[i] \in Nat /\ r[j] \in Nat /\ i \in Nat /\ j \in Nat
      BY <2>2, <2>3
    <3>3. \A x, y \in Nat : (x < y \/ y < x => x # y) /\ (x # y => x < y \/ y < x)
      OBVIOUS
    <3> QED
      BY <3>1, <3>2, <3>3, Zenon
  <2>5. \A i, j \in 1 .. Len(out) : i # j => out[i] # out[j]
    BY <1>8, <2>2, Zenon DEF Holds, Distinct
  <2>6. \A i, j \in 1 .. w : i # j => q[i] # q[j]
    <3> TAKE i, j \in 1 .. w
    <3>1. r[i] \in 1 .. Len(out) /\ r[j] \in 1 .. Len(out)
      BY <2>3
    <3>2. q[i] = out[r[i]] /\ q[j] = out[r[j]]
      BY <2>1, Zenon
    <3>3. i # j => r[i] # r[j]
      BY <2>4, Zenon
    <3> QED
      BY <2>5, <3>1, <3>2, <3>3, Zenon
  <2> QED
    BY <2>2, <2>6, Zenon DEF Distinct
<1>16. \A i \in 1 .. N : s[i] \in wanted <=> i \in l + 1 .. M /\ from <= s[i]
  <2> TAKE i \in 1 .. N
  <2>1. s[i] \in wanted <=> from <= s[i] /\ s[i] < to
    BY <1>5, <1>12
  <2>2. s[i] < to <=> i <= M
    BY <1>5
  <2>3. from <= s[i] => i > l
    BY <1>5, <1>9
  <2> QED
    BY <1>5, <1>8, <2>1, <2>2, <2>3
<1>17. \A i \in l + 1 .. M : i \in 1 .. N
  BY <1>5, <1>8
<1>18. \A i \in 1 .. w : \E k \in 1 .. m : q[i] = a[k]
  <2> TAKE i \in 1 .. w
  <2>1. PICK j \in 1 .. Len(out) : q[i] = out[j] /\ out[j] \in keep
    BY <1>c, Zenon
  <2>2. PICK x \in l + 1 .. M : out[j] = s[x]
    BY <1>8, Zenon DEF Holds
  <2>3. s[x] \in wanted
    <3>1. out[j] >= from
      BY <1>1, <2>1, Zenon
    <3>2. x \in 1 .. N /\ s[x] \in Nat
      BY <1>5, <1>17
    <3>3. from <= s[x]
      BY <2>2, <3>1, <3>2
    <3> QED
      BY <1>16, <3>2, <3>3
  <2>4. \E k \in 1 .. m : a[k] = s[x]
    BY <1>13, <1>17, <2>3, Zenon
  <2> QED
    BY <2>1, <2>2, <2>4, Zenon
<1>19. \A k \in 1 .. m : \E i \in 1 .. w : q[i] = a[k]
  <2> TAKE k \in 1 .. m
  <2>1. PICK x \in 1 .. N : a[k] = s[x] /\ s[x] \in wanted
    BY <1>13, Zenon
  <2>2. x \in l + 1 .. M /\ from <= s[x]
    BY <1>16, <2>1, Zenon
  <2>3. PICK j \in 1 .. Len(out) : out[j] = s[x]
    BY <1>8, <2>2, Zenon DEF Holds
  <2>4. out[j] \in keep
    <3>1. out[j] \in ToSet(out)
      <4>1. DOMAIN out = 1 .. Len(out)
        BY <1>10
      <4> QED
        BY <4>1 DEF ToSet
    <3>2. s[x] \in Nat
      BY <1>5
    <3>3. out[j] >= from
      BY <2>2, <2>3, <3>2
    <3> QED
      BY <1>1, <3>1, <3>3, Zenon
  <2>5. \E i \in 1 .. w : q[i] = out[j]
    BY <1>c, <2>4, Zenon
  <2> QED
    BY <2>1, <2>3, <2>5, Zenon
<1>20. Ascending(q) = a
  <2>1. Same(q, a, Len(q), m)
    BY <1>b, <1>18, <1>19, Zenon DEF Same
  <2> QED
    BY <1>c, <1>13, <1>14, <1>15, <2>1, SortIncreases, Zenon
<1>21. backfillCandles(s, from, to, size) = Ascending(q)
  BY <1>1, <1>11, Zenon
<1> QED
  BY <1>12, <1>20, <1>21, Zenon

-----------------------------------------------------------------------------
(* The rate limiter. *)

Limiter(c, l, w, s) == [credit |-> c, last |-> l, now |-> w, sent |-> s]

LEMMA LesserOf == \A a, b \in Int : Min({a, b}) = IF a <= b THEN a ELSE b
<1> TAKE a, b \in Int
<1>1. PICK z : z = Min({a, b})
  OBVIOUS
<1>2. z \in {a, b} /\ \A y \in {a, b} : z <= y
  BY <1>1 DEF Min
<1> QED
  BY <1>1, <1>2

\* A request with the credit C takes a token or waits d for one.
Asked(C, d, c, P) == IF C >= P THEN d = 0 /\ c = C - P ELSE d = P - C /\ c = C

Earned(n, C, B) == C = IF B <= n THEN B ELSE n

Sends(r, c, l, w, s, lat, P, B, C, d, e) ==
    /\ Earned(c + w - l, C, B) /\ Asked(C, d, e, P)
    /\ r = Limiter(e, w, w + d + lat, Append(s, w + d))

LEMMA RequestIs ==
    ASSUME NEW c \in Nat, NEW l \in Nat, NEW w \in Nat, NEW s, NEW lat \in Nat, NEW P \in Nat, NEW b \in Nat,
           NEW B \in Nat, B = b * P, l <= w
    PROVE  \E C, d, e : Sends(Request(Limiter(c, l, w, s), lat, P, b), c, l, w, s, lat, P, B, C, d, e)
<1>1. PICK st : st = Limiter(c, l, w, s)
  OBVIOUS
<1>2. st.credit = c /\ st.last = l /\ st.now = w /\ st.sent = s
  BY <1>1 DEF Limiter
<1>3. PICK C : C = (IF B <= c + w - l THEN B ELSE c + w - l)
  OBVIOUS
<1>4. Refill(st, w, P, b) = C
  <2>1. Min({B, c + w - l}) = C
    BY <1>3, LesserOf
  <2> QED
    BY <1>2, <2>1, Zenon DEF Refill
<1>5. PICK d, e : d = (IF C >= P THEN 0 ELSE P - C) /\ e = (IF C >= P THEN C - P ELSE C)
  OBVIOUS
<1>6. acquireDelay(st, w, P, b).delay = d /\ acquireDelay(st, w, P, b).credit = e
  <2>1. CASE C >= P
    <3>1. acquireDelay(st, w, P, b) = [delay |-> 0, credit |-> C - P]
      BY <1>4, <2>1, Zenon DEF acquireDelay
    <3> QED
      BY <1>5, <2>1, <3>1
  <2>2. CASE ~(C >= P)
    <3>1. acquireDelay(st, w, P, b) = [delay |-> P - C, credit |-> C]
      BY <1>4, <2>2, Zenon DEF acquireDelay
    <3> QED
      BY <1>5, <2>2, <3>1
  <2> QED
    BY <2>1, <2>2
<1>7. Request(st, lat, P, b) = Limiter(e, w, w + d + lat, Append(s, w + d))
  BY <1>2, <1>6, Zenon DEF Request, Limiter
<1>8. Asked(C, d, e, P)
  BY <1>5, Zenon DEF Asked
<1>9. Earned(c + w - l, C, B)
  BY <1>3, Zenon DEF Earned
<1> QED
  BY <1>1, <1>7, <1>8, <1>9, Zenon DEF Sends

\* What is left of the rate when x is the credit at the time of the sending: a
\* request that waited leaves its token to the next.
Reserve(x, P) == IF x = P THEN P ELSE IF x < P THEN 2 * x ELSE x + P

\* The k-th request was sent with the credit x at that time and took lat.
Paced(st, k, x, P, B, lat) ==
    /\ x \in Nat /\ (x + P <= B \/ x = P)
    /\ \E c, l, w \in Nat : \E s \in Seq(Nat) :
         /\ st = Limiter(c, l, w, s) /\ Len(s) = k
         /\ l <= s[k] /\ s[k] <= w /\ w = s[k] + lat /\ x = c + s[k] - l

LEMMA ReserveFits ==
    ASSUME NEW P \in Nat \ {0}, NEW B \in Nat, P <= B, NEW x \in Nat, x + P <= B \/ x = P
    PROVE  Reserve(x, P) \in Nat /\ Reserve(x, P) <= B
  BY DEF Reserve

Paid(z, x, e, u, w, y, P, B) ==
    /\ z = e + u - w /\ (z + P <= B \/ z = P)
    /\ Reserve(z, P) + P <= Reserve(x, P) + 2 * (u - y)
    /\ u = w => z + P <= x + (u - y)

LEMMA RequestCosts ==
    ASSUME NEW P \in Nat \ {0}, NEW B \in Nat, P <= B, NEW x \in Nat, x + P <= B \/ x = P,
           NEW c \in Nat, NEW l \in Nat, NEW w \in Nat, NEW y \in Nat, l <= y, y <= w, x = c + y - l,
           NEW C, NEW d, NEW e, Earned(c + w - l, C, B), Asked(C, d, e, P)
    PROVE  /\ d \in Nat /\ e \in Nat
           /\ \E z \in Nat : Paid(z, x, e, w + d, w, y, P, B)
<1> USE DEF Earned
<1>1. PICK z : z = e + d
  OBVIOUS
<1>2. C = (IF B <= x + (w - y) THEN B ELSE x + (w - y)) /\ C \in Nat
  OBVIOUS
<1>3. CASE C >= P
  <2>1. d = 0 /\ e = C - P
    BY <1>3 DEF Asked
  <2>2. e \in Nat /\ z = e /\ z + P <= B /\ z + P <= x + (w - y) /\ z = e + (w + d) - w
    BY <1>1, <1>2, <1>3, <2>1
  <2>3. Reserve(z, P) + P <= Reserve(x, P) + 2 * (w + d - y)
    <3>1. PICK D : D = w - y
      OBVIOUS
    <3>2. D \in Nat /\ w + d - y = D /\ z + P <= x + D /\ z \in Nat /\ z + P <= B /\ (z + P = B \/ z + P = x + D)
      BY <1>1, <1>2, <2>1, <2>2, <3>1
    <3>3. Reserve(z, P) + P <= Reserve(x, P) + 2 * D
      BY <3>2 DEF Reserve
    <3> QED
      BY <3>2, <3>3
  <2>4. e \in Nat /\ d = 0 /\ z \in Nat
    BY <1>1, <2>1, <2>2
  <2>5. w + d = w => z + P <= x + (w + d - y)
    BY <2>1, <2>2
  <2>6. z = e + (w + d) - w /\ (z + P <= B \/ z = P)
    BY <2>2
  <2>7. Paid(z, x, e, w + d, w, y, P, B)
    BY <2>3, <2>4, <2>5, <2>6, SMT DEF Paid
  <2> QED
    <3>1. d \in Nat
      BY <2>4
    <3> QED
      BY <2>4, <2>7, <3>1, Zenon
<1>4. CASE C < P
  <2>1. d = P - C /\ e = C
    BY <1>2, <1>4 DEF Asked
  <2>2. C = x + (w - y) /\ z = P /\ d \in Nat /\ x < P /\ z = e + (w + d) - w
    BY <1>1, <1>2, <1>4, <2>1
  <2>3. w + d - y = P - x
    BY <2>1, <2>2
  <2>4. Reserve(z, P) + P <= Reserve(x, P) + 2 * (w + d - y)
    BY <2>2, <2>3 DEF Reserve
  <2>5. w + d # w
    BY <1>4, <2>1, <1>2
  <2>6. e \in Nat /\ z \in Nat
    BY <1>2, <2>1, <2>2
  <2>7. Paid(z, x, e, w + d, w, y, P, B)
    BY <2>2, <2>4, <2>5, SMT DEF Paid
  <2> QED
    BY <2>2, <2>6, <2>7
<1> QED
  BY <1>2, <1>3, <1>4

Limiters == [credit : Nat, last : Nat, now : Nat, sent : Seq(Nat)]

LEMMA LimiterParts ==
    ASSUME NEW st \in Limiters
    PROVE  \E c, l, w \in Nat : \E s \in Seq(Nat) : st = Limiter(c, l, w, s)
  BY DEF Limiter, Limiters

LEMMA LimiterType ==
    ASSUME NEW c \in Nat, NEW l \in Nat, NEW w \in Nat, NEW s \in Seq(Nat)
    PROVE  /\ Limiter(c, l, w, s) \in Limiters /\ Limiter(c, l, w, s).sent = s
           /\ Limiter(c, l, w, s).now = w /\ Limiter(c, l, w, s).last = l
  BY DEF Limiter, Limiters

LEMMA SentAppends ==
    ASSUME NEW s \in Seq(Nat), NEW k \in Nat, Len(s) = k, NEW y \in Nat
    PROVE  /\ Append(s, y) \in Seq(Nat) /\ Len(Append(s, y)) = k + 1 /\ Append(s, y)[k + 1] = y
           /\ \A m \in 1 .. k : Append(s, y)[m] = s[m]
  OBVIOUS

\* The first request finds the whole burst.
LEMMA FirstPaced ==
    ASSUME NEW P \in Nat \ {0}, NEW b \in Nat, NEW B \in Nat, B = b * P, P <= B, NEW lat \in Nat
    PROVE  \E x : Paced(Request(Limiter(B, 0, 0, <<>>), lat, P, b), 1, x, P, B, lat)
<1>0. PICK C, d, e : Sends(Request(Limiter(B, 0, 0, <<>>), lat, P, b), B, 0, 0, <<>>, lat, P, B, C, d, e)
  <2>1. 0 \in Nat /\ 0 <= 0 /\ P \in Nat
    OBVIOUS
  <2> QED
    BY <2>1, RequestIs, Zenon
<1>1. /\ Earned(B + 0 - 0, C, B) /\ Asked(C, d, e, P)
      /\ Request(Limiter(B, 0, 0, <<>>), lat, P, b) = Limiter(e, 0, 0 + d + lat, Append(<<>>, 0 + d))
  BY <1>0, Zenon DEF Sends
<1>2. C = B /\ d = 0 /\ e = B - P /\ e \in Nat
  BY <1>1 DEF Asked, Earned
<1>3. PICK s : s = Append(<<>>, 0 + d)
  OBVIOUS
<1>4. s \in Seq(Nat) /\ Len(s) = 1 /\ s[1] = 0
  BY <1>2, <1>3
<1>5. 0 + d + lat \in Nat /\ e + P <= B /\ e = e + s[1] - 0 /\ 0 <= s[1] /\ s[1] <= 0 + d + lat /\ 0 + d + lat = s[1] + lat /\ 0 \in Nat
  BY <1>2, <1>4
<1>6. Paced(Limiter(e, 0, 0 + d + lat, s), 1, e, P, B, lat)
  BY <1>2, <1>4, <1>5 DEF Paced
<1> QED
  BY <1>1, <1>3, <1>6

\* Every other one is paid for, every one that did not wait is, and what has been
\* sent stays; the request took q, the one before it lat.
Follows(r, st, k, z, x, P, B, q, lat) ==
    /\ Paced(r, k + 1, z, P, B, q)
    /\ Reserve(z, P) + P <= Reserve(x, P) + 2 * (r.sent[k + 1] - st.sent[k])
    /\ r.sent[k + 1] = st.sent[k] + lat => z + P <= x + (r.sent[k + 1] - st.sent[k])
    /\ \A m \in 1 .. k : r.sent[m] = st.sent[m]

LEMMA NextPaced ==
    ASSUME NEW P \in Nat \ {0}, NEW b \in Nat, NEW B \in Nat, B = b * P, P <= B, NEW lat \in Nat,
           NEW st, NEW k \in Nat \ {0}, NEW x, NEW q \in Nat, Paced(st, k, x, P, B, q),
           NEW r, r = Request(st, lat, P, b)
    PROVE  \E z : Follows(r, st, k, z, x, P, B, lat, q)
<1>1. PICK c \in Nat, l \in Nat, w \in Nat, s \in Seq(Nat) :
         st = Limiter(c, l, w, s) /\ Len(s) = k /\ l <= s[k] /\ s[k] <= w /\ w = s[k] + q /\ x = c + s[k] - l
  BY DEF Paced
<1>2. x \in Nat /\ (x + P <= B \/ x = P)
  BY DEF Paced
<1>3. PICK y : y = s[k]
  OBVIOUS
<1>4. y \in Nat /\ l <= y /\ y <= w /\ l <= w /\ x = c + y - l
  <2>1. s[k] \in Nat
    BY <1>1
  <2> QED
    BY <1>1, <1>3, <2>1
<1>b. PICK C, d, e : Sends(Request(Limiter(c, l, w, s), lat, P, b), c, l, w, s, lat, P, B, C, d, e)
  <2>1. P \in Nat
    OBVIOUS
  <2> QED
    BY <1>1, <1>4, <2>1, RequestIs, Zenon
<1>5. /\ Earned(c + w - l, C, B) /\ Asked(C, d, e, P)
      /\ Request(Limiter(c, l, w, s), lat, P, b) = Limiter(e, w, w + d + lat, Append(s, w + d))
  BY <1>b, Zenon DEF Sends
<1>6. d \in Nat /\ e \in Nat /\ \E z \in Nat : Paid(z, x, e, w + d, w, y, P, B)
  BY <1>1, <1>2, <1>4, <1>5, RequestCosts, Zenon
<1>8. PICK u, v, t : u = w + d /\ v = w + d + lat /\ t = Append(s, u)
  OBVIOUS
<1>7. PICK z \in Nat : Paid(z, x, e, u, w, y, P, B)
  BY <1>6, <1>8, Zenon
<1>a. /\ z = e + u - w /\ (z + P <= B \/ z = P)
      /\ Reserve(z, P) + P <= Reserve(x, P) + 2 * (u - y)
      /\ u = w => z + P <= x + (u - y)
  BY <1>7, Zenon DEF Paid
<1>9. u \in Nat /\ v \in Nat /\ w <= u /\ u <= v
  <2>1. w \in Nat /\ d \in Nat /\ lat \in Nat /\ u = w + d /\ v = w + d + lat
    BY <1>6, <1>8, Zenon
  <2> QED
    BY ONLY <2>1
<1>10. t \in Seq(Nat) /\ Len(t) = k + 1 /\ t[k + 1] = u /\ \A m \in 1 .. k : t[m] = s[m]
  BY <1>1, <1>8, <1>9, SentAppends, SMTT(30)
<1>11. r = Limiter(e, w, v, t)
  BY <1>1, <1>5, <1>8, Zenon
<1>12. z = e + t[k + 1] - w /\ w <= t[k + 1] /\ t[k + 1] <= v /\ v = t[k + 1] + lat
  BY <1>a, <1>8, <1>9, <1>10
<1>13. Paced(r, k + 1, z, P, B, lat)
  <2>1. r = Limiter(e, w, v, t) /\ Len(t) = k + 1 /\ w <= t[k + 1] /\ t[k + 1] <= v /\ v = t[k + 1] + lat
       /\ z = e + t[k + 1] - w
    BY <1>10, <1>11, <1>12, Zenon
  <2>2. e \in Nat /\ w \in Nat /\ v \in Nat /\ t \in Seq(Nat) /\ z \in Nat /\ (z + P <= B \/ z = P)
    BY <1>1, <1>6, <1>a, <1>9, <1>10, Zenon
  <2> QED
    BY <2>1, <2>2, Zenon DEF Paced
<1>14. r.sent = t /\ st.sent = s
  <2>1. r.sent = t
    BY <1>11 DEF Limiter
  <2>2. st.sent = s
    BY <1>1 DEF Limiter
  <2> QED
    BY <2>1, <2>2
<1>15. Reserve(z, P) + P <= Reserve(x, P) + 2 * (t[k + 1] - s[k])
  BY <1>3, <1>a, <1>10, Zenon
<1>17. t[k + 1] = s[k] + q => z + P <= x + (t[k + 1] - s[k])
  <2>1. w = y + q /\ t[k + 1] = u /\ s[k] = y
    BY <1>1, <1>3, <1>10
  <2> QED
    BY <2>1, <1>a, Zenon
<1>16. Follows(r, st, k, z, x, P, B, lat, q)
  BY <1>10, <1>13, <1>14, <1>15, <1>17, Zenon DEF Follows
<1> QED
  BY <1>16, Zenon

LEMMA MultipleAtLeast ==
    ASSUME NEW P \in Nat \ {0}, NEW b \in Nat \ {0}
    PROVE  b * P \in Nat /\ P <= b * P
<1>1. b * P = P + (b - 1) * P
  OBVIOUS
<1>2. (b - 1) * P \in Nat
  OBVIOUS
<1> QED
  BY <1>1, <1>2

LEMMA RequestType ==
    ASSUME NEW P \in Nat \ {0}, NEW b \in Nat \ {0}, NEW lat \in Nat, NEW st \in Limiters, st.last <= st.now
    PROVE  Request(st, lat, P, b) \in Limiters /\ Request(st, lat, P, b).last <= Request(st, lat, P, b).now
<1>1. PICK c \in Nat, l \in Nat, w \in Nat, s \in Seq(Nat) : st = Limiter(c, l, w, s)
  BY LimiterParts
<1>2. PICK B : B = b * P
  OBVIOUS
<1>3. B \in Nat /\ P <= B
  BY <1>2, MultipleAtLeast
<1>4. l <= w
  BY <1>1, LimiterType
<1>b. PICK C, d, e : Sends(Request(Limiter(c, l, w, s), lat, P, b), c, l, w, s, lat, P, B, C, d, e)
  <2>1. P \in Nat /\ b \in Nat
    OBVIOUS
  <2> QED
    BY <1>2, <1>3, <1>4, <2>1, RequestIs, Zenon
<1>5. /\ Earned(c + w - l, C, B) /\ Asked(C, d, e, P)
      /\ Request(Limiter(c, l, w, s), lat, P, b) = Limiter(e, w, w + d + lat, Append(s, w + d))
  BY <1>b, Zenon DEF Sends
<1>6. d \in Nat /\ e \in Nat
  BY <1>3, <1>4, <1>5 DEF Asked, Earned
<1>7. PICK u, v, t : u = w + d /\ v = w + d + lat /\ t = Append(s, u)
  OBVIOUS
<1>8. u \in Nat /\ v \in Nat /\ w <= v /\ t \in Seq(Nat)
  BY <1>6, <1>7
<1>9. PICK r : r = Limiter(e, w, v, t)
  OBVIOUS
<1>10. r \in Limiters /\ r.last = w /\ r.now = v
  BY <1>6, <1>8, <1>9, LimiterType, SMTT(30)
<1> QED
  BY <1>1, <1>5, <1>7, <1>8, <1>9, <1>10

\* The states of the limiter after each request.
Requests(g, lats, P, b) ==
    /\ g[0] = Limiter(b * P, 0, 0, <<>>)
    /\ \A k \in 1 .. Len(lats) : g[k] = Request(g[k - 1], lats[k], P, b)
    /\ sendTimes(lats, P, b) = g[Len(lats)].sent

LEMMA RequestsAre ==
    ASSUME NEW lats \in Seq(Nat), NEW P \in Nat \ {0}, NEW b \in Nat \ {0}
    PROVE  \E g : Requests(g, lats, P, b)
<1> DEFINE Next1(st, i) == Request(st, lats[i], P, b)
           base == Limiter(b * P, 0, 0, <<>>)
<1>1. PICK n, A : n = Len(lats) /\ A = {st \in Limiters : st.last <= st.now}
  OBVIOUS
<1>n. n \in Nat /\ \A i \in 1 .. n : lats[i] \in Nat
  BY <1>1
<1>2. PICK F : F = [st \in A |-> [i \in 1 .. n |-> Next1(st, i)]]
  OBVIOUS
<1>3. PICK h : StepsFrom(h, base, F, n)
  BY <1>n, StepsExist
<1>4. ASSUME NEW st \in A, NEW i \in 1 .. n PROVE F[st][i] = Next1(st, i) /\ Next1(st, i) \in A
  <2>1. F[st][i] = Next1(st, i)
    BY <1>2
  <2>2. st \in Limiters /\ st.last <= st.now /\ lats[i] \in Nat
    BY <1>1, <1>n
  <2>3. Next1(st, i) \in Limiters /\ Next1(st, i).last <= Next1(st, i).now
    BY <2>2, RequestType, Zenon
  <2> HIDE DEF Next1
  <2>4. Next1(st, i) \in A
    BY <1>1, <2>3
  <2> QED
    BY <2>1, <2>4
<1> HIDE DEF Next1
<1>5. \A i \in 0 .. n : h[i] \in A
  <2>1. base \in A
    <3>1. PICK B : B = b * P
      OBVIOUS
    <3>2. B \in Nat /\ 0 \in Nat /\ <<>> \in Seq(Nat)
      BY <3>1
    <3>3. PICK st : st = Limiter(B, 0, 0, <<>>)
      OBVIOUS
    <3>4. st \in Limiters /\ st.last = 0 /\ st.now = 0
      BY <3>2, <3>3 DEF Limiter, Limiters
    <3>5. st \in A
      BY <1>1, <3>4
    <3> QED
      BY <3>1, <3>3, <3>5
  <2>2. \A a \in A : \A i \in 1 .. n : F[a][i] \in A
    BY <1>4
  <2> HIDE DEF base
  <2> QED
    BY <1>n, <1>3, <2>1, <2>2, StepsStay, Zenon
<1> HIDE DEF base
<1>6. h = [i \in 0 .. n |-> IF i = 0 THEN base ELSE F[h[i - 1]][i]]
  BY <1>3 DEF StepsFrom
<1>7. h = [i \in 0 .. n |-> IF i = 0 THEN base ELSE Next1(h[i - 1], i)]
  <2>1. \A i \in 0 .. n : i # 0 => i \in 1 .. n /\ i - 1 \in 0 .. n
    BY <1>n
  <2>2. \A i \in 0 .. n : (IF i = 0 THEN base ELSE F[h[i - 1]][i]) = (IF i = 0 THEN base ELSE Next1(h[i - 1], i))
    BY <1>4, <1>5, <2>1
  <2> QED
    BY <1>6, <2>2
<1>8. PICK g : /\ g = [i \in 0 .. n |-> IF i = 0 THEN base ELSE Next1(g[i - 1], i)]
               /\ g = CHOOSE f : f = [i \in 0 .. n |-> IF i = 0 THEN base ELSE Next1(f[i - 1], i)]
  BY <1>7, Zenon
<1>9. g[0] = base /\ \A k \in 1 .. n : g[k] = Request(g[k - 1], lats[k], P, b)
  <2>1. 0 \in 0 .. n /\ \A k \in 1 .. n : k \in 0 .. n /\ k # 0
    BY <1>n
  <2> QED
    BY <1>8, <2>1 DEF Next1
<1>10. sendTimes(lats, P, b) = g[n].sent
  BY <1>1, <1>8, Zenon DEF sendTimes, Next1, base, Limiter
<1>11. Requests(g, lats, P, b)
  BY <1>1, <1>9, <1>10, Zenon DEF Requests, base
<1> QED
  BY <1>11, Zenon

\* Every request is sent at the rate, and what has been sent stays.
LEMMA RequestsPaced ==
    ASSUME NEW lats \in Seq(Nat), NEW P \in Nat \ {0}, NEW b \in Nat \ {0}, NEW g, Requests(g, lats, P, b),
           NEW B \in Nat, B = b * P, P <= B
    PROVE  \A k \in 1 .. Len(lats) : \E x : Paced(g[k], k, x, P, B, lats[k])
<1>1. PICK n : n = Len(lats)
  OBVIOUS
<1>2. n \in Nat /\ \A k \in 1 .. n : lats[k] \in Nat
  BY <1>1
<1>3. g[0] = Limiter(B, 0, 0, <<>>) /\ \A k \in 1 .. n : g[k] = Request(g[k - 1], lats[k], P, b)
  BY <1>1, Zenon DEF Requests
<1> DEFINE T == {k \in Nat : k \in 0 .. n => k = 0 \/ \E x : Paced(g[k], k, x, P, B, lats[k])}
<1>4. 0 \in T
  OBVIOUS
<1>5. ASSUME NEW k \in Nat, k \in T PROVE k + 1 \in T
  <2> SUFFICES ASSUME k + 1 \in 0 .. n PROVE \E x : Paced(g[k + 1], k + 1, x, P, B, lats[k + 1])
    OBVIOUS
  <2>1. k \in 0 .. n /\ k + 1 \in 1 .. n /\ (k + 1) - 1 = k /\ lats[k + 1] \in Nat /\ P \in Nat \ {0} /\ b \in Nat
    BY <1>2
  <2>2. g[k + 1] = Request(g[k], lats[k + 1], P, b)
    BY <1>3, <2>1
  <2>3. CASE k = 0
    <3>1. \E x : Paced(Request(Limiter(B, 0, 0, <<>>), lats[k + 1], P, b), 1, x, P, B, lats[k + 1])
      BY <2>1, FirstPaced, Zenon
    <3>2. k + 1 = 1
      BY <2>3
    <3> QED
      BY <1>3, <2>2, <2>3, <3>1, <3>2, Zenon
  <2>4. CASE k # 0
    <3>1. PICK x : Paced(g[k], k, x, P, B, lats[k])
      BY <1>5, <2>1, <2>4, Zenon
    <3>2. k \in Nat \ {0}
      BY <2>4
    <3> QED
      <4>1. \E z : Follows(g[k + 1], g[k], k, z, x, P, B, lats[k + 1], lats[k])
        <5>1. PICK lat, q, r, st : lat = lats[k + 1] /\ q = lats[k] /\ r = g[k + 1] /\ st = g[k]
          OBVIOUS
        <5>2. /\ lat \in Nat /\ q \in Nat /\ b \in Nat /\ P \in Nat \ {0} /\ k \in Nat \ {0}
              /\ Paced(st, k, x, P, B, q) /\ r = Request(st, lat, P, b)
          BY <1>2, <2>1, <2>2, <2>4, <3>1, <3>2, <5>1
        <5> QED
          BY <5>1, <5>2, NextPaced, Zenon
      <4> QED
        BY <4>1, Zenon DEF Follows
  <2> QED
    BY <2>3, <2>4
<1> HIDE DEF T
<1>6. \A k \in Nat : k \in T
  BY <1>4, <1>5, SetInduction
<1>7. \A k \in 1 .. n : k \in Nat /\ k \in 0 .. n /\ k # 0
  OBVIOUS
<1>8. ASSUME NEW k \in 1 .. n PROVE \E x : Paced(g[k], k, x, P, B, lats[k])
  BY <1>6, <1>7, Zenon DEF T
<1> QED
  BY <1>1, <1>8, Zenon

\* No request after the i-th and up to the j-th has waited.
Prompt(S, lats, i, j) == \A k \in i .. (j - 1) : S[k + 1] = S[k] + lats[k]

\* Whatever the latencies, the period and the burst: after any request of a backfill
\* no more are sent than the burst and what the elapsed time earned, as long as none
\* waits, and than the burst and TWICE that if some do, each of which is sent without
\* taking the token it waited for (RateLimiter.acquireDelayMs, backfillCandles).
THEOREM RequestsThrottled ==
    ASSUME NEW lats \in Seq(Nat), NEW P \in Nat \ {0}, NEW b \in Nat \ {0},
           NEW i \in 1 .. Len(lats), NEW j \in 1 .. Len(lats), i <= j
    PROVE  /\ (j - i) * P <= b * P + 2 * (sendTimes(lats, P, b)[j] - sendTimes(lats, P, b)[i])
           /\ Prompt(sendTimes(lats, P, b), lats, i, j)
                => (j - i) * P <= b * P + (sendTimes(lats, P, b)[j] - sendTimes(lats, P, b)[i])
<1>1. PICK n, B : n = Len(lats) /\ B = b * P
  OBVIOUS
<1>2. B \in Nat /\ P <= B /\ P \in Nat
  BY <1>1, MultipleAtLeast
<1>3. n \in Nat /\ i \in 1 .. n /\ j \in 1 .. n /\ \A k \in 1 .. n : lats[k] \in Nat
  BY <1>1
<1>4. PICK g : Requests(g, lats, P, b)
  BY RequestsAre
<1>5. (\A k \in 1 .. n : g[k] = Request(g[k - 1], lats[k], P, b)) /\ sendTimes(lats, P, b) = g[n].sent
  BY <1>1, <1>4, Zenon DEF Requests
<1>6. \A k \in 1 .. n : \E x : Paced(g[k], k, x, P, B, lats[k])
  BY <1>1, <1>2, <1>4, RequestsPaced, Zenon
<1>7. PICK S : S = [k \in 1 .. n |-> g[k].sent[k]]
  OBVIOUS
<1>8. ASSUME NEW k \in 1 .. n PROVE S[k] = g[k].sent[k] /\ S[k] \in Nat
  <2>1. S[k] = g[k].sent[k]
    BY <1>7
  <2>2. PICK x : Paced(g[k], k, x, P, B, lats[k])
    BY <1>6
  <2>3. PICK c \in Nat, l \in Nat, w \in Nat, s \in Seq(Nat) : g[k] = Limiter(c, l, w, s) /\ Len(s) = k
    BY <2>2 DEF Paced
  <2>4. g[k].sent = s
    BY <2>3 DEF Limiter
  <2>5. s[k] \in Nat
    BY <2>3
  <2> QED
    BY <2>1, <2>4, <2>5
<1>9. ASSUME NEW k \in 1 .. n, k + 1 \in 1 .. n, NEW x, Paced(g[k], k, x, P, B, lats[k])
      PROVE  \E z : Follows(g[k + 1], g[k], k, z, x, P, B, lats[k + 1], lats[k])
  <2>1. g[k + 1] = Request(g[k], lats[k + 1], P, b) /\ lats[k + 1] \in Nat
    <3>1. (k + 1) - 1 = k
      OBVIOUS
    <3> QED
      BY <1>3, <1>5, <1>9, <3>1
  <2>2. k \in Nat \ {0} /\ b \in Nat /\ P \in Nat \ {0}
    OBVIOUS
  <2> QED
    <3>1. PICK lat, q, r, st : lat = lats[k + 1] /\ q = lats[k] /\ r = g[k + 1] /\ st = g[k]
      OBVIOUS
    <3>2. /\ lat \in Nat /\ q \in Nat /\ Paced(st, k, x, P, B, q) /\ r = Request(st, lat, P, b)
      BY <1>3, <1>9, <2>1, <3>1
    <3>3. B = b * P
      BY <1>1
    <3> QED
      BY <1>2, <2>2, <3>1, <3>2, <3>3, NextPaced, Zenon
<1>10. ASSUME NEW k \in 1 .. n PROVE g[n].sent[k] = S[k]
  <2> DEFINE T == {m \in Nat : k + m \in 1 .. n => g[k + m].sent[k] = S[k]}
  <2>1. 0 \in T
    <3>1. k + 0 = k
      OBVIOUS
    <3> QED
      BY <1>8, <3>1, Zenon
  <2>2. ASSUME NEW m \in Nat, m \in T PROVE m + 1 \in T
    <3> SUFFICES ASSUME k + (m + 1) \in 1 .. n PROVE g[k + (m + 1)].sent[k] = S[k]
      OBVIOUS
    <3>1. PICK q : q = k + m
      OBVIOUS
    <3>2. q \in 1 .. n /\ q + 1 \in 1 .. n /\ k + (m + 1) = q + 1 /\ k \in 1 .. q
      BY <1>3, <3>1
    <3>3. g[q].sent[k] = S[k]
      BY <2>2, <3>1, <3>2
    <3>4. PICK x : Paced(g[q], q, x, P, B, lats[q])
      BY <1>6, <3>2
    <3>5. PICK z : Follows(g[q + 1], g[q], q, z, x, P, B, lats[q + 1], lats[q])
      BY <1>9, <3>2, <3>4
    <3>6. g[q + 1].sent[k] = g[q].sent[k]
      BY <3>2, <3>5, Zenon DEF Follows
    <3> QED
      BY <3>2, <3>3, <3>6, Zenon
  <2> HIDE DEF T
  <2>3. n - k \in Nat /\ k + (n - k) = n /\ n \in 1 .. n
    BY <1>3
  <2>4. n - k \in T
    BY <2>1, <2>2, <2>3, SetInduction
  <2> QED
    BY <2>3, <2>4, Zenon DEF T
<1> DEFINE U == {m \in Nat : i + m \in 1 .. n =>
                    \E x : Paced(g[i + m], i + m, x, P, B, lats[i + m]) /\ Reserve(x, P) + m * P <= B + 2 * (S[i + m] - S[i])
                         /\ (Prompt(S, lats, i, i + m) => x + m * P <= B + (S[i + m] - S[i]))}
<1>11. 0 \in U
  <2>1. PICK x : Paced(g[i], i, x, P, B, lats[i])
    BY <1>3, <1>6
  <2>2. x \in Nat /\ (x + P <= B \/ x = P)
    BY <2>1 DEF Paced
  <2>3. Reserve(x, P) \in Nat /\ Reserve(x, P) <= B
    BY <1>2, <2>2, ReserveFits
  <2>4. i + 0 = i /\ 0 * P = 0 /\ S[i] \in Nat
    BY <1>3, <1>8
  <2>5. Reserve(x, P) + 0 * P <= B + 2 * (S[i] - S[i])
    BY <1>2, <2>3, <2>4
  <2>6. x + 0 * P <= B + (S[i] - S[i])
    BY <1>2, <2>2, <2>4
  <2> QED
    BY <2>1, <2>4, <2>5, <2>6, Zenon
<1>12. ASSUME NEW m \in Nat, m \in U PROVE m + 1 \in U
  <2> SUFFICES ASSUME i + (m + 1) \in 1 .. n
               PROVE  \E x : Paced(g[i + (m + 1)], i + (m + 1), x, P, B, lats[i + (m + 1)])
                             /\ Reserve(x, P) + (m + 1) * P <= B + 2 * (S[i + (m + 1)] - S[i])
                             /\ (Prompt(S, lats, i, i + (m + 1)) => x + (m + 1) * P <= B + (S[i + (m + 1)] - S[i]))
    OBVIOUS
  <2>1. PICK q : q = i + m
    OBVIOUS
  <2>2. q \in 1 .. n /\ q + 1 \in 1 .. n /\ i + (m + 1) = q + 1
    BY <1>3, <2>1
  <2>3. PICK x : /\ Paced(g[q], q, x, P, B, lats[q]) /\ Reserve(x, P) + m * P <= B + 2 * (S[q] - S[i])
                 /\ (Prompt(S, lats, i, q) => x + m * P <= B + (S[q] - S[i]))
    BY <1>12, <2>1, <2>2, Zenon
  <2>4. PICK z : Follows(g[q + 1], g[q], q, z, x, P, B, lats[q + 1], lats[q])
    BY <1>9, <2>2, <2>3
  <2>5. Paced(g[q + 1], q + 1, z, P, B, lats[q + 1]) /\ Reserve(z, P) + P <= Reserve(x, P) + 2 * (g[q + 1].sent[q + 1] - g[q].sent[q])
    BY <2>4, Zenon DEF Follows
  <2>s. g[q + 1].sent[q + 1] = g[q].sent[q] + lats[q] => z + P <= x + (g[q + 1].sent[q + 1] - g[q].sent[q])
    BY <2>4, Zenon DEF Follows
  <2>6. PICK u, v, w : u = S[q + 1] /\ v = S[q] /\ w = S[i]
    OBVIOUS
  <2>7. u \in Nat /\ v \in Nat /\ w \in Nat /\ u = g[q + 1].sent[q + 1] /\ v = g[q].sent[q]
    BY <1>3, <1>8, <2>2, <2>6
  <2>8. Reserve(x, P) \in Nat /\ Reserve(z, P) \in Nat
    <3>1. x \in Nat /\ (x + P <= B \/ x = P) /\ z \in Nat /\ (z + P <= B \/ z = P)
      BY <2>3, <2>5 DEF Paced
    <3> QED
      BY <1>2, <3>1, ReserveFits
  <2>9. PICK y, t, p : y = Reserve(x, P) /\ t = Reserve(z, P) /\ p = m * P
    OBVIOUS
  <2>10. y \in Nat /\ t \in Nat /\ p \in Nat /\ (m + 1) * P = p + P
    BY <1>2, <2>8, <2>9
  <2>11. y + p <= B + 2 * (v - w) /\ t + P <= y + 2 * (u - v)
    BY <2>3, <2>5, <2>6, <2>7, <2>9, Zenon
  <2>12. t + (p + P) <= B + 2 * (u - w)
    <3>1. u \in Nat /\ v \in Nat /\ w \in Nat /\ y \in Nat /\ t \in Nat /\ p \in Nat /\ P \in Nat /\ B \in Nat
      BY <1>2, <2>7, <2>10, Zenon
    <3> QED
      BY <3>1, <2>11
  <2>13. Reserve(z, P) + (m + 1) * P <= B + 2 * (S[q + 1] - S[i])
    BY <2>6, <2>9, <2>10, <2>12, Zenon
  <2>14. ASSUME Prompt(S, lats, i, q + 1) PROVE z + (m + 1) * P <= B + (S[q + 1] - S[i])
    <3>1. \A k \in i .. q : S[k + 1] = S[k] + lats[k]
      <4>1. (q + 1) - 1 = q
        BY <2>2
      <4> QED
        BY <2>14, <4>1, Zenon DEF Prompt
    <3>2. q \in i .. q /\ i .. (q - 1) \subseteq i .. q
      BY <1>3, <1>12, <2>1, <2>2
    <3>3. Prompt(S, lats, i, q) /\ u = v + lats[q]
      BY <2>6, <3>1, <3>2, Zenon DEF Prompt
    <3>4. x + p <= B + (v - w) /\ z + P <= x + (u - v)
      BY <2>3, <2>s, <2>6, <2>7, <2>9, <3>3, Zenon
    <3>5. x \in Nat /\ z \in Nat
      BY <2>3, <2>5 DEF Paced
    <3>6. u \in Nat /\ v \in Nat /\ w \in Nat /\ p \in Nat /\ P \in Nat /\ B \in Nat
      BY <1>2, <2>7, <2>10, Zenon
    <3>7. z + (p + P) <= B + (u - w)
      BY <3>4, <3>5, <3>6
    <3> QED
      BY <2>6, <2>10, <3>7, Zenon
  <2> QED
    BY <2>2, <2>5, <2>13, <2>14, Zenon
<1> HIDE DEF U
<1>13. PICK m : m = j - i
  OBVIOUS
<1>14. m \in Nat /\ i + m = j
  BY <1>3, <1>13
<1>15. m \in U
  BY <1>11, <1>12, <1>14, SetInduction
<1>16. PICK x : /\ Paced(g[j], j, x, P, B, lats[j]) /\ Reserve(x, P) + m * P <= B + 2 * (S[j] - S[i])
                /\ (Prompt(S, lats, i, j) => x + m * P <= B + (S[j] - S[i]))
  BY <1>3, <1>14, <1>15, Zenon DEF U
<1>17. Reserve(x, P) \in Nat
  <2>1. x \in Nat /\ (x + P <= B \/ x = P)
    BY <1>16 DEF Paced
  <2> QED
    BY <1>2, <2>1, ReserveFits
<1>18. S[i] = sendTimes(lats, P, b)[i] /\ S[j] = sendTimes(lats, P, b)[j] /\ S[i] \in Nat /\ S[j] \in Nat
  BY <1>3, <1>5, <1>8, <1>10
<1>19. m * P \in Nat
  BY <1>2, <1>14
<1>20. m * P <= B + 2 * (S[j] - S[i])
  BY <1>2, <1>16, <1>17, <1>18, <1>19, SMTT(30)
<1>21. ASSUME Prompt(sendTimes(lats, P, b), lats, i, j) PROVE m * P <= B + (S[j] - S[i])
  <2>1. \A k \in i .. (j - 1) : k \in 1 .. n /\ k + 1 \in 1 .. n
    BY <1>3
  <2>2. \A k \in 1 .. n : sendTimes(lats, P, b)[k] = S[k]
    BY <1>5, <1>10, Zenon
  <2>3. Prompt(S, lats, i, j)
    BY <1>21, <2>1, <2>2, Zenon DEF Prompt
  <2>4. x + m * P <= B + (S[j] - S[i]) /\ x \in Nat
    BY <1>16, <2>3 DEF Paced
  <2> QED
    BY <1>2, <1>18, <1>19, <2>4
<1> QED
  BY <1>1, <1>13, <1>18, <1>20, <1>21, Zenon

-----------------------------------------------------------------------------
(* The calls. *)

CallInputs == SeriesInputs \cup TradingInputs \cup CandleInputs \cup RecordInputs \cup BackfillInputs
              \cup ThrottleInputs \cup GraphInputs \cup PortfolioInputs \cup RebalanceInputs
              \cup ChampionInputs \cup HealthInputs

CallInv == input \in CallInputs /\ (result # <<>> => result = <<Call(input)>>)

LEMMA CallHolds == CallSpec => []CallInv
<1>1. CallInit => CallInv
  BY DEF CallInit, CallInv, CallInputs
<1>2. CallInv /\ [CallNext]_callVars => CallInv'
  <2> SUFFICES ASSUME CallInv, [CallNext]_callVars PROVE CallInv'
    OBVIOUS
  <2>1. CASE Evaluate
    <3>1. PICK c : c = Call(input)
      OBVIOUS
    <3>2. input' = input /\ result' = <<Call(input)>>
      BY <2>1 DEF Evaluate
    <3>3. Call(input)' = Call(input)
      BY <3>2 
    <3> QED
      BY <3>2, <3>3 DEF CallInv
  <2>2. CASE UNCHANGED callVars
    BY <2>2 DEF CallInv, callVars
  <2> QED
    BY <2>1, <2>2 DEF CallNext
<1> QED
  BY <1>1, <1>2, PTL DEF CallSpec

LEMMA InputKinds ==
    ASSUME NEW i \in CallInputs
    PROVE  /\ i.kind = "trading" => i \in TradingInputs
           /\ i.kind = "backfill" => i \in BackfillInputs
           /\ i.kind = "throttle" => i \in ThrottleInputs
           /\ i.kind = "portfolio" => i \in PortfolioInputs
           /\ i.kind = "rebalance" => i \in RebalanceInputs
           /\ i.kind = "graph" => i \in GraphInputs
           /\ i.kind = "champion" => i \in ChampionInputs
           /\ i.kind = "health" => i \in HealthInputs
<1>1. i \in SeriesInputs => i.kind = "series"
  BY DEF SeriesInputs
<1>2. i \in CandleInputs => i.kind = "candles"
  BY SeriesAssumption
<1>3. i \in RecordInputs => i.kind = "records"
  BY SeriesAssumption
<1>4. i \in GraphInputs => i.kind = "graph"
  BY GraphAssumption
<1>5. i \in ChampionInputs => i.kind = "champion"
  BY EvaluationAssumption
<1>6. i \in HealthInputs => i.kind = "health"
  BY EvaluationAssumption
<1>7. i \in TradingInputs => i.kind = "trading"
  BY TradingAssumption
<1>8. (i \in BackfillInputs => i.kind = "backfill") /\ (i \in ThrottleInputs => i.kind = "throttle")
  BY BackfillAssumption
<1>9. (i \in PortfolioInputs => i.kind = "portfolio") /\ (i \in RebalanceInputs => i.kind = "rebalance")
  BY PortfolioAssumption
<1> HIDE DEF SeriesInputs
<1> QED
  BY <1>1, <1>2, <1>3, <1>4, <1>5, <1>6, <1>7, <1>8, <1>9 DEF CallInputs

LEMMA CallIs ==
    ASSUME NEW i
    PROVE  /\ i.kind = "trading" =>
                Call(i) = runTradingCore(i.reading, [halted |-> i.halted, budget_available |-> i.available],
                                         [exposure |-> i.exposure, max_exposure |-> MaxExposure])
           /\ i.kind = "backfill" => Call(i) = backfillCandles(i.server, i.from, i.to, i.page)
           /\ i.kind = "throttle" => Call(i) = sendTimes(i.latencies, Period, i.burst)
           /\ i.kind = "portfolio" => Call(i) = planAllocations(i.candidates, i.corr, Constraints, BudgetOf(i))
           /\ i.kind = "rebalance" => Call(i) = rebalance(i.current, i.target, i.minTrade)
           /\ i.kind = "graph" => Call(i) = topoOrder(i.deps, i.roots)
           /\ i.kind = "champion" => Call(i) = Championship(i.experiments)
           /\ i.kind = "health" => Call(i) = Monitored(i.ops, Parts)
  BY DEF Call

\* What has returned is what the call of the input gives.
LEMMA OutIs ==
    ASSUME CallInv, NEW k, Returned(k)
    PROVE  Out = Call(input) /\ input \in CallInputs /\ input.kind = k
  BY DEF CallInv, Returned, Kind, Out

LEMMA BackfillOut ==
    ASSUME NEW i, i \in BackfillInputs
    PROVE  /\ i.server \in Seq(Nat) /\ Increasing(i.server) /\ i.from \in Int /\ i.to \in Int /\ i.page \in Nat \ {0}
           /\ backfillCandles(i.server, i.from, i.to, i.page)
                = Filter(i.server, {t \in ToSet(i.server) : t >= i.from /\ t < i.to})
<1>1. i.server \in Histories /\ i.from \in Int /\ i.to \in Int /\ i.page \in Nat \ {0}
  BY BackfillAssumption
<1>2. i.server \in Seq(Nat) /\ Increasing(i.server)
  BY <1>1 DEF Histories, Increasing
<1>3. PICK s, from, to, size : s = i.server /\ from = i.from /\ to = i.to /\ size = i.page
  OBVIOUS
<1>4. s \in Seq(Nat) /\ Increasing(s) /\ from \in Int /\ to \in Int /\ size \in Nat \ {0}
  BY <1>1, <1>2, <1>3
<1>5. backfillCandles(s, from, to, size) = Filter(s, {t \in ToSet(s) : from <= t /\ t < to})
  BY <1>4, BackfillBringsEverything
<1>6. {t \in ToSet(s) : from <= t /\ t < to} = {t \in ToSet(s) : t >= from /\ t < to}
  OBVIOUS
<1> QED
  BY <1>1, <1>2, <1>3, <1>5, <1>6

LEMMA SentLength ==
    ASSUME NEW lats \in Seq(Nat), NEW P \in Nat \ {0}, NEW b \in Nat \ {0}
    PROVE  DOMAIN sendTimes(lats, P, b) = 1 .. Len(lats)
<1>1. PICK n, B : n = Len(lats) /\ B = b * P
  OBVIOUS
<1>2. B \in Nat /\ P <= B /\ P \in Nat /\ n \in Nat
  BY <1>1, MultipleAtLeast
<1>3. PICK g : Requests(g, lats, P, b)
  BY RequestsAre
<1>4. sendTimes(lats, P, b) = g[n].sent /\ g[0].sent = <<>>
  <2>1. sendTimes(lats, P, b) = g[n].sent
    BY <1>1, <1>3, Zenon DEF Requests
  <2>2. g[0] = Limiter(b * P, 0, 0, <<>>)
    BY <1>1, <1>3, Zenon DEF Requests
  <2>3. Limiter(b * P, 0, 0, <<>>).sent = <<>>
    BY DEF Limiter
  <2> QED
    BY <2>1, <2>2, <2>3
<1>5. CASE n = 0
  BY <1>1, <1>4, <1>5
<1>6. CASE n \in 1 .. n
  <2>1. PICK x : Paced(g[n], n, x, P, B, lats[n])
    BY <1>1, <1>2, <1>3, <1>6, RequestsPaced, Zenon
  <2>2. PICK c \in Nat, l \in Nat, w \in Nat, s \in Seq(Nat) : g[n] = Limiter(c, l, w, s) /\ Len(s) = n
    BY <2>1 DEF Paced
  <2>3. g[n].sent = s
    BY <2>2 DEF Limiter
  <2> QED
    BY <1>1, <1>4, <2>2, <2>3
<1> QED
  BY <1>2, <1>5, <1>6

Throttled(out, lats, c) ==
    \A a, b \in DOMAIN out : a <= b =>
      /\ (b - a) * Period <= c * Period + 2 * (out[b] - out[a])
      /\ Prompt(out, lats, a, b) => (b - a) * Period <= c * Period + (out[b] - out[a])

LEMMA ThrottleOut ==
    ASSUME NEW i, i \in ThrottleInputs, NEW out, out = sendTimes(i.latencies, Period, i.burst)
    PROVE  Throttled(out, i.latencies, i.burst)
<1>1. PICK lats, c : lats = i.latencies /\ c = i.burst
  OBVIOUS
<1>2. lats \in Seq(Nat) /\ c \in Nat \ {0} /\ Period \in Nat \ {0}
  BY <1>1, BackfillAssumption
<1>3. out = sendTimes(lats, Period, c)
  BY <1>1
<1>4. DOMAIN out = 1 .. Len(lats)
  BY <1>2, <1>3, SentLength
<1>5. ASSUME NEW a \in 1 .. Len(lats), NEW b \in 1 .. Len(lats), a <= b
      PROVE  /\ (b - a) * Period <= c * Period + 2 * (out[b] - out[a])
             /\ Prompt(out, lats, a, b) => (b - a) * Period <= c * Period + (out[b] - out[a])
  BY <1>2, <1>3, <1>5, RequestsThrottled, Zenon
<1> QED
  BY <1>1, <1>4, <1>5, Zenon DEF Throttled

\* A backfill brings everything once, is as fast as its limiter allows while no
\* request waits and never faster than twice that, for every set of histories,
\* ranges, page sizes, latencies and bursts (backfillCandles, RateLimiter).
THEOREM BackfillHolds == CallSpec => []BackfillIsSound
<1>1. ASSUME CallInv PROVE BackfillIsSound
  <2>1. ASSUME Returned("backfill")
        PROVE  Out = Filter(input.server, {t \in ToSet(input.server) : t >= input.from /\ t < input.to})
    <3>1. Out = Call(input) /\ input \in CallInputs /\ input.kind = "backfill"
      BY <1>1, <2>1, OutIs
    <3>2. input \in BackfillInputs /\ Out = backfillCandles(input.server, input.from, input.to, input.page)
      BY <3>1, InputKinds, CallIs
    <3> QED
      BY <3>2, BackfillOut
  <2>2. ASSUME Returned("throttle")
        PROVE  Throttled(Out, input.latencies, input.burst)
    <3>1. Out = Call(input) /\ input \in CallInputs /\ input.kind = "throttle"
      BY <1>1, <2>2, OutIs
    <3>2. input \in ThrottleInputs /\ Out = sendTimes(input.latencies, Period, input.burst)
      BY <3>1, InputKinds, CallIs
    <3> QED
      BY <3>2, ThrottleOut
  <2>3. WaitersDoubleTheRate
    BY <2>2, Zenon DEF WaitersDoubleTheRate, Throttled, Prompt
  <2> QED
    BY <2>1, <2>3 DEF BackfillIsSound, BackfillIsComplete
<1> QED
  BY <1>1, CallHolds, PTL

LEMMA VariationsType ==
    ASSUME NEW r \in Reading
    PROVE  Variations(r) \subseteq Reading
<1>1. ASSUME NEW x \in Samples.ema PROVE [r EXCEPT !.ema = x] \in Reading
  BY TradingAssumption DEF Reading
<1>2. ASSUME NEW x \in Samples.macd PROVE [r EXCEPT !.macd = x] \in Reading
  BY TradingAssumption DEF Reading
<1>3. ASSUME NEW x \in Samples.rsi PROVE [r EXCEPT !.rsi = x] \in Reading
  BY TradingAssumption DEF Reading
<1>4. ASSUME NEW x \in Samples.band PROVE [r EXCEPT !.band = x] \in Reading
  BY TradingAssumption DEF Reading
<1>5. ASSUME NEW x \in Samples.volume PROVE [r EXCEPT !.volume = x] \in Reading
  BY TradingAssumption DEF Reading
<1>6. ASSUME NEW x \in Samples.volatility PROVE [r EXCEPT !.volatility = x] \in Reading
  BY TradingAssumption DEF Reading
<1>7. ASSUME NEW x \in Samples.slope PROVE [r EXCEPT !.slope = x] \in Reading
  BY TradingAssumption DEF Reading
<1>8. ASSUME NEW x \in Samples.bid PROVE [r EXCEPT !.bid = x] \in Reading
  BY TradingAssumption DEF Reading
<1> QED
  BY <1>1, <1>2, <1>3, <1>4, <1>5, <1>6, <1>7, <1>8, Zenon DEF Variations

\* From a reading to the decision nothing is chosen, weighed or explained against
\* the evidence, for every set of readings and variations, every exposure limit
\* and every answer of risk (SignalEngine, StrategyEngine, DecisionEngine).
THEOREM DecisionHolds == CallSpec => []DecisionFollowsEvidence
<1>1. ASSUME CallInv PROVE DecisionFollowsEvidence
  <2> SUFFICES ASSUME Returned("trading") PROVE DecisionFollowsEvidence
    BY DEF DecisionFollowsEvidence, StrategyIsTheBest, ConvictionIsMonotone, TradeIsExplained
  <2>1. Out = Call(input) /\ input \in CallInputs /\ input.kind = "trading"
    BY <1>1, OutIs
  <2>2. PICK r, risk, portfolio, halted, available, exposure :
          /\ r = input.reading /\ halted = input.halted /\ available = input.available /\ exposure = input.exposure
          /\ risk = [halted |-> halted, budget_available |-> available]
          /\ portfolio = [exposure |-> exposure, max_exposure |-> MaxExposure]
    OBVIOUS
  <2>3. input \in TradingInputs
    BY <2>1, InputKinds, Zenon
  <2>4. Out = runTradingCore(r, risk, portfolio)
    BY <2>1, <2>2, CallIs, Zenon
  <2>5. r \in Reading /\ halted \in BOOLEAN /\ available \in Int /\ exposure \in Int /\ MaxExposure \in Int
    BY <2>2, <2>3, TradingAssumption
  <2>6. /\ risk.halted = halted /\ risk.budget_available = available
        /\ portfolio.exposure = exposure /\ portfolio.max_exposure = MaxExposure
    BY <2>2
  <2>7. PICK out : out = runTradingCore(r, risk, portfolio)
    OBVIOUS
  <2>8. StrategyIsTheBest
    <3>1. /\ risk.halted \in BOOLEAN /\ risk.budget_available \in Int
          /\ portfolio.exposure \in Int /\ portfolio.max_exposure \in Int
      BY <2>5, <2>6, Zenon
    <3>2. /\ \A s \in ToSet(Strategies) : Score(s, out.signals) <= Score(out.strategy.active, out.signals)
          /\ out.strategy.active \in out.strategy.selected
          /\ (out.decision # NoDecision) <=> (out.signals # <<>>)
          /\ ("Decision.created" \in ToSet(out.events)) <=> (out.signals # <<>>)
      BY <2>5, <2>7, <3>1, StrategyIsBest
    <3> QED
      BY <2>4, <2>7, <3>2, Zenon DEF StrategyIsTheBest
  <2>9. ConvictionIsMonotone
    <3>1. Out.signals = generate(r)
      BY <2>4 DEF runTradingCore
    <3>2. ASSUME NEW b \in Variations(r), AtLeastAsBullish(b, r) PROVE Net(generate(b)) >= Net(Out.signals)
      <4>1. b \in Reading
        BY <2>5, VariationsType
      <4>2. Net(generate(r)) <= Net(generate(b))
        BY <2>5, <3>2, <4>1, ConvictionFollowsEvidence, Zenon
      <4> QED
        BY <3>1, <4>2
    <3> QED
      BY <2>2, <3>2, Zenon DEF ConvictionIsMonotone
  <2>10. TradeIsExplained
    <3>1. /\ risk.halted \in BOOLEAN /\ risk.budget_available \in Int
          /\ portfolio.exposure \in Int /\ portfolio.max_exposure \in Int
      BY <2>5, <2>6, Zenon
    <3>2. /\ out.decision.action = "BUY" => /\ \A s \in ToSet(out.decision.signal_used) : s.value > 0
                                            /\ ~halted /\ available > 0 /\ exposure < MaxExposure
          /\ out.decision.action = "SELL" => (\A s \in ToSet(out.decision.signal_used) : s.value < 0) /\ ~halted
      BY <2>5, <2>6, <2>7, <3>1, TradesAreExplained
    <3> QED
      BY <2>2, <2>4, <2>7, <3>2, Zenon DEF TradeIsExplained
  <2> QED
    BY <2>8, <2>9, <2>10 DEF DecisionFollowsEvidence
<1> QED
  BY <1>1, CallHolds, PTL

LEMMA PortfolioOut ==
    ASSUME NEW i, i \in PortfolioInputs
    PROVE  LET w == optimize(i.candidates, i.corr, Constraints, BudgetOf(i))
               plan == planAllocations(i.candidates, i.corr, Constraints, BudgetOf(i))
           IN  /\ SumFunction(plan) <= i.available
               /\ SumFunction(w) <= Constraints.maxUtilization
               /\ \A s \in DOMAIN i.candidates : w[s] <= Constraints.maxWeight /\ w[s] >= 0
               /\ \A g \in ToSet(clusterByCorrelation(Len(i.candidates), i.corr, Constraints.threshold)) :
                    SumFunctionOnSet(w, g) <= Constraints.maxGroup
<1>1. PICK candidates, corr, available, left, n :
        /\ candidates = i.candidates /\ corr = i.corr /\ available = i.available
        /\ left = BudgetOf(i) /\ n = Len(candidates)
  OBVIOUS
<1>2. /\ candidates \in Seq(CandidateSet) /\ corr \in Matrix(n) /\ available \in Nat /\ Constraints \in CapSet
  BY <1>1, PortfolioAssumption
<1>3. left = [total |-> 1000, available |-> available]
  BY <1>1 DEF BudgetOf
<1>4. left \in LeftSet /\ left.available = available
  BY <1>2, <1>3 DEF LeftSet
<1>5. corr \in [(1 .. Len(candidates)) \X (1 .. Len(candidates)) -> Int]
  BY <1>1, <1>2 DEF Matrix
<1>6. PICK w, plan, groups :
        /\ w = optimize(candidates, corr, Constraints, left) /\ plan = planAllocations(candidates, corr, Constraints, left)
        /\ groups = clusterByCorrelation(n, corr, Constraints.threshold)
  OBVIOUS
<1>7. /\ SumFunction(plan) <= available
      /\ \A s \in 1 .. n : w[s] \in 0 .. Constraints.maxWeight
      /\ \A g \in ToSet(groups) : SumFunctionOnSet(w, g) <= Constraints.maxGroup
      /\ SumFunction(w) <= Constraints.maxUtilization
  BY <1>1, <1>2, <1>4, <1>5, <1>6, PlanStaysInsideCaps, Zenon
<1>8. DOMAIN candidates = 1 .. n
  BY <1>1, <1>2
<1>9. Constraints.maxWeight \in Nat
  BY <1>2 DEF CapSet
<1>10. \A s \in DOMAIN candidates : w[s] <= Constraints.maxWeight /\ w[s] >= 0
  BY <1>7, <1>8, <1>9
<1> QED
  BY <1>1, <1>6, <1>7, <1>10, Zenon

LEMMA AbsoluteType == \A x \in Int : Absolute(x) \in Nat /\ Absolute(-x) = Absolute(x)
  BY DEF Absolute

\* One order per symbol, worth the difference.
LEMMA RebalanceOut ==
    ASSUME NEW current, NEW target, NEW minTrade \in Nat,
           current \in [DOMAIN current -> Int], target \in [DOMAIN target -> Int],
           NEW s \in DOMAIN current \cup DOMAIN target
    PROVE  LET held   == IF s \in DOMAIN current THEN current[s] ELSE 0
               wanted == IF s \in DOMAIN target THEN target[s] ELSE 0
               bought == SumFunction([o \in {x \in rebalance(current, target, minTrade) : x.symbol = s} |->
                                        IF o.side = "buy" THEN o.notional ELSE -o.notional])
           IN  Absolute(wanted - (held + bought)) <= minTrade
<1> DEFINE delta(t) == (IF t \in DOMAIN target THEN target[t] ELSE 0) - (IF t \in DOMAIN current THEN current[t] ELSE 0)
           order(t) == [symbol |-> t, side |-> IF delta(t) > 0 THEN "buy" ELSE "sell", notional |-> Absolute(delta(t))]
           worth(o) == IF o.side = "buy" THEN o.notional ELSE -o.notional
           traded == {t \in DOMAIN current \cup DOMAIN target : Absolute(delta(t)) > minTrade}
<1>1. PICK held, wanted, d, S : /\ held = (IF s \in DOMAIN current THEN current[s] ELSE 0)
                                /\ wanted = (IF s \in DOMAIN target THEN target[s] ELSE 0)
                                /\ d = wanted - held /\ S = {x \in rebalance(current, target, minTrade) : x.symbol = s}
  OBVIOUS
<1>2. held \in Int /\ wanted \in Int /\ d \in Int /\ delta(s) = d
  BY <1>1
<1>3. rebalance(current, target, minTrade) = {order(t) : t \in traded}
  BY Zenon DEF rebalance
<1>4. \A t : order(t).symbol = t
  OBVIOUS
<1>5. S = IF Absolute(d) > minTrade THEN {order(s)} ELSE {}
  <2> HIDE DEF order
  <2>1. \A t \in traded : order(t).symbol = s => t = s
    BY <1>4
  <2>2. s \in traded <=> Absolute(d) > minTrade
    BY <1>2
  <2> HIDE DEF traded
  <2> QED
    BY <1>1, <1>3, <1>4, <2>1, <2>2
<1>6. worth(order(s)) = d
  BY <1>2 DEF Absolute
<1>7. PICK f : f = [o \in S |-> worth(o)]
  OBVIOUS
<1>8. SumFunction(f) = SumFunctionOnSet(f, S)
  BY <1>7 DEF SumFunction
<1> HIDE DEF worth, order, delta
<1>9. CASE Absolute(d) > minTrade
  <2>1. S = {order(s)} /\ f[order(s)] = d
    BY <1>5, <1>6, <1>7, <1>9
  <2>2. IsFiniteSet(S) /\ \A o \in S : f[o] \in Int
    BY <1>2, <2>1, FS_Singleton
  <2>3. SumFunctionOnSet(f, S) = f[order(s)] + SumFunctionOnSet(f, S \ {order(s)})
    BY <2>1, <2>2, SumTakeOut
  <2>4. S \ {order(s)} = {}
    BY <2>1
  <2>5. SumFunctionOnSet(f, S) = d
    BY <1>2, <2>1, <2>3, <2>4, SumEmpty
  <2>6. wanted - (held + d) = 0
    BY <1>1, <1>2
  <2>7. Absolute(wanted - (held + SumFunction(f))) <= minTrade
    BY <1>8, <2>5, <2>6 DEF Absolute
  <2> QED
    BY <1>1, <1>7, <2>7, Zenon DEF worth
<1>10. CASE ~(Absolute(d) > minTrade)
  <2>1. SumFunction(f) = 0
    BY <1>5, <1>8, <1>10, SumEmpty
  <2>2. wanted - (held + 0) = d
    BY <1>1, <1>2
  <2>3. Absolute(d) <= minTrade
    BY <1>2, <1>10, AbsoluteType
  <2>4. Absolute(wanted - (held + SumFunction(f))) <= minTrade
    BY <2>1, <2>2, <2>3, Zenon
  <2> QED
    BY <1>1, <1>7, <2>4, Zenon DEF worth
<1> QED
  BY <1>9, <1>10

\* The plan respects every cap and a rebalance reaches its target, for every set
\* of candidates, correlations, budgets and holdings and for all caps
\* (PortfolioEngine.optimize, rebalance).
THEOREM PortfolioHolds == CallSpec => []PortfolioIsSound
<1>1. ASSUME CallInv PROVE PortfolioIsSound
  <2>1. PlanRespectsEveryCap
    <3> SUFFICES ASSUME Returned("portfolio") PROVE PlanRespectsEveryCap
      BY DEF PlanRespectsEveryCap
    <3>1. Out = Call(input) /\ input \in CallInputs /\ input.kind = "portfolio"
      BY <1>1, OutIs
    <3>2. input \in PortfolioInputs
      BY <3>1, InputKinds, Zenon
    <3>3. Out = planAllocations(input.candidates, input.corr, Constraints, BudgetOf(input))
      BY <3>1, CallIs, Zenon
    <3> QED
      BY <3>2, <3>3, PortfolioOut, Zenon DEF PlanRespectsEveryCap
  <2>2. RebalanceReachesTarget
    <3> SUFFICES ASSUME Returned("rebalance") PROVE RebalanceReachesTarget
      BY DEF RebalanceReachesTarget
    <3>1. Out = Call(input) /\ input \in CallInputs /\ input.kind = "rebalance"
      BY <1>1, OutIs
    <3>2. input \in RebalanceInputs
      BY <3>1, InputKinds, Zenon
    <3>3. PICK current, target, minTrade : current = input.current /\ target = input.target /\ minTrade = input.minTrade
      OBVIOUS
    <3>4. minTrade \in Nat /\ current \in [DOMAIN current -> Int] /\ target \in [DOMAIN target -> Int]
      BY <3>2, <3>3, PortfolioAssumption
    <3>5. Out = rebalance(current, target, minTrade)
      BY <3>1, <3>3, CallIs, Zenon
    <3>6. ASSUME NEW s \in DOMAIN current \cup DOMAIN target
          PROVE  LET held   == IF s \in DOMAIN current THEN current[s] ELSE 0
                     wanted == IF s \in DOMAIN target THEN target[s] ELSE 0
                     bought == SumFunction([o \in {x \in rebalance(current, target, minTrade) : x.symbol = s} |->
                                              IF o.side = "buy" THEN o.notional ELSE -o.notional])
                 IN  Absolute(wanted - (held + bought)) <= minTrade
      BY <3>4, RebalanceOut, Zenon
    <3> QED
      BY <3>3, <3>5, <3>6, Zenon DEF RebalanceReachesTarget
  <2> QED
    BY <2>1, <2>2 DEF PortfolioIsSound
<1> QED
  BY <1>1, CallHolds, PTL

-----------------------------------------------------------------------------
(* Verdicts. *)

\* The champion after each experiment.
Title(h, s) ==
    /\ h[0] = <<>> /\ \A k \in 0 .. Len(s) - 1 : h[k + 1] = evaluate(h[k], s[k + 1])
    /\ Championship(s) = h[Len(s)]

LEMMA TitleSteps ==
    ASSUME NEW S, NEW s \in Seq(S)
    PROVE  \E h : Title(h, s)
<1> DEFINE n == Len(s)
           A == {<<>>} \cup {<<e>> : e \in S}
           F == [a \in A |-> [i \in 1 .. n |-> evaluate(a, s[i])]]
           E(it) == [u \in SUBSET (DOMAIN s) |-> IF u = {} THEN <<>> ELSE evaluate(it[u \ {Max(u)}], s[Max(u)])]
           ch == CHOOSE it : it = E(it)
<1>1. n \in Nat /\ DOMAIN s = 1 .. n
  OBVIOUS
<1>2. ASSUME NEW a \in A, NEW i \in 1 .. n PROVE F[a][i] \in A /\ F[a][i] = evaluate(a, s[i])
  BY <1>1 DEF evaluate
<1>3. PICK it : FoldsTo(it, F, <<>>, SUBSET (1 .. n)) /\ \A u \in SUBSET (1 .. n) : it[u] \in A
  <2>1. <<>> \in A
    OBVIOUS
  <2> HIDE DEF F, A, n
  <2> QED
    BY <1>1, <1>2, <2>1, FoldExists
<1>4. it = E(it)
  <2>1. it = [u \in SUBSET (1 .. n) |-> IF u = {} THEN <<>> ELSE F[it[u \ {Max(u)}]][Max(u)]]
    BY <1>3, Zenon DEF FoldsTo
  <2>2. ASSUME NEW u \in SUBSET (1 .. n), u # {}
        PROVE  F[it[u \ {Max(u)}]][Max(u)] = evaluate(it[u \ {Max(u)}], s[Max(u)])
    <3>1. Max(u) \in u
      BY <1>1, <2>2, MaxIsMember
    <3> HIDE DEF Max, F, A, n
    <3>2. Max(u) \in 1 .. n /\ it[u \ {Max(u)}] \in A
      BY <1>3, <3>1
    <3> QED
      BY <1>2, <3>2
  <2> HIDE DEF F, Max, A, n
  <2> QED
    BY <1>1, <2>1, <2>2
<1>5. ch = E(ch)
  <2> HIDE DEF E
  <2> QED
    BY <1>4
<1>6. Championship(s) = ch[DOMAIN s]
  BY DEF Championship, FoldLeft, MapThenFoldSet
<1> HIDE DEF ch, A, F
<1>7. PICK g : g = ch
  OBVIOUS
<1>8. ASSUME NEW u \in SUBSET (1 .. n)
      PROVE  g[u] = IF u = {} THEN <<>> ELSE evaluate(g[u \ {Max(u)}], s[Max(u)])
  <2> HIDE DEF Max, evaluate
  <2> QED
    BY <1>1, <1>5, <1>7
<1> HIDE DEF E
<1>9. PICK h : h = [k \in 0 .. n |-> g[1 .. k]]
  OBVIOUS
<1>10. h[0] = <<>>
  <2>1. 1 .. 0 = {} /\ 0 \in 0 .. n /\ {} \in SUBSET (1 .. n)
    BY <1>1
  <2>2. g[{}] = <<>>
    <3> HIDE DEF Max
    <3> QED
      BY <1>8, <2>1
  <2> QED
    BY <1>9, <2>1, <2>2
<1>11. ASSUME NEW k \in 0 .. n - 1 PROVE h[k + 1] = evaluate(h[k], s[k + 1])
  <2> HIDE DEF n
  <2>1. k \in Nat /\ k \in 0 .. n /\ k + 1 \in 0 .. n /\ 1 .. k + 1 \in SUBSET (1 .. n) /\ k + 1 \in 1 .. k + 1
    BY <1>1
  <2>2. PICK u, m : u = 1 .. k + 1 /\ m = Max(u)
    OBVIOUS
  <2>3. m = k + 1 /\ u \ {m} = 1 .. k
    BY <2>1, <2>2, MaxOfPrefix, Zenon
  <2>4. g[u] = evaluate(g[u \ {m}], s[m])
    <3>1. u # {} /\ u \in SUBSET (1 .. n)
      BY <2>1, <2>2
    <3> QED
      BY <1>8, <2>2, <3>1, Zenon
  <2>5. h[k] = g[1 .. k] /\ h[k + 1] = g[1 .. k + 1]
    BY <1>9, <2>1
  <2> QED
    BY <2>2, <2>3, <2>4, <2>5, Zenon
<1>12. Championship(s) = h[n]
  <2>1. n \in 0 .. n
    BY <1>1
  <2> QED
    BY <1>1, <1>6, <1>7, <1>9, <2>1
<1> QED
  BY <1>10, <1>11, <1>12, Zenon DEF Title

Best(s, k, i) ==
    /\ i \in 1 .. k /\ Validated(s[i])
    /\ \A j \in 1 .. k : Validated(s[j]) => s[j].decisions < s[i].decisions \/ (s[j].decisions = s[i].decisions /\ i <= j)

\* After k experiments: no champion when none passed, else the first of the best.
LEMMA ChampionSoFar ==
    ASSUME NEW s \in Seq(Experiment), NEW h, Title(h, s)
    PROVE  \A k \in 0 .. Len(s) : \/ h[k] = <<>> /\ \A i \in 1 .. k : ~Validated(s[i])
                                  \/ \E i \in 1 .. k : h[k] = <<s[i]>> /\ Best(s, k, i)
<1> DEFINE P(k) == \/ h[k] = <<>> /\ \A i \in 1 .. k : ~Validated(s[i])
                   \/ \E i \in 1 .. k : h[k] = <<s[i]>> /\ Best(s, k, i)
           T == {k \in Nat : k <= Len(s) => P(k)}
<1>1. Len(s) \in Nat /\ \A i \in 1 .. Len(s) : s[i].decisions \in Nat
  <2>1. Len(s) \in Nat /\ \A i \in 1 .. Len(s) : s[i] \in Experiment
    OBVIOUS
  <2> QED
    BY <2>1 DEF Experiment
<1>2. 0 \in T
  BY DEF Title
<1>3. ASSUME NEW k \in Nat, k \in T PROVE k + 1 \in T
  <2> SUFFICES ASSUME k + 1 <= Len(s) PROVE P(k + 1)
    OBVIOUS
  <2>1. k <= Len(s) /\ k \in 0 .. Len(s) - 1 /\ k + 1 \in 1 .. k + 1
    BY <1>1
  <2>2. P(k)
    BY <1>3, <2>1
  <2>3. h[k + 1] = evaluate(h[k], s[k + 1])
    BY <2>1, Zenon DEF Title
  <2>4. PICK e : e = s[k + 1]
    OBVIOUS
  <2>5. \A i \in 1 .. k + 1 : (i \in 1 .. k \/ i = k + 1) /\ s[i].decisions \in Nat
    BY <1>1, <2>1
  <2>6. \A i \in 1 .. k : i \in 1 .. k + 1
    OBVIOUS
  <2>7. CASE h[k] = <<>> /\ \A i \in 1 .. k : ~Validated(s[i])
    <3>1. h[k + 1] = IF Validated(e) THEN <<e>> ELSE <<>>
      BY <2>3, <2>4, <2>7 DEF evaluate, Beats
    <3>2. CASE Validated(e)
      <4>1. Best(s, k + 1, k + 1)
        BY <2>1, <2>4, <2>5, <2>7, <3>2 DEF Best
      <4> QED
        BY <2>1, <2>4, <3>1, <3>2, <4>1
    <3>3. CASE ~Validated(e)
      BY <2>4, <2>5, <2>7, <3>1, <3>3
    <3> QED
      BY <3>2, <3>3
  <2>8. ASSUME NEW i \in 1 .. k, h[k] = <<s[i]>>, Best(s, k, i) PROVE P(k + 1)
    <3>1. h[k + 1] = IF Validated(e) /\ e.decisions > s[i].decisions THEN <<e>> ELSE <<s[i]>>
      BY <2>3, <2>4, <2>8 DEF evaluate, Beats
    <3>2. CASE Validated(e) /\ e.decisions > s[i].decisions
      <4>1. Best(s, k + 1, k + 1)
        BY <2>1, <2>4, <2>5, <2>6, <2>8, <3>2 DEF Best
      <4> QED
        BY <2>1, <2>4, <3>1, <3>2, <4>1
    <3>3. CASE ~(Validated(e) /\ e.decisions > s[i].decisions)
      <4>1. Best(s, k + 1, i)
        BY <2>1, <2>4, <2>5, <2>6, <2>8, <3>3 DEF Best
      <4> QED
        BY <2>6, <3>1, <3>3, <4>1
    <3> QED
      BY <3>2, <3>3
  <2> QED
    BY <2>2, <2>7, <2>8
<1> HIDE DEF T
<1>4. \A k \in Nat : k \in T
  BY <1>2, <1>3, SetInduction
<1> QED
  BY <1>1, <1>4 DEF T

\* For every list of experiments, the champion is the first of those with the most
\* decisions among the ones that passed with at least one fold; without any such
\* there is no champion (ResearchPlatform).
THEOREM ChampionIsBest ==
    ASSUME NEW s \in Seq(Experiment)
    PROVE  LET valid == {i \in DOMAIN s : Validated(s[i])}
               n(i)  == s[i].decisions
               best  == {i \in valid : \A j \in valid : n(j) < n(i) \/ (n(j) = n(i) /\ i <= j)}
           IN  Championship(s) = IF valid = {} THEN <<>> ELSE <<s[CHOOSE i \in best : TRUE]>>
<1> DEFINE valid == {i \in DOMAIN s : Validated(s[i])}
           best  == {i \in valid : \A j \in valid : s[j].decisions < s[i].decisions \/ (s[j].decisions = s[i].decisions /\ i <= j)}
<1>1. PICK h : Title(h, s)
  BY TitleSteps
<1>2. PICK c, n : c = Championship(s) /\ n = Len(s)
  OBVIOUS
<1>3. n \in Nat /\ DOMAIN s = 1 .. n /\ n \in 0 .. n /\ c = h[n]
  BY <1>1, <1>2 DEF Title
<1>4. \/ c = <<>> /\ \A i \in 1 .. n : ~Validated(s[i])
      \/ \E i \in 1 .. n : c = <<s[i]>> /\ Best(s, n, i)
  BY <1>1, <1>2, <1>3, ChampionSoFar
<1>5. CASE c = <<>> /\ \A i \in 1 .. n : ~Validated(s[i])
  <2>1. valid = {}
    BY <1>3, <1>5
  <2> QED
    BY <1>2, <1>5, <2>1
<1>6. ASSUME NEW i \in 1 .. n, c = <<s[i]>>, Best(s, n, i)
      PROVE  Championship(s) = IF valid = {} THEN <<>> ELSE <<s[CHOOSE b \in best : TRUE]>>
  <2>1. i \in valid /\ i \in best
    BY <1>3, <1>6 DEF Best
  <2>2. \A b \in best : b = i
    <3> TAKE b \in best
    <3>1. b \in valid /\ b \in 1 .. n
      BY <1>3
    <3>2. s[b].decisions \in Nat /\ s[i].decisions \in Nat
      <4>1. s[b] \in Experiment /\ s[i] \in Experiment
        BY <1>3, <3>1
      <4> QED
        BY <4>1 DEF Experiment
    <3> QED
      BY <1>3, <2>1, <3>1, <3>2
  <2>3. (CHOOSE b \in best : TRUE) = i
    <3> HIDE DEF best, valid
    <3> QED
      BY <2>1, <2>2
  <2> QED
    BY <1>2, <1>6, <2>1, <2>3
<1> QED
  BY <1>4, <1>5, <1>6

Told == [status : {"healthy", "warning", "critical"}, beat : Int]
Monitors == [now : Int, monitor : [Parts -> Told]]
Start == [now |-> 9, monitor |-> [c \in Parts |-> NoBeat]]
Notice(a, op) == [now |-> a.now + (IF op.do = "wait" THEN 1 ELSE 0), monitor |-> Heard(a.monitor, op, a.now)]

About(op, c) == op.do # "wait" /\ op.component = c
StatusTold(op) == IF op.do = "report" THEN op.status ELSE "healthy"

LEMMA OperationKinds ==
    ASSUME NEW op \in Operation
    PROVE  \/ op.do = "wait"
           \/ op.do = "heartbeat" /\ op.component \in Parts
           \/ op.do = "report" /\ op.component \in Parts /\ op.status \in {"healthy", "warning", "critical"}
  BY DEF Operation

LEMMA HeardIs ==
    ASSUME NEW monitor, NEW op \in Operation, NEW now
    PROVE  Heard(monitor, op, now) = IF op.do = "wait" THEN monitor
                                     ELSE [monitor EXCEPT ![op.component] = [status |-> StatusTold(op), beat |-> now]]
<1>1. CASE op.do = "wait"
  BY <1>1 DEF Heard
<1>2. CASE op.do = "heartbeat"
  BY <1>2 DEF Heard, StatusTold
<1>3. CASE op.do = "report"
  BY <1>3 DEF Heard, StatusTold
<1> QED
  BY <1>1, <1>2, <1>3, OperationKinds, Zenon

\* What an operation does to what is known of the component c.
LEMMA NoticeIs ==
    ASSUME NEW a \in Monitors, NEW op \in Operation
    PROVE  /\ Notice(a, op) \in Monitors
           /\ Notice(a, op).now = IF op.do = "wait" THEN a.now + 1 ELSE a.now
           /\ \A c \in Parts : Notice(a, op).monitor[c] = IF About(op, c) THEN [status |-> StatusTold(op), beat |-> a.now]
                                                        ELSE a.monitor[c]
<1>1. PICK now, monitor, next : now = a.now /\ monitor = a.monitor /\ next = Heard(monitor, op, now)
  OBVIOUS
<1>2. now \in Int /\ monitor \in [Parts -> Told]
  BY <1>1 DEF Monitors
<1>3. PICK t : t = [status |-> StatusTold(op), beat |-> now]
  OBVIOUS
<1>4. op.do # "wait" => t \in Told /\ op.component \in Parts
  BY <1>2, <1>3, OperationKinds DEF Told, StatusTold
<1>5. next = IF op.do = "wait" THEN monitor ELSE [monitor EXCEPT ![op.component] = t]
  <2>1. next = IF op.do = "wait" THEN monitor
               ELSE [monitor EXCEPT ![op.component] = [status |-> StatusTold(op), beat |-> now]]
    BY <1>1, HeardIs, ZenonT(40)
  <2> QED
    BY <1>3, <2>1, Zenon
<1>6. next \in [Parts -> Told] /\ \A c \in Parts : next[c] = IF About(op, c) THEN t ELSE monitor[c]
  <2>1. CASE op.do = "wait"
    BY <1>2, <1>5, <2>1 DEF About
  <2>2. CASE op.do # "wait"
    <3>1. PICK d : d = op.component
      OBVIOUS
    <3>2. next = [monitor EXCEPT ![d] = t] /\ d \in Parts /\ t \in Told
      BY <1>4, <1>5, <2>2, <3>1
    <3>3. next \in [Parts -> Told] /\ \A c \in Parts : next[c] = IF c = d THEN t ELSE monitor[c]
      BY <1>2, <3>2
    <3> QED
      BY <2>2, <3>1, <3>3 DEF About
  <2> QED
    BY <2>1, <2>2
<1>7. Notice(a, op) = [now |-> now + (IF op.do = "wait" THEN 1 ELSE 0), monitor |-> next]
  BY <1>1 DEF Notice
<1>8. Notice(a, op).now = (IF op.do = "wait" THEN now + 1 ELSE now) /\ Notice(a, op).monitor = next
  BY <1>2, <1>7
<1>9. Notice(a, op) \in Monitors
  BY <1>2, <1>6, <1>7 DEF Monitors
<1> QED
  BY <1>1, <1>3, <1>6, <1>8, <1>9

LEMMA StartType == Start \in Monitors
  BY DEF Start, Monitors, Told, NoBeat

\* The monitor after each operation.
Watched(h, s) ==
    /\ h[0] = Start /\ \A k \in 0 .. Len(s) - 1 : h[k + 1] = Notice(h[k], s[k + 1])
    /\ Monitored(s, Parts) = h[Len(s)]

LEMMA WatchSteps ==
    ASSUME NEW s \in Seq(Operation)
    PROVE  \E h : Watched(h, s)
<1> DEFINE n == Len(s)
           F == [a \in Monitors |-> [i \in 1 .. n |-> Notice(a, s[i])]]
           E(it) == [u \in SUBSET (DOMAIN s) |-> IF u = {} THEN Start ELSE Notice(it[u \ {Max(u)}], s[Max(u)])]
           ch == CHOOSE it : it = E(it)
<1>1. n \in Nat /\ DOMAIN s = 1 .. n /\ \A i \in 1 .. n : s[i] \in Operation
  OBVIOUS
<1>2. ASSUME NEW a \in Monitors, NEW i \in 1 .. n PROVE F[a][i] \in Monitors /\ F[a][i] = Notice(a, s[i])
  <2>1. Notice(a, s[i]) \in Monitors
    BY <1>1, NoticeIs
  <2> HIDE DEF Notice, Monitors
  <2> QED
    BY <2>1
<1>3. PICK it : FoldsTo(it, F, Start, SUBSET (1 .. n)) /\ \A u \in SUBSET (1 .. n) : it[u] \in Monitors
  <2> HIDE DEF F, n
  <2> QED
    BY <1>1, <1>2, StartType, FoldExists
<1>4. it = E(it)
  <2>1. it = [u \in SUBSET (1 .. n) |-> IF u = {} THEN Start ELSE F[it[u \ {Max(u)}]][Max(u)]]
    BY <1>3, Zenon DEF FoldsTo
  <2>2. ASSUME NEW u \in SUBSET (1 .. n), u # {}
        PROVE  F[it[u \ {Max(u)}]][Max(u)] = Notice(it[u \ {Max(u)}], s[Max(u)])
    <3>1. Max(u) \in u
      BY <1>1, <2>2, MaxIsMember
    <3> HIDE DEF Max, F, n
    <3>2. Max(u) \in 1 .. n /\ it[u \ {Max(u)}] \in Monitors
      BY <1>3, <3>1
    <3> QED
      BY <1>2, <3>2
  <2> HIDE DEF F, Max, n
  <2> QED
    BY <1>1, <2>1, <2>2
<1>5. ch = E(ch)
  <2> HIDE DEF E
  <2> QED
    BY <1>4
<1>6. Monitored(s, Parts) = ch[DOMAIN s]
  BY DEF Monitored, FoldLeft, MapThenFoldSet, Start, Notice
<1> HIDE DEF ch, F
<1>7. PICK g : g = ch
  OBVIOUS
<1>8. ASSUME NEW u \in SUBSET (1 .. n)
      PROVE  g[u] = IF u = {} THEN Start ELSE Notice(g[u \ {Max(u)}], s[Max(u)])
  <2> HIDE DEF Max
  <2> QED
    BY <1>1, <1>5, <1>7
<1> HIDE DEF E
<1>9. PICK h : h = [k \in 0 .. n |-> g[1 .. k]]
  OBVIOUS
<1>10. h[0] = Start
  <2>1. 1 .. 0 = {} /\ 0 \in 0 .. n /\ {} \in SUBSET (1 .. n)
    BY <1>1
  <2>2. g[{}] = Start
    <3> HIDE DEF Max
    <3> QED
      BY <1>8, <2>1
  <2> QED
    BY <1>9, <2>1, <2>2
<1>11. ASSUME NEW k \in 0 .. n - 1 PROVE h[k + 1] = Notice(h[k], s[k + 1])
  <2> HIDE DEF n
  <2>1. k \in Nat /\ k \in 0 .. n /\ k + 1 \in 0 .. n /\ 1 .. k + 1 \in SUBSET (1 .. n) /\ k + 1 \in 1 .. k + 1
    BY <1>1
  <2>2. PICK u, m : u = 1 .. k + 1 /\ m = Max(u)
    OBVIOUS
  <2>3. m = k + 1 /\ u \ {m} = 1 .. k
    BY <2>1, <2>2, MaxOfPrefix, Zenon
  <2>4. g[u] = Notice(g[u \ {m}], s[m])
    <3>1. u # {} /\ u \in SUBSET (1 .. n)
      BY <2>1, <2>2
    <3> QED
      BY <1>8, <2>2, <3>1, Zenon
  <2>5. h[k] = g[1 .. k] /\ h[k + 1] = g[1 .. k + 1]
    BY <1>9, <2>1
  <2> QED
    BY <2>2, <2>3, <2>4, <2>5, Zenon
<1>12. Monitored(s, Parts) = h[n]
  <2>1. n \in 0 .. n
    BY <1>1
  <2> QED
    BY <1>1, <1>6, <1>7, <1>9, <2>1
<1> QED
  BY <1>10, <1>11, <1>12, Zenon DEF Watched

Silence(s, m, k) == {i \in m .. k : s[i].do = "wait"}

\* The last thing heard of c in the first k operations is the m-th, told and now
\* as old as the waits since.
LastHeard(a, s, k, c, m) ==
    /\ m \in 1 .. k /\ About(s[m], c) /\ \A i \in m + 1 .. k : ~About(s[i], c)
    /\ a.monitor[c].status = StatusTold(s[m])
    /\ IsFiniteSet(Silence(s, m, k)) /\ a.now - a.monitor[c].beat = Cardinality(Silence(s, m, k))

NeverHeard(a, s, k, c) == a.monitor[c] = NoBeat /\ \A i \in 1 .. k : ~About(s[i], c)

LEMMA HeardSoFar ==
    ASSUME NEW s \in Seq(Operation), NEW h, Watched(h, s), NEW c \in Parts
    PROVE  \A k \in 0 .. Len(s) : /\ h[k] \in Monitors
                                  /\ NeverHeard(h[k], s, k, c) \/ \E m \in 1 .. k : LastHeard(h[k], s, k, c, m)
<1> DEFINE P(k) == /\ h[k] \in Monitors
                   /\ NeverHeard(h[k], s, k, c) \/ \E m \in 1 .. k : LastHeard(h[k], s, k, c, m)
           T == {k \in Nat : k <= Len(s) => P(k)}
<1>1. Len(s) \in Nat /\ \A i \in 1 .. Len(s) : s[i] \in Operation
  OBVIOUS
<1>2. 0 \in T
  <2>1. h[0] = Start
    BY DEF Watched
  <2>2. NeverHeard(h[0], s, 0, c)
    BY <2>1 DEF Start, NeverHeard
  <2> QED
    BY <2>1, <2>2, StartType
<1>3. ASSUME NEW k \in Nat, k \in T PROVE k + 1 \in T
  <2> SUFFICES ASSUME k + 1 <= Len(s) PROVE P(k + 1)
    OBVIOUS
  <2>1. k <= Len(s) /\ k \in 0 .. Len(s) - 1 /\ k + 1 \in 1 .. Len(s) /\ k + 1 \in 1 .. k + 1
    BY <1>1
  <2>2. P(k)
    BY <1>3, <2>1
  <2>3. PICK a, b, op : a = h[k] /\ b = h[k + 1] /\ op = s[k + 1]
    OBVIOUS
  <2>4. b = Notice(a, op) /\ op \in Operation /\ a \in Monitors
    BY <1>1, <2>1, <2>2, <2>3 DEF Watched
  <2>5. /\ b \in Monitors /\ b.now = (IF op.do = "wait" THEN a.now + 1 ELSE a.now)
        /\ b.monitor[c] = IF About(op, c) THEN [status |-> StatusTold(op), beat |-> a.now] ELSE a.monitor[c]
    BY <2>4, NoticeIs
  <2>6. a.now \in Int /\ a.monitor[c].beat \in Int
    BY <2>4 DEF Monitors, Told
  <2>7. \A i \in 1 .. k + 1 : i \in 1 .. k \/ i = k + 1
    OBVIOUS
  <2>8. CASE About(op, c)
    <3>1. Silence(s, k + 1, k + 1) = {}
      <4>1. \A i \in k + 1 .. k + 1 : i = k + 1
        OBVIOUS
      <4> QED
        BY <2>3, <2>8, <4>1 DEF Silence, About
    <3>2. IsFiniteSet({}) /\ Cardinality({}) = 0
      BY FS_EmptySet
    <3>3. b.monitor[c].status = StatusTold(op) /\ b.monitor[c].beat = a.now /\ b.now = a.now
      BY <2>5, <2>8 DEF About
    <3>4. b.now - b.monitor[c].beat = 0
      BY <2>6, <3>3
    <3>5. \A i \in (k + 1) + 1 .. k + 1 : FALSE
      OBVIOUS
    <3>6. LastHeard(b, s, k + 1, c, k + 1)
      BY <2>1, <2>3, <2>8, <3>1, <3>2, <3>3, <3>4, <3>5, Zenon DEF LastHeard
    <3> QED
      BY <2>1, <2>3, <2>5, <3>6
  <2>9. CASE ~About(op, c)
    <3>1. b.monitor[c] = a.monitor[c]
      BY <2>5, <2>9
    <3>2. CASE NeverHeard(a, s, k, c)
      <4>1. NeverHeard(b, s, k + 1, c)
        BY <2>3, <2>7, <2>9, <3>1, <3>2 DEF NeverHeard
      <4> QED
        BY <2>3, <2>5, <4>1
    <3>3. ASSUME NEW m \in 1 .. k, LastHeard(a, s, k, c, m) PROVE P(k + 1)
      <4>1. PICK S, x, y : S = Silence(s, m, k) /\ x = a.now /\ y = a.monitor[c].beat
        OBVIOUS
      <4>2. IsFiniteSet(S) /\ x - y = Cardinality(S) /\ x \in Int /\ y \in Int /\ b.monitor[c].beat = y
        BY <2>6, <3>1, <3>3, <4>1 DEF LastHeard
      <4>3. Silence(s, m, k + 1) = IF op.do = "wait" THEN S \cup {k + 1} ELSE S
        <5>1. \A i : i \in m .. k + 1 <=> i \in m .. k \/ i = k + 1
          OBVIOUS
        <5> QED
          BY <2>3, <4>1, <5>1 DEF Silence
      <4>4. k + 1 \notin S
        BY <4>1 DEF Silence
      <4>5. IsFiniteSet(Silence(s, m, k + 1)) /\ b.now - b.monitor[c].beat = Cardinality(Silence(s, m, k + 1))
        <5>1. CASE op.do = "wait"
          <6>1. IsFiniteSet(S \cup {k + 1}) /\ Cardinality(S \cup {k + 1}) = Cardinality(S) + 1
            BY <4>2, <4>4, FS_AddElement
          <6>2. b.now = x + 1
            BY <2>5, <4>1, <5>1
          <6>3. (x + 1) - y = (x - y) + 1
            BY <4>2
          <6> QED
            BY <4>2, <4>3, <5>1, <6>1, <6>2, <6>3
        <5>2. CASE op.do # "wait"
          BY <2>5, <4>1, <4>2, <4>3, <5>2
        <5> QED
          BY <5>1, <5>2
      <4>6. m \in 1 .. k + 1 /\ \A i \in m + 1 .. k + 1 : i \in m + 1 .. k \/ i = k + 1
        OBVIOUS
      <4>7. About(s[m], c) /\ (\A i \in m + 1 .. k : ~About(s[i], c)) /\ a.monitor[c].status = StatusTold(s[m])
        BY <3>3, Zenon DEF LastHeard
      <4>8. \A i \in m + 1 .. k + 1 : ~About(s[i], c)
        BY <2>3, <2>9, <4>6, <4>7
      <4>9. LastHeard(b, s, k + 1, c, m)
        BY <3>1, <4>5, <4>6, <4>7, <4>8, Zenon DEF LastHeard
      <4> QED
        BY <2>3, <2>5, <4>6, <4>9
    <3> QED
      BY <2>2, <2>3, <3>2, <3>3
  <2> QED
    BY <2>8, <2>9
<1> HIDE DEF T
<1>4. \A k \in Nat : k \in T
  BY <1>2, <1>3, SetInduction
<1> QED
  BY <1>1, <1>4 DEF T

LEMMA StatusIs ==
    ASSUME NEW h, NEW now, NEW age \in Int, age = now - h.beat
    PROVE  /\ (statusOf(h, now, WarnAfter, CritAfter) = "healthy") <=> (h.status = "healthy" /\ age <= WarnAfter)
           /\ h.status \in {"healthy", "warning", "critical"} =>
                statusOf(h, now, WarnAfter, CritAfter) \in {"healthy", "warning", "critical"}
<1>1. WarnAfter \in Nat /\ CritAfter \in Nat /\ WarnAfter <= CritAfter
  BY EvaluationAssumption
<1>2. statusOf(h, now, WarnAfter, CritAfter) = IF h.status # "healthy" THEN h.status
                                               ELSE IF age > CritAfter THEN "critical"
                                               ELSE IF age > WarnAfter THEN "warning" ELSE "healthy"
  BY DEF statusOf
<1>3. age <= WarnAfter <=> ~(age > CritAfter) /\ ~(age > WarnAfter)
  BY <1>1
<1> QED
  BY <1>2, <1>3, Zenon

LEMMA ComponentHealth ==
    ASSUME NEW s \in Seq(Operation), NEW a, a = Monitored(s, Parts), NEW c \in Parts
    PROVE  LET about == {i \in DOMAIN s : s[i].do # "wait" /\ s[i].component = c}
               m     == Max(about)
               told  == statusOf(a.monitor[c], a.now, WarnAfter, CritAfter)
           IN  /\ told \in {"healthy", "warning", "critical"}
               /\ (told = "healthy") <=>
                    /\ about # {} /\ (s[m].do = "report" => s[m].status = "healthy")
                    /\ Cardinality(Silence(s, m, Len(s))) <= WarnAfter
<1> DEFINE about == {i \in DOMAIN s : s[i].do # "wait" /\ s[i].component = c}
<1>1. PICK h : Watched(h, s)
  BY WatchSteps
<1>2. PICK n : n = Len(s)
  OBVIOUS
<1>3. n \in Nat /\ DOMAIN s = 1 .. n /\ n \in 0 .. n /\ a = h[n]
  BY <1>1, <1>2 DEF Watched
<1>4. a \in Monitors /\ (NeverHeard(a, s, n, c) \/ \E m \in 1 .. n : LastHeard(a, s, n, c, m))
  BY <1>1, <1>2, <1>3, HeardSoFar
<1>5. PICK b, now, told : b = a.monitor[c] /\ now = a.now /\ told = statusOf(b, now, WarnAfter, CritAfter)
  OBVIOUS
<1>6. b.status \in {"healthy", "warning", "critical"} /\ b.beat \in Int /\ now \in Int
  BY <1>4, <1>5 DEF Monitors, Told
<1>7. PICK age \in Int : age = now - b.beat
  BY <1>6
<1>8. /\ told \in {"healthy", "warning", "critical"}
      /\ (told = "healthy") <=> (b.status = "healthy" /\ age <= WarnAfter)
  BY <1>5, <1>6, <1>7, StatusIs
<1>9. PICK A : A = about
  OBVIOUS
<1>10. \A i : i \in A <=> i \in 1 .. n /\ About(s[i], c)
  BY <1>3, <1>9 DEF About
<1>11. CASE NeverHeard(a, s, n, c)
  <2>1. b.status = "critical" /\ A = {}
    BY <1>5, <1>10, <1>11 DEF NeverHeard, NoBeat
  <2>2. told # "healthy"
    BY <1>8, <2>1
  <2> HIDE DEF about
  <2> QED
    BY <1>5, <1>8, <1>9, <2>1, <2>2, Zenon DEF about
<1>12. ASSUME NEW m \in 1 .. n, LastHeard(a, s, n, c, m)
       PROVE  /\ A # {} /\ Max(A) = m
              /\ (told = "healthy") <=>
                   (s[m].do = "report" => s[m].status = "healthy") /\ Cardinality(Silence(s, m, n)) <= WarnAfter
  <2>1. m \in A /\ A \in SUBSET (1 .. n)
    BY <1>10, <1>12 DEF LastHeard
  <2>2. \A i \in A : i <= m
    <3> TAKE i \in A
    <3>1. i \in 1 .. n /\ About(s[i], c)
      BY <1>10
    <3>2. i \notin m + 1 .. n
      BY <1>12, <3>1 DEF LastHeard
    <3> QED
      BY <3>1, <3>2
  <2>3. Max(A) \in A /\ \A y \in A : Max(A) >= y
    BY <1>3, <2>1, MaxIsMember
  <2>4. Max(A) = m
    <3>1. PICK x : x = Max(A)
      OBVIOUS
    <3>2. x \in 1 .. n /\ x >= m /\ x <= m
      BY <2>1, <2>2, <2>3, <3>1
    <3> QED
      BY <1>3, <3>1, <3>2
  <2>5. b.status = StatusTold(s[m]) /\ age = Cardinality(Silence(s, m, n))
    BY <1>5, <1>7, <1>12 DEF LastHeard
  <2>6. (b.status = "healthy") <=> (s[m].do = "report" => s[m].status = "healthy")
    BY <2>5 DEF StatusTold
  <2> QED
    BY <1>8, <2>1, <2>4, <2>5, <2>6
<1>13. ASSUME NEW m \in 1 .. n, LastHeard(a, s, n, c, m)
       PROVE  /\ told \in {"healthy", "warning", "critical"}
              /\ (told = "healthy") <=>
                   /\ A # {} /\ (s[Max(A)].do = "report" => s[Max(A)].status = "healthy")
                   /\ Cardinality(Silence(s, Max(A), n)) <= WarnAfter
  BY <1>8, <1>12, <1>13
<1> QED
  BY <1>2, <1>4, <1>5, <1>9, <1>11, <1>13, Zenon

LEMMA OverallIs ==
    ASSUME NEW S, S \subseteq {"healthy", "warning", "critical"}
    PROVE  (overall(S) = "healthy") <=> \A x \in S : x = "healthy"
  BY DEF overall

\* The verdicts are earned, for every list of experiments and every history of
\* heartbeats, reports and silences of any set of components: the champion is the
\* best, and the system is healthy exactly when every component was heard of
\* recently and said so (ResearchPlatform, HealthMonitor).
THEOREM VerdictsHold == CallSpec => []VerdictsAreEarned
<1>1. ASSUME CallInv PROVE VerdictsAreEarned
  <2>1. ChampionIsTheBest
    <3> SUFFICES ASSUME Returned("champion") PROVE ChampionIsTheBest
      BY DEF ChampionIsTheBest
    <3>1. Out = Call(input) /\ input \in CallInputs /\ input.kind = "champion"
      BY <1>1, OutIs
    <3>2. input \in ChampionInputs /\ Out = Championship(input.experiments)
      BY <3>1, InputKinds, CallIs, Zenon
    <3>3. PICK s : s = input.experiments
      OBVIOUS
    <3>4. s \in Seq(Experiment)
      BY <3>2, <3>3, EvaluationAssumption
    <3>5. Championship(s) = LET valid == {i \in DOMAIN s : Validated(s[i])}
                                best  == {i \in valid : \A j \in valid : \/ s[j].decisions < s[i].decisions
                                                                         \/ s[j].decisions = s[i].decisions /\ i <= j}
                            IN  IF valid = {} THEN <<>> ELSE <<s[CHOOSE i \in best : TRUE]>>
      BY <3>4, ChampionIsBest
    <3> QED
      BY <3>2, <3>3, <3>5, Zenon DEF ChampionIsTheBest
  <2>2. HealthIsEarned
    <3> SUFFICES ASSUME Returned("health") PROVE HealthIsEarned
      BY DEF HealthIsEarned
    <3>1. Out = Call(input) /\ input \in CallInputs /\ input.kind = "health"
      BY <1>1, OutIs
    <3>2. input \in HealthInputs /\ Out = Monitored(input.ops, Parts)
      BY <3>1, InputKinds, CallIs, Zenon
    <3>3. input.ops \in Seq(Operation)
      BY <3>2, EvaluationAssumption
    <3> DEFINE about(c) == {i \in DOMAIN input.ops : input.ops[i].do # "wait" /\ input.ops[i].component = c}
               told(c) == statusOf(Out.monitor[c], Out.now, WarnAfter, CritAfter)
    <3>4. ASSUME NEW c \in Parts
          PROVE  /\ told(c) \in {"healthy", "warning", "critical"}
                 /\ (told(c) = "healthy") <=>
                      /\ about(c) # {} /\ (input.ops[Max(about(c))].do = "report" => input.ops[Max(about(c))].status = "healthy")
                      /\ Cardinality({i \in Max(about(c)) .. Len(input.ops) : input.ops[i].do = "wait"}) <= WarnAfter
      BY <3>2, <3>3, ComponentHealth, Zenon DEF Silence
    <3>5. (overall({told(c) : c \in Parts}) = "healthy") <=> \A c \in Parts : told(c) = "healthy"
      <4>1. PICK S : S = {told(c) : c \in Parts}
        OBVIOUS
      <4> HIDE DEF told
      <4>2. S \subseteq {"healthy", "warning", "critical"}
        BY <3>4, <4>1
      <4>3. (overall(S) = "healthy") <=> \A x \in S : x = "healthy"
        BY <4>2, OverallIs
      <4> QED
        BY <4>1, <4>3
    <3>6. \A c \in Parts : (told(c) = "healthy") <=>
                      /\ about(c) # {} /\ (input.ops[Max(about(c))].do = "report" => input.ops[Max(about(c))].status = "healthy")
                      /\ Cardinality({i \in Max(about(c)) .. Len(input.ops) : input.ops[i].do = "wait"}) <= WarnAfter
      BY <3>4, Zenon
    <3> QED
      BY <3>5, <3>6, Zenon DEF HealthIsEarned
  <2> QED
    BY <2>1, <2>2 DEF VerdictsAreEarned
<1> QED
  BY <1>1, CallHolds, PTL

-----------------------------------------------------------------------------
(* The order of the features. *)

\* deps and roots are what a call may be asked for.
Graph(deps, roots) ==
    /\ IsFiniteSet(DOMAIN deps) /\ DOMAIN deps \subseteq Features
    /\ deps \in [DOMAIN deps -> Seq(Features)] /\ roots \in Seq(Features)

LEMMA NeedsType ==
    ASSUME NEW deps, NEW roots, Graph(deps, roots)
    PROVE  \A x : Needs(deps, x) \subseteq Features
  BY DEF Graph, Needs, ToSet

LEMMA ClosureGrows ==
    ASSUME NEW deps, NEW R, R \subseteq Features
    PROVE  R \subseteq Closure(deps, R) /\ Closure(deps, R) \subseteq Features
  BY DEF Closure

LEMMA ClosureCloses ==
    ASSUME NEW deps, NEW roots, Graph(deps, roots), NEW R, NEW x \in Closure(deps, R)
    PROVE  Needs(deps, x) \subseteq Closure(deps, R)
<1>1. Needs(deps, x) \subseteq Features
  BY NeedsType, Zenon
<1> QED
  BY <1>1 DEF Closure

LEMMA ClosureIsLeast ==
    ASSUME NEW deps, NEW R, NEW S, S \subseteq Features, R \subseteq S, \A m \in S : Needs(deps, m) \subseteq S
    PROVE  Closure(deps, R) \subseteq S
  BY DEF Closure

Entries == [ref : Features, done : BOOLEAN]
Walker(o, v, f, a) == [order |-> o, visiting |-> v, failed |-> f, agenda |-> a]
Walkers == [order : Seq(Features), visiting : SUBSET Features, failed : BOOLEAN, agenda : Seq(Entries)]

Placed(o, x) == \E i \in 1 .. Len(o) : o[i] = x

\* What has been ordered is in order; what is being visited has its end on the
\* agenda; what an end waits for is ordered or due before it, and the feature it
\* ends needs whatever is due before it; everything is wanted, and no root is lost.
InOrder(o, deps) ==
    /\ \A i \in 1 .. Len(o) : \A d \in Needs(deps, o[i]) : \E j \in 1 .. i - 1 : o[j] = d
    /\ \A i, j \in 1 .. Len(o) : o[i] = o[j] => i = j
Apart(o, v) == \A i \in 1 .. Len(o) : o[i] \notin v
Ends(v, a) ==
    /\ \A p \in 1 .. Len(a) : a[p].done => a[p].ref \in v
    /\ \A x \in v : \E p \in 1 .. Len(a) : a[p].done /\ a[p].ref = x
    /\ \A p, q \in 1 .. Len(a) : a[p].done /\ a[q].done /\ a[p].ref = a[q].ref => p = q
Waits(o, a, deps) ==
    \A p \in 1 .. Len(a) : a[p].done =>
        \A d \in Needs(deps, a[p].ref) : Placed(o, d) \/ \E q \in 1 .. p - 1 : a[q].ref = d
Leads(a, deps) ==
    \A p \in 1 .. Len(a) : a[p].done =>
        \A q \in 1 .. p - 1 : a[q].ref \in Closure(deps, Needs(deps, a[p].ref))
Wanted(o, a, C) == (\A i \in 1 .. Len(o) : o[i] \in C) /\ (\A q \in 1 .. Len(a) : a[q].ref \in C)
Rooted(o, a, roots) == \A r \in ToSet(roots) : Placed(o, r) \/ \E q \in 1 .. Len(a) : a[q].ref = r

Walk(o, v, a, deps, roots) ==
    /\ o \in Seq(DOMAIN deps) /\ v \subseteq DOMAIN deps /\ a \in Seq(Entries)
    /\ InOrder(o, deps) /\ Apart(o, v) /\ Ends(v, a) /\ Waits(o, a, deps) /\ Leads(a, deps)
    /\ Wanted(o, a, Closure(deps, ToSet(roots))) /\ Rooted(o, a, roots)

\* Why topoOrder may fail.
Unorderable(deps, roots) ==
    \E x \in Closure(deps, ToSet(roots)) : x \notin DOMAIN deps \/ x \in Closure(deps, Needs(deps, x))

\* b is the agenda a without its first entry.
Shorter(b, a) ==
    /\ Len(b) = Len(a) - 1 /\ \A p \in 1 .. Len(b) : b[p] = a[p + 1] /\ p + 1 \in 1 .. Len(a)
    /\ \A p \in 1 .. Len(a) : p = 1 \/ (p - 1 \in 1 .. Len(b) /\ b[p - 1] = a[p])

LEMMA TailIsShorter ==
    ASSUME NEW S, NEW a \in Seq(S), a # <<>>
    PROVE  Tail(a) \in Seq(S) /\ Shorter(Tail(a), a) /\ Len(a) \in Nat \ {0} /\ Head(a) = a[1] /\ a[1] \in S
<1>1. Len(a) \in Nat \ {0} /\ Tail(a) \in Seq(S) /\ Len(Tail(a)) = Len(a) - 1 /\ Head(a) = a[1] /\ a[1] \in S
  OBVIOUS
<1>2. \A p \in 1 .. Len(a) - 1 : Tail(a)[p] = a[p + 1]
  OBVIOUS
<1> QED
  BY <1>1, <1>2 DEF Shorter

\* Dropping an entry whose feature has been ordered.
LEMMA ShorterKeeps ==
    ASSUME NEW deps, NEW roots, NEW o, NEW t, NEW a \in Seq(Entries), a # <<>>, NEW b, Shorter(b, a),
           \A d : Placed(o, d) => Placed(t, d), Placed(t, a[1].ref),
           Leads(a, deps), Waits(o, a, deps), Rooted(o, a, roots)
    PROVE  Leads(b, deps) /\ Waits(t, b, deps) /\ Rooted(t, b, roots)
<1>1. PICK n : n = Len(a)
  OBVIOUS
<1>2. n \in Nat \ {0} /\ 1 \in 1 .. n
  BY <1>1
<1>3. Waits(t, b, deps)
  <2> SUFFICES ASSUME NEW p \in 1 .. Len(b), b[p].done, NEW d \in Needs(deps, b[p].ref)
               PROVE  Placed(t, d) \/ \E q \in 1 .. p - 1 : b[q].ref = d
    BY DEF Waits
  <2>1. b[p] = a[p + 1] /\ p + 1 \in 1 .. n /\ Len(b) = n - 1
    BY <1>1 DEF Shorter
  <2>2. Placed(o, d) \/ \E q \in 1 .. (p + 1) - 1 : a[q].ref = d
    BY <1>1, <2>1 DEF Waits
  <2>3. ASSUME NEW q \in 1 .. (p + 1) - 1, a[q].ref = d PROVE Placed(t, d) \/ \E r \in 1 .. p - 1 : b[r].ref = d
    <3>1. CASE q = 1
      BY <2>3, <3>1
    <3>2. CASE q # 1
      <4>1. q - 1 \in 1 .. p - 1 /\ q \in 1 .. n
        BY <1>2, <2>1, <3>2
      <4>2. b[q - 1] = a[q]
        BY <1>1, <3>2, <4>1 DEF Shorter
      <4> QED
        BY <2>3, <4>1, <4>2
    <3> QED
      BY <3>1, <3>2
  <2> QED
    BY <2>2, <2>3
<1>4. Leads(b, deps)
  <2> SUFFICES ASSUME NEW p \in 1 .. Len(b), b[p].done, NEW q \in 1 .. p - 1
               PROVE  b[q].ref \in Closure(deps, Needs(deps, b[p].ref))
    BY DEF Leads
  <2>1. b[p] = a[p + 1] /\ p + 1 \in 1 .. n /\ Len(b) = n - 1
    BY <1>1 DEF Shorter
  <2>2. q \in 1 .. Len(b) /\ q + 1 \in 1 .. (p + 1) - 1
    BY <1>2, <2>1
  <2>3. b[q] = a[q + 1]
    BY <2>2 DEF Shorter
  <2> QED
    BY <1>1, <2>1, <2>2, <2>3 DEF Leads
<1>5. Rooted(t, b, roots)
  <2> SUFFICES ASSUME NEW r \in ToSet(roots) PROVE Placed(t, r) \/ \E q \in 1 .. Len(b) : b[q].ref = r
    BY DEF Rooted
  <2>1. ASSUME NEW q \in 1 .. n, a[q].ref = r PROVE Placed(t, r) \/ \E p \in 1 .. Len(b) : b[p].ref = r
    <3>1. CASE q = 1
      BY <2>1, <3>1
    <3>2. CASE q # 1
      BY <1>1, <2>1, <3>2 DEF Shorter
    <3> QED
      BY <3>1, <3>2
  <2> QED
    BY <1>1, <2>1 DEF Rooted
<1> QED
  BY <1>3, <1>4, <1>5

\* The end of x has come.
LEMMA WalkLeaves ==
    ASSUME NEW deps, NEW roots, Graph(deps, roots), NEW o, NEW v, NEW a, Walk(o, v, a, deps, roots),
           a # <<>>, a[1].done
    PROVE  Walk(Append(o, a[1].ref), v \ {a[1].ref}, Tail(a), deps, roots)
<1>1. PICK x, b, n, m : x = a[1].ref /\ b = Tail(a) /\ n = Len(a) /\ m = Len(o)
  OBVIOUS
<1>2. b \in Seq(Entries) /\ Shorter(b, a) /\ n \in Nat \ {0} /\ 1 \in 1 .. n
  BY <1>1, TailIsShorter DEF Walk
<1>3. /\ InOrder(o, deps) /\ Apart(o, v) /\ Ends(v, a) /\ Waits(o, a, deps) /\ Leads(a, deps)
      /\ Wanted(o, a, Closure(deps, ToSet(roots))) /\ Rooted(o, a, roots)
      /\ o \in Seq(DOMAIN deps) /\ v \subseteq DOMAIN deps
  BY DEF Walk
<1>4. x \in v /\ x \in DOMAIN deps
  BY <1>1, <1>2, <1>3 DEF Ends
<1>5. PICK t : t = Append(o, x)
  OBVIOUS
<1>6. /\ t \in Seq(DOMAIN deps) /\ m \in Nat /\ Len(t) = m + 1 /\ t[m + 1] = x /\ \A i \in 1 .. m : t[i] = o[i] /\ i \in 1 .. m + 1
      /\ \A i \in 1 .. m + 1 : i = m + 1 \/ i \in 1 .. m
  BY <1>1, <1>3, <1>4, <1>5
<1>7. \A d : Placed(o, d) => Placed(t, d)
  BY <1>1, <1>6 DEF Placed
<1>8. Placed(t, x)
  BY <1>6 DEF Placed
<1>9. InOrder(t, deps)
  <2>1. ASSUME NEW i \in 1 .. m + 1, NEW d \in Needs(deps, t[i]) PROVE \E j \in 1 .. i - 1 : t[j] = d
    <3>1. CASE i = m + 1
      <4>1. d \in Needs(deps, a[1].ref)
        BY <1>1, <1>6, <2>1, <3>1
      <4>2. Placed(o, d)
        BY <1>1, <1>2, <1>3, <4>1 DEF Waits
      <4>3. PICK j \in 1 .. m : o[j] = d
        BY <1>1, <4>2 DEF Placed
      <4> QED
        BY <1>6, <3>1, <4>3
    <3>2. CASE i \in 1 .. m
      <4>1. d \in Needs(deps, o[i])
        BY <1>6, <2>1, <3>2
      <4>2. PICK j \in 1 .. i - 1 : o[j] = d
        BY <1>1, <1>3, <3>2, <4>1 DEF InOrder
      <4>3. j \in 1 .. m
        BY <1>6, <3>2, <4>2
      <4> QED
        BY <1>6, <4>2, <4>3
    <3> QED
      BY <1>6, <3>1, <3>2
  <2>2. \A i \in 1 .. m : o[i] # x
    BY <1>1, <1>3, <1>4 DEF Apart
  <2>3. \A i, j \in 1 .. m + 1 : t[i] = t[j] => i = j
    BY <1>1, <1>3, <1>6, <2>2 DEF InOrder
  <2> QED
    BY <1>6, <2>1, <2>3 DEF InOrder
<1>10. Apart(t, v \ {x})
  BY <1>1, <1>3, <1>6 DEF Apart
<1>11. Ends(v \ {x}, b)
  <2>1. \A p \in 1 .. Len(b) : b[p].done => b[p].ref \in v \ {x}
    BY <1>1, <1>2, <1>3 DEF Ends, Shorter
  <2>2. ASSUME NEW y \in v \ {x} PROVE \E p \in 1 .. Len(b) : b[p].done /\ b[p].ref = y
    <3>1. PICK p \in 1 .. Len(a) : a[p].done /\ a[p].ref = y
      BY <1>3 DEF Ends
    <3>2. p # 1
      BY <1>1, <3>1
    <3> QED
      BY <1>2, <3>1, <3>2 DEF Shorter
  <2>3. \A p, q \in 1 .. Len(b) : b[p].done /\ b[q].done /\ b[p].ref = b[q].ref => p = q
    BY <1>1, <1>2, <1>3 DEF Ends, Shorter
  <2> QED
    BY <2>1, <2>2, <2>3 DEF Ends
<1>12. Leads(b, deps) /\ Waits(t, b, deps) /\ Rooted(t, b, roots)
  <2>1. a \in Seq(Entries)
    BY DEF Walk
  <2> QED
    BY <1>1, <1>2, <1>3, <1>7, <1>8, <2>1, ShorterKeeps, Zenon
<1>13. Wanted(t, b, Closure(deps, ToSet(roots)))
  BY <1>1, <1>2, <1>3, <1>6 DEF Wanted, Shorter
<1> QED
  BY <1>1, <1>2, <1>3, <1>5, <1>6, <1>9, <1>10, <1>11, <1>12, <1>13 DEF Walk

\* A feature that is ordered is due again.
LEMMA WalkSkips ==
    ASSUME NEW deps, NEW roots, Graph(deps, roots), NEW o, NEW v, NEW a, Walk(o, v, a, deps, roots),
           a # <<>>, ~a[1].done, Placed(o, a[1].ref)
    PROVE  Walk(o, v, Tail(a), deps, roots)
<1>1. PICK x, b, n : x = a[1].ref /\ b = Tail(a) /\ n = Len(a)
  OBVIOUS
<1>2. b \in Seq(Entries) /\ Shorter(b, a) /\ n \in Nat \ {0} /\ 1 \in 1 .. n
  BY <1>1, TailIsShorter DEF Walk
<1>3. /\ InOrder(o, deps) /\ Apart(o, v) /\ Ends(v, a) /\ Waits(o, a, deps) /\ Leads(a, deps)
      /\ Wanted(o, a, Closure(deps, ToSet(roots))) /\ Rooted(o, a, roots)
      /\ o \in Seq(DOMAIN deps) /\ v \subseteq DOMAIN deps
  BY DEF Walk
<1>4. Ends(v, b)
  <2>1. \A p \in 1 .. Len(b) : b[p].done => b[p].ref \in v
    BY <1>1, <1>2, <1>3 DEF Ends, Shorter
  <2>2. ASSUME NEW y \in v PROVE \E p \in 1 .. Len(b) : b[p].done /\ b[p].ref = y
    <3>1. PICK p \in 1 .. Len(a) : a[p].done /\ a[p].ref = y
      BY <1>3 DEF Ends
    <3>2. p # 1
      BY <3>1
    <3> QED
      BY <1>2, <3>1, <3>2 DEF Shorter
  <2>3. \A p, q \in 1 .. Len(b) : b[p].done /\ b[q].done /\ b[p].ref = b[q].ref => p = q
    BY <1>1, <1>2, <1>3 DEF Ends, Shorter
  <2> QED
    BY <2>1, <2>2, <2>3 DEF Ends
<1>5. Leads(b, deps) /\ Waits(o, b, deps) /\ Rooted(o, b, roots)
  <2>1. a \in Seq(Entries)
    BY DEF Walk
  <2> QED
    BY <1>1, <1>2, <1>3, <2>1, ShorterKeeps, Zenon
<1>6. Wanted(o, b, Closure(deps, ToSet(roots)))
  BY <1>1, <1>2, <1>3 DEF Wanted, Shorter
<1> QED
  BY <1>1, <1>2, <1>3, <1>4, <1>5, <1>6 DEF Walk

\* c is the agenda a after its first entry, a call, was entered: the calls for
\* what the feature needs, its end, and the rest.
Entered(c, a, needs) ==
    /\ Len(c) = Len(needs) + Len(a)
    /\ \A p \in 1 .. Len(needs) : c[p].ref = needs[p] /\ ~c[p].done
    /\ \A q \in 1 .. Len(a) : c[Len(needs) + q].ref = a[q].ref /\ c[Len(needs) + q].done = (q = 1 \/ a[q].done)

LEMMA EnteredIs ==
    ASSUME NEW a \in Seq(Entries), a # <<>>, NEW needs \in Seq(Features)
    PROVE  LET c == Visits(needs) \o <<[ref |-> a[1].ref, done |-> TRUE]>> \o Tail(a) IN
           c \in Seq(Entries) /\ Entered(c, a, needs)
<1>1. PICK w, e, b, L, n : /\ w = Visits(needs) /\ e = [ref |-> a[1].ref, done |-> TRUE] /\ b = Tail(a)
                           /\ L = Len(needs) /\ n = Len(a)
  OBVIOUS
<1>2. b \in Seq(Entries) /\ Shorter(b, a) /\ n \in Nat \ {0} /\ a[1] \in Entries
  BY <1>1, TailIsShorter
<1>3. L \in Nat /\ DOMAIN needs = 1 .. L /\ \A i \in 1 .. L : needs[i] \in Features
  BY <1>1
<1>4. w = [i \in 1 .. L |-> [ref |-> needs[i], done |-> FALSE]]
  BY <1>1, <1>3 DEF Visits
<1>5. \A i \in 1 .. L : w[i] \in Entries /\ w[i].ref = needs[i] /\ ~w[i].done
  BY <1>3, <1>4 DEF Entries
<1>6. w \in Seq(Entries) /\ Len(w) = L
  BY <1>3, <1>4, <1>5
<1>7. e \in Entries /\ e.ref = a[1].ref /\ e.done = TRUE
  BY <1>1, <1>2 DEF Entries
<1>8. PICK u, c : u = w \o <<e>> /\ c = u \o b
  OBVIOUS
<1>9. u \in Seq(Entries) /\ Len(u) = L + 1 /\ (\A i \in 1 .. L : u[i] = w[i]) /\ u[L + 1] = e
  BY <1>3, <1>6, <1>7, <1>8, SMTT(30)
<1>10. /\ c \in Seq(Entries) /\ Len(c) = Len(u) + Len(b) /\ \A i \in 1 .. Len(u) : c[i] = u[i]
       /\ \A i \in 1 .. Len(b) : c[Len(u) + i] = b[i]
  BY <1>2, <1>8, <1>9, ConcatFacts
<1>11. Len(b) = n - 1 /\ \A q \in 1 .. n : q = 1 \/ (q - 1 \in 1 .. Len(b) /\ b[q - 1] = a[q])
  BY <1>1, <1>2 DEF Shorter
<1>12. Len(c) = L + n
  BY <1>2, <1>3, <1>9, <1>10, <1>11
<1>13. ASSUME NEW p \in 1 .. L PROVE c[p].ref = needs[p] /\ ~c[p].done
  <2>1. p \in 1 .. Len(u) /\ c[p] = w[p]
    BY <1>3, <1>9, <1>10
  <2> QED
    BY <1>5, <2>1
<1>14. ASSUME NEW q \in 1 .. n PROVE c[L + q].ref = a[q].ref /\ c[L + q].done = (q = 1 \/ a[q].done)
  <2>1. CASE q = 1
    <3>1. L + 1 \in 1 .. Len(u)
      BY <1>3, <1>9
    <3>2. c[L + q] = e
      BY <1>9, <1>10, <2>1, <3>1
    <3> QED
      BY <1>7, <2>1, <3>2
  <2>2. CASE q # 1
    <3>1. q - 1 \in 1 .. Len(b) /\ b[q - 1] = a[q]
      BY <1>11, <2>2
    <3>2. Len(u) + (q - 1) = L + q
      BY <1>2, <1>3, <1>9
    <3>3. c[L + q] = a[q]
      BY <1>10, <3>1, <3>2
    <3>4. a[q] \in Entries
      BY <1>1
    <3>5. a[q].done \in BOOLEAN
      BY <3>4 DEF Entries
    <3> QED
      BY <2>2, <3>3, <3>5
  <2> QED
    BY <2>1, <2>2
<1>15. c \in Seq(Entries) /\ Entered(c, a, needs)
  BY <1>1, <1>10, <1>12, <1>13, <1>14 DEF Entered
<1> QED
  BY <1>1, <1>8, <1>15, Zenon

\* A feature is entered.
LEMMA WalkEnters ==
    ASSUME NEW deps, NEW roots, Graph(deps, roots), NEW o, NEW v, NEW a, Walk(o, v, a, deps, roots),
           a # <<>>, ~a[1].done, ~Placed(o, a[1].ref), a[1].ref \notin v, a[1].ref \in DOMAIN deps,
           NEW c \in Seq(Entries), Entered(c, a, deps[a[1].ref])
    PROVE  Walk(o, v \cup {a[1].ref}, c, deps, roots)
<1>1. PICK x, needs, L, n, C : /\ x = a[1].ref /\ needs = deps[x] /\ L = Len(needs) /\ n = Len(a)
                               /\ C = Closure(deps, ToSet(roots))
  OBVIOUS
<1>2. a \in Seq(Entries) /\ n \in Nat \ {0} /\ 1 \in 1 .. n /\ needs \in Seq(Features) /\ L \in Nat
  BY <1>1 DEF Walk, Graph
<1>3. /\ InOrder(o, deps) /\ Apart(o, v) /\ Ends(v, a) /\ Waits(o, a, deps) /\ Leads(a, deps)
      /\ Wanted(o, a, C) /\ Rooted(o, a, roots)
      /\ o \in Seq(DOMAIN deps) /\ v \subseteq DOMAIN deps
  BY <1>1 DEF Walk
<1>4. /\ Len(c) = L + n
      /\ \A p \in 1 .. L : c[p].ref = needs[p] /\ ~c[p].done
      /\ \A q \in 1 .. n : c[L + q].ref = a[q].ref /\ c[L + q].done = (q = 1 \/ a[q].done)
  BY <1>1 DEF Entered
<1>5. ASSUME NEW p \in 1 .. Len(c) PROVE p \in 1 .. L \/ \E q \in 1 .. n : p = L + q
  <2>1. CASE p <= L
    BY <1>2, <1>4, <2>1
  <2>2. CASE p > L
    <3>1. p - L \in 1 .. n /\ p = L + (p - L)
      BY <1>2, <1>4, <2>2
    <3> QED
      BY <3>1
  <2> QED
    BY <1>2, <1>4, <2>1, <2>2
<1>6. \A q \in 1 .. n : L + q \in 1 .. Len(c)
  BY <1>2, <1>4
<1>7. \A d \in Needs(deps, x) : \E p \in 1 .. L : needs[p] = d
  BY <1>1, <1>2 DEF Needs, ToSet
<1>8. \A p \in 1 .. L : needs[p] \in Needs(deps, x) /\ needs[p] \in Features
  BY <1>1, <1>2 DEF Needs, ToSet
<1>9. Needs(deps, x) \subseteq Features
  BY NeedsType, Zenon
<1>10. ASSUME NEW p \in 1 .. Len(c), c[p].done
       PROVE  \E q \in 1 .. n : p = L + q /\ (q = 1 \/ a[q].done) /\ c[p].ref = a[q].ref
  <2>1. p \notin 1 .. L
    BY <1>4, <1>10
  <2>2. PICK q \in 1 .. n : p = L + q
    BY <1>5, <2>1
  <2>3. c[p].ref = a[q].ref /\ c[p].done = (q = 1 \/ a[q].done)
    BY <1>4, <2>2
  <2> QED
    BY <1>10, <2>2, <2>3
<1>11. Apart(o, v \cup {x})
  <2>1. \A i \in 1 .. Len(o) : o[i] # x /\ o[i] \notin v
    BY <1>1, <1>3 DEF Apart, Placed
  <2> QED
    BY <2>1 DEF Apart
<1>12. Ends(v \cup {x}, c)
  <2>1. \A p \in 1 .. Len(c) : c[p].done => c[p].ref \in v \cup {x}
    BY <1>1, <1>3, <1>10 DEF Ends
  <2>2. ASSUME NEW y \in v \cup {x} PROVE \E p \in 1 .. Len(c) : c[p].done /\ c[p].ref = y
    <3>1. CASE y = x
      BY <1>1, <1>2, <1>4, <1>6, <3>1
    <3>2. CASE y \in v
      <4>1. PICK q \in 1 .. n : a[q].done /\ a[q].ref = y
        BY <1>1, <1>3, <3>2 DEF Ends
      <4> QED
        BY <1>4, <1>6, <4>1
    <3> QED
      BY <3>1, <3>2
  <2>3. ASSUME NEW p \in 1 .. Len(c), NEW r \in 1 .. Len(c), c[p].done, c[r].done, c[p].ref = c[r].ref PROVE p = r
    <3>1. PICK i \in 1 .. n : p = L + i /\ (i = 1 \/ a[i].done) /\ c[p].ref = a[i].ref
      BY <1>10, <2>3
    <3>2. PICK j \in 1 .. n : r = L + j /\ (j = 1 \/ a[j].done) /\ c[r].ref = a[j].ref
      BY <1>10, <2>3
    <3>3. \A k \in 1 .. n : a[k].done => a[k].ref # x
      BY <1>1, <1>3 DEF Ends
    <3>4. i = j
      <4>1. CASE i = 1 \/ j = 1
        BY <1>1, <2>3, <3>1, <3>2, <3>3, <4>1
      <4>2. CASE i # 1 /\ j # 1
        BY <1>1, <1>3, <2>3, <3>1, <3>2, <4>2 DEF Ends
      <4> QED
        BY <4>1, <4>2
    <3> QED
      BY <3>1, <3>2, <3>4
  <2> QED
    BY <2>1, <2>2, <2>3 DEF Ends
<1>13. Waits(o, c, deps)
  <2> SUFFICES ASSUME NEW p \in 1 .. Len(c), c[p].done, NEW d \in Needs(deps, c[p].ref)
               PROVE  Placed(o, d) \/ \E r \in 1 .. p - 1 : c[r].ref = d
    BY DEF Waits
  <2>1. PICK q \in 1 .. n : p = L + q /\ (q = 1 \/ a[q].done) /\ c[p].ref = a[q].ref
    BY <1>10
  <2>2. CASE q = 1
    <3>1. PICK r \in 1 .. L : needs[r] = d
      BY <1>1, <1>7, <2>1, <2>2
    <3>2. r \in 1 .. p - 1
      BY <1>2, <2>1, <2>2, <3>1
    <3> QED
      BY <1>4, <3>1, <3>2
  <2>3. CASE q # 1
    <3>1. Placed(o, d) \/ \E r \in 1 .. q - 1 : a[r].ref = d
      BY <1>1, <1>3, <2>1, <2>3 DEF Waits
    <3>2. ASSUME NEW r \in 1 .. q - 1, a[r].ref = d PROVE \E k \in 1 .. p - 1 : c[k].ref = d
      <4>1. r \in 1 .. n /\ L + r \in 1 .. p - 1
        BY <1>2, <2>1
      <4> QED
        BY <1>4, <3>2, <4>1
    <3> QED
      BY <3>1, <3>2
  <2> QED
    BY <2>2, <2>3
<1>14. Leads(c, deps)
  <2> SUFFICES ASSUME NEW p \in 1 .. Len(c), c[p].done, NEW r \in 1 .. p - 1
               PROVE  c[r].ref \in Closure(deps, Needs(deps, c[p].ref))
    BY DEF Leads
  <2>1. PICK q \in 1 .. n : p = L + q /\ (q = 1 \/ a[q].done) /\ c[p].ref = a[q].ref
    BY <1>10
  <2>2. PICK K : K = Closure(deps, Needs(deps, a[q].ref))
    OBVIOUS
  <2>3. \A y \in K : Needs(deps, y) \subseteq K
    BY <2>2, ClosureCloses, Zenon
  <2>4. ASSUME NEW k \in 1 .. q - 1 PROVE a[k].ref \in K
    <3>1. a[q].done
      BY <2>1, <2>4
    <3> QED
      BY <1>1, <1>3, <2>2, <3>1 DEF Leads
  <2>5. Needs(deps, x) \subseteq K
    <3>1. CASE q = 1
      BY <1>1, <1>9, <2>2, <3>1, ClosureGrows
    <3>2. CASE q # 1
      <4>1. 1 \in 1 .. q - 1
        BY <1>2, <3>2
      <4> QED
        BY <1>1, <2>3, <2>4, <4>1
    <3> QED
      BY <3>1, <3>2
  <2>6. CASE r \in 1 .. L
    BY <1>4, <1>8, <2>1, <2>2, <2>5, <2>6
  <2>7. CASE r \notin 1 .. L
    <3>1. r - L \in 1 .. q - 1 /\ r - L \in 1 .. n /\ L + (r - L) = r
      BY <1>2, <2>1, <2>7
    <3>2. c[r].ref = a[r - L].ref
      BY <1>4, <3>1
    <3> QED
      BY <2>1, <2>2, <2>4, <3>1, <3>2
  <2> QED
    BY <2>6, <2>7
<1>15. Wanted(o, c, C)
  <2>1. Needs(deps, x) \subseteq C
    <3>1. x \in C
      BY <1>1, <1>2, <1>3 DEF Wanted
    <3> QED
      BY <1>1, <3>1, ClosureCloses, Zenon
  <2>2. ASSUME NEW p \in 1 .. Len(c) PROVE c[p].ref \in C
    <3>1. CASE p \in 1 .. L
      BY <1>4, <1>8, <2>1, <3>1
    <3>2. ASSUME NEW q \in 1 .. n, p = L + q PROVE c[p].ref \in C
      BY <1>1, <1>3, <1>4, <3>2 DEF Wanted
    <3> QED
      BY <1>5, <3>1, <3>2
  <2> QED
    BY <1>3, <2>2 DEF Wanted
<1>16. Rooted(o, c, roots)
  <2>1. ASSUME NEW r \in ToSet(roots), NEW q \in 1 .. n, a[q].ref = r PROVE \E p \in 1 .. Len(c) : c[p].ref = r
    BY <1>4, <1>6, <2>1
  <2> QED
    BY <1>1, <1>3, <2>1 DEF Rooted
<1> QED
  BY <1>1, <1>3, <1>11, <1>12, <1>13, <1>14, <1>15, <1>16 DEF Walk

\* A visit that throws has found why.
LEMMA WalkFails ==
    ASSUME NEW deps, NEW roots, Graph(deps, roots), NEW o, NEW v, NEW a, Walk(o, v, a, deps, roots),
           a # <<>>, ~a[1].done, a[1].ref \in v \/ a[1].ref \notin DOMAIN deps
    PROVE  Unorderable(deps, roots)
<1>1. PICK x, n, C : x = a[1].ref /\ n = Len(a) /\ C = Closure(deps, ToSet(roots))
  OBVIOUS
<1>2. n \in Nat \ {0} /\ 1 \in 1 .. n
  BY <1>1 DEF Walk
<1>3. x \in C
  BY <1>1, <1>2 DEF Walk, Wanted
<1>4. ASSUME x \in v PROVE x \in Closure(deps, Needs(deps, x))
  <2>1. PICK p \in 1 .. n : a[p].done /\ a[p].ref = x
    BY <1>1, <1>4 DEF Walk, Ends
  <2>2. 1 \in 1 .. p - 1
    <3>1. p # 1
      BY <2>1
    <3> QED
      BY <1>2, <3>1
  <2> QED
    BY <1>1, <2>1, <2>2 DEF Walk, Leads
<1> QED
  BY <1>1, <1>3, <1>4 DEF Unorderable

\* What a visit does, by what is due first.
Visited(u, deps, o, v, f, a, x) ==
    /\ a[1].done => u = Walker(Append(o, x), v \ {x}, f, Tail(a))
    /\ ~a[1].done /\ Placed(o, x) => u = Walker(o, v, f, Tail(a))
    /\ ~a[1].done /\ ~Placed(o, x) /\ (x \in v \/ x \notin DOMAIN deps) => u = Walker(o, v, TRUE, a)
    /\ ~a[1].done /\ ~Placed(o, x) /\ x \notin v /\ x \in DOMAIN deps =>
         u = Walker(o, v \cup {x}, f, Visits(deps[x]) \o <<[ref |-> x, done |-> TRUE]>> \o Tail(a))

LEMMA VisitIs ==
    ASSUME NEW deps, NEW o \in Seq(Features), NEW v, NEW f, NEW a \in Seq(Entries), a # <<>>
    PROVE  Visited(visit(deps, Walker(o, v, f, a)), deps, o, v, f, a, a[1].ref)
<1>1. PICK s, x, b : s = Walker(o, v, f, a) /\ x = a[1].ref /\ b = Tail(a)
  OBVIOUS
<1>2. /\ s = [order |-> o, visiting |-> v, failed |-> f, agenda |-> a]
      /\ s.order = o /\ s.visiting = v /\ s.failed = f /\ s.agenda = a
  BY <1>1 DEF Walker
<1>3. Head(a) = a[1] /\ a[1].done \in BOOLEAN
  <2>1. Head(a) = a[1] /\ a[1] \in Entries
    BY TailIsShorter
  <2> QED
    BY <2>1 DEF Entries
<1>4. x \in ToSet(o) <=> Placed(o, x)
  <2>1. DOMAIN o = 1 .. Len(o)
    OBVIOUS
  <2> QED
    BY <2>1 DEF ToSet, Placed
<1>5. PICK u : u = visit(deps, s)
  OBVIOUS
<1>6. u = IF a[1].done THEN [s EXCEPT !.agenda = b, !.visiting = @ \ {x}, !.order = Append(@, x)]
          ELSE IF x \in ToSet(o) THEN [s EXCEPT !.agenda = b]
          ELSE IF x \in v \/ x \notin DOMAIN deps THEN [s EXCEPT !.failed = TRUE]
          ELSE [s EXCEPT !.visiting = @ \cup {x},
                         !.agenda = Visits(deps[x]) \o <<[ref |-> x, done |-> TRUE]>> \o b]
  BY <1>1, <1>2, <1>3, <1>5, Zenon DEF visit
<1>7. a[1].done => u = Walker(Append(o, x), v \ {x}, f, b)
  BY <1>2, <1>6 DEF Walker
<1>8. ~a[1].done /\ Placed(o, x) => u = Walker(o, v, f, b)
  BY <1>2, <1>4, <1>6 DEF Walker
<1>9. ~a[1].done /\ ~Placed(o, x) /\ (x \in v \/ x \notin DOMAIN deps) => u = Walker(o, v, TRUE, a)
  BY <1>2, <1>4, <1>6 DEF Walker
<1>10. ~a[1].done /\ ~Placed(o, x) /\ x \notin v /\ x \in DOMAIN deps =>
         u = Walker(o, v \cup {x}, f, Visits(deps[x]) \o <<[ref |-> x, done |-> TRUE]>> \o b)
  <2>1. PICK c : c = Visits(deps[x]) \o <<[ref |-> x, done |-> TRUE]>> \o b
    OBVIOUS
  <2>2. PICK y : y = v \cup {x}
    OBVIOUS
  <2>3. [s EXCEPT !.visiting = @ \cup {x}, !.agenda = c] = [s EXCEPT !.visiting = y, !.agenda = c]
    BY <1>2, <2>2
  <2>4. [s EXCEPT !.visiting = y, !.agenda = c] = Walker(o, y, f, c)
    <3>1. s = [order |-> o, visiting |-> v, failed |-> f, agenda |-> a]
      BY <1>2
    <3>2. PICK r : r = [s EXCEPT !.visiting = y]
      OBVIOUS
    <3>3. r = [order |-> o, visiting |-> y, failed |-> f, agenda |-> a]
      BY <3>1, <3>2
    <3>4. [r EXCEPT !.agenda = c] = [order |-> o, visiting |-> y, failed |-> f, agenda |-> c]
      BY <3>3
    <3>5. [r EXCEPT !.agenda = c] = [s EXCEPT !.visiting = y, !.agenda = c]
      BY <3>2
    <3> QED
      BY <3>4, <3>5, Zenon DEF Walker
  <2> SUFFICES ASSUME ~a[1].done, ~Placed(o, x), x \notin v, x \in DOMAIN deps PROVE u = Walker(o, y, f, c)
    BY <2>1, <2>2
  <2>5. u = [s EXCEPT !.visiting = @ \cup {x}, !.agenda = c]
    BY <1>4, <1>6, <2>1
  <2> QED
    BY <2>3, <2>4, <2>5
<1> QED
  BY <1>1, <1>5, <1>7, <1>8, <1>9, <1>10, Zenon DEF Visited

LEMMA WalkerParts ==
    ASSUME NEW w \in Walkers
    PROVE  \E o \in Seq(Features), v \in SUBSET Features, f \in BOOLEAN, a \in Seq(Entries) :
             w = Walker(o, v, f, a) /\ w.failed = f /\ w.agenda = a /\ w.order = o
  BY DEF Walkers, Walker

LEMMA WalkerType ==
    ASSUME NEW o \in Seq(Features), NEW v \in SUBSET Features, NEW f \in BOOLEAN, NEW a \in Seq(Entries)
    PROVE  /\ Walker(o, v, f, a) \in Walkers
           /\ Walker(o, v, f, a).failed = f /\ Walker(o, v, f, a).agenda = a /\ Walker(o, v, f, a).order = o
  BY DEF Walkers, Walker

LEMMA VisitType ==
    ASSUME NEW deps, NEW roots, Graph(deps, roots), NEW w \in Walkers, w.agenda # <<>>
    PROVE  visit(deps, w) \in Walkers
<1>1. PICK o \in Seq(Features), v \in SUBSET Features, f \in BOOLEAN, a \in Seq(Entries) :
         w = Walker(o, v, f, a) /\ w.agenda = a
  BY WalkerParts
<1>2. PICK u, x, c : /\ u = visit(deps, w) /\ x = a[1].ref
                     /\ c = Visits(deps[x]) \o <<[ref |-> x, done |-> TRUE]>> \o Tail(a)
  OBVIOUS
<1>3. a # <<>> /\ a[1] \in Entries /\ Tail(a) \in Seq(Entries)
  BY <1>1, TailIsShorter
<1>4. x \in Features /\ Append(o, x) \in Seq(Features) /\ v \ {x} \in SUBSET Features /\ v \cup {x} \in SUBSET Features
  BY <1>2, <1>3 DEF Entries
<1>5. x \in DOMAIN deps => c \in Seq(Entries)
  <2>1. x \in DOMAIN deps => deps[x] \in Seq(Features)
    BY DEF Graph
  <2> QED
    BY <1>2, <1>3, <2>1, EnteredIs, Zenon
<1>6. Visited(u, deps, o, v, f, a, x)
  BY <1>1, <1>2, <1>3, VisitIs
<1>7. \A p \in Seq(Features) : \A q \in SUBSET Features : \A g \in BOOLEAN : \A b \in Seq(Entries) : Walker(p, q, g, b) \in Walkers
  BY WalkerType
<1>8. \/ u = Walker(Append(o, x), v \ {x}, f, Tail(a)) \/ u = Walker(o, v, f, Tail(a)) \/ u = Walker(o, v, TRUE, a)
      \/ x \in DOMAIN deps /\ u = Walker(o, v \cup {x}, f, c)
  BY <1>2, <1>6, Zenon DEF Visited
<1>9. TRUE \in BOOLEAN
  OBVIOUS
<1> QED
  BY <1>2, <1>3, <1>4, <1>5, <1>7, <1>8, <1>9, ZenonT(40)

\* What a walk may still visit.
Weight(deps) == [ref \in DOMAIN deps |-> Len(deps[ref]) + 1]
Open(o, v, deps) == {x \in DOMAIN deps : x \notin v /\ ~Placed(o, x)}
Left(o, v, a, deps) == Len(a) + SumFunctionOnSet(Weight(deps), Open(o, v, deps))

LEMMA LeftType ==
    ASSUME NEW deps, NEW roots, Graph(deps, roots), NEW o, NEW v
    PROVE  /\ IsFiniteSet(Open(o, v, deps)) /\ \A x \in DOMAIN deps : Weight(deps)[x] = Len(deps[x]) + 1 /\ Len(deps[x]) \in Nat
           /\ SumFunctionOnSet(Weight(deps), Open(o, v, deps)) \in Nat
<1>1. \A x \in DOMAIN deps : Weight(deps)[x] = Len(deps[x]) + 1 /\ Len(deps[x]) \in Nat
  BY DEF Graph, Weight
<1>2. IsFiniteSet(Open(o, v, deps))
  BY FS_Subset DEF Open, Graph
<1>3. \A x \in Open(o, v, deps) : Weight(deps)[x] \in Int /\ Weight(deps)[x] >= 0
  BY <1>1 DEF Open
<1>4. PICK W, S : W = Weight(deps) /\ S = Open(o, v, deps)
  OBVIOUS
<1>5. SumFunctionOnSet(W, S) \in Int /\ SumFunctionOnSet(W, S) >= 0
  BY <1>2, <1>3, <1>4, SumType
<1> QED
  BY <1>1, <1>2, <1>4, <1>5

Going(w, deps, roots, k, M) ==
    \/ w.failed /\ Unorderable(deps, roots)
    \/ \E o, v, a : /\ w = Walker(o, v, FALSE, a) /\ Walk(o, v, a, deps, roots)
                    /\ a = <<>> \/ Left(o, v, a, deps) + k <= M

LEMMA VisitGoes ==
    ASSUME NEW deps, NEW roots, Graph(deps, roots), NEW o, NEW v, NEW a, Walk(o, v, a, deps, roots), a # <<>>,
           NEW k \in Nat, NEW M \in Nat, Left(o, v, a, deps) + k <= M
    PROVE  Going(visit(deps, Walker(o, v, FALSE, a)), deps, roots, k + 1, M)
<1>1. PICK u, x, n, b : u = visit(deps, Walker(o, v, FALSE, a)) /\ x = a[1].ref /\ n = Len(a) /\ b = Tail(a)
  OBVIOUS
<1>2. /\ a \in Seq(Entries) /\ o \in Seq(DOMAIN deps) /\ v \subseteq DOMAIN deps /\ DOMAIN deps \subseteq Features
      /\ o \in Seq(Features)
  BY DEF Walk, Graph
<1>3. b \in Seq(Entries) /\ Shorter(b, a) /\ n \in Nat \ {0} /\ 1 \in 1 .. n
  BY <1>1, <1>2, TailIsShorter
<1>4. Visited(u, deps, o, v, FALSE, a, x)
  BY <1>1, <1>2, VisitIs
<1>5. PICK W, S, z : W = Weight(deps) /\ S = Open(o, v, deps) /\ z = SumFunctionOnSet(W, S)
  OBVIOUS
<1>6. z \in Nat /\ n + z + k <= M /\ Len(b) = n - 1
  BY <1>1, <1>3, <1>5, LeftType DEF Left, Shorter
<1>7. CASE a[1].done
  <2>1. u = Walker(Append(o, x), v \ {x}, FALSE, b) /\ Walk(Append(o, x), v \ {x}, b, deps, roots)
    BY <1>1, <1>4, <1>7, WalkLeaves, Zenon DEF Visited
  <2>2. x \in v /\ x \in DOMAIN deps
    BY <1>1, <1>2, <1>3, <1>7 DEF Walk, Ends
  <2>3. \A y : Placed(Append(o, x), y) <=> Placed(o, y) \/ y = x
    <3>1. PICK t, m : t = Append(o, x) /\ m = Len(o)
      OBVIOUS
    <3>2. /\ m \in Nat /\ Len(t) = m + 1 /\ t[m + 1] = x /\ \A i \in 1 .. m : t[i] = o[i] /\ i \in 1 .. m + 1
          /\ \A i \in 1 .. m + 1 : i = m + 1 \/ i \in 1 .. m
      BY <1>2, <2>2, <3>1
    <3>3. m + 1 \in 1 .. m + 1
      BY <3>2
    <3> QED
      BY <3>1, <3>2, <3>3 DEF Placed
  <2>4. Open(Append(o, x), v \ {x}, deps) = S
    BY <1>5, <2>2, <2>3 DEF Open
  <2>5. Left(Append(o, x), v \ {x}, b, deps) + (k + 1) <= M
    BY <1>3, <1>5, <1>6, <2>4 DEF Left
  <2> QED
    BY <1>1, <2>1, <2>5, Zenon DEF Going
<1>8. CASE ~a[1].done /\ Placed(o, x)
  <2>1. u = Walker(o, v, FALSE, b) /\ Walk(o, v, b, deps, roots)
    BY <1>1, <1>4, <1>8, WalkSkips, Zenon DEF Visited
  <2>2. Left(o, v, b, deps) + (k + 1) <= M
    BY <1>3, <1>5, <1>6 DEF Left
  <2> QED
    BY <1>1, <2>1, <2>2, Zenon DEF Going
<1>9. CASE ~a[1].done /\ ~Placed(o, x) /\ (x \in v \/ x \notin DOMAIN deps)
  <2>1. u = Walker(o, v, TRUE, a) /\ Unorderable(deps, roots)
    BY <1>1, <1>4, <1>9, WalkFails, Zenon DEF Visited
  <2>2. u.failed = TRUE
    BY <2>1 DEF Walker
  <2> QED
    BY <1>1, <2>1, <2>2 DEF Going
<1>10. CASE ~a[1].done /\ ~Placed(o, x) /\ x \notin v /\ x \in DOMAIN deps
  <2>1. PICK c : c = Visits(deps[x]) \o <<[ref |-> x, done |-> TRUE]>> \o b
    OBVIOUS
  <2>2. deps[x] \in Seq(Features)
    BY <1>10 DEF Graph
  <2>3. c \in Seq(Entries) /\ Entered(c, a, deps[x])
    BY <1>1, <1>2, <2>1, <2>2, EnteredIs, Zenon
  <2>4. Walk(o, v \cup {x}, c, deps, roots)
    BY <1>1, <1>10, <2>3, WalkEnters, Zenon
  <2>5. u = Walker(o, v \cup {x}, FALSE, c)
    BY <1>1, <1>4, <1>10, <2>1, Zenon DEF Visited
  <2>6. Open(o, v \cup {x}, deps) = S \ {x} /\ x \in S
    BY <1>5, <1>10 DEF Open
  <2>7. PICK L, y : L = Len(deps[x]) /\ y = SumFunctionOnSet(W, S \ {x})
    OBVIOUS
  <2>8. /\ IsFiniteSet(S) /\ L \in Nat /\ W[x] = L + 1 /\ \A i \in S : W[i] \in Int
        /\ y \in Nat
    <3>1. IsFiniteSet(S) /\ \A i \in DOMAIN deps : W[i] = Len(deps[i]) + 1 /\ Len(deps[i]) \in Nat
      BY <1>5, LeftType
    <3>2. \A i \in S : i \in DOMAIN deps
      BY <1>5 DEF Open
    <3>3. SumFunctionOnSet(W, S \ {x}) \in Nat
      BY <1>5, <2>6, LeftType
    <3> QED
      BY <1>10, <2>7, <3>1, <3>2, <3>3
  <2>9. z = L + 1 + y
    <3>1. z = W[x] + SumFunctionOnSet(W, S \ {x})
      BY <1>5, <2>6, <2>8, SumTakeOut
    <3> QED
      BY <2>7, <2>8, <3>1
  <2>10. Len(c) = L + n
    BY <1>1, <2>3, <2>7 DEF Entered
  <2>11. Left(o, v \cup {x}, c, deps) = L + n + y
    BY <1>5, <2>6, <2>7, <2>10 DEF Left
  <2>12. L + n + y + (k + 1) <= M
    BY <1>3, <1>6, <2>8, <2>9
  <2> QED
    BY <1>1, <2>4, <2>5, <2>11, <2>12, Zenon DEF Going
<1> QED
  BY <1>7, <1>8, <1>9, <1>10

\* Where the walk starts, and what a turn of it does.
Outset(roots) == Walker(<<>>, {}, FALSE, Visits(roots))
Onward(deps, s) == IF s.failed \/ s.agenda = <<>> THEN s ELSE visit(deps, s)

LEMMA WalkStarts ==
    ASSUME NEW deps, NEW roots, Graph(deps, roots)
    PROVE  /\ Walk(<<>>, {}, Visits(roots), deps, roots)
           /\ MaxVisits(deps, roots) \in Nat
           /\ Left(<<>>, {}, Visits(roots), deps) = MaxVisits(deps, roots)
           /\ Visits(roots) \in Seq(Entries)
<1>1. PICK a, n : a = Visits(roots) /\ n = Len(roots)
  OBVIOUS
<1>2. roots \in Seq(Features) /\ n \in Nat /\ ToSet(roots) = {roots[i] : i \in 1 .. n}
  BY <1>1 DEF Graph, ToSet
<1>3. a = [i \in 1 .. n |-> [ref |-> roots[i], done |-> FALSE]]
  BY <1>1, <1>2 DEF Visits
<1>4. a \in Seq(Entries) /\ Len(a) = n
  <2>1. \A i \in 1 .. n : [ref |-> roots[i], done |-> FALSE] \in Entries
    BY <1>2, <1>1 DEF Entries
  <2> QED
    BY <1>2, <1>3, <2>1
<1>5. \A i \in 1 .. n : a[i].ref = roots[i] /\ ~a[i].done
  BY <1>3
<1>6. ToSet(roots) \subseteq Features /\ ToSet(roots) \subseteq Closure(deps, ToSet(roots))
  <2>1. ToSet(roots) \subseteq Features
    BY <1>1, <1>2
  <2> QED
    BY <2>1, ClosureGrows
<1>7. Walk(<<>>, {}, a, deps, roots)
  <2>1. InOrder(<<>>, deps) /\ Apart(<<>>, {}) /\ <<>> \in Seq(DOMAIN deps) /\ {} \subseteq DOMAIN deps
    BY DEF InOrder, Apart
  <2>2. Ends({}, a) /\ Waits(<<>>, a, deps) /\ Leads(a, deps)
    BY <1>4, <1>5 DEF Ends, Waits, Leads
  <2>3. Wanted(<<>>, a, Closure(deps, ToSet(roots)))
    BY <1>2, <1>4, <1>5, <1>6 DEF Wanted
  <2>4. Rooted(<<>>, a, roots)
    BY <1>2, <1>4, <1>5 DEF Rooted
  <2> QED
    BY <1>4, <2>1, <2>2, <2>3, <2>4 DEF Walk
<1>8. Open(<<>>, {}, deps) = DOMAIN deps
  BY DEF Open, Placed
<1>9. MaxVisits(deps, roots) = n + SumFunctionOnSet(Weight(deps), DOMAIN deps)
  BY <1>1 DEF MaxVisits, SumFunction, Weight
<1>10. SumFunctionOnSet(Weight(deps), DOMAIN deps) \in Nat
  BY <1>8, LeftType
<1>11. Left(<<>>, {}, a, deps) = n + SumFunctionOnSet(Weight(deps), DOMAIN deps)
  BY <1>4, <1>8 DEF Left
<1> QED
  BY <1>1, <1>2, <1>4, <1>7, <1>9, <1>10, <1>11

\* The turns of VisitAll.
Walked(g, deps, roots, M) ==
    /\ g[0] = Outset(roots) /\ \A k \in 1 .. M : g[k] = Onward(deps, g[k - 1])
    /\ VisitAll(deps, roots) = g[M]

LEMMA VisitAllIs ==
    ASSUME NEW deps, NEW roots, Graph(deps, roots)
    PROVE  \E g : Walked(g, deps, roots, MaxVisits(deps, roots))
<1>1. PICK M, base : M = MaxVisits(deps, roots) /\ base = Outset(roots)
  OBVIOUS
<1>2. M \in Nat /\ base \in Walkers
  <2>1. Visits(roots) \in Seq(Entries) /\ <<>> \in Seq(Features) /\ {} \in SUBSET Features /\ FALSE \in BOOLEAN
    BY WalkStarts
  <2>2. Outset(roots) \in Walkers
    BY <2>1, WalkerType DEF Outset
  <2> QED
    BY <1>1, <2>2, WalkStarts
<1>3. \A s \in Walkers : Onward(deps, s) \in Walkers
  BY VisitType DEF Onward
<1>4. PICK F : F = [s \in Walkers |-> [i \in 1 .. M |-> Onward(deps, s)]]
  OBVIOUS
<1>5. PICK h : StepsFrom(h, base, F, M)
  BY <1>2, StepsExist
<1>6. \A s \in Walkers : \A i \in 1 .. M : F[s][i] = Onward(deps, s)
  BY <1>4
<1>7. \A i \in 0 .. M : h[i] \in Walkers
  <2>1. \A s \in Walkers : \A i \in 1 .. M : F[s][i] \in Walkers
    BY <1>3, <1>6
  <2> QED
    BY <1>2, <1>5, <2>1, StepsStay, Zenon
<1>8. h = [i \in 0 .. M |-> IF i = 0 THEN base ELSE F[h[i - 1]][i]]
  BY <1>5 DEF StepsFrom
<1>9. h = [k \in 0 .. M |-> IF k = 0 THEN base ELSE Onward(deps, h[k - 1])]
  <2>1. \A i \in 0 .. M : i # 0 => i \in 1 .. M /\ i - 1 \in 0 .. M
    BY <1>2
  <2>2. \A i \in 0 .. M : (IF i = 0 THEN base ELSE F[h[i - 1]][i]) = (IF i = 0 THEN base ELSE Onward(deps, h[i - 1]))
    BY <1>6, <1>7, <2>1
  <2> QED
    BY <1>8, <2>2
<1>10. PICK g : /\ g = [k \in 0 .. M |-> IF k = 0 THEN base ELSE Onward(deps, g[k - 1])]
                /\ g = CHOOSE f : f = [k \in 0 .. M |-> IF k = 0 THEN base ELSE Onward(deps, f[k - 1])]
  BY <1>9, Zenon
<1>11. g[0] = base /\ \A k \in 1 .. M : g[k] = Onward(deps, g[k - 1])
  <2>1. 0 \in 0 .. M /\ \A k \in 1 .. M : k \in 0 .. M /\ k # 0
    BY <1>2
  <2> QED
    BY <1>10, <2>1
<1>12. VisitAll(deps, roots) = g[M]
  BY <1>1, <1>10, Zenon DEF VisitAll, Onward, Outset, Walker
<1>13. Walked(g, deps, roots, M)
  BY <1>1, <1>11, <1>12, Zenon DEF Walked
<1> QED
  BY <1>1, <1>13, Zenon

LEMMA OnwardGoes ==
    ASSUME NEW deps, NEW roots, Graph(deps, roots), NEW w, NEW k \in Nat, NEW M \in Nat, Going(w, deps, roots, k, M)
    PROVE  Going(Onward(deps, w), deps, roots, k + 1, M)
<1>1. CASE w.failed /\ Unorderable(deps, roots)
  BY <1>1 DEF Onward, Going
<1>2. ASSUME NEW o, NEW v, NEW a, w = Walker(o, v, FALSE, a), Walk(o, v, a, deps, roots),
             a = <<>> \/ Left(o, v, a, deps) + k <= M
      PROVE  Going(Onward(deps, w), deps, roots, k + 1, M)
  <2>1. w.failed = FALSE /\ w.agenda = a
    BY <1>2 DEF Walker
  <2>2. CASE a = <<>>
    <3>1. Onward(deps, w) = w
      BY <2>1, <2>2 DEF Onward
    <3> QED
      BY <1>2, <2>2, <3>1, Zenon DEF Going
  <2>3. CASE a # <<>>
    <3>1. Onward(deps, w) = visit(deps, w)
      BY <2>1, <2>3 DEF Onward
    <3>2. Going(visit(deps, Walker(o, v, FALSE, a)), deps, roots, k + 1, M)
      BY <1>2, <2>3, VisitGoes
    <3> QED
      BY <1>2, <3>1, <3>2, Zenon
  <2> QED
    BY <2>2, <2>3
<1> QED
  BY <1>1, <1>2 DEF Going

\* After the last turn the walk has failed for a reason, or nothing is due.
LEMMA WalkEnds ==
    ASSUME NEW deps, NEW roots, Graph(deps, roots)
    PROVE  \/ VisitAll(deps, roots).failed /\ Unorderable(deps, roots)
           \/ \E o, v : VisitAll(deps, roots) = Walker(o, v, FALSE, <<>>) /\ Walk(o, v, <<>>, deps, roots)
<1>1. PICK M : M = MaxVisits(deps, roots)
  OBVIOUS
<1>2. M \in Nat
  BY <1>1, WalkStarts
<1>3. PICK g : Walked(g, deps, roots, M)
  BY <1>1, VisitAllIs, Zenon
<1>4. g[0] = Outset(roots) /\ (\A k \in 1 .. M : g[k] = Onward(deps, g[k - 1])) /\ VisitAll(deps, roots) = g[M]
  BY <1>3, Zenon DEF Walked
<1> DEFINE T == {k \in Nat : k \in 0 .. M => Going(g[k], deps, roots, k, M)}
<1>5. 0 \in T
  <2>1. Walk(<<>>, {}, Visits(roots), deps, roots) /\ Left(<<>>, {}, Visits(roots), deps) = M
    BY <1>1, WalkStarts
  <2>2. Left(<<>>, {}, Visits(roots), deps) + 0 <= M
    BY <1>2, <2>1
  <2>3. Going(g[0], deps, roots, 0, M)
    BY <1>4, <2>1, <2>2, Zenon DEF Going, Outset
  <2> QED
    BY <2>3
<1>6. ASSUME NEW k \in Nat, k \in T PROVE k + 1 \in T
  <2> SUFFICES ASSUME k + 1 \in 0 .. M PROVE Going(g[k + 1], deps, roots, k + 1, M)
    OBVIOUS
  <2>1. k \in 0 .. M /\ k + 1 \in 1 .. M /\ (k + 1) - 1 = k
    BY <1>2
  <2>2. Going(g[k], deps, roots, k, M)
    BY <1>6, <2>1
  <2>3. g[k + 1] = Onward(deps, g[k])
    BY <1>4, <2>1
  <2> QED
    BY <1>2, <2>2, <2>3, OnwardGoes
<1>7. \A k \in Nat : k \in T
  <2> HIDE DEF T
  <2> QED
    BY <1>5, <1>6, SetInduction
<1>8. Going(g[M], deps, roots, M, M)
  BY <1>2, <1>7
<1>9. ASSUME NEW o, NEW v, NEW a, g[M] = Walker(o, v, FALSE, a), Walk(o, v, a, deps, roots),
             Left(o, v, a, deps) + M <= M
      PROVE  a = <<>>
  <2>1. SumFunctionOnSet(Weight(deps), Open(o, v, deps)) \in Nat
    BY LeftType
  <2>2. a \in Seq(Entries)
    BY <1>9 DEF Walk
  <2>3. Len(a) = 0
    BY <1>2, <1>9, <2>1, <2>2 DEF Left
  <2> QED
    BY <2>2, <2>3
<1> QED
  BY <1>4, <1>8, <1>9, Zenon DEF Going

\* The promise of topoOrder.
Orders(r, deps, roots) ==
    /\ r.failed <=> Unorderable(deps, roots)
    /\ ~r.failed => /\ ToSet(r.order) = Closure(deps, ToSet(roots)) /\ IsInjective(r.order)
                    /\ \A i \in DOMAIN r.order : \A d \in Needs(deps, r.order[i]) :
                         \E j \in 1 .. i - 1 : r.order[j] = d

\* Nothing due: all that is wanted has been ordered, and it could be.
LEMMA WalkDone ==
    ASSUME NEW deps, NEW roots, Graph(deps, roots), NEW o, NEW v, Walk(o, v, <<>>, deps, roots)
    PROVE  /\ ~Unorderable(deps, roots) /\ ToSet(o) = Closure(deps, ToSet(roots)) /\ IsInjective(o)
           /\ \A i \in DOMAIN o : \A d \in Needs(deps, o[i]) : \E j \in 1 .. i - 1 : o[j] = d
<1>1. PICK n, R, C : n = Len(o) /\ R = ToSet(roots) /\ C = Closure(deps, R)
  OBVIOUS
<1>2. /\ n \in Nat /\ DOMAIN o = 1 .. n /\ o \in Seq(DOMAIN deps) /\ InOrder(o, deps)
      /\ Wanted(o, <<>>, C) /\ Rooted(o, <<>>, roots)
  BY <1>1 DEF Walk
<1>3. ToSet(o) = {o[i] : i \in 1 .. n} /\ \A i \in 1 .. n : o[i] \in DOMAIN deps
  BY <1>2 DEF ToSet
<1>4. ToSet(o) \subseteq Features /\ R \subseteq Features
  BY <1>1, <1>3 DEF Graph, ToSet
<1>5. \A i \in 1 .. n : \A d \in Needs(deps, o[i]) : \E j \in 1 .. i - 1 : o[j] = d
  BY <1>1, <1>2 DEF InOrder
<1>6. ToSet(o) = C
  <2>1. ToSet(o) \subseteq C
    BY <1>1, <1>2, <1>3 DEF Wanted
  <2>2. R \subseteq ToSet(o)
    BY <1>1, <1>2, <1>3 DEF Rooted, Placed
  <2>3. ASSUME NEW m \in ToSet(o), NEW d \in Needs(deps, m) PROVE d \in ToSet(o)
    <3>1. PICK i \in 1 .. n : o[i] = m
      BY <1>3
    <3>2. PICK j \in 1 .. i - 1 : o[j] = d
      BY <1>5, <2>3, <3>1
    <3>3. j \in 1 .. n
      BY <1>2
    <3> QED
      BY <1>3, <3>2, <3>3
  <2>4. \A m \in ToSet(o) : Needs(deps, m) \subseteq ToSet(o)
    BY <2>3
  <2>5. C \subseteq ToSet(o)
    BY <1>1, <1>4, <2>2, <2>4, ClosureIsLeast, Zenon
  <2> QED
    BY <2>1, <2>5
<1>7. ASSUME NEW x \in C PROVE x \in DOMAIN deps /\ x \notin Closure(deps, Needs(deps, x))
  <2>1. PICK i \in 1 .. n : o[i] = x
    BY <1>3, <1>6
  <2>2. PICK S : S = {o[j] : j \in 1 .. i - 1}
    OBVIOUS
  <2>3. \A j \in 1 .. i - 1 : j \in 1 .. n /\ j # i
    BY <1>2
  <2>4. S \subseteq Features
    BY <1>3, <1>4, <2>2, <2>3
  <2>5. Needs(deps, x) \subseteq S
    BY <1>5, <2>1, <2>2
  <2>6. ASSUME NEW m \in S, NEW d \in Needs(deps, m) PROVE d \in S
    <3>1. PICK j \in 1 .. i - 1 : o[j] = m
      BY <2>2
    <3>2. PICK k \in 1 .. j - 1 : o[k] = d
      BY <1>5, <2>3, <2>6, <3>1
    <3>3. k \in 1 .. i - 1
      OBVIOUS
    <3> QED
      BY <2>2, <3>2, <3>3
  <2>7. \A m \in S : Needs(deps, m) \subseteq S
    BY <2>6
  <2>8. Closure(deps, Needs(deps, x)) \subseteq S
    BY <2>4, <2>5, <2>7, ClosureIsLeast, Zenon
  <2>9. x \notin S
    BY <1>1, <1>2, <2>1, <2>2, <2>3 DEF InOrder
  <2> QED
    BY <1>3, <2>1, <2>8, <2>9
<1>8. ~Unorderable(deps, roots)
  BY <1>1, <1>7 DEF Unorderable
<1>9. IsInjective(o)
  BY <1>1, <1>2 DEF InOrder, IsInjective
<1> QED
  BY <1>1, <1>2, <1>5, <1>6, <1>8, <1>9

\* topoOrder fails exactly when a feature that is wanted, directly or not, is not
\* registered or needs itself; otherwise it lists each of them once, after all it
\* needs.
THEOREM OrderIsFound ==
    ASSUME NEW deps, NEW roots, Graph(deps, roots)
    PROVE  Orders(topoOrder(deps, roots), deps, roots)
<1>1. PICK s, r : s = VisitAll(deps, roots) /\ r = topoOrder(deps, roots)
  OBVIOUS
<1>2. r.order = s.order /\ r.failed = s.failed
  BY <1>1 DEF topoOrder
<1>3. CASE s.failed /\ Unorderable(deps, roots)
  BY <1>1, <1>2, <1>3 DEF Orders
<1>4. ASSUME NEW o, NEW v, s = Walker(o, v, FALSE, <<>>), Walk(o, v, <<>>, deps, roots)
      PROVE  Orders(r, deps, roots)
  <2>1. r.order = o /\ r.failed = FALSE
    BY <1>2, <1>4 DEF Walker
  <2>2. /\ ~Unorderable(deps, roots) /\ ToSet(o) = Closure(deps, ToSet(roots)) /\ IsInjective(o)
        /\ \A i \in DOMAIN o : \A d \in Needs(deps, o[i]) : \E j \in 1 .. i - 1 : o[j] = d
    BY <1>4, WalkDone
  <2> QED
    BY <2>1, <2>2, Zenon DEF Orders
<1> QED
  BY <1>1, <1>3, <1>4, WalkEnds

\* In the runs: whatever features are asked for of whatever graph, they come in the
\* order their dependencies need, or not at all and for a reason.
THEOREM OrderHolds == CallSpec => []DependenciesComeFirst
<1>1. ASSUME CallInv PROVE DependenciesComeFirst
  <2> SUFFICES ASSUME Returned("graph") PROVE DependenciesComeFirst
    BY DEF DependenciesComeFirst
  <2>1. Out = Call(input) /\ input \in CallInputs /\ input.kind = "graph"
    BY <1>1, OutIs
  <2>2. input \in GraphInputs /\ Out = topoOrder(input.deps, input.roots)
    BY <2>1, InputKinds, CallIs, Zenon
  <2>3. Graph(input.deps, input.roots)
    BY <2>2, GraphAssumption DEF Graph
  <2>4. Orders(Out, input.deps, input.roots)
    BY <2>2, <2>3, OrderIsFound, Zenon
  <2>5. PICK C : C = Closure(input.deps, ToSet(input.roots))
    OBVIOUS
  <2>6. Unorderable(input.deps, input.roots)
          <=> (\E n \in C : n \in Closure(input.deps, Needs(input.deps, n))) \/ ~(C \subseteq DOMAIN input.deps)
    BY <2>5 DEF Unorderable
  <2> QED
    BY <2>4, <2>5, <2>6, Zenon DEF DependenciesComeFirst, Orders
<1> QED
  BY <1>1, CallHolds, PTL
=============================================================================
