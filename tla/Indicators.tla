----------------------------- MODULE Indicators -----------------------------
(***************************************************************************)
(* The indicator arithmetic of the feature store                           *)
(* (packages/feature-store/src/indicators.ts).  Prices and volumes are     *)
(* small integers and every quotient is kept exactly, as a pair            *)
(* <<numerator, denominator>> with a positive denominator;  Null is the     *)
(* code's null, returned when the series is too short.  The code's default *)
(* periods (12/26/9, 14, 20) are parameters here, so that short series     *)
(* reach every case.                                                       *)
(***************************************************************************)
EXTENDS Integers, Sequences, SequencesExt, FiniteSetsExt

Null == <<>>

AddUp(s) == FoldLeft(+, 0, s)
LastN(s, n) == SubSeq(s, Len(s) - n + 1, Len(s))

gcd[m \in Nat, n \in Nat] == IF n = 0 THEN m ELSE gcd[n, m % n]
Ratio(n, d) == LET g == gcd[IF n < 0 THEN -n ELSE n, d] IN <<IF n < 0 THEN -((-n) \div g) ELSE n \div g, d \div g>>
Whole(n) == <<n, 1>>
Plus(a, b) == Ratio(a[1] * b[2] + b[1] * a[2], a[2] * b[2])
Minus(a, b) == Ratio(a[1] * b[2] - b[1] * a[2], a[2] * b[2])
Leq(a, b) == a[1] * b[2] <= b[1] * a[2]

sma(values, period) ==
  IF Len(values) < period \/ period <= 0 THEN Null
  ELSE <<AddUp(LastN(values, period)), period>>

\* e = x*k + e*(1-k) with k = 2/(p+1)
emaStep(period, e, x) ==
  Ratio(2 * x[1] * e[2] + (period - 1) * e[1] * x[2], (period + 1) * e[2] * x[2])

SumOf(rationals) == FoldLeft(Plus, Whole(0), rationals)

\* ema over rationals: seeded by the mean of the first `period` values.
emaOf(values, period) ==
  IF Len(values) < period \/ period <= 0 THEN Null
  ELSE LET seed == SumOf(SubSeq(values, 1, period))
       IN  FoldLeft(LAMBDA e, x : emaStep(period, e, x),
                    <<seed[1], seed[2] * period>>,
                    SubSeq(values, period + 1, Len(values)))

Rationals(values) == [i \in DOMAIN values |-> Whole(values[i])]

ema(values, period) == emaOf(Rationals(values), period)

\* Mutated form of rsi: the losing moves counted instead of summed.
rsiCountingLosses(closes, period) ==
  IF Len(closes) < period + 1 THEN Null
  ELSE LET moves  == [k \in 1..period |->
                        closes[Len(closes) - period + k] - closes[Len(closes) - period + k - 1]]
           gains  == AddUp(SelectSeq(moves, LAMBDA d : d >= 0))
           losses == Len(SelectSeq(moves, LAMBDA d : d < 0))
       IN  IF gains + losses = 0 THEN Whole(50) ELSE <<100 * gains, gains + losses>>
\* 100 - 100/(1 + gains/losses); a window without losses gives 100 (the code's
\* 1e-9 in place of a zero loss leaves it within 1e-7 of that).
rsi(closes, period) ==
  IF Len(closes) < period + 1 THEN Null
  ELSE LET moves  == [k \in 1..period |->
                        closes[Len(closes) - period + k] - closes[Len(closes) - period + k - 1]]
           gains  == AddUp(SelectSeq(moves, LAMBDA d : d >= 0))
           losses == -AddUp(SelectSeq(moves, LAMBDA d : d < 0))
       IN  IF gains + losses = 0 THEN Whole(50) ELSE <<100 * gains, gains + losses>>

\* The histogram: the last MACD line less the ema of all the lines so far.
macdHist(closes, fast, slow, signalPeriod) ==
  IF ema(closes, fast) = Null \/ ema(closes, slow) = Null THEN Null
  ELSE LET line(n) == Minus(ema(SubSeq(closes, 1, n), fast), ema(SubSeq(closes, 1, n), slow))
           diffs   == [k \in 1..(Len(closes) - slow + 1) |-> line(slow + k - 1)]
       IN  Minus(line(Len(closes)), emaOf(diffs, Min({signalPeriod, Len(diffs)})))

\* The square of the standard deviation over the window, times period^2.
Variance(window) ==
  LET n == Len(window)
  IN  AddUp([i \in DOMAIN window |-> (n * window[i] - AddUp(window)) * (n * window[i] - AddUp(window))])

\* Which band the last close has left: 1 above the upper, -1 below the lower.
bollinger(closes, period, mult) ==
  IF sma(closes, period) = Null THEN Null
  ELSE LET window == LastN(closes, period)
           dev    == period * Last(closes) - AddUp(window)    \* (last - mid) * period
       IN  IF dev * dev * period > mult * mult * Variance(window)
           THEN <<IF dev > 0 THEN 1 ELSE -1>> ELSE <<0>>

\* The square of the standard deviation of the last `period` returns.
volatilitySquared(closes, period) ==
  IF Len(closes) < period + 1 THEN Null
  ELSE LET rets == [k \in 1..period |->
                      LET i == Len(closes) - period + k
                      IN  <<closes[i] - closes[i - 1], closes[i - 1]>>]
           mean == <<SumOf(rets)[1], SumOf(rets)[2] * period>>
           sq   == SumOf([k \in 1..period |-> LET d == Minus(rets[k], mean)
                                             IN  <<d[1] * d[1], d[2] * d[2]>>])
       IN  <<sq[1], sq[2] * period>>

\* Least-squares slope; x(i) is twice the distance of i from the middle.
trendSlope(closes, period) ==
  IF Len(closes) < period THEN Null
  ELSE LET window == LastN(closes, period)
           x(i)   == 2 * (i - 1) - (period - 1)
           num    == AddUp([i \in 1..period |-> x(i) * (period * window[i] - AddUp(window))])
           den    == AddUp([i \in 1..period |-> x(i) * x(i)])
       IN  IF den = 0 THEN Whole(0) ELSE <<2 * num, period * den>>

volumeRatio(volumes, period) ==
  LET avg == sma(volumes, period)
  IN  IF avg = Null \/ avg[1] = 0 THEN Null ELSE <<Last(volumes) * avg[2], avg[1]>>

AbsVal(x) == IF x < 0 THEN -x ELSE x

atr(highs, lows, closes, period) ==
  IF Len(closes) < period + 1 \/ Len(highs) # Len(closes) \/ Len(lows) # Len(closes) THEN Null
  ELSE LET tr(i) == Max({highs[i] - lows[i], AbsVal(highs[i] - closes[i - 1]),
                         AbsVal(lows[i] - closes[i - 1])})
       IN  <<AddUp([k \in 1..period |-> tr(Len(closes) - period + k)]), period>>

vwap(prices, volumes) ==
  IF Len(prices) = 0 \/ Len(prices) # Len(volumes) \/ AddUp(volumes) = 0 THEN Null
  ELSE <<AddUp([i \in DOMAIN prices |-> prices[i] * volumes[i]]), AddUp(volumes)>>

\* The whole set for a candle window, with the periods of the instance.
computeIndicators(candles, p) ==
  LET closes  == [i \in DOMAIN candles |-> candles[i].close]
      highs   == [i \in DOMAIN candles |-> candles[i].high]
      lows    == [i \in DOMAIN candles |-> candles[i].low]
      volumes == [i \in DOMAIN candles |-> candles[i].volume]
      typical == [i \in DOMAIN candles |-> candles[i].high + candles[i].low + candles[i].close]
      vwap3   == vwap(typical, volumes)                     \* three times the typical price
  IN  [ema |-> ema(closes, p.fast), sma |-> sma(closes, p.slow), rsi |-> rsi(closes, p.rsi),
       macd |-> macdHist(closes, p.fast, p.slow, p.signal),
       bollinger |-> bollinger(closes, p.slow, 1),
       volatility |-> volatilitySquared(closes, p.rsi), volumeRatio |-> volumeRatio(volumes, p.slow),
       trendSlope |-> trendSlope(closes, p.slow), atr |-> atr(highs, lows, closes, p.rsi),
       vwap |-> IF vwap3 = Null THEN Null ELSE <<vwap3[1], 3 * vwap3[2]>>]
=============================================================================
