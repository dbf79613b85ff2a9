---------------------------- MODULE MarketSeries ----------------------------
(***************************************************************************)
(* The pure functions of the data layer and the feature store on market    *)
(* series: candle reconstruction, the candle bridge of the paper pipeline, *)
(* the REST cross-check, gap detection and input quality.                  *)
(*   packages/data-layer/src/{candles,gaps}                                *)
(*   packages/paper/src/candle-bridge.ts, packages/runtime/src/snapshot.ts *)
(*   packages/feature-store/src/quality.ts                                 *)
(* A trade is [time, price, volume, seq]; a candle keeps the fields the    *)
(* code compares.                                                          *)
(***************************************************************************)
EXTENDS Integers, Sequences, FiniteSets, Functions, SequencesExt, FiniteSetsExt, Filters

windowStart(ts, tf) == (ts \div tf) * tf

ByTimeThenSeq(a, b) == a.time < b.time \/ (a.time = b.time /\ a.seq < b.seq)

\* A set of numbers in ascending order: the keys of a Map, or a Set, sorted.
AscendingSeq(S) == [k \in 1..Cardinality(S) |-> CHOOSE x \in S : Cardinality({y \in S : y <= x}) = k]

WindowsOf(trades, tf) == AscendingSeq({windowStart(t.time, tf) : t \in ToSet(trades)})
InWindow(trades, tf, w) == Filter(trades, {t \in ToSet(trades) : windowStart(t.time, tf) = w})

\* The candle of the window w whose trades are ts, taken in that order.
CandleFrom(w, ts) ==
  LET prices == {ts[i].price : i \in DOMAIN ts}
  IN  [open_time |-> w, open |-> ts[1].price, close |-> ts[Len(ts)].price, high |-> Max(prices), low |-> Min(prices),
       volume |-> SumFunction([i \in DOMAIN ts |-> ts[i].volume])]

\* The trades of the windows that are over at asOf.
ClosedAt(trades, tf, asOf) == Filter(trades, {t \in ToSet(trades) : windowStart(t.time, tf) + tf <= asOf})

\* Mutated form of reconstructCandles: open and close by arrival, not by time.
reconstructInArrivalOrder(trades, tf, asOf) ==
  LET closed  == ClosedAt(trades, tf, asOf)
      windows == WindowsOf(closed, tf)
  IN  [i \in DOMAIN windows |-> CandleFrom(windows[i], InWindow(closed, tf, windows[i]))]
reconstructCandles(trades, tf, asOf) ==
  LET closed  == ClosedAt(trades, tf, asOf)
      windows == WindowsOf(closed, tf)
  IN  [i \in DOMAIN windows |-> CandleFrom(windows[i], StableSort(InWindow(closed, tf, windows[i]), ByTimeThenSeq))]

\* A trade without a price is skipped.
TradesOf(trades, asOf) == Filter(trades, {t \in ToSet(trades) : t.time <= asOf /\ t.price # 0})
\* The live runtime's own candle builder: in order of arrival, the window
\* that is still open included, the last `count` windows.
buildMarketSnapshot(trades, tf, asOf, count) ==
  LET past    == TradesOf(trades, asOf)
      windows == WindowsOf(past, tf)
      all     == [i \in DOMAIN windows |-> CandleFrom(windows[i], InWindow(past, tf, windows[i]))]
  IN  SubSeq(all, Max({1, Len(all) - count + 1}), Len(all))

\* Why toSignalCandle rejects a candle; "none" when it converts it.
rejectReason(c) ==
  IF c.open_time < 0 THEN "invalid-timestamp"
  ELSE IF c.volume < 0 THEN "negative-volume"
  ELSE IF c.high < c.low THEN "high-below-low"
  ELSE IF c.close > c.high \/ c.close < c.low THEN "close-out-of-range"
  ELSE IF c.open > c.high \/ c.open < c.low THEN "open-out-of-range"
  ELSE "none"

toSignalCandles(candles) ==
  [candles  |-> Filter(candles, {c \in ToSet(candles) : rejectReason(c) = "none"}),
   rejected |-> {i \in DOMAIN candles : rejectReason(candles[i]) # "none"}]

\* The <<window, field>> pairs where the two sources differ; a window the
\* REST side lacks is skipped.
crosscheckCandles(reconstructed, rest, tolerance) ==
  LET Differs(c, f) ==
        LET same == {k \in DOMAIN rest : rest[k].open_time = c.open_time}
        IN  /\ same # {}
            /\ LET d == c[f] - rest[Max(same)][f] IN d > tolerance \/ -d > tolerance
  IN  UNION {{<<c.open_time, f>> : f \in {g \in {"open", "high", "low", "close", "volume"} : Differs(c, g)}} :
               c \in ToSet(reconstructed)}

-----------------------------------------------------------------------------
(* Gaps and input quality *)

MissingBetween(prev, cur) == IF cur - prev > 1 THEN cur - prev - 1 ELSE 0

\* detectSeqGaps on the sorted numbers, summed as assessQuality sums it.
missingSeqs(seqs) ==
  LET sorted == StableSort(seqs, <)
  IN  SumFunction([i \in 2..Len(seqs) |-> MissingBetween(sorted[i - 1], sorted[i])])

\* The gaps, each under the place of the candle it ends at.
detectCandleGaps(candles, tf) ==
  LET times == AscendingSeq({c.open_time : c \in ToSet(candles)})
  IN  [i \in {k \in 2..Len(times) : times[k] - times[k - 1] > tf} |->
         [from |-> times[i - 1], to |-> times[i], missing |-> (times[i] - times[i - 1]) \div tf - 1]]

assessQuality(records) ==
  LET duplicates == {i \in DOMAIN records : \E j \in 1..(i - 1) : records[j].seq = records[i].seq}
      outOfOrder == {i \in DOMAIN records : \E j \in 1..(i - 1) : records[j].time > records[i].time}
      gaps       == missingSeqs([i \in DOMAIN records |-> records[i].seq])
      states     == {q \in {"Duplicated", "OutOfOrder", "GapDetected"} :
                       \/ q = "Duplicated" /\ duplicates # {}
                       \/ q = "OutOfOrder" /\ outOfOrder # {}
                       \/ q = "GapDetected" /\ gaps > 0}
  IN  [duplicates |-> Cardinality(duplicates), outOfOrder |-> Cardinality(outOfOrder), gaps |-> gaps,
       states |-> IF states = {} THEN {"Complete"} ELSE states]

normalizeInput(records) ==
  LET first(k) == \A j \in 1..(k - 1) : records[j].seq # records[k].seq
      kept     == AscendingSeq({k \in DOMAIN records : first(k)})
  IN  StableSort([i \in DOMAIN kept |-> records[kept[i]]], ByTimeThenSeq)
=============================================================================
