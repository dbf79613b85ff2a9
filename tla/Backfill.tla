------------------------------ MODULE Backfill ------------------------------
(***************************************************************************)
(* The REST backfill of candles, which pages backward from `to`, and its   *)
(* rate limiter.  The exchange's history is the sequence of the times its  *)
(* candles open, which increases.                                          *)
(*   packages/data-layer/src/backfill/{rest-client,upbit-rest}.ts          *)
(***************************************************************************)
EXTENDS Integers, Sequences, SequencesExt, FiniteSetsExt, Filters

\* The exchange (external) answers the last `pageSize` candles that open
\* before the cursor.
getCandles(server, cursor, pageSize) ==
  LET before == Filter(server, {t \in ToSet(server) : t < cursor})
  IN  SubSeq(before, Max({1, Len(before) - pageSize + 1}), Len(before))

\* Mutated form of backfillStep: the cursor moved past the earliest candle.
backfillStepSkipping(page, cursor) == Min(ToSet(page)) - 1
backfillStep(page, cursor) == Min(ToSet(page))

\* One turn of the loop, if there is one.
PageBack(server, from, pageSize, s) ==
  LET page == getCandles(server, s.cursor, pageSize)
  IN  IF s.done \/ s.cursor <= from THEN s
      ELSE IF page = <<>> THEN [cursor |-> s.cursor, out |-> s.out, done |-> TRUE]
      ELSE IF Min(ToSet(page)) >= s.cursor THEN [cursor |-> s.cursor, out |-> s.out \o page, done |-> TRUE]
      ELSE [cursor |-> backfillStep(page, s.cursor), out |-> s.out \o page, done |-> FALSE]

\* A turn that goes on has brought a candle that no other turn brings.
backfillCandles(server, from, to, pageSize) ==
  LET after[k \in 0..Len(server) + 1] ==
        IF k = 0 THEN [cursor |-> to, out |-> <<>>, done |-> FALSE]
        ELSE PageBack(server, from, pageSize, after[k - 1])
      out == after[Len(server) + 1].out
  IN  StableSort(Filter(out, {t \in ToSet(out) : t >= from}), LAMBDA a, b : a < b)

\* RateLimiter with its tokens counted in the time they take to earn.
Refill(limiter, now, period, burst) == Min({burst * period, limiter.credit + now - limiter.last})

\* acquireDelayMs: a token taken and no delay, or a delay and no token taken.
acquireDelay(limiter, now, period, burst) ==
  LET credit == Refill(limiter, now, period, burst)
  IN  IF credit >= period THEN [delay |-> 0, credit |-> credit - period]
      ELSE [delay |-> period - credit, credit |-> credit]

\* When backfillCandles sends its requests: it waits the delay and sends,
\* without asking again; latencies are the times the answers take.
Request(limiter, latency, period, burst) ==
  LET a    == acquireDelay(limiter, limiter.now, period, burst)
      sent == limiter.now + a.delay
  IN  [credit |-> a.credit, last |-> limiter.now, now |-> sent + latency, sent |-> Append(limiter.sent, sent)]

sendTimes(latencies, period, burst) ==
  LET after[k \in 0..Len(latencies)] ==
        IF k = 0 THEN [credit |-> burst * period, last |-> 0, now |-> 0, sent |-> <<>>]
        ELSE Request(after[k - 1], latencies[k], period, burst)
  IN  after[Len(latencies)].sent
=============================================================================
