----------------------------- MODULE MarketData -----------------------------
(***************************************************************************)
(* The data layer in operation: WsCollector on its WebSocket transport     *)
(* appends what it parses to the raw store, and the feature store reads    *)
(* the raw store as of a point in time, through its cache.                 *)
(*   packages/data-layer/src/{collector,landing,query}                     *)
(*   packages/feature-store/src/{cache,compute,registry,resolver,          *)
(*     features.samples}.ts                                                *)
(* connect() is pending until the socket opens (the transport listens to   *)
(* nothing else before), a closed socket starts one backoff timer, and     *)
(* records may arrive long after their event time.                         *)
(***************************************************************************)
EXTENDS MarketSeries, Filters

CONSTANTS MaxClock,        \* bound: ticks of the clock
          MaxMessages,     \* bound: messages received
          Prices, Delays,  \* what trades carry: their price, their age on arrival
          Heartbeat,       \* heartbeatMs, in ticks
          MaxBackoff       \* maxBackoffMs, in units of the first delay

ASSUME MarketAssumption == /\ {MaxClock, MaxMessages, Heartbeat} \subseteq Nat
                           /\ MaxBackoff \in Nat \ {0} /\ Prices \subseteq Nat \ {0} /\ Delays \subseteq Nat

VARIABLES clock,
          opening,         \* connect() calls whose socket has not opened
          live,            \* sockets that deliver to onMessage and onClose
          waiting,         \* backoff timers
          life,            \* "new", "started", "stopped" (closed = true), "crashed"
          backoff, lastMsgMs,
          heard, joined,   \* ghosts: the last message, the last subscription
          seq,             \* the counter of parse
          records,         \* InMemoryRawStore.records
          cache            \* InMemoryFeatureCache, by <<feature, asOf>>

feed == <<opening, live, waiting, life, backoff, lastMsgMs, heard, joined>>
vars == <<clock, feed, seq, records, cache>>

Init ==
  /\ clock = 0 /\ opening = 0 /\ live = 0 /\ waiting = 0 /\ life = "new"
  /\ backoff = 1 /\ lastMsgMs = 0 /\ heard = 0 /\ joined = 0
  /\ seq = 0 /\ records = <<>> /\ cache = <<>>

-----------------------------------------------------------------------------
(* WsCollector *)

\* start() runs connectLoop up to its await.
Start ==
  /\ life = "new"
  /\ life' = "started" /\ opening' = 1
  /\ UNCHANGED <<clock, live, waiting, backoff, lastMsgMs, heard, joined, seq, records, cache>>

\* The socket opens: the handlers are installed, connectLoop subscribes.
Opens ==
  /\ opening > 0
  /\ opening' = opening - 1 /\ live' = live + 1
  /\ lastMsgMs' = clock /\ joined' = clock
  /\ UNCHANGED <<clock, waiting, life, backoff, heard, seq, records, cache>>

\* Mutated form of Stamp: the time of the event for the time of its arrival.
StampByEvent(time) == time
Stamp(time) == clock

\* parse: a trade becomes a record; anything else only uses up a number.
OnMessage(trade, time, price) ==
  /\ live > 0 /\ seq < MaxMessages
  /\ seq' = seq + 1
  /\ records' = IF trade THEN Append(records, [time |-> time, ingest |-> Stamp(time), seq |-> seq + 1,
                                               price |-> price, volume |-> 1])
                ELSE records
  /\ lastMsgMs' = clock /\ heard' = clock /\ backoff' = 1
  /\ UNCHANGED <<clock, opening, live, waiting, life, joined, cache>>

NextBackoff == Min({2 * backoff, MaxBackoff})

\* Mutated form of OnClose: a second timer for the same close.
OnCloseTwice ==
  /\ live > 0 /\ live' = live - 1
  /\ waiting' = waiting + 2 /\ backoff' = NextBackoff
  /\ UNCHANGED <<clock, opening, life, lastMsgMs, heard, joined, seq, records, cache>>
\* The close event; nothing follows it once the collector is closed.
OnClose ==
  /\ live > 0 /\ live' = live - 1
  /\ IF life = "stopped" THEN UNCHANGED <<waiting, backoff>>
     ELSE waiting' = waiting + 1 /\ backoff' = NextBackoff
  /\ UNCHANGED <<clock, opening, life, lastMsgMs, heard, joined, seq, records, cache>>

\* Mutated form of Retry: connectLoop does not look at `closed`.
RetryAlways ==
  /\ waiting > 0 /\ waiting' = waiting - 1 /\ opening' = opening + 1
  /\ UNCHANGED <<clock, live, life, backoff, lastMsgMs, heard, joined, seq, records, cache>>
\* The backoff ends.  A factory that throws rejects a promise nobody handles,
\* which ends the process.
Retry ==
  /\ waiting > 0 /\ waiting' = waiting - 1
  /\ \/ life = "stopped" /\ UNCHANGED <<opening, life>>
     \/ life = "started" /\ opening' = opening + 1 /\ UNCHANGED life
     \/ life = "started" /\ life' = "crashed" /\ UNCHANGED opening
  /\ UNCHANGED <<clock, live, backoff, lastMsgMs, heard, joined, seq, records, cache>>

isStale == clock - lastMsgMs > Heartbeat

\* stop(): a socket closed before it opened never does; an open one reports
\* its close later.
Stop ==
  /\ life = "started"
  /\ life' = "stopped" /\ opening' = 0
  /\ UNCHANGED <<clock, live, waiting, backoff, lastMsgMs, heard, joined, seq, records, cache>>

Tick ==
  /\ clock < MaxClock /\ clock' = clock + 1
  /\ UNCHANGED <<feed, seq, records, cache>>

-----------------------------------------------------------------------------
(* As-of reads and features *)

\* RawStore.asOf and queryAsOf on a sequence of records.
asOf(recs, eventMs, ingestMs) ==
  Filter(recs, {r \in ToSet(recs) : r.time <= eventMs /\ r.ingest <= ingestMs})

NULL == <<>>                                      \* a number is a sequence of one
Timeframe == 2
Plans == {<<"close">>, <<"close", "range", "rangePct">>}      \* resolveSet of the sample features

\* The transforms of the sample features; a ratio is kept as its two terms.
Transform(feature, raw, time, upstream) ==
  LET candles == reconstructCandles(raw, Timeframe, time)
      latest  == Last(candles)
  IN  CASE feature = "close" ->
             IF "GapDetected" \in assessQuality(raw).states \/ candles = <<>> THEN NULL ELSE <<latest.close>>
        [] feature = "range" -> IF candles = <<>> THEN NULL ELSE <<latest.high - latest.low>>
        [] feature = "rangePct" ->
             IF NULL \in {upstream["close"], upstream["range"]} THEN NULL
             ELSE upstream["range"] \o upstream["close"]

Input(time) == normalizeInput(asOf(records, time, clock))

\* A new entry; one that is there stays.
Added(f, key, value) == [k \in DOMAIN f \cup {key} |-> IF k \in DOMAIN f THEN f[k] ELSE value]

\* computeFeatures: in the order of the plan, from the cache when the key is
\* there; a new entry remembers (ghost) the records known when it was made.
WithFeature(time, acc, feature) ==
  LET key   == <<feature, time>>
      value == IF key \in DOMAIN acc.cache THEN acc.cache[key].value
               ELSE Transform(feature, Input(time), time, acc.values)
  IN  [values |-> Added(acc.values, feature, value),
       cache  |-> Added(acc.cache, key, [value |-> value, known |-> Len(records)])]

computeFeatures(plan, time) ==
  LET done[k \in 0 .. Len(plan)] ==
        IF k = 0 THEN [values |-> <<>>, cache |-> cache] ELSE WithFeature(time, done[k - 1], plan[k])
  IN  done[Len(plan)]

Compute(plan, time) ==
  /\ life # "crashed" /\ time <= clock
  /\ cache' = computeFeatures(plan, time).cache
  /\ UNCHANGED <<clock, feed, seq, records>>

Next ==
  /\ life # "crashed"
  /\ \/ Start \/ Opens \/ OnClose \/ Retry \/ Stop \/ Tick
     \/ \E d \in Delays, p \in Prices : d <= clock /\ OnMessage(TRUE, clock - d, p)
     \/ OnMessage(FALSE, clock, 0)
     \/ \E plan \in Plans, time \in {t \in 0..clock : t > 0 /\ t % Timeframe = 0} : Compute(plan, time)

(* Timers fire, and a socket that was closed reports it. *)
Fairness == WF_vars(life # "crashed" /\ Retry) /\ WF_vars(life = "stopped" /\ OnClose)
Spec == Init /\ [][Next]_vars /\ Fairness

-----------------------------------------------------------------------------

(* WsCollector holds exactly one feed from start() to stop() or to a       *)
(* crash: a handshake, an open socket or a backoff, never two of them (the *)
(* store would get every message twice) and never none.                    *)
OneFeed ==
  /\ opening + live + waiting <= 1
  /\ life = "started" => opening + live + waiting = 1

(* isStale() never accuses a feed that spoke within the heartbeat window,  *)
(* and always reports one that neither spoke nor was subscribed again.     *)
StaleMeansSilence ==
  /\ isStale => clock - heard > Heartbeat
  /\ clock - Max({heard, joined}) > Heartbeat => isStale

(* The feed is one, and is called stale exactly when it is silent.         *)
FeedIsHonest == OneFeed /\ StaleMeansSilence

(* INV-T1 in both times: what an as-of read answers for an arrival time    *)
(* that has passed never changes, however late records arrive afterwards.  *)
AsOfReadsAreStable ==
  [][\A e \in 0..clock, i \in 0..(clock - 1) : asOf(records', e, i) = asOf(records, e, i)]_vars

\* The features a feature is made of, and its value computed without the cache.
Sources(feature) == IF feature = "rangePct" THEN {"close", "range"} ELSE {feature}
Recomputed(feature, time) ==
  Transform(feature, Input(time), time, [f \in {"close", "range"} |-> Transform(f, Input(time), time, <<>>)])

(* INV-T4, as far as it holds: a cached value equals a recompute from the  *)
(* raw store UNLESS a record of its time or before has come in since it,   *)
(* or a feature it was made of, was cached.  After such a late record the  *)
(* cache goes on answering the old value, against cache.ts:8 ("correctness *)
(* never depends on the cache"): its key has no arrival time.              *)
CacheEqualsRecomputeUnlessLate ==
  \A key \in DOMAIN cache :
    (\A f \in Sources(key[1]), k \in DOMAIN records :
       k > cache[<<f, key[2]>>].known => records[k].time > key[2])
    => cache[key].value = Recomputed(key[1], key[2])

(* A derived feature is made of the values a reader finds beside it, even  *)
(* when these were cached at different moments, so that together they      *)
(* describe no state the store was ever in.                                *)
DerivedFeaturesMatchTheirSources ==
  \A key \in DOMAIN cache : key[1] = "rangePct" =>
    LET close == cache[<<"close", key[2]>>].value
        range == cache[<<"range", key[2]>>].value
    IN  cache[key].value = IF NULL \in {close, range} THEN NULL ELSE range \o close

(* What is read for a past moment, from the store as of an arrival time or *)
(* from the feature cache, changes or goes stale only as said above.       *)
PastIsFixed == AsOfReadsAreStable /\ [](CacheEqualsRecomputeUnlessLate /\ DerivedFeaturesMatchTheirSources)

(* After stop() the feed ends for good: no handshake, socket or timer.     *)
StopEndsFeed == (life = "stopped") ~> [](opening + live + waiting = 0)
=============================================================================
