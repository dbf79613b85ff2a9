-------------------------- MODULE MarketDataProofs --------------------------
(***************************************************************************)
(* Proofs about MarketData, for every number of ticks and messages, every  *)
(* delay and price, every heartbeat and every backoff: the feed is one and *)
(* is called stale when it is silent, and the past does not change.        *)
(***************************************************************************)
EXTENDS MarketData, FoldTheorems

-----------------------------------------------------------------------------
(* The feed. *)

FeedTyped ==
    /\ clock \in Nat /\ opening \in Nat /\ live \in Nat /\ waiting \in Nat
    /\ lastMsgMs \in Nat /\ heard \in Nat /\ joined \in Nat
    /\ life \in {"new", "started", "stopped", "crashed"}

\* What makes OneFeed inductive is that nothing exists before start() and that
\* stop() leaves no handshake; and the one time the code keeps is the later of
\* the last message and the last subscription.
FeedInv ==
    /\ FeedTyped /\ OneFeed
    /\ life = "new" => opening + live + waiting = 0
    /\ life \in {"stopped", "crashed"} => opening = 0
    /\ lastMsgMs = (IF heard > joined THEN heard ELSE joined)
    /\ heard <= clock /\ joined <= clock

\* Every handler hands the one feed on or ends it.
LEMMA FeedKept == ASSUME FeedInv, [Next]_vars PROVE FeedInv'
<1> USE DEF FeedInv, FeedTyped, OneFeed
<1>1. CASE Start
  BY <1>1 DEF Start
<1>2. CASE Opens
  BY <1>2 DEF Opens
<1>3. CASE OnClose
  BY <1>3 DEF OnClose
<1>4. CASE Retry
  BY <1>4 DEF Retry
<1>5. CASE Stop
  BY <1>5 DEF Stop
<1>6. CASE Tick
  BY <1>6 DEF Tick, feed
<1>7. ASSUME NEW trade, NEW time, NEW price, OnMessage(trade, time, price) PROVE FeedInv'
  BY <1>7 DEF OnMessage
<1>8. ASSUME NEW plan, NEW time, Compute(plan, time) PROVE FeedInv'
  <2>1. UNCHANGED <<clock, feed>>
    BY <1>8, Zenon DEF Compute
  <2> QED
    BY <2>1 DEF feed
<1>9. CASE UNCHANGED vars
  BY <1>9 DEF vars, feed
<1> QED
  BY <1>1, <1>2, <1>3, <1>4, <1>5, <1>6, <1>7, <1>8, <1>9 DEF Next

\* WsCollector holds exactly one feed from start() to stop() or a crash, and
\* isStale() says so exactly when it is silent, for every sequence of
\* handshakes, closes, backoffs and messages.
THEOREM FeedStaysHonest == Spec => []FeedIsHonest
<1>1. Init => FeedInv
  BY DEF Init, FeedInv, FeedTyped, OneFeed
<1>2. FeedInv /\ [Next]_vars => FeedInv'
  BY FeedKept
<1>3. FeedInv => FeedIsHonest
  <2> SUFFICES ASSUME FeedInv PROVE FeedIsHonest
    OBVIOUS
  <2>1. /\ heard \in Nat /\ joined \in Nat /\ clock \in Nat /\ Heartbeat \in Nat
        /\ lastMsgMs = (IF heard > joined THEN heard ELSE joined)
    BY MarketAssumption DEF FeedInv, FeedTyped
  <2>2. Max({heard, joined}) = lastMsgMs
    <3>1. lastMsgMs \in {heard, joined} /\ \A y \in {heard, joined} : lastMsgMs >= y
      BY <2>1
    <3>2. PICK m : m = Max({heard, joined})
      OBVIOUS
    <3>3. m \in {heard, joined} /\ \A y \in {heard, joined} : m >= y
      BY <3>1, <3>2 DEF Max
    <3> QED
      BY <2>1, <3>1, <3>2, <3>3
  <2>3. StaleMeansSilence
    BY <2>1, <2>2 DEF StaleMeansSilence, isStale
  <2> QED
    BY <2>3 DEF FeedInv, FeedIsHonest
<1> QED
  BY <1>1, <1>2, <1>3, PTL DEF Spec

-----------------------------------------------------------------------------
(***************************************************************************)
(* The past.  Records are stamped with the time of their arrival, so one   *)
(* that arrives is after every arrival time that has passed, whatever its  *)
(* event time; and a cache entry, once made, stays what its transform made *)
(* of the records known then.                                              *)
(***************************************************************************)
RawRecords == [time : Nat, ingest : Nat, seq : Nat, price : Nat, volume : Nat]
ArrivedBy(recs, now) == \A i \in 1 .. Len(recs) : recs[i].ingest <= now
RecordsInv ==
    /\ clock \in Nat /\ seq \in Nat
    /\ records \in Seq(RawRecords) /\ ArrivedBy(records, clock)

\* A record of a later time, or one that arrived after ingestMs, does not show in
\* an as-of read.
LEMMA AsOfAppend ==
    ASSUME NEW s \in Seq(RawRecords), NEW x \in RawRecords, NEW e, NEW i, ~(x.time <= e /\ x.ingest <= i)
    PROVE  asOf(Append(s, x), e, i) = asOf(s, e, i)
<1>1. PICK t, keep, keep2 : /\ t = Append(s, x)
                            /\ keep = {r \in ToSet(s) : r.time <= e /\ r.ingest <= i}
                            /\ keep2 = {r \in ToSet(t) : r.time <= e /\ r.ingest <= i}
  OBVIOUS
<1>2. /\ Len(s) \in Nat /\ DOMAIN s = 1 .. Len(s) /\ DOMAIN t = 1 .. Len(s) + 1
      /\ \A k \in 1 .. Len(s) : t[k] = s[k]
  BY <1>1
<1>3. ASSUME NEW k \in 1 .. Len(s) PROVE s[k] \in keep <=> s[k] \in keep2
  <2>1. k \in DOMAIN s /\ k \in DOMAIN t /\ t[k] = s[k]
    BY <1>2
  <2>2. s[k] \in ToSet(s) /\ s[k] \in ToSet(t)
    BY <2>1, Zenon DEF ToSet
  <2> QED
    BY <1>1, <2>2, Zenon
<1>4. x \notin keep2
  BY <1>1, Zenon
<1>5. Filter(t, keep2) = Filter(s, keep)
  <2>1. \A k \in 1 .. Len(s) : s[k] \in keep <=> s[k] \in keep2
    BY <1>3, Zenon
  <2>2. Filter(Append(s, x), keep2) = IF x \in keep2 THEN Append(Filter(s, keep), x) ELSE Filter(s, keep)
    BY ONLY s \in Seq(RawRecords), x \in RawRecords, <2>1, FilterGrows
  <2>3. Filter(Append(s, x), keep2) = Filter(s, keep)
    BY <1>4, <2>2, Zenon
  <2> QED
    BY <1>1, <2>3, Zenon
<1> QED
  BY <1>1, <1>5, Zenon DEF asOf

\* Once all records have arrived, a later look sees no more.
LEMMA AsOfLater ==
    ASSUME NEW s \in Seq(RawRecords), NEW e, NEW now \in Nat, NEW later \in Nat, now <= later, ArrivedBy(s, now)
    PROVE  asOf(s, e, later) = asOf(s, e, now)
<1>1. PICK keep, keep2 : /\ keep = {r \in ToSet(s) : r.time <= e /\ r.ingest <= later}
                         /\ keep2 = {r \in ToSet(s) : r.time <= e /\ r.ingest <= now}
  OBVIOUS
<1>2. ASSUME NEW k \in 1 .. Len(s) PROVE s[k] \in keep <=> s[k] \in keep2
  <2>1. s[k].ingest \in Nat /\ s[k].ingest <= now
    <3>1. s[k] \in RawRecords
      OBVIOUS
    <3> QED
      BY <3>1 DEF ArrivedBy, RawRecords
  <2>2. s[k].ingest <= later
    BY <2>1
  <2> QED
    BY <1>1, <2>1, <2>2, Zenon
<1>3. Filter(s, keep) = Filter(s, keep2)
  BY <1>2, FilterAgrees
<1> QED
  BY <1>1, <1>3, Zenon DEF asOf

\* Time goes on, and a record comes in with the time of its arrival or none.
LEMMA RecordsStep ==
    ASSUME RecordsInv, [Next]_vars
    PROVE  /\ clock' \in Nat /\ clock <= clock'
           /\ \/ records' = records
              \/ clock' = clock /\ \E x \in RawRecords : x.ingest = clock /\ records' = Append(records, x)
           /\ seq' \in Nat
<1>0. clock \in Nat /\ seq \in Nat
  BY DEF RecordsInv
<1>1. ASSUME Start \/ Opens \/ OnClose \/ Retry \/ Stop PROVE UNCHANGED <<clock, seq, records>>
  BY <1>1 DEF Start, Opens, OnClose, Retry, Stop
<1>2. CASE Tick
  <2>1. clock' = clock + 1 /\ seq' = seq /\ records' = records
    BY <1>2 DEF Tick
  <2> QED
    BY <1>0, <2>1
<1>3. ASSUME NEW d \in Delays, NEW p \in Prices, d <= clock, OnMessage(TRUE, clock - d, p)
      PROVE  /\ clock' = clock /\ seq' = seq + 1
             /\ \E x \in RawRecords : x.ingest = clock /\ records' = Append(records, x)
  <2>1. PICK x : x = [time |-> clock - d, ingest |-> clock, seq |-> seq + 1, price |-> p, volume |-> 1]
    OBVIOUS
  <2>2. clock - d \in Nat /\ p \in Nat /\ seq + 1 \in Nat
    BY <1>0, <1>3, MarketAssumption
  <2>3. x \in RawRecords /\ x.ingest = clock
    BY <1>0, <2>1, <2>2 DEF RawRecords
  <2>4. records' = Append(records, x) /\ clock' = clock /\ seq' = seq + 1
    BY <1>3, <2>1, Zenon DEF OnMessage, Stamp
  <2> QED
    BY <2>3, <2>4, Zenon
<1>4. CASE OnMessage(FALSE, clock, 0)
  <2>1. clock' = clock /\ seq' = seq + 1 /\ records' = records
    BY <1>4 DEF OnMessage
  <2> QED
    BY <1>0, <2>1
<1>5. ASSUME NEW plan, NEW time, Compute(plan, time) PROVE UNCHANGED <<clock, seq, records>>
  BY <1>5, Zenon DEF Compute
<1>7. \/ UNCHANGED <<clock, seq, records>> \/ Tick \/ OnMessage(FALSE, clock, 0)
      \/ \E d \in Delays, p \in Prices : d <= clock /\ OnMessage(TRUE, clock - d, p)
  BY <1>1, <1>5, Zenon DEF Next, vars
<1>8. ASSUME NEW d \in Delays, NEW p \in Prices, d <= clock, OnMessage(TRUE, clock - d, p)
      PROVE  /\ clock' \in Nat /\ clock <= clock'
             /\ clock' = clock /\ (\E x \in RawRecords : x.ingest = clock /\ records' = Append(records, x))
             /\ seq' \in Nat
  <2>1. clock' = clock /\ seq' = seq + 1
    BY <1>3, <1>8
  <2>2. \E x \in RawRecords : x.ingest = clock /\ records' = Append(records, x)
    BY <1>3, <1>8
  <2>3. clock' \in Nat /\ clock <= clock' /\ seq' \in Nat
    BY <1>0, <2>1
  <2> QED
    BY <2>1, <2>2, <2>3, Zenon
<1>9. CASE \E d \in Delays, p \in Prices : d <= clock /\ OnMessage(TRUE, clock - d, p)
  BY <1>8, <1>9, Zenon
<1>10. CASE UNCHANGED <<clock, seq, records>>
  BY <1>0, <1>10
<1> QED
  BY <1>2, <1>4, <1>7, <1>9, <1>10, Zenon

\* What is stored has arrived.
LEMMA RecordsKept == ASSUME RecordsInv, [Next]_vars PROVE RecordsInv'
<1>0. clock \in Nat /\ records \in Seq(RawRecords) /\ ArrivedBy(records, clock)
  BY DEF RecordsInv
<1>1. clock' \in Nat /\ clock <= clock' /\ seq' \in Nat
  BY RecordsStep
<1>a. \A i \in 1 .. Len(records) : records[i].ingest \in Nat /\ records[i].ingest <= clock
  <2>1. \A i \in 1 .. Len(records) : records[i] \in RawRecords
    BY <1>0
  <2> QED
    BY <1>0, <2>1 DEF ArrivedBy, RawRecords
<1>2. CASE records' = records
  <2>1. ArrivedBy(records, clock')
    BY <1>0, <1>1, <1>a DEF ArrivedBy
  <2> QED
    BY <1>0, <1>1, <1>2, <2>1, Zenon DEF RecordsInv, ArrivedBy
<1>3. ASSUME clock' = clock, NEW x \in RawRecords, x.ingest = clock, records' = Append(records, x)
      PROVE  RecordsInv'
  <2>1. PICK t : t = records'
    OBVIOUS
  <2>2. t \in Seq(RawRecords) /\ \A i \in 1 .. Len(t) : t[i] = x \/ \E k \in 1 .. Len(records) : t[i] = records[k]
    BY <1>0, <1>3, <2>1
  <2>3. \A i \in 1 .. Len(t) : t[i].ingest <= clock
    BY <1>0, <1>3, <1>a, <2>2
  <2> QED
    BY <1>1, <1>3, <2>1, <2>2, <2>3, Zenon DEF RecordsInv, ArrivedBy
<1> QED
  BY <1>2, <1>3, RecordsStep

\* INV-T1 in both times, for every pattern of arrivals: what an as-of read
\* answers for an arrival time that has passed never changes (InMemoryRawStore,
\* queryAsOf).
THEOREM AsOfReadsStay == Spec => AsOfReadsAreStable
<1> DEFINE Stable == \A e \in 0 .. clock, i \in 0 .. (clock - 1) : asOf(records', e, i) = asOf(records, e, i)
<1>1. Init => RecordsInv
  <2> SUFFICES ASSUME Init PROVE RecordsInv
    OBVIOUS
  <2>1. <<>> \in Seq(RawRecords) /\ Len(<<>>) = 0
    OBVIOUS
  <2> QED
    BY <2>1 DEF Init, RecordsInv, ArrivedBy
<1>2. RecordsInv /\ [Next]_vars => RecordsInv'
  BY RecordsKept
<1>3. RecordsInv /\ [Next]_vars => [Stable]_vars
  <2> SUFFICES ASSUME RecordsInv, [Next]_vars, NEW e \in 0 .. clock, NEW i \in 0 .. (clock - 1)
               PROVE  asOf(records', e, i) = asOf(records, e, i)
    OBVIOUS
  <2>1. CASE records' = records
    BY <2>1, Zenon
  <2>2. ASSUME NEW x \in RawRecords, x.ingest = clock, records' = Append(records, x)
        PROVE  asOf(records', e, i) = asOf(records, e, i)
    <3>1. ~(x.ingest <= i)
      BY <2>2 DEF RecordsInv
    <3>2. asOf(Append(records, x), e, i) = asOf(records, e, i)
      BY <3>1, AsOfAppend DEF RecordsInv
    <3> QED
      BY <2>2, <3>2, Zenon
  <2> QED
    BY <2>1, <2>2, RecordsStep
<1> QED
  BY <1>1, <1>2, <1>3, PTL DEF Spec, AsOfReadsAreStable

-----------------------------------------------------------------------------
(* The cache. *)

FeatureIds == {"close", "range", "rangePct"}
\* An entry is what its transform made of the records known when it was made.
EntryOk(key, entry, recs, now) ==
    /\ key \in FeatureIds \X Nat
    /\ entry.known \in 0 .. Len(recs)
    /\ key[1] # "rangePct" =>
         entry.value = Transform(key[1], normalizeInput(asOf(SubSeq(recs, 1, entry.known), key[2], now)), key[2], <<>>)
CacheOk(entries, recs, now) == \A key \in DOMAIN entries : EntryOk(key, entries[key], recs, now)

\* A ratio is made of the entries beside it.
Ratio(close, range) == IF NULL \in {close, range} THEN NULL ELSE range \o close
RatioOk(entries, key) ==
    key[1] = "rangePct" =>
      /\ <<"close", key[2]>> \in DOMAIN entries /\ <<"range", key[2]>> \in DOMAIN entries
      /\ entries[key].value = Ratio(entries[<<"close", key[2]>>].value, entries[<<"range", key[2]>>].value)
RatiosOk(entries) == \A key \in DOMAIN entries : RatioOk(entries, key)
PastInv == RecordsInv /\ CacheOk(cache, records, clock) /\ RatiosOk(cache)

\* While a plan is computed its values are those of the entries.
ValuesOk(acc, time) ==
    \A f \in DOMAIN acc.values : /\ <<f, time>> \in DOMAIN acc.cache
                                 /\ acc.cache[<<f, time>>].value = acc.values[f]

\* A ratio comes after what it is made of.
Ordered(plan) ==
    \A j \in 1 .. Len(plan) : plan[j] = "rangePct" => \E a, b \in 1 .. (j - 1) : plan[a] = "close" /\ plan[b] = "range"

LEMMA TransformIsRatio ==
    ASSUME NEW raw, NEW time, NEW up
    PROVE  Transform("rangePct", raw, time, up) = Ratio(up["close"], up["range"])
  BY DEF Transform, Ratio

\* Only the ratio looks at the features it is made of.
LEMMA TransformIsItsOwn ==
    ASSUME NEW f \in {"close", "range"}, NEW raw, NEW time, NEW up, NEW up2
    PROVE  Transform(f, raw, time, up) = Transform(f, raw, time, up2)
<1>1. CASE f = "close"
  BY <1>1 DEF Transform
<1>2. CASE f = "range"
  BY <1>2 DEF Transform
<1> QED
  BY <1>1, <1>2

\* Records of a later time do not show in an as-of read.
LEMMA AsOfOlder ==
    ASSUME NEW recs \in Seq(RawRecords), NEW n \in 0 .. Len(recs), NEW t \in Nat, NEW i,
           \A k \in DOMAIN recs : k > n => recs[k].time > t
    PROVE  asOf(SubSeq(recs, 1, n), t, i) = asOf(recs, t, i)
<1> DEFINE T == {m \in Nat : n + m <= Len(recs) => asOf(SubSeq(recs, 1, n + m), t, i) = asOf(SubSeq(recs, 1, n), t, i)}
<1>1. 0 \in T
  <2>1. n + 0 = n
    OBVIOUS
  <2> QED
    BY <2>1
<1>2. ASSUME NEW m \in Nat, m \in T PROVE m + 1 \in T
  <2> SUFFICES ASSUME n + (m + 1) <= Len(recs)
               PROVE  asOf(SubSeq(recs, 1, n + (m + 1)), t, i) = asOf(SubSeq(recs, 1, n), t, i)
    OBVIOUS
  <2>1. PICK q, s, x : q = n + m /\ s = SubSeq(recs, 1, q) /\ x = recs[q + 1]
    OBVIOUS
  <2>2. q \in Nat /\ q + 1 \in DOMAIN recs /\ q + 1 > n /\ n + (m + 1) = q + 1 /\ q <= Len(recs)
    BY <2>1
  <2>3. s \in Seq(RawRecords) /\ x \in RawRecords
    BY <2>1, <2>2
  <2>4. SubSeq(recs, 1, q + 1) = Append(s, x)
    BY <2>1, <2>2
  <2>5. ~(x.time <= t)
    <3>1. x.time \in Nat /\ x.time > t
      BY <2>1, <2>2, <2>3 DEF RawRecords
    <3> QED
      BY <3>1
  <2>6. asOf(Append(s, x), t, i) = asOf(s, t, i)
    BY <2>3, <2>5, AsOfAppend
  <2>7. asOf(s, t, i) = asOf(SubSeq(recs, 1, n), t, i)
    BY <1>2, <2>1, <2>2
  <2> QED
    BY <2>2, <2>4, <2>6, <2>7
<1> HIDE DEF T
<1>3. PICK m \in Nat : n + m = Len(recs)
  <2>1. Len(recs) - n \in Nat /\ n + (Len(recs) - n) = Len(recs)
    OBVIOUS
  <2> QED
    BY <2>1
<1>4. m \in T
  BY <1>1, <1>2, <1>3, SetInduction
<1>5. SubSeq(recs, 1, n + m) = recs
  BY <1>3
<1>6. n + m <= Len(recs)
  BY <1>3
<1> QED
  BY <1>4, <1>5, <1>6, Zenon DEF T

\* computeFeatures goes through the plan, one feature at a time.
FeatureRun(h, plan, time) ==
    /\ h[0] = [values |-> <<>>, cache |-> cache]
    /\ \A k \in 0 .. Len(plan) - 1 : h[k + 1] = WithFeature(time, h[k], plan[k + 1])
LEMMA FeatureSteps ==
    ASSUME NEW plan, Len(plan) \in Nat, NEW time
    PROVE  \E h : FeatureRun(h, plan, time) /\ h[Len(plan)] = computeFeatures(plan, time)
<1> DEFINE n == Len(plan)
           E(h, k) == [i \in 0 .. k |-> IF i = 0 THEN [values |-> <<>>, cache |-> cache]
                                        ELSE WithFeature(time, h[i - 1], plan[i])]
           T == {k \in Nat : \E h : h = E(h, k)}
<1>1. n \in Nat
  OBVIOUS
<1> HIDE DEF n
<1>2. 0 \in T
  <2> DEFINE h == [i \in 0 .. 0 |-> [values |-> <<>>, cache |-> cache]]
  <2>1. h = E(h, 0)
    OBVIOUS
  <2> HIDE DEF E, h
  <2> QED
    BY <2>1
<1>3. ASSUME NEW k \in Nat, k \in T PROVE k + 1 \in T
  <2>1. PICK g : g = E(g, k)
    <3> HIDE DEF E
    <3> QED
      BY <1>3
  <2> DEFINE h == [i \in 0 .. k + 1 |-> IF i = k + 1 THEN WithFeature(time, g[k], plan[k + 1]) ELSE g[i]]
  <2>2. ASSUME NEW i \in 0 .. k + 1
        PROVE  h[i] = IF i = 0 THEN [values |-> <<>>, cache |-> cache] ELSE WithFeature(time, h[i - 1], plan[i])
    <3>1. CASE i = k + 1
      <4>1. h[i] = WithFeature(time, g[k], plan[k + 1]) /\ h[i - 1] = g[k] /\ i # 0
        BY <3>1
      <4> HIDE DEF h
      <4> QED
        BY <4>1, <3>1
    <3>2. CASE i # k + 1 /\ i # 0
      <4>1. i \in 0 .. k /\ i - 1 \in 0 .. k + 1 /\ i - 1 # k + 1
        BY <3>2
      <4>2. h[i] = g[i] /\ h[i - 1] = g[i - 1]
        BY <3>2, <4>1
      <4>3. g[i] = WithFeature(time, g[i - 1], plan[i])
        BY <2>1, <3>2, <4>1
      <4> HIDE DEF h
      <4> QED
        BY <4>2, <4>3, <3>2
    <3>3. CASE i = 0
      <4>1. h[i] = g[0] /\ 0 \in 0 .. k
        BY <3>3
      <4>2. g[0] = [values |-> <<>>, cache |-> cache]
        BY <2>1, <4>1
      <4> HIDE DEF h
      <4> QED
        BY <4>1, <4>2, <3>3
    <3> QED
      BY <3>1, <3>2, <3>3
  <2>3. h = E(h, k + 1)
    <3> DEFINE g2 == E(h, k + 1)
    <3>1. \A i \in 0 .. k + 1 : g2[i] = h[i]
      <4> HIDE DEF h
      <4> QED
        BY <2>2
    <3>2. g2 = [i \in 0 .. k + 1 |-> g2[i]]
      OBVIOUS
    <3>3. h = [i \in 0 .. k + 1 |-> h[i]]
      OBVIOUS
    <3> HIDE DEF h, g2
    <3>4. g2 = h
      BY <3>1, <3>2, <3>3
    <3> QED
      BY <3>4 DEF g2
  <2> HIDE DEF h, E
  <2> QED
    BY <2>3
<1> HIDE DEF T
<1>4. n \in T
  BY <1>1, <1>2, <1>3, SetInduction
<1> DEFINE ch == CHOOSE h : h = E(h, n)
<1>5. ch = E(ch, n)
  <2> HIDE DEF E
  <2> QED
    BY <1>4 DEF T
<1>6. computeFeatures(plan, time) = ch[n]
  BY DEF computeFeatures, n
<1> HIDE DEF ch
<1>7. ch[0] = [values |-> <<>>, cache |-> cache]
  BY <1>1, <1>5
<1>8. ASSUME NEW k \in 0 .. n - 1 PROVE ch[k + 1] = WithFeature(time, ch[k], plan[k + 1])
  <2>1. k + 1 \in 0 .. n /\ k + 1 # 0 /\ (k + 1) - 1 = k
    BY <1>1
  <2>2. \A i \in 0 .. n : i # 0 => ch[i] = WithFeature(time, ch[i - 1], plan[i])
    BY <1>5
  <2>3. ch[k + 1] = WithFeature(time, ch[(k + 1) - 1], plan[k + 1])
    BY <2>1, <2>2
  <2> QED
    BY <2>1, <2>3
<1>9. FeatureRun(ch, plan, time)
  BY <1>7, <1>8 DEF FeatureRun, n
<1> QED
  BY <1>6, <1>9 DEF n

\* A feature computed is an entry made of what is known now.
LEMMA WithFeatureOk ==
    ASSUME RecordsInv, NEW time \in Nat, NEW acc, NEW f \in FeatureIds, CacheOk(acc.cache, records, clock)
    PROVE  CacheOk(WithFeature(time, acc, f).cache, records, clock)
<1>1. PICK key, value, new, c, d :
         /\ key = <<f, time>>
         /\ value = (IF key \in DOMAIN acc.cache THEN acc.cache[key].value
                     ELSE Transform(f, Input(time), time, acc.values))
         /\ new = [value |-> value, known |-> Len(records)]
         /\ c = acc.cache /\ d = WithFeature(time, acc, f).cache
  OBVIOUS
<1>2. d = Added(c, key, new)
  BY <1>1 DEF WithFeature
<1>3. DOMAIN d = DOMAIN c \cup {key} /\ \A k \in DOMAIN d : d[k] = IF k \in DOMAIN c THEN c[k] ELSE new
  BY <1>2 DEF Added
<1>4. ASSUME key \notin DOMAIN c PROVE EntryOk(key, new, records, clock)
  <2>1. new.known = Len(records) /\ new.value = Transform(f, Input(time), time, acc.values)
    BY <1>1, <1>4
  <2>2. Len(records) \in 0 .. Len(records) /\ SubSeq(records, 1, Len(records)) = records
    BY DEF RecordsInv
  <2>3. key[1] = f /\ key[2] = time
    BY <1>1
  <2>4. Input(time) = normalizeInput(asOf(SubSeq(records, 1, new.known), key[2], clock))
    BY <2>1, <2>2, <2>3, Zenon DEF Input
  <2>5. f # "rangePct" => Transform(f, Input(time), time, acc.values) = Transform(f, Input(time), time, <<>>)
    BY TransformIsItsOwn DEF FeatureIds
  <2>6. f # "rangePct" =>
          new.value = Transform(key[1], normalizeInput(asOf(SubSeq(records, 1, new.known), key[2], clock)), key[2], <<>>)
    BY <2>1, <2>3, <2>4, <2>5, Zenon
  <2>7. new.known \in 0 .. Len(records)
    BY <2>1, <2>2, Zenon
  <2>8. key \in FeatureIds \X Nat
    BY <1>1
  <2> QED
    BY <2>3, <2>6, <2>7, <2>8, Zenon DEF EntryOk
<1>5. ASSUME NEW k \in DOMAIN d PROVE EntryOk(k, d[k], records, clock)
  <2>1. CASE k \in DOMAIN c
    <3>1. EntryOk(k, c[k], records, clock) /\ d[k] = c[k]
      BY <1>1, <1>3, <2>1, Zenon DEF CacheOk
    <3> QED
      BY <3>1, Zenon
  <2>2. CASE k \notin DOMAIN c
    <3>1. k = key /\ d[k] = new
      BY <1>3, <2>2
    <3> QED
      BY <1>4, <2>2, <3>1, Zenon
  <2> QED
    BY <2>1, <2>2
<1> QED
  BY <1>1, <1>5, Zenon DEF CacheOk

\* The entry of a ratio is made of the entries beside it.
LEMMA WithFeatureMatches ==
    ASSUME NEW time \in Nat, NEW acc, NEW f \in FeatureIds, RatiosOk(acc.cache), ValuesOk(acc, time),
           f = "rangePct" => {"close", "range"} \subseteq DOMAIN acc.values,
           NEW new, new = WithFeature(time, acc, f)
    PROVE  /\ RatiosOk(new.cache) /\ ValuesOk(new, time)
           /\ DOMAIN new.values = DOMAIN acc.values \cup {f}
<1>1. PICK key, value, entry, c, d, v, w :
         /\ key = <<f, time>>
         /\ value = (IF key \in DOMAIN acc.cache THEN acc.cache[key].value
                     ELSE Transform(f, Input(time), time, acc.values))
         /\ entry = [value |-> value, known |-> Len(records)]
         /\ c = acc.cache /\ d = new.cache /\ v = acc.values /\ w = new.values
  OBVIOUS
<1>2. d = Added(c, key, entry) /\ w = Added(v, f, value)
  BY <1>1 DEF WithFeature
<1>3. /\ DOMAIN d = DOMAIN c \cup {key} /\ \A k \in DOMAIN d : d[k] = IF k \in DOMAIN c THEN c[k] ELSE entry
      /\ DOMAIN w = DOMAIN v \cup {f} /\ \A g \in DOMAIN w : w[g] = IF g \in DOMAIN v THEN v[g] ELSE value
  BY <1>2 DEF Added
<1>4. \A g \in DOMAIN v : <<g, time>> \in DOMAIN c /\ c[<<g, time>>].value = v[g]
  BY <1>1, Zenon DEF ValuesOk
<1>5. d[key].value = value
  <2>1. CASE key \in DOMAIN c
    BY <1>1, <1>3, <2>1
  <2>2. CASE key \notin DOMAIN c
    BY <1>1, <1>3, <2>2
  <2> QED
    BY <2>1, <2>2
<1>6. ASSUME NEW g \in DOMAIN w PROVE <<g, time>> \in DOMAIN d /\ d[<<g, time>>].value = w[g]
  <2>1. CASE g \in DOMAIN v
    BY <1>3, <1>4, <2>1
  <2>2. CASE g \notin DOMAIN v
    <3>1. g = f /\ w[g] = value
      BY <1>3, <2>2
    <3> QED
      BY <1>1, <1>3, <1>5, <3>1
  <2> QED
    BY <2>1, <2>2
<1>7. ValuesOk(new, time)
  BY <1>1, <1>6, Zenon DEF ValuesOk
<1>8. ASSUME NEW k \in DOMAIN d PROVE RatioOk(d, k)
  <2> SUFFICES ASSUME k[1] = "rangePct"
               PROVE  /\ <<"close", k[2]>> \in DOMAIN d /\ <<"range", k[2]>> \in DOMAIN d
                      /\ d[k].value = Ratio(d[<<"close", k[2]>>].value, d[<<"range", k[2]>>].value)
    BY Zenon DEF RatioOk
  <2>1. CASE k \in DOMAIN c
    <3>1. /\ <<"close", k[2]>> \in DOMAIN c /\ <<"range", k[2]>> \in DOMAIN c
          /\ c[k].value = Ratio(c[<<"close", k[2]>>].value, c[<<"range", k[2]>>].value)
      BY <1>1, <2>1, Zenon DEF RatiosOk, RatioOk
    <3>2. /\ d[k] = c[k] /\ d[<<"close", k[2]>>] = c[<<"close", k[2]>>]
          /\ d[<<"range", k[2]>>] = c[<<"range", k[2]>>]
          /\ <<"close", k[2]>> \in DOMAIN d /\ <<"range", k[2]>> \in DOMAIN d
      BY <1>3, <2>1, <3>1
    <3> QED
      BY <3>1, <3>2, Zenon
  <2>2. CASE k \notin DOMAIN c
    <3>1. k = key /\ f = "rangePct" /\ k[2] = time /\ d[k].value = value
      BY <1>1, <1>3, <1>5, <2>2
    <3>2. "close" \in DOMAIN v /\ "range" \in DOMAIN v
      BY <1>1, <3>1
    <3>3. value = Transform("rangePct", Input(time), time, v)
      BY <1>1, <2>2, <3>1, Zenon
    <3>4. value = Ratio(v["close"], v["range"])
      BY <3>3, TransformIsRatio
    <3>5. /\ <<"close", time>> \in DOMAIN c /\ c[<<"close", time>>].value = v["close"]
          /\ <<"range", time>> \in DOMAIN c /\ c[<<"range", time>>].value = v["range"]
      BY <1>4, <3>2, Zenon
    <3>6. /\ <<"close", time>> \in DOMAIN d /\ d[<<"close", time>>] = c[<<"close", time>>]
          /\ <<"range", time>> \in DOMAIN d /\ d[<<"range", time>>] = c[<<"range", time>>]
      BY <1>3, <3>5
    <3> QED
      BY <3>1, <3>4, <3>5, <3>6, Zenon
  <2> QED
    BY <2>1, <2>2
<1>9. RatiosOk(new.cache)
  BY <1>1, <1>8, Zenon DEF RatiosOk
<1> QED
  BY <1>1, <1>3, <1>7, <1>9, Zenon

\* A plan made of features leaves a cache of such entries.
LEMMA ComputeKeeps ==
    ASSUME PastInv, NEW plan \in Seq(FeatureIds), Ordered(plan), NEW time \in Nat, Compute(plan, time)
    PROVE  PastInv'
<1>1. RecordsInv /\ CacheOk(cache, records, clock) /\ RatiosOk(cache)
  BY DEF PastInv
<1>2. UNCHANGED <<clock, seq, records>> /\ cache' = computeFeatures(plan, time).cache
  BY Zenon DEF Compute
<1>3. PICK n : n = Len(plan)
  OBVIOUS
<1>4. n \in Nat /\ \A k \in 1 .. n : plan[k] \in FeatureIds
  BY <1>3
<1>5. PICK h : FeatureRun(h, plan, time) /\ h[n] = computeFeatures(plan, time)
  BY <1>3, <1>4, FeatureSteps
<1> DEFINE Good(k) == /\ CacheOk(h[k].cache, records, clock) /\ RatiosOk(h[k].cache) /\ ValuesOk(h[k], time)
                     /\ \A j \in 1 .. k : plan[j] \in DOMAIN h[k].values
           T == {k \in Nat : k <= n => Good(k)}
<1>6. 0 \in T
  <2>1. h[0].cache = cache /\ h[0].values = <<>>
    BY <1>5 DEF FeatureRun
  <2>2. DOMAIN <<>> = {} /\ 1 .. 0 = {}
    OBVIOUS
  <2>3. ValuesOk(h[0], time) /\ \A j \in 1 .. 0 : plan[j] \in DOMAIN h[0].values
    BY <2>1, <2>2 DEF ValuesOk
  <2> QED
    BY <1>1, <2>1, <2>3
<1>7. ASSUME NEW k \in Nat, k \in T PROVE k + 1 \in T
  <2> SUFFICES ASSUME k + 1 <= n PROVE Good(k + 1)
    OBVIOUS
  <2>1. k \in 0 .. n - 1 /\ k + 1 \in 1 .. n /\ k <= n /\ plan[k + 1] \in FeatureIds
    BY <1>4
  <2>2. h[k + 1] = WithFeature(time, h[k], plan[k + 1])
    BY <1>3, <1>5, <2>1 DEF FeatureRun
  <2>3. Good(k)
    BY <1>7, <2>1
  <2> HIDE DEF T
  <2>4. CacheOk(h[k + 1].cache, records, clock)
    BY <1>1, <2>1, <2>2, <2>3, WithFeatureOk
  <2>5. plan[k + 1] = "rangePct" => {"close", "range"} \subseteq DOMAIN h[k].values
    <3> SUFFICES ASSUME plan[k + 1] = "rangePct" PROVE {"close", "range"} \subseteq DOMAIN h[k].values
      OBVIOUS
    <3>1. PICK a \in 1 .. ((k + 1) - 1), b \in 1 .. ((k + 1) - 1) : plan[a] = "close" /\ plan[b] = "range"
      BY <1>3, <2>1 DEF Ordered
    <3>2. (k + 1) - 1 = k
      OBVIOUS
    <3>3. plan[a] \in DOMAIN h[k].values /\ plan[b] \in DOMAIN h[k].values
      BY <2>3, <3>1, <3>2, Zenon
    <3> QED
      BY <3>1, <3>3
  <2>6. /\ RatiosOk(h[k + 1].cache) /\ ValuesOk(h[k + 1], time)
        /\ DOMAIN h[k + 1].values = DOMAIN h[k].values \cup {plan[k + 1]}
    BY <2>1, <2>2, <2>3, <2>5, WithFeatureMatches
  <2>7. \A j \in 1 .. (k + 1) : plan[j] \in DOMAIN h[k + 1].values
    <3>1. \A j \in 1 .. (k + 1) : j \in 1 .. k \/ j = k + 1
      OBVIOUS
    <3> QED
      BY <2>3, <2>6, <3>1
  <2> QED
    BY <2>4, <2>6, <2>7
<1> HIDE DEF T
<1>8. n \in T
  BY <1>4, <1>6, <1>7, SetInduction
<1>9. CacheOk(h[n].cache, records, clock) /\ RatiosOk(h[n].cache)
  BY <1>4, <1>8 DEF T
<1>10. CacheOk(cache', records', clock') /\ RatiosOk(cache')
  BY <1>2, <1>5, <1>9, Zenon
<1>11. RecordsInv'
  BY <1>1, <1>2, Zenon DEF RecordsInv, ArrivedBy
<1> QED
  BY <1>10, <1>11, Zenon DEF PastInv, RatiosOk, RatioOk

\* An entry stays good while time goes on and records come in.
LEMMA EntryStays ==
    ASSUME NEW recs \in Seq(RawRecords), NEW now \in Nat, ArrivedBy(recs, now),
           NEW recs2 \in Seq(RawRecords), NEW later \in Nat, now <= later,
           Len(recs) <= Len(recs2), \A i \in 1 .. Len(recs) : recs2[i] = recs[i],
           NEW key, NEW entry, EntryOk(key, entry, recs, now)
    PROVE  EntryOk(key, entry, recs2, later)
<1>1. PICK n, s : n = entry.known /\ s = SubSeq(recs, 1, n)
  OBVIOUS
<1>k. key \in FeatureIds \X Nat
  BY Zenon DEF EntryOk
<1>2. n \in 0 .. Len(recs) /\ n \in 0 .. Len(recs2)
  <2>1. entry.known \in 0 .. Len(recs)
    BY DEF EntryOk
  <2> QED
    BY <1>1, <2>1
<1>3. s \in Seq(RawRecords) /\ Len(s) = n /\ \A i \in 1 .. n : s[i] = recs[i]
  BY <1>1, <1>2
<1>4. SubSeq(recs2, 1, n) = s
  BY <1>1, <1>2
<1>5. ArrivedBy(s, now)
  BY <1>2, <1>3 DEF ArrivedBy
<1>6. asOf(s, key[2], later) = asOf(s, key[2], now)
  BY <1>3, <1>5, AsOfLater
<1>7. key[1] # "rangePct" =>
        entry.value = Transform(key[1], normalizeInput(asOf(SubSeq(recs, 1, entry.known), key[2], now)), key[2], <<>>)
  BY Zenon DEF EntryOk
<1>8. asOf(SubSeq(recs2, 1, entry.known), key[2], later) = asOf(SubSeq(recs, 1, entry.known), key[2], now)
  BY <1>1, <1>4, <1>6, Zenon
<1> QED
  BY <1>1, <1>k, <1>2, <1>7, <1>8, Zenon DEF EntryOk

\* Every step keeps the past.
LEMMA PastKept == ASSUME PastInv, [Next]_vars PROVE PastInv'
<1>1. RecordsInv /\ CacheOk(cache, records, clock) /\ RatiosOk(cache) /\ RecordsInv'
  BY RecordsKept DEF PastInv
<1>2. ASSUME cache' = cache PROVE PastInv'
  <2>1. PICK r, t : r = records' /\ t = clock'
    OBVIOUS
  <2>2. /\ records \in Seq(RawRecords) /\ clock \in Nat /\ ArrivedBy(records, clock)
        /\ r \in Seq(RawRecords) /\ t \in Nat
    BY <1>1, <2>1, Zenon DEF RecordsInv
  <2>3. clock <= t
    BY <1>1, <2>1, RecordsStep
  <2>4. Len(records) <= Len(r) /\ \A i \in 1 .. Len(records) : r[i] = records[i]
    <3>1. CASE r = records
      BY <2>2, <3>1
    <3>2. ASSUME NEW x \in RawRecords, r = Append(records, x)
          PROVE  Len(records) <= Len(r) /\ \A i \in 1 .. Len(records) : r[i] = records[i]
      BY <2>2, <3>2
    <3>3. r = records \/ \E x \in RawRecords : r = Append(records, x)
      BY <1>1, <2>1, RecordsStep
    <3> QED
      BY <3>1, <3>2, <3>3
  <2>5. \A key \in DOMAIN cache : EntryOk(key, cache[key], r, t)
    <3>1. ASSUME NEW key \in DOMAIN cache PROVE EntryOk(key, cache[key], r, t)
      <4>1. PICK entry : entry = cache[key]
        OBVIOUS
      <4>2. EntryOk(key, entry, records, clock)
        BY <1>1, <4>1, Zenon DEF CacheOk
      <4>3. EntryOk(key, entry, r, t)
        BY <2>2, <2>3, <2>4, <4>2, EntryStays
      <4> QED
        BY <4>1, <4>3, Zenon
    <3> QED
      BY <3>1
  <2>6. CacheOk(cache', records', clock')
    BY <1>2, <2>1, <2>5, Zenon DEF CacheOk
  <2>7. RatiosOk(cache')
    BY <1>1, <1>2, Zenon
  <2> QED
    BY <1>1, <2>6, <2>7, Zenon DEF PastInv, RatiosOk, RatioOk
<1>3. ASSUME NEW plan \in Plans, NEW time \in 0 .. clock, Compute(plan, time) PROVE PastInv'
  <2>t. time \in Nat
    BY <1>1 DEF RecordsInv
  <2>o. Ordered(plan)
    <3>1. Ordered(<<"close">>)
      <4>1. Len(<<"close">>) = 1 /\ <<"close">>[1] = "close"
        OBVIOUS
      <4> QED
        BY <4>1 DEF Ordered
    <3>2. PICK p : p = <<"close", "range", "rangePct">>
      OBVIOUS
    <3>3. Len(p) = 3 /\ p[1] = "close" /\ p[2] = "range" /\ p[3] = "rangePct"
      BY <3>2
    <3>4. ASSUME NEW j \in 1 .. 3, p[j] = "rangePct" PROVE \E a, b \in 1 .. (j - 1) : p[a] = "close" /\ p[b] = "range"
      <4>1. j = 3
        BY <3>3, <3>4
      <4>2. 1 \in 1 .. (j - 1) /\ 2 \in 1 .. (j - 1)
        BY <4>1
      <4> QED
        BY <3>3, <4>2
    <3>5. Ordered(p)
      <4>1. 1 .. Len(p) = 1 .. 3
        BY <3>3, Zenon
      <4>2. \A j \in 1 .. Len(p) :
                p[j] = "rangePct" => \E a, b \in 1 .. (j - 1) : p[a] = "close" /\ p[b] = "range"
        BY <3>4, <4>1, Zenon
      <4> QED
        BY <4>2, Zenon DEF Ordered
    <3> QED
      BY <3>1, <3>2, <3>5, Zenon DEF Plans
  <2>1. plan \in Seq(FeatureIds)
    <3>1. <<"close">> \in Seq(FeatureIds) /\ <<"close", "range", "rangePct">> \in Seq(FeatureIds)
      BY DEF FeatureIds
    <3> QED
      BY <3>1 DEF Plans
  <2> QED
    BY <1>3, <2>t, <2>o, <2>1, ComputeKeeps
<1>4. ASSUME Start \/ Opens \/ OnClose \/ Retry \/ Stop \/ Tick PROVE cache' = cache
  BY <1>4 DEF Start, Opens, OnClose, Retry, Stop, Tick
<1>5. ASSUME NEW trade, NEW time, NEW price, OnMessage(trade, time, price) PROVE cache' = cache
  BY <1>5, Zenon DEF OnMessage
<1>6. CASE UNCHANGED vars
  BY <1>2, <1>6 DEF vars
<1> QED
  <2>1. \A time \in {t \in 0 .. clock : t > 0 /\ t % Timeframe = 0} : time \in 0 .. clock
    OBVIOUS
  <2> QED
    BY <1>2, <1>3, <1>4, <1>5, <1>6, <2>1, Zenon DEF Next

\* As long as no record of its time has come in since, an entry is what a
\* computation without the cache gives.
LEMMA EntryIsFresh ==
    ASSUME PastInv, NEW f \in {"close", "range"}, NEW time \in Nat, <<f, time>> \in DOMAIN cache,
           \A k \in DOMAIN records : k > cache[<<f, time>>].known => records[k].time > time
    PROVE  cache[<<f, time>>].value = Transform(f, Input(time), time, <<>>)
<1>1. PICK key, n : key = <<f, time>> /\ n = cache[key].known
  OBVIOUS
<1>2. key[1] = f /\ key[2] = time /\ f # "rangePct" /\ key \in DOMAIN cache
  BY <1>1
<1>3. EntryOk(key, cache[key], records, clock) /\ records \in Seq(RawRecords)
  BY <1>2, Zenon DEF PastInv, CacheOk, RecordsInv
<1>4. n \in 0 .. Len(records)
  BY <1>1, <1>3, Zenon DEF EntryOk
<1>5. cache[key].value = Transform(f, normalizeInput(asOf(SubSeq(records, 1, n), time, clock)), time, <<>>)
  BY <1>1, <1>2, <1>3, Zenon DEF EntryOk
<1>6. asOf(SubSeq(records, 1, n), time, clock) = asOf(records, time, clock)
  <2>1. \A k \in DOMAIN records : k > n => records[k].time > time
    BY <1>1
  <2> QED
    BY <1>3, <1>4, <2>1, AsOfOlder
<1> QED
  BY <1>1, <1>5, <1>6, Zenon DEF Input

LEMMA CacheIsFresh == ASSUME PastInv PROVE CacheEqualsRecomputeUnlessLate
<1> SUFFICES ASSUME NEW key \in DOMAIN cache,
                    \A f \in Sources(key[1]), k \in DOMAIN records :
                      k > cache[<<f, key[2]>>].known => records[k].time > key[2]
             PROVE  cache[key].value = Recomputed(key[1], key[2])
  BY Zenon DEF CacheEqualsRecomputeUnlessLate
<1>1. key \in FeatureIds \X Nat
  BY Zenon DEF PastInv, CacheOk, EntryOk
<1>2. PICK g, t : g = key[1] /\ t = key[2]
  OBVIOUS
<1>3. key = <<g, t>> /\ g \in FeatureIds /\ t \in Nat
  BY <1>1, <1>2
<1>4. PICK fresh : fresh = [f \in {"close", "range"} |-> Transform(f, Input(t), t, <<>>)]
  OBVIOUS
<1>5. Recomputed(g, t) = Transform(g, Input(t), t, fresh)
  BY <1>4, Zenon DEF Recomputed
<1>6. CASE g # "rangePct"
  <2>1. g \in {"close", "range"} /\ Sources(g) = {g}
    BY <1>3, <1>6 DEF FeatureIds, Sources
  <2>2. \A k \in DOMAIN records : k > cache[<<g, t>>].known => records[k].time > t
    BY <1>2, <2>1
  <2>3. cache[<<g, t>>].value = Transform(g, Input(t), t, <<>>)
    BY <1>3, <2>1, <2>2, EntryIsFresh
  <2>4. Transform(g, Input(t), t, <<>>) = Transform(g, Input(t), t, fresh)
    BY <2>1, TransformIsItsOwn
  <2> QED
    BY <1>2, <1>3, <1>5, <2>3, <2>4, Zenon
<1>7. CASE g = "rangePct"
  <2>1. Sources(g) = {"close", "range"}
    BY <1>7 DEF Sources
  <2>2. /\ <<"close", t>> \in DOMAIN cache /\ <<"range", t>> \in DOMAIN cache
        /\ cache[key].value = Ratio(cache[<<"close", t>>].value, cache[<<"range", t>>].value)
    BY <1>2, <1>7, Zenon DEF PastInv, RatiosOk, RatioOk
  <2>3. ASSUME NEW f \in {"close", "range"} PROVE cache[<<f, t>>].value = fresh[f]
    <3>1. f \in Sources(g) /\ <<f, t>> \in DOMAIN cache
      BY <2>1, <2>2
    <3>2. \A k \in DOMAIN records : k > cache[<<f, t>>].known => records[k].time > t
      BY <1>2, <3>1, Zenon
    <3>3. cache[<<f, t>>].value = Transform(f, Input(t), t, <<>>)
      BY <1>3, <3>1, <3>2, EntryIsFresh
    <3> QED
      BY <1>4, <3>3
  <2>4. cache[key].value = Ratio(fresh["close"], fresh["range"])
    <3>1. "close" \in {"close", "range"} /\ "range" \in {"close", "range"}
      OBVIOUS
    <3> QED
      BY <2>2, <2>3, <3>1, Zenon
  <2>5. Transform(g, Input(t), t, fresh) = Ratio(fresh["close"], fresh["range"])
    BY <1>7, TransformIsRatio
  <2> QED
    BY <1>2, <1>5, <2>4, <2>5, Zenon
<1> QED
  BY <1>6, <1>7

LEMMA DerivedMatch == ASSUME PastInv PROVE DerivedFeaturesMatchTheirSources
<1> SUFFICES ASSUME NEW key \in DOMAIN cache, key[1] = "rangePct",
                    NEW close, close = cache[<<"close", key[2]>>].value,
                    NEW range, range = cache[<<"range", key[2]>>].value
             PROVE  cache[key].value = IF NULL \in {close, range} THEN NULL ELSE range \o close
  BY Zenon DEF DerivedFeaturesMatchTheirSources
<1>1. cache[key].value = Ratio(close, range)
  BY Zenon DEF PastInv, RatiosOk, RatioOk
<1> QED
  BY <1>1, Zenon DEF Ratio

\* For every pattern of arrivals and of features computed in between: an as-of
\* read for an arrival time that has passed never changes; a cached feature is
\* what a recompute gives unless a record of its time came late, and a derived one
\* is made of the values cached beside it (InMemoryRawStore, queryAsOf,
\* computeFeatures with its cache).
THEOREM PastStaysFixed == Spec => PastIsFixed
<1>1. Init => PastInv
  <2> SUFFICES ASSUME Init PROVE PastInv
    OBVIOUS
  <2>1. <<>> \in Seq(RawRecords) /\ Len(<<>>) = 0 /\ DOMAIN <<>> = {}
    OBVIOUS
  <2>2. RecordsInv
    BY <2>1 DEF Init, RecordsInv, ArrivedBy
  <2>3. CacheOk(cache, records, clock) /\ RatiosOk(cache)
    BY <2>1 DEF Init, CacheOk, RatiosOk
  <2> QED
    BY <2>2, <2>3 DEF PastInv
<1>2. PastInv /\ [Next]_vars => PastInv'
  BY PastKept
<1>3. PastInv => CacheEqualsRecomputeUnlessLate /\ DerivedFeaturesMatchTheirSources
  BY CacheIsFresh, DerivedMatch
<1> QED
  BY <1>1, <1>2, <1>3, AsOfReadsStay, PTL DEF Spec, PastIsFixed
=============================================================================
