-------------------------- MODULE IngestionProofs ---------------------------
(***************************************************************************)
(* Proofs about Ingestion, for every batch size, every number of transport *)
(* slots and records, and every pattern of failures and signals.           *)
(***************************************************************************)
EXTENDS Ingestion, FiniteSetTheorems, SequenceTheorems, TLAPS

(***************************************************************************)
(* The collector.  Its invariant is inductive only with what ties a socket *)
(* to the transport that owns it: the only live socket is the current      *)
(* transport's, a reconnect is scheduled exactly when that one is free,    *)
(* and only stop() leaves a socket on its way out.                         *)
(***************************************************************************)
SocketStates == {"free", "connecting", "aborting", "open", "closing"}

CollectorTyped ==
    /\ socket \in [Slots -> SocketStates]
    /\ transport \in Slots \cup {NoTransport}
    /\ timers \in {0, 1}
    /\ heartbeat \in BOOLEAN /\ stopped \in BOOLEAN
    /\ backoffMs \in Nat /\ backoffMs <= MaxBackoff

LifelineIsTransport ==
    /\ \A s \in Slots : socket[s] # "free" => s = transport
    /\ transport = NoTransport => timers = 0
    /\ \A s \in Slots : s = transport =>
          /\ socket[s] # "free" => timers = 0
          /\ ~stopped /\ socket[s] = "free" => timers = 1
    /\ ~stopped => \A s \in Slots : socket[s] \notin {"aborting", "closing"}

HeartbeatInv ==
    /\ heartbeat => transport \in Slots /\ socket[transport] = "open"
    /\ ~stopped => \A s \in Slots : socket[s] = "open" => heartbeat

CollectorInv ==
    /\ CollectorTyped /\ LifelineIsTransport /\ HeartbeatInv
    /\ \A s \in Slots : socket[s] = "open" => backoffMs = InitialBackoff

\* Before start() there is no socket and no timer.
LEMMA CollectorInitInv == CollectorInit => CollectorInv
  BY BackoffAssumption, SlotAssumption
  DEF CollectorInit, CollectorInv, CollectorTyped, LifelineIsTransport, HeartbeatInv,
      SocketStates

\* The delay that follows a failure is again a number within the cap.
LEMMA NextBackoff ==
    ASSUME CollectorInv, ScheduleReconnect
    PROVE  timers' = timers + 1 /\ backoffMs' \in Nat /\ backoffMs' <= MaxBackoff
  BY BackoffAssumption DEF CollectorInv, CollectorTyped, ScheduleReconnect

\* Every event of the collector that is running keeps its invariant.
LEMMA CollectorStepInv ==
    ASSUME CollectorInv, ~stopped, Start \/ TimerFires \/ NetworkEvent
    PROVE  CollectorInv' /\ ~stopped'
<1> USE DEF CollectorInv, CollectorTyped, LifelineIsTransport, HeartbeatInv, SocketStates
<1>1. CASE Start
  BY <1>1, SlotAssumption DEF Start, Connect
<1>2. CASE TimerFires
  BY <1>2, SlotAssumption DEF TimerFires, Connect
<1>3. ASSUME NEW s \in Slots, Opens(s) PROVE CollectorInv' /\ ~stopped'
  BY <1>3, SlotAssumption, BackoffAssumption DEF Opens
<1>4. ASSUME NEW s \in Slots, OpenFails(s) PROVE CollectorInv' /\ ~stopped'
  BY <1>4, NextBackoff, SlotAssumption DEF OpenFails
<1>5. ASSUME NEW s \in Slots, OnClose(s) PROVE CollectorInv' /\ ~stopped'
  <2>1. ScheduleReconnect
    BY <1>5 DEF OnClose
  <2>2. /\ timers' = timers + 1 /\ backoffMs' \in Nat /\ backoffMs' <= MaxBackoff
        /\ s = transport /\ timers = 0
    BY <1>5, <2>1, NextBackoff DEF OnClose
  <2>3. /\ socket' = [socket EXCEPT ![s] = "free"] /\ ~heartbeat'
        /\ transport' = transport /\ ~stopped' /\ stopped' \in BOOLEAN /\ heartbeat' \in BOOLEAN
    BY <1>5 DEF OnClose
  <2>4. \A t \in Slots : socket'[t] = "free"
    BY <2>2, <2>3
  <2> QED
    BY <2>2, <2>3, <2>4, SlotAssumption
<1> QED
  BY <1>1, <1>2, <1>3, <1>4, <1>5 DEF NetworkEvent

\* So does stop().
LEMMA StopInv ==
    ASSUME CollectorInv, Stop PROVE CollectorInv'
<1>1. \A state \in SocketStates : /\ CloseSocket(state) \in SocketStates \ {"open", "connecting"}
                                  /\ state = "free" <=> CloseSocket(state) = "free"
  BY DEF CloseSocket, SocketStates
<1> QED
  BY <1>1 DEF CollectorInv, CollectorTyped, LifelineIsTransport, HeartbeatInv, Stop

\* The invariant says that the collector is in order.
LEMMA CollectorInvInOrder ==
    ASSUME CollectorInv PROVE CollectorInOrder
<1> USE DEF CollectorInv, CollectorTyped, LifelineIsTransport, HeartbeatInv
<1>1. CASE Live = {}
  <2>1. Cardinality(Live) = 0
    BY <1>1, FS_EmptySet
  <2>2. transport # NoTransport /\ ~stopped => timers = 1
    BY <1>1 DEF Live
  <2> QED
    BY <2>1, <2>2 DEF CollectorInOrder, OneLifeline, HeartbeatFollowsSocket,
                      BackoffIsBoundedAndReset, Streaming
<1>2. CASE Live # {}
  <2>1. PICK s \in Slots : socket[s] # "free"
    BY <1>2 DEF Live
  <2>2. Live = {s}
    BY <2>1 DEF Live
  <2>3. Cardinality(Live) = 1 /\ timers = 0
    BY <2>1, <2>2, FS_Singleton
  <2> QED
    BY <2>3 DEF CollectorInOrder, OneLifeline, HeartbeatFollowsSocket,
                BackoffIsBoundedAndReset, Streaming
<1> QED
  BY <1>1, <1>2
(***************************************************************************)
(* Runs of consecutive record numbers: the log, the batch in flight and    *)
(* the queue are each one, which is what keeps them from losing a record.  *)
(***************************************************************************)
Runs(s, from) == s \in Seq(Nat) /\ \A i \in 1 .. Len(s) : s[i] = from + i - 1

\* A run goes on with the number after its last.
LEMMA RunsAppend ==
    ASSUME NEW from \in Nat, NEW s, Runs(s, from)
    PROVE  Runs(Append(s, from + Len(s)), from)
<1> DEFINE t == Append(s, from + Len(s))
<1>1. Len(s) \in Nat /\ from + Len(s) \in Nat /\ s \in Seq(Nat)
  BY DEF Runs
<1>2. t \in Seq(Nat) /\ Len(t) = Len(s) + 1
  BY <1>1
<1>3. \A i \in 1 .. Len(s) : t[i] = s[i]
  BY <1>1
<1>4. t[Len(s) + 1] = from + Len(s)
  BY <1>1
<1> HIDE DEF t
<1>5. ASSUME NEW i \in 1 .. Len(t) PROVE t[i] = from + i - 1
  <2>1. CASE i = Len(s) + 1
    BY <1>1, <1>4, <2>1
  <2>2. CASE i \in 1 .. Len(s)
    BY <1>3, <2>2 DEF Runs
  <2> QED
    BY <1>1, <1>2, <2>1, <2>2
<1> QED
  BY <1>2, <1>5 DEF Runs, t

\* Two runs of which the second begins where the first ends are one.
LEMMA RunsConcat ==
    ASSUME NEW from \in Nat, NEW s, NEW t, Runs(s, from), Runs(t, from + Len(s))
    PROVE  /\ Runs(s \o t, from)
           /\ Len(s \o t) = Len(s) + Len(t)
<1>1. s \in Seq(Nat) /\ t \in Seq(Nat) /\ Len(s) \in Nat /\ Len(t) \in Nat
  BY DEF Runs
<1>2. /\ s \o t \in Seq(Nat)
      /\ Len(s \o t) = Len(s) + Len(t)
      /\ \A i \in 1 .. Len(s) + Len(t) :
            (s \o t)[i] = IF i <= Len(s) THEN s[i] ELSE t[i - Len(s)]
  BY <1>1, ConcatProperties
<1>3. ASSUME NEW i \in 1 .. Len(s) + Len(t) PROVE (s \o t)[i] = from + i - 1
  BY <1>1, <1>2, <1>3 DEF Runs
<1> QED
  BY <1>2, <1>3 DEF Runs

\* A part of a run is a run.
LEMMA RunsSubSeq ==
    ASSUME NEW from \in Nat, NEW s, Runs(s, from),
           NEW m \in Nat, NEW n \in Nat, m > 0, n <= Len(s), m <= n + 1
    PROVE  /\ Runs(SubSeq(s, m, n), from + m - 1)
           /\ Len(SubSeq(s, m, n)) = n - m + 1
<1>1. \A i \in m .. n : s[i] \in Nat
  BY DEF Runs
<1>2. /\ SubSeq(s, m, n) \in Seq(Nat)
      /\ Len(SubSeq(s, m, n)) = IF m <= n THEN n - m + 1 ELSE 0
      /\ \A i \in 1 .. n - m + 1 : SubSeq(s, m, n)[i] = s[m + i - 1]
  BY <1>1, SubSeqProperties
<1>3. Len(SubSeq(s, m, n)) = n - m + 1
  BY <1>2
<1>4. \A i \in 1 .. n - m + 1 : s[m + i - 1] = (from + m - 1) + i - 1
  BY DEF Runs
<1> QED
  BY <1>2, <1>3, <1>4 DEF Runs

\* A run is determined by where it begins and how long it is.
LEMMA RunsEqual ==
    ASSUME NEW from \in Nat, NEW s, NEW t, Runs(s, from), Runs(t, from), Len(s) = Len(t)
    PROVE  s = t
  BY SeqEqual DEF Runs

\* The records of a run.
LEMMA RunsSet ==
    ASSUME NEW from \in Nat, NEW s, Runs(s, from)
    PROVE  ToSet(s) = from .. from + Len(s) - 1
<1>1. Len(s) \in Nat /\ DOMAIN s = 1 .. Len(s)
  BY DEF Runs
<1>2. ASSUME NEW x \in ToSet(s) PROVE x \in from .. from + Len(s) - 1
  BY <1>1, <1>2 DEF ToSet, Runs
<1>3. ASSUME NEW x \in from .. from + Len(s) - 1 PROVE x \in ToSet(s)
  <2>1. x - from + 1 \in 1 .. Len(s) /\ s[x - from + 1] = x
    BY <1>1, <1>3 DEF Runs
  <2> QED
    BY <1>1, <2>1 DEF ToSet
<1> QED
  BY <1>2, <1>3

\* What a concatenation holds.
LEMMA ToSetConcat ==
    ASSUME NEW s \in Seq(Nat), NEW t \in Seq(Nat)
    PROVE  s \o t \in Seq(Nat) /\ ToSet(s \o t) = ToSet(s) \cup ToSet(t)
<1>1. /\ s \o t \in Seq(Nat)
      /\ Len(s \o t) = Len(s) + Len(t)
      /\ \A i \in 1 .. Len(s) + Len(t) :
            (s \o t)[i] = IF i <= Len(s) THEN s[i] ELSE t[i - Len(s)]
  BY ConcatProperties
<1>2. /\ DOMAIN s = 1 .. Len(s) /\ DOMAIN t = 1 .. Len(t)
      /\ Len(s) \in Nat /\ Len(t) \in Nat
      /\ DOMAIN (s \o t) = 1 .. Len(s) + Len(t)
  BY <1>1
<1>3. ASSUME NEW x \in ToSet(s \o t) PROVE x \in ToSet(s) \cup ToSet(t)
  <2>1. PICK i \in 1 .. Len(s) + Len(t) : x = (s \o t)[i]
    BY <1>2, <1>3 DEF ToSet
  <2>2. CASE i <= Len(s)
    BY <1>1, <1>2, <2>1, <2>2 DEF ToSet
  <2>3. CASE i > Len(s)
    <3>1. i - Len(s) \in 1 .. Len(t) /\ x = t[i - Len(s)]
      BY <1>1, <1>2, <2>1, <2>3
    <3> QED
      BY <1>2, <3>1 DEF ToSet
  <2> QED
    BY <1>2, <2>2, <2>3
<1>4. ASSUME NEW x \in ToSet(s) PROVE x \in ToSet(s \o t)
  <2>1. PICK i \in 1 .. Len(s) : x = s[i]
    BY <1>2, <1>4 DEF ToSet
  <2>2. i \in 1 .. Len(s) + Len(t) /\ (s \o t)[i] = x
    BY <1>1, <1>2, <2>1
  <2> QED
    BY <1>2, <2>2 DEF ToSet
<1>5. ASSUME NEW x \in ToSet(t) PROVE x \in ToSet(s \o t)
  <2>1. PICK i \in 1 .. Len(t) : x = t[i]
    BY <1>2, <1>5 DEF ToSet
  <2>2. Len(s) + i \in 1 .. Len(s) + Len(t) /\ (s \o t)[Len(s) + i] = x
    BY <1>1, <1>2, <2>1
  <2> QED
    BY <1>2, <2>2 DEF ToSet
<1> QED
  BY <1>1, <1>3, <1>4, <1>5
(***************************************************************************)
(* The store.  The batch in flight goes on where the acknowledged part of  *)
(* the log ends and the queue where the batch ends; the backing store      *)
(* holds an initial part of the log, at least the acknowledged one.  What  *)
(* makes it inductive is that the flag is set exactly while a batch is in  *)
(* flight: only then can a second flush not drop the first.                *)
(***************************************************************************)
LogInv == seq \in 0 .. MaxRecords /\ Len(hot) = seq /\ Runs(hot, 0)

QueueInv ==
    /\ Acknowledged \in Nat
    /\ Runs(batch, Acknowledged) /\ Runs(pending, Acknowledged + Len(batch))
    /\ flushing \in BOOLEAN /\ (flushing <=> batch # <<>>)

BackingInv ==
    /\ written \in Seq(Nat)
    /\ \E k \in Acknowledged .. seq : ToSet(written) = 0 .. k - 1

StoreInv == LogInv /\ QueueInv /\ BackingInv

\* An empty store has neither lost nor written anything.
LEMMA StoreInitInv == StoreInit /\ seq = 0 => StoreInv
<1> SUFFICES ASSUME StoreInit, seq = 0 PROVE StoreInv
  OBVIOUS
<1>1. /\ <<>> \in Seq(Nat) /\ Len(<<>>) = 0
      /\ hot = <<>> /\ pending = <<>> /\ batch = <<>> /\ written = <<>> /\ flushing = FALSE
  BY EmptySeq DEF StoreInit
<1>2. Acknowledged = 0
  <2>1. Acknowledged = 0 - 0 - 0
    BY <1>1, Zenon DEF Acknowledged
  <2> QED
    BY <2>1
<1>3. Runs(<<>>, 0)
  BY <1>1 DEF Runs
<1>4. Runs(pending, Acknowledged + Len(batch)) /\ Runs(batch, Acknowledged) /\ Runs(hot, 0)
  <2>1. Acknowledged + Len(batch) = 0 + 0
    BY <1>1, <1>2, Zenon
  <2> QED
    BY <1>1, <1>2, <1>3, <2>1
<1>5. ToSet(written) = 0 .. 0 - 1
  BY <1>1 DEF ToSet
<1>6. LogInv
  BY <1>1, <1>4, RecordsAssumption DEF LogInv
<1>7. QueueInv
  BY <1>1, <1>2, <1>4 DEF QueueInv
<1>8. BackingInv
  BY <1>1, <1>2, <1>5 DEF BackingInv
<1> QED
  BY <1>6, <1>7, <1>8 DEF StoreInv

\* flush() moves the queue or leaves it, and loses nothing of it either way.
LEMMA FlushKeepsRuns ==
    ASSUME NEW a \in Nat, NEW queue, Runs(batch, a), Runs(queue, a + Len(batch)),
           flushing \in BOOLEAN, flushing <=> batch # <<>>, Flush(queue)
    PROVE  /\ Runs(batch', a) /\ Runs(pending', a + Len(batch'))
           /\ flushing' \in BOOLEAN /\ (flushing' <=> batch' # <<>>)
           /\ Len(batch') + Len(pending') = Len(batch) + Len(queue)
<1>1. CASE flushing \/ queue = <<>>
  <2>1. pending' = queue /\ batch' = batch /\ flushing' = flushing
    BY <1>1 DEF Flush
  <2> QED
    BY <2>1
<1>2. CASE ~flushing /\ queue # <<>>
  <2>1. pending' = <<>> /\ batch' = queue /\ flushing' = TRUE /\ batch = <<>>
    BY <1>2 DEF Flush
  <2>2. Len(<<>>) = 0 /\ Len(queue) \in Nat /\ <<>> \in Seq(Nat)
    BY EmptySeq DEF Runs
  <2>3. Runs(queue, a) /\ Runs(<<>>, a + Len(queue))
    BY <2>1, <2>2 DEF Runs
  <2> QED
    BY <1>2, <2>1, <2>2, <2>3
<1> QED
  BY <1>1, <1>2

\* The lengths of the log, the batch and the queue are numbers that add up.
LEMMA StoreLengths ==
    ASSUME StoreInv
    PROVE  /\ Len(hot) \in Nat /\ Len(batch) \in Nat /\ Len(pending) \in Nat
           /\ seq = Acknowledged + Len(batch) + Len(pending)
           /\ hot \in Seq(Nat) /\ batch \in Seq(Nat) /\ pending \in Seq(Nat)
<1>1. /\ hot \in Seq(Nat) /\ batch \in Seq(Nat) /\ pending \in Seq(Nat)
      /\ Len(hot) = seq
  BY DEF StoreInv, LogInv, QueueInv, Runs
<1>2. Len(hot) \in Nat /\ Len(batch) \in Nat /\ Len(pending) \in Nat
  BY <1>1
<1>3. Acknowledged = seq - Len(batch) - Len(pending)
  BY <1>1 DEF Acknowledged
<1> QED
  BY <1>1, <1>2, <1>3

\* A batch written, acknowledged or not, goes on where the rows written so far
\* leave off or earlier: it leaves no gap.
LEMMA WrittenBatch ==
    ASSUME StoreInv, NEW rows, rows = written \o batch
    PROVE  /\ rows \in Seq(Nat)
           /\ \E k \in Acknowledged + Len(batch) .. seq : ToSet(rows) = 0 .. k - 1
<1>1. /\ Acknowledged \in Nat /\ Len(batch) \in Nat /\ Len(pending) \in Nat /\ seq \in Nat
      /\ seq = Acknowledged + Len(batch) + Len(pending)
      /\ written \in Seq(Nat) /\ batch \in Seq(Nat)
  BY StoreLengths DEF StoreInv, LogInv, QueueInv, BackingInv
<1>2. PICK k \in Acknowledged .. seq : ToSet(written) = 0 .. k - 1
  BY DEF StoreInv, BackingInv
<1>3. rows \in Seq(Nat) /\ ToSet(rows) = (0 .. k - 1) \cup ToSet(batch)
  BY <1>1, <1>2, ToSetConcat
<1>4. ToSet(batch) = Acknowledged .. Acknowledged + Len(batch) - 1
  BY <1>1, RunsSet DEF StoreInv, QueueInv
<1>5. CASE k >= Acknowledged + Len(batch)
  <2>1. ToSet(rows) = 0 .. k - 1
    BY <1>1, <1>3, <1>4, <1>5
  <2>2. k \in Acknowledged + Len(batch) .. seq
    BY <1>1, <1>5
  <2> QED
    BY <1>3, <2>1, <2>2
<1>6. CASE k < Acknowledged + Len(batch)
  <2> DEFINE n == Acknowledged + Len(batch)
  <2>1. n \in Acknowledged + Len(batch) .. seq
    BY <1>1
  <2>2. ToSet(rows) = 0 .. n - 1
    BY <1>1, <1>3, <1>4, <1>6
  <2> QED
    BY <1>3, <2>1, <2>2
<1> QED
  BY <1>1, <1>5, <1>6

\* The store's invariant depends on the store's variables and the counter.
LEMMA StoreUnchanged ==
    ASSUME StoreInv, UNCHANGED <<storeVars, seq>> PROVE StoreInv'
<1>1. /\ hot' = hot /\ pending' = pending /\ flushing' = flushing /\ batch' = batch
      /\ written' = written /\ seq' = seq
  BY DEF storeVars
<1>2. Acknowledged' = Acknowledged
  BY <1>1 DEF Acknowledged
<1> QED
  BY <1>1, <1>2 DEF StoreInv, LogInv, QueueInv, BackingInv

\* A step of the abstract log, or a stutter of it.
LogStep == [Log!Next]_<<hot, written, Acknowledged>>

\* A step that leaves the log, the rows and the counter alone, and keeps the
\* runs and their total length, is a stutter of the abstract log.
LEMMA QueueStep ==
    ASSUME StoreInv, UNCHANGED <<hot, written, seq>>,
           Runs(batch', Acknowledged), Runs(pending', Acknowledged + Len(batch')),
           flushing' \in BOOLEAN, flushing' <=> batch' # <<>>,
           Len(batch') + Len(pending') = Len(batch) + Len(pending)
    PROVE  StoreInv' /\ LogStep
<1>1. Len(batch') \in Nat /\ Len(pending') \in Nat
  BY DEF Runs
<1>2. Acknowledged' = Acknowledged
  BY <1>1, StoreLengths DEF Acknowledged
<1>3. hot' = hot /\ written' = written /\ seq' = seq
  OBVIOUS
<1>4. LogInv'
  BY <1>3 DEF StoreInv, LogInv
<1>5. QueueInv'
  BY <1>2 DEF StoreInv, QueueInv
<1>6. BackingInv'
  BY <1>2, <1>3 DEF StoreInv, BackingInv
<1> QED
  BY <1>2, <1>3, <1>4, <1>5, <1>6 DEF StoreInv, LogStep

\* append(), with the flush it may start.
LEMMA OnMessageStore ==
    ASSUME StoreInv, OnMessage PROVE StoreInv' /\ LogStep
<1> DEFINE queue == Append(pending, seq)
<1>1. /\ Acknowledged \in Nat /\ seq \in Nat /\ seq < MaxRecords
      /\ seq' = seq + 1 /\ hot' = Append(hot, seq) /\ written' = written
      /\ Len(hot) = seq /\ Runs(hot, 0)
      /\ Runs(batch, Acknowledged) /\ Runs(pending, Acknowledged + Len(batch))
      /\ flushing \in BOOLEAN /\ (flushing <=> batch # <<>>)
  BY RecordsAssumption DEF StoreInv, LogInv, QueueInv, OnMessage, AppendRecord
<1>2. /\ Len(batch) \in Nat /\ Len(pending) \in Nat
      /\ seq = Acknowledged + Len(batch) + Len(pending)
      /\ hot \in Seq(Nat) /\ pending \in Seq(Nat)
  BY StoreLengths
<1>3. Runs(queue, Acknowledged + Len(batch)) /\ Len(queue) = Len(pending) + 1
  <2>1. Runs(Append(pending, Acknowledged + Len(batch) + Len(pending)), Acknowledged + Len(batch))
    BY <1>1, <1>2, RunsAppend
  <2> QED
    BY <1>1, <1>2, <2>1
<1>4. Runs(hot', 0) /\ Len(hot') = seq'
  <2>1. Runs(Append(hot, 0 + Len(hot)), 0)
    BY <1>1, RunsAppend
  <2> QED
    BY <1>1, <1>2, <2>1
<1> HIDE DEF queue
<1>5. /\ Runs(batch', Acknowledged) /\ Runs(pending', Acknowledged + Len(batch'))
      /\ flushing' \in BOOLEAN /\ (flushing' <=> batch' # <<>>)
      /\ Len(batch') + Len(pending') = Len(batch) + Len(queue)
  <2>1. CASE Flush(queue)
    BY <1>1, <1>3, <2>1, FlushKeepsRuns
  <2>2. CASE pending' = queue /\ UNCHANGED <<flushing, batch>>
    BY <1>1, <1>3, <2>2
  <2> QED
    BY <2>1, <2>2 DEF OnMessage, AppendRecord, queue
<1>6. Acknowledged' = Acknowledged
  <2>1. Len(batch') \in Nat /\ Len(pending') \in Nat
    BY <1>5 DEF Runs
  <2>2. Acknowledged' = (seq + 1) - Len(batch') - Len(pending')
    BY <1>1, <1>4 DEF Acknowledged
  <2> QED
    BY <1>1, <1>2, <1>3, <1>5, <2>1, <2>2, SMTT(30)
<1>7. LogInv'
  BY <1>1, <1>4, RecordsAssumption DEF LogInv
<1>8. QueueInv'
  BY <1>1, <1>5, <1>6 DEF QueueInv
<1>9. BackingInv'
  <2>1. PICK k \in Acknowledged .. seq : ToSet(written) = 0 .. k - 1
    BY DEF StoreInv, BackingInv
  <2>2. k \in Acknowledged' .. seq' /\ ToSet(written') = 0 .. k - 1
    BY <1>1, <1>6, <2>1
  <2> QED
    BY <1>1, <2>2 DEF StoreInv, BackingInv
<1>10. Log!AppendToLog
  BY <1>1, <1>6, RecordsAssumption DEF Log!AppendToLog
<1> QED
  BY <1>7, <1>8, <1>9, <1>10 DEF StoreInv, LogStep, Log!Next

\* The part of the log between the acknowledged records and the queue is what
\* is in flight.
LEMMA BatchIsLogPart ==
    ASSUME StoreInv
    PROVE  SubSeq(hot, Acknowledged + 1, Acknowledged + Len(batch)) = batch
<1>1. /\ Acknowledged \in Nat /\ Len(batch) \in Nat /\ Len(pending) \in Nat
      /\ Runs(hot, 0) /\ Len(hot) = Acknowledged + Len(batch) + Len(pending)
      /\ Runs(batch, Acknowledged)
  BY StoreLengths DEF StoreInv, LogInv, QueueInv
<1> DEFINE part == SubSeq(hot, Acknowledged + 1, Acknowledged + Len(batch))
<1>2. /\ Runs(part, 0 + (Acknowledged + 1) - 1)
      /\ Len(part) = Acknowledged + Len(batch) - (Acknowledged + 1) + 1
  BY <1>1, RunsSubSeq
<1>3. Runs(part, Acknowledged) /\ Len(part) = Len(batch)
  BY <1>1, <1>2
<1> QED
  BY <1>1, <1>3, RunsEqual

\* Writing the batch in flight is a step of the abstract log, whether or not the
\* acknowledgement arrives.
LEMMA PersistStep ==
    ASSUME StoreInv, batch # <<>>, hot' = hot, written' = written \o batch,
           Acknowledged' \in {Acknowledged, Acknowledged + Len(batch)}
    PROVE  Log!Persist
<1>1. /\ Acknowledged \in Nat /\ Len(batch) \in Nat /\ Len(pending) \in Nat
      /\ Len(hot) = Acknowledged + Len(batch) + Len(pending) /\ Len(batch) > 0
  BY StoreLengths, EmptySeq DEF StoreInv, LogInv, QueueInv
<1> DEFINE n == Acknowledged + Len(batch)
<1>2. n \in Acknowledged + 1 .. Len(hot)
  BY <1>1
<1>3. Log!Write(n)
  BY BatchIsLogPart DEF Log!Write
<1> QED
  BY <1>2, <1>3 DEF Log!Persist

\* appendBatch resolves: the batch becomes acknowledged.
LEMMA FlushSucceedsStore ==
    ASSUME StoreInv, FlushSucceeds, seq' = seq PROVE StoreInv' /\ LogStep
<1>1. /\ batch # <<>> /\ written' = written \o batch /\ batch' = <<>>
      /\ flushing' = FALSE /\ hot' = hot /\ pending' = pending
  BY DEF FlushSucceeds
<1>2. /\ Acknowledged \in Nat /\ Len(batch) \in Nat /\ Len(pending) \in Nat
      /\ seq = Acknowledged + Len(batch) + Len(pending) /\ seq = Len(hot)
      /\ Runs(pending, Acknowledged + Len(batch))
  BY StoreLengths DEF StoreInv, LogInv, QueueInv
<1>3. Len(batch') = 0 /\ <<>> \in Seq(Nat)
  BY <1>1, EmptySeq
<1>4. Acknowledged' = Acknowledged + Len(batch)
  <2>1. Acknowledged' = seq - 0 - Len(pending)
    BY <1>1, <1>2, <1>3, Zenon DEF Acknowledged
  <2> QED
    BY <1>2, <2>1
<1>5. Runs(batch', Acknowledged') /\ Runs(pending', Acknowledged' + Len(batch'))
  <2>1. Acknowledged' + Len(batch') = Acknowledged + Len(batch)
    BY <1>2, <1>3, <1>4
  <2>2. \A i \in 1 .. Len(batch') : FALSE
    BY <1>3
  <2>3. Runs(batch', Acknowledged')
    BY <1>1, <1>3, <2>2, Zenon DEF Runs
  <2> QED
    BY <1>1, <1>2, <2>1, <2>3
<1>6. LogInv'
  BY <1>1 DEF StoreInv, LogInv
<1>7. QueueInv'
  <2>1. Acknowledged' \in Nat
    BY <1>2, <1>4
  <2>2. flushing' \in BOOLEAN /\ (flushing' <=> batch' # <<>>)
    BY <1>1
  <2> QED
    BY <1>5, <2>1, <2>2 DEF QueueInv
<1>8. BackingInv'
  BY <1>1, <1>4, WrittenBatch DEF BackingInv
<1>9. Log!Persist
  BY <1>1, <1>4, PersistStep
<1> QED
  BY <1>6, <1>7, <1>8, <1>9 DEF StoreInv, LogStep, Log!Next

\* appendBatch rejects, its rows written or not: the batch goes back in front.
LEMMA FlushFailsStore ==
    ASSUME StoreInv, FlushFails, seq' = seq PROVE StoreInv' /\ LogStep
<1>1. /\ batch # <<>> /\ batch' = <<>> /\ pending' = batch \o pending
      /\ flushing' = FALSE /\ hot' = hot
      /\ written' = written \/ written' = written \o batch
  BY DEF FlushFails
<1>2. /\ Acknowledged \in Nat /\ Len(batch) \in Nat /\ Len(pending) \in Nat
      /\ seq = Acknowledged + Len(batch) + Len(pending) /\ seq = Len(hot) /\ seq \in Nat
      /\ Runs(batch, Acknowledged) /\ Runs(pending, Acknowledged + Len(batch))
  BY StoreLengths DEF StoreInv, LogInv, QueueInv
<1>3. Len(batch') = 0 /\ <<>> \in Seq(Nat)
  BY <1>1, EmptySeq
<1>4. Runs(pending', Acknowledged) /\ Len(pending') = Len(batch) + Len(pending)
  BY <1>1, <1>2, RunsConcat
<1>5. Acknowledged' = Acknowledged
  <2>1. Acknowledged' = seq - 0 - (Len(batch) + Len(pending))
    BY <1>1, <1>2, <1>3, <1>4, Zenon DEF Acknowledged
  <2> QED
    BY <1>2, <2>1
<1>6. Runs(batch', Acknowledged') /\ Runs(pending', Acknowledged' + Len(batch'))
  <2>1. Acknowledged' + Len(batch') = Acknowledged
    BY <1>2, <1>3, <1>5
  <2>2. \A i \in 1 .. Len(batch') : FALSE
    BY <1>3
  <2>3. Runs(batch', Acknowledged')
    BY <1>1, <1>3, <2>2, Zenon DEF Runs
  <2> QED
    BY <1>4, <2>1, <2>3
<1>7. LogInv'
  BY <1>1 DEF StoreInv, LogInv
<1>8. QueueInv'
  <2>1. Acknowledged' \in Nat
    BY <1>2, <1>5
  <2>2. flushing' \in BOOLEAN /\ (flushing' <=> batch' # <<>>)
    BY <1>1
  <2> QED
    BY <1>6, <2>1, <2>2 DEF QueueInv
<1>9. CASE written' = written
  <2>1. BackingInv'
    BY <1>5, <1>9 DEF StoreInv, BackingInv
  <2> QED
    BY <1>1, <1>5, <1>7, <1>8, <1>9, <2>1 DEF StoreInv, LogStep
<1>10. CASE written' = written \o batch
  <2>1. PICK k \in Acknowledged + Len(batch) .. seq : ToSet(written') = 0 .. k - 1
    BY <1>10, WrittenBatch
  <2>2. k \in Acknowledged' .. seq'
    BY <1>2, <1>5
  <2>3. BackingInv'
    BY <1>10, <2>1, <2>2, WrittenBatch DEF BackingInv
  <2>4. Log!Persist
    BY <1>1, <1>5, <1>10, PersistStep
  <2> QED
    BY <1>7, <1>8, <2>3, <2>4 DEF StoreInv, LogStep, Log!Next
<1> QED
  BY <1>1, <1>9, <1>10

\* The rows of a batch that was in flight when the process ended, if they arrive.
LEMMA ExitStore ==
    ASSUME StoreInv, UNCHANGED <<hot, pending, batch, flushing, seq>>,
           written' \in {written, written \o batch}
    PROVE  StoreInv' /\ LogStep
<1>1. CASE written' = written
  <2>1. UNCHANGED <<storeVars, seq>>
    BY <1>1 DEF storeVars
  <2> QED
    BY <1>1, <2>1, StoreUnchanged DEF LogStep, Acknowledged
<1>2. CASE written' = written \o batch /\ written' # written
  <2>1. Acknowledged' = Acknowledged
    BY DEF Acknowledged
  <2>2. /\ Acknowledged \in Nat /\ Len(batch) \in Nat /\ seq \in Nat
        /\ hot' = hot /\ pending' = pending /\ batch' = batch /\ flushing' = flushing
        /\ seq' = seq
    BY StoreLengths DEF StoreInv, LogInv, QueueInv
  <2>3. LogInv' /\ QueueInv'
    BY <2>1, <2>2 DEF StoreInv, LogInv, QueueInv
  <2>4. PICK k \in Acknowledged + Len(batch) .. seq : ToSet(written') = 0 .. k - 1
    BY <1>2, WrittenBatch
  <2>5. k \in Acknowledged' .. seq'
    BY <2>1, <2>2
  <2>6. BackingInv'
    BY <1>2, <2>4, <2>5, WrittenBatch DEF BackingInv
  <2>7. batch # <<>>
    BY <1>2, ConcatEmptySeq DEF StoreInv, BackingInv
  <2>8. Log!Persist
    BY <1>2, <2>1, <2>2, <2>7, PersistStep
  <2> QED
    BY <2>3, <2>6, <2>8 DEF StoreInv, LogStep, Log!Next
<1> QED
  BY <1>1, <1>2

(***************************************************************************)
(* The program.                                                            *)
(***************************************************************************)
IngestionInv ==
    /\ CollectorInv /\ StoreInv
    /\ exited \in BOOLEAN /\ finalFlush \in BOOLEAN
    /\ ~exited => ~stopped

\* Every step keeps the invariant, and is a step or a stutter of the abstract log.
LEMMA IngestionStep ==
    ASSUME IngestionInv, [Next]_vars PROVE IngestionInv' /\ LogStep
<1>1. CASE UNCHANGED vars
  <2>1. CollectorInv'
    BY <1>1 DEF IngestionInv, vars, collectorVars, CollectorInv, CollectorTyped,
                LifelineIsTransport, HeartbeatInv
  <2>2. StoreInv' /\ LogStep
    BY <1>1, StoreUnchanged DEF IngestionInv, vars, storeVars, LogStep, Acknowledged
  <2> QED
    BY <1>1, <2>1, <2>2 DEF IngestionInv, vars, collectorVars, processVars
<1>2. ASSUME ~exited, UNCHANGED collectorVars PROVE CollectorInv' /\ ~stopped'
  BY <1>2 DEF IngestionInv, collectorVars, CollectorInv, CollectorTyped,
              LifelineIsTransport, HeartbeatInv
<1>3. CASE ~exited /\ CollectorStep
  <2>1. CollectorInv' /\ ~stopped'
    BY <1>3, CollectorStepInv DEF IngestionInv, CollectorStep, ByCollector
  <2>2. StoreInv' /\ LogStep
    BY <1>3, StoreUnchanged DEF IngestionInv, CollectorStep, ByCollector, storeVars,
                                LogStep, Acknowledged
  <2> QED
    BY <1>3, <2>1, <2>2 DEF IngestionInv, CollectorStep, ByCollector, processVars
<1>4. CASE ~exited /\ OnMessage
  BY <1>2, <1>4, OnMessageStore DEF IngestionInv, OnMessage, processVars
<1>5. CASE ~exited /\ FlushTimer
  <2>1. StoreInv' /\ LogStep
    BY <1>5, FlushKeepsRuns, QueueStep DEF IngestionInv, StoreInv, QueueInv, FlushTimer
  <2> QED
    BY <1>2, <1>5, <2>1 DEF IngestionInv, FlushTimer, processVars
<1>6. CASE ~exited /\ FlushEnds
  <2>1. StoreInv' /\ LogStep
    BY <1>6, FlushSucceedsStore, FlushFailsStore DEF IngestionInv, FlushEnds
  <2>2. CASE finalFlush
    BY <1>6, <2>1, <2>2, StopInv DEF IngestionInv, FlushEnds, Exit
  <2>3. CASE ~finalFlush
    BY <1>2, <1>6, <2>1, <2>3 DEF IngestionInv, FlushEnds
  <2> QED
    BY <2>2, <2>3
<1>7. CASE ~exited /\ Shutdown
  <2>1. CASE flushing \/ pending = <<>>
    <3>1. StoreInv' /\ LogStep
      BY <1>7, <2>1, ExitStore DEF IngestionInv, Shutdown
    <3> QED
      BY <1>7, <2>1, <3>1, StopInv DEF IngestionInv, Shutdown, Exit
  <2>2. CASE ~(flushing \/ pending = <<>>)
    <3>1. StoreInv' /\ LogStep
      BY <1>7, <2>2, FlushKeepsRuns, QueueStep DEF IngestionInv, StoreInv, QueueInv, Shutdown
    <3> QED
      BY <1>2, <1>7, <2>2, <3>1 DEF IngestionInv, Shutdown
  <2> QED
    BY <2>1, <2>2
<1> QED
  BY <1>1, <1>3, <1>4, <1>5, <1>6, <1>7 DEF Next

\* The invariant holds in every reachable state of the program.
LEMMA IngestionInvariant == Spec => [](IngestionInv)
<1>1. Init => IngestionInv
  BY CollectorInitInv, StoreInitInv DEF Init, IngestionInv, CollectorInit
<1>2. IngestionInv /\ [Next]_vars => IngestionInv'
  BY IngestionStep
<1> QED
  BY <1>1, <1>2, PTL DEF Spec

\* Through every sequence of drops, failed handshakes, timers and shutdowns the
\* collector holds on to exactly one lifeline, a socket or a scheduled reconnect;
\* it pings the socket exactly while it is open; and its delay is bounded and
\* reset by a connection that succeeded.
THEOREM CollectorIsInOrder == Spec => []CollectorInOrder
<1>1. IngestionInv => CollectorInOrder
  BY CollectorInvInOrder DEF IngestionInv
<1> QED
  BY <1>1, IngestionInvariant, PTL

\* What the invariant says of the tail of the log and of the rows written.
LEMMA StoreInvKeepsAll ==
    ASSUME StoreInv PROVE NothingLost /\ SurvivorsHaveNoGap
<1>1. /\ Acknowledged \in Nat /\ Len(batch) \in Nat /\ Len(pending) \in Nat /\ seq \in Nat
      /\ Len(hot) = Acknowledged + Len(batch) + Len(pending)
      /\ Runs(hot, 0) /\ Runs(batch, Acknowledged) /\ Runs(pending, Acknowledged + Len(batch))
  BY StoreLengths DEF StoreInv, LogInv, QueueInv
<1> DEFINE tail == batch \o pending
           head == Len(hot) - Len(tail)
<1>2. Runs(tail, Acknowledged) /\ Len(tail) = Len(batch) + Len(pending)
  BY <1>1, RunsConcat
<1>3. head = Acknowledged
  BY <1>1, <1>2
<1>4. tail = SubSeq(hot, Acknowledged + 1, Len(hot))
  <2> DEFINE part == SubSeq(hot, Acknowledged + 1, Len(hot))
  <2>1. /\ Runs(part, 0 + (Acknowledged + 1) - 1)
        /\ Len(part) = Len(hot) - (Acknowledged + 1) + 1
    BY <1>1, RunsSubSeq
  <2>2. Runs(part, Acknowledged) /\ Len(part) = Len(tail)
    BY <1>1, <1>2, <2>1
  <2> QED
    BY <1>1, <1>2, <2>2, RunsEqual
<1>5. PICK k \in Acknowledged .. seq : ToSet(written) = 0 .. k - 1
  BY DEF StoreInv, BackingInv
<1>6. ToSet(SubSeq(hot, 1, Acknowledged)) \subseteq ToSet(written)
  <2> DEFINE part == SubSeq(hot, 1, Acknowledged)
  <2>1. Runs(part, 0 + 1 - 1) /\ Len(part) = Acknowledged - 1 + 1
    BY <1>1, RunsSubSeq
  <2>2. Runs(part, 0) /\ Len(part) = Acknowledged
    BY <1>1, <2>1
  <2>3. ToSet(part) = 0 .. 0 + Len(part) - 1
    BY <2>2, RunsSet
  <2> QED
    BY <1>1, <1>5, <2>2, <2>3
<1>7. NothingLost
  <2> HIDE DEF head, tail
  <2>1. head >= 0
    BY <1>1, <1>3
  <2>2. tail = SubSeq(hot, head + 1, Len(hot))
    BY <1>3, <1>4, Zenon
  <2>3. ToSet(SubSeq(hot, 1, head)) \subseteq ToSet(written)
    BY <1>3, <1>6
  <2> QED
    BY <2>1, <2>2, <2>3, Zenon DEF NothingLost, head, tail
<1>8. SurvivorsHaveNoGap
  <2>1. k \in Nat
    BY <1>1, <1>5
  <2>2. Cardinality(0 .. k - 1) = k
    BY <2>1, FS_Interval
  <2> QED
    BY <1>5, <2>2 DEF SurvivorsHaveNoGap
<1> QED
  BY <1>7, <1>8

\* Until the process exits no record received is lost, overtaken or skipped,
\* whatever appendBatch does and whatever arrives while it is awaited; and the
\* rows that outlive the process, however it was told to end, have no gap.
THEOREM IngestionLosesOnlyTheTail == Spec => []OnlyTheTailIsLost
<1>1. IngestionInv => OnlyTheTailIsLost
  BY StoreInvKeepsAll DEF IngestionInv, OnlyTheTailIsLost
<1> QED
  BY <1>1, IngestionInvariant, PTL

\* The pipeline refines the at-least-once log: a message is an append, a batch
\* that is written is a persist with or without its acknowledgement, and every
\* other step, of the collector, the timers and the signals, is a stutter.
THEOREM IngestionImplementsDurableLog == Spec => ImplementsDurableLog
<1>1. Init => Log!Init
  <2> SUFFICES ASSUME Init PROVE Log!Init
    OBVIOUS
  <2>1. hot = <<>> /\ written = <<>> /\ batch = <<>> /\ pending = <<>> /\ Len(<<>>) = 0
    BY EmptySeq DEF Init, StoreInit
  <2>2. Acknowledged = 0 - 0 - 0
    BY <2>1, Zenon DEF Acknowledged
  <2> QED
    BY <2>1, <2>2 DEF Log!Init
<1>2. IngestionInv /\ [Next]_vars => [Log!Next]_<<hot, written, Acknowledged>>
  BY IngestionStep DEF LogStep
<1> QED
  BY <1>1, <1>2, IngestionInvariant, PTL DEF Spec, ImplementsDurableLog, Log!Spec
=============================================================================
