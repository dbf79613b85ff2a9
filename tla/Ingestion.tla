----------------------------- MODULE Ingestion ------------------------------
(***************************************************************************)
(* The program of src/main.ts: the collector feeds the write-behind store, *)
(* an interval calls flush(), and a signal runs shutdown(), which clears   *)
(* the interval, awaits flush(), stops the collector and exits.  Signals   *)
(* do not exclude each other, and the collector keeps receiving during the *)
(* final flush.                                                            *)
(***************************************************************************)
EXTENDS Collector, WriteBehindStore

CONSTANTS
    MaxRecords,          \* bound: records received
    MaxSignals           \* bound: SIGINT and SIGTERM delivered

ASSUME RecordsAssumption == MaxRecords \in Nat

VARIABLES
    seq,                 \* WebSocketCollector.seq
    signals,             \* signals delivered so far
    finalFlush,          \* whether a shutdown() awaits the flush it started
    exited               \* process.exit has been called

processVars == <<signals, finalFlush, exited>>
vars == <<collectorVars, storeVars, seq, processVars>>

Init ==
    /\ CollectorInit /\ StoreInit
    /\ seq = 0
    /\ signals = 0 /\ finalFlush = FALSE /\ exited = FALSE

\* onMessage() with a ticker or a trade: the record, numbered seq, is stored.
\* Any other message is logged and changes nothing.
OnMessage ==
    /\ Streaming
    /\ seq < MaxRecords
    /\ AppendRecord(seq)
    /\ seq' = seq + 1
    /\ UNCHANGED <<collectorVars, processVars>>

\* The flush interval fires; shutdown() has cleared it once a signal came.
FlushTimer ==
    /\ signals = 0
    /\ Flush(pending)
    /\ UNCHANGED <<hot, written, collectorVars, seq, processVars>>

\* stop() and process.exit(), reached together once flush() has returned: no
\* event is handled in between.  A batch still in flight may or may not reach
\* the backing store.
Exit == exited' = TRUE /\ Stop

\* shutdown(): flush() returns at once when another flush is in flight or the
\* queue is empty, and is awaited otherwise.
Shutdown ==
    /\ signals < MaxSignals
    /\ signals' = signals + 1
    /\ IF flushing \/ pending = <<>>
       THEN /\ Exit
            /\ written' \in {written, written \o batch}
            /\ UNCHANGED <<pending, batch, flushing, finalFlush>>
       ELSE /\ Flush(pending)
            /\ finalFlush' = TRUE
            /\ UNCHANGED <<written, exited, collectorVars>>
    /\ UNCHANGED <<hot, seq>>

\* appendBatch settles; the shutdown that awaits it goes on to exit.
FlushEnds ==
    /\ FlushSucceeds \/ FlushFails
    /\ IF finalFlush THEN Exit ELSE UNCHANGED <<exited, collectorVars>>
    /\ UNCHANGED <<seq, signals, finalFlush>>

ByCollector(action) == ~exited /\ action /\ UNCHANGED <<storeVars, seq, processVars>>

CollectorStep == ByCollector(Start \/ TimerFires \/ NetworkEvent)

Next == ~exited /\ (CollectorStep \/ OnMessage \/ FlushTimer \/ FlushEnds \/ Shutdown)

Spec == Init /\ [][Next]_vars

\* The interval fires for ever, appendBatch settles, and a backing store that is
\* retried for ever accepts a batch at some point.  Reconnect timers fire, a
\* handshake ends, and one that is retried for ever succeeds at some point.
Fairness ==
    /\ WF_vars(~exited /\ FlushTimer)
    /\ WF_vars(~exited /\ FlushEnds)
    /\ SF_vars(~exited /\ FlushEnds /\ FlushSucceeds)
    /\ WF_vars(ByCollector(TimerFires))
    /\ \A s \in Slots : /\ WF_vars(ByCollector(Opens(s) \/ OpenFails(s)))
                        /\ SF_vars(ByCollector(Opens(s)))

FairSpec == Spec /\ Fairness

-----------------------------------------------------------------------------
(* Properties. *)

\* Every row that outlives the process is a record the collector received, and
\* rows without a gap: a shutdown at any point keeps a prefix of the stream, so
\* the sequence numbers in the backing store never skip one.
SurvivorsHaveNoGap ==
    ToSet(written) = 0 .. Cardinality(ToSet(written)) - 1

\* Until the process exits nothing received is lost or overtaken, whatever fails,
\* and what a shutdown loses is only the end of the stream.
OnlyTheTailIsLost == (~exited => NothingLost) /\ SurvivorsHaveNoGap

\* A record that is received becomes durable unless the process is told to end.
EventuallyDurable ==
    \A n \in 1 .. MaxRecords : (Len(hot) >= n) ~> (n - 1 \in ToSet(written) \/ signals > 0)

\* The stream keeps flowing into the backing store: the collector comes back
\* after every drop, and what it receives becomes durable.
StreamKeepsFlowing == EventuallyDurable /\ AlwaysReconnects

\* "durably flushing appends to an async backing store" (buffered-raw-store.ts:5):
\* a program that shut down in order, with a backing store that refused nothing,
\* has written every record it received.
OrderlyShutdownKeepsAll == exited => ToSet(hot) \subseteq ToSet(written)

Acknowledged == Len(hot) - Len(batch) - Len(pending)

\* The pipeline implements a log delivered at least once: whatever fails, and
\* whenever it is told to end, each batch continues from the last record that was
\* acknowledged, without a gap.
Log == INSTANCE DurableLog WITH log <- hot, durable <- written, acknowledged <- Acknowledged,
                                Records <- 0 .. MaxRecords - 1
ImplementsDurableLog == Log!Spec
=============================================================================
