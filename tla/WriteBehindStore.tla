-------------------------- MODULE WriteBehindStore --------------------------
(***************************************************************************)
(* BufferedRawStore (packages/adapters-db): a synchronous append-only view *)
(* (hot) in front of an asynchronous backing store.  flush() hands the     *)
(* whole pending queue to appendBatch and awaits it; while it waits, the   *)
(* collector keeps appending, and the timer keeps calling flush().  The    *)
(* code between two awaits is one step, so a flush is its start and one of *)
(* its two ends.                                                           *)
(***************************************************************************)
EXTENDS Naturals, Sequences, SequencesExt

CONSTANTS
    BatchSize,           \* batchSize: an append that fills the queue flushes it
    BackingFails,        \* whether appendBatch may be rejected
    AmbiguousFailures,   \* whether a rejected appendBatch may have been applied
    MaxRows              \* bound: rows written by rejected batches stop below it

ASSUME BatchAssumption == BatchSize \in Nat \ {0}
ASSUME FailureAssumption == {BackingFails, AmbiguousFailures} \subseteq BOOLEAN

VARIABLES
    hot,                 \* BufferedRawStore.hot
    pending,             \* BufferedRawStore.pending
    flushing,            \* BufferedRawStore.flushing
    batch,               \* the local batch of the flush in progress, or <<>>
    written              \* rows of the backing store, in insertion order

storeVars == <<hot, pending, flushing, batch, written>>

StoreInit ==
    /\ hot = <<>> /\ pending = <<>> /\ batch = <<>> /\ written = <<>>
    /\ flushing = FALSE

\* Mutant: the flag is not consulted, so a second flush drops the first batch.
FlushReentrant(queue) ==
    IF queue = <<>>
    THEN pending' = queue /\ UNCHANGED <<flushing, batch>>
    ELSE pending' = <<>> /\ batch' = queue /\ flushing' = TRUE

\* flush() up to its await, called when the queue is `queue'.
Flush(queue) ==
    IF flushing \/ queue = <<>>
    THEN pending' = queue /\ UNCHANGED <<flushing, batch>>
    ELSE pending' = <<>> /\ batch' = queue /\ flushing' = TRUE

\* append(): the record is visible at once, and a full queue is flushed.
AppendRecord(rec) ==
    /\ hot' = Append(hot, rec)
    /\ LET queue == Append(pending, rec) IN
         IF Len(queue) >= BatchSize THEN Flush(queue)
         ELSE pending' = queue /\ UNCHANGED <<flushing, batch>>
    /\ UNCHANGED written

\* Mutant: the flag is left set once a flush has succeeded.
FlushSucceedsHoldingFlag ==
    /\ batch # <<>>
    /\ written' = written \o batch
    /\ batch' = <<>>
    /\ UNCHANGED <<hot, pending, flushing>>

FlushSucceeds ==
    /\ batch # <<>>
    /\ written' = written \o batch
    /\ batch' = <<>> /\ flushing' = FALSE
    /\ UNCHANGED <<hot, pending>>

\* Mutant: the failed batch goes behind what arrived meanwhile.
FlushFailsRequeueLast ==
    /\ batch # <<>> /\ BackingFails
    /\ \/ UNCHANGED written
       \/ AmbiguousFailures /\ Len(written) < MaxRows /\ written' = written \o batch
    /\ pending' = pending \o batch
    /\ batch' = <<>> /\ flushing' = FALSE
    /\ UNCHANGED hot

\* The batch is put back in front of what arrived during the await.
FlushFails ==
    /\ batch # <<>> /\ BackingFails
    /\ \/ UNCHANGED written
       \/ AmbiguousFailures /\ Len(written) < MaxRows /\ written' = written \o batch
    /\ pending' = batch \o pending
    /\ batch' = <<>> /\ flushing' = FALSE
    /\ UNCHANGED hot

-----------------------------------------------------------------------------
(* Properties. *)

\* Nothing is lost, and the order is kept, whatever fails and whatever arrives
\* during a flush: the batch in flight followed by the queue is exactly the tail
\* of the log, and every record before that tail is in the backing store (twice,
\* perhaps, when a failed appendBatch had in fact been applied).
NothingLost ==
    LET tail == batch \o pending
        head == Len(hot) - Len(tail)
    IN /\ head >= 0
       /\ tail = SubSeq(hot, head + 1, Len(hot))
       /\ ToSet(SubSeq(hot, 1, head)) \subseteq ToSet(written)
=============================================================================
