----------------------------- MODULE DurableLog -----------------------------
(***************************************************************************)
(* What a write-behind store promises: a log with at-least-once delivery   *)
(* to its backing store.  Every batch of rows written starts right after   *)
(* the last acknowledged record and runs on without a gap, and only rows   *)
(* that were written are acknowledged.  Rows are therefore repeated at     *)
(* most from the acknowledged point on, never skipped and never reordered  *)
(* within a batch.                                                         *)
(***************************************************************************)
EXTENDS Naturals, Sequences

CONSTANT Records

VARIABLES
    log,           \* every record appended, in order
    durable,       \* the rows of the backing store
    acknowledged   \* how many records of the log are known to be durable

Init == log = <<>> /\ durable = <<>> /\ acknowledged = 0

AppendToLog ==
    /\ \E r \in Records : log' = Append(log, r)
    /\ UNCHANGED <<durable, acknowledged>>

Write(n) == durable' = durable \o SubSeq(log, acknowledged + 1, n)

\* The acknowledgement may fail to arrive although the rows were written.
Persist ==
    /\ \E n \in acknowledged + 1 .. Len(log) :
          Write(n) /\ acknowledged' \in {n, acknowledged}
    /\ UNCHANGED log

Next == AppendToLog \/ Persist

Spec == Init /\ [][Next]_<<log, durable, acknowledged>>
=============================================================================
