----------------------------- MODULE EventStore -----------------------------
(***************************************************************************)
(* The append-only, hash-chained event log and everything that is derived  *)
(* from it by a fold: versions, machine states, decision records and the   *)
(* views of the operator interface.                                        *)
(*   packages/event-engine/src/{hash,events,event-store,versioning,        *)
(*     projection,decision-projection,state-machine}.ts                    *)
(*   packages/runtime/src/{views,explainability}.ts                        *)
(* An event has a type, a correlation, a snapshot ("" when it has none), a *)
(* time, a schema version and a payload, a tuple of its fields.  SHA-256   *)
(* is taken as injective: a hash is the tuple of what was hashed.          *)
(***************************************************************************)
EXTENDS Integers, Sequences, FiniteSets, TLC, SequencesExt, FiniteSetsExt, Filters

Event(type, corr, snap, time, version, payload) ==
  [event_type |-> type, correlation_id |-> corr, snapshot_id |-> snap, event_time |-> time,
   schema_version |-> version, payload |-> payload]
\* The input part of a stored event.
InputOf(e) == Event(e.event_type, e.correlation_id, e.snapshot_id, e.event_time, e.schema_version, e.payload)

-----------------------------------------------------------------------------
(* InMemoryEventStore *)

DecisionClass == {"Decision.stage", "Decision.outcome"}
decisionClassValid(input) ==
  input.event_type \in DecisionClass => input.snapshot_id # "" /\ input.correlation_id # ""

\* prev_hash is part of the content too; in the tuple it stands once.
chainHash(prev, content) == <<prev, content>>
contentHash(input, seq) == <<InputOf(input), seq>>

LastHash(log) == IF log = <<>> THEN <<>> ELSE Last(log).hash
Sealed(log, input) ==
  [event_type |-> input.event_type, correlation_id |-> input.correlation_id, snapshot_id |-> input.snapshot_id,
   event_time |-> input.event_time, schema_version |-> input.schema_version, payload |-> input.payload,
   seq |-> Len(log) + 1, prev_hash |-> LastHash(log),
   hash |-> chainHash(LastHash(log), contentHash(input, Len(log) + 1))]
append(log, input) == Append(log, Sealed(log, input))

byCorrelation(log, c) == Filter(log, {e \in ToSet(log) : e.correlation_id = c})

\* Mutated form of verifyChain: only the links are compared.
verifyChainLinks(log) == \A i \in DOMAIN log : log[i].prev_hash = LastHash(SubSeq(log, 1, i - 1))
verifyChain(log) ==
  \A i \in DOMAIN log : LET prev == LastHash(SubSeq(log, 1, i - 1)) IN
    /\ log[i].prev_hash = prev
    /\ log[i].hash = chainHash(prev, contentHash(log[i], log[i].seq))

-----------------------------------------------------------------------------
(* UpcasterRegistry: steps of one event type, a sequence of [from, to]. *)

register(steps, s) == StableSort(Append(steps, s), LAMBDA a, b : a.from < b.from)
currentVersion(steps, fallback) == IF steps = <<>> THEN fallback ELSE Max({s.to : s \in ToSet(steps)})

\* A migrated payload carries the step at its end.
Migrate(e, s) == IF s.from = e.schema_version
                 THEN [e EXCEPT !.schema_version = s.to, !.payload = Append(@, s.from)] ELSE e
upcast(steps, e) ==
  IF e.schema_version >= currentVersion(steps, e.schema_version) THEN e ELSE FoldLeft(Migrate, e, steps)

-----------------------------------------------------------------------------
(* Projections.  A machine's state is the target of its last transition; a *)
(* decision record is a fold over the events of one correlation.           *)

IsTransition(e) == e.event_type = "State.transitioned"
Transition(machine, to, time) ==
  Event("State.transitioned", <<machine>>, "", time, 1, <<machine, to>>)

transitionsOf(log, machine) == Filter(log, {e \in ToSet(log) : IsTransition(e) /\ e.payload[1] = machine})
\* null is read as INIT by ProductionRuntime.state.
currentState(log, machine) ==
  IF transitionsOf(log, machine) = <<>> THEN "INIT" ELSE Last(transitionsOf(log, machine)).payload[2]

OfType(events, type) == Filter(events, {e \in ToSet(events) : e.event_type = type})
Outcomes(events) == OfType(events, "Decision.outcome")
Snapshots(events) == Filter(events, {e \in ToSet(events) : e.snapshot_id # ""})
\* Only for a correlation with events: projectDecision of none is null.
projectDecision(events) ==
  [decision_id |-> events[1].correlation_id,
   event_time |-> events[1].event_time, decided_at |-> Last(events).event_time,
   snapshot_id |-> IF Snapshots(events) = <<>> THEN "unknown" ELSE Snapshots(events)[1].snapshot_id,
   sources |-> [i \in DOMAIN events |-> events[i].seq],
   action |-> IF Outcomes(events) = <<>> THEN "hold" ELSE Outcomes(events)[1].payload[1]]

Correlations(events) == {e.correlation_id : e \in ToSet(events)}
\* decisionRecords of the views and decisions of the replay engine; a set,
\* the records have distinct ids.
decisionRecords(events) == {projectDecision(byCorrelation(events, c)) : c \in Correlations(events)}

-----------------------------------------------------------------------------
(* Views *)

\* <<>> for null.
latestPayload(events, type) == IF OfType(events, type) = <<>> THEN <<>> ELSE Last(OfType(events, type)).payload
Halts(events) == Filter(events, {e \in ToSet(events) : IsTransition(e) /\ e.payload[2] = "HALT"})

\* The loop of dashboardView over the events.
runtimeState(events) ==
  LET runtime[i \in 0 .. Len(events)] ==
        IF i = 0 THEN "INIT"
        ELSE IF IsTransition(events[i]) /\ events[i].payload[1] = "production" THEN events[i].payload[2] ELSE runtime[i - 1]
  IN runtime[Len(events)]
dashboardView(events) ==
  [runtime_state |-> runtimeState(events),
   market_mode |-> latestPayload(events, "MarketHealth.scored"),
   orders_sent |-> Len(OfType(events, "Order.sent")),
   halted |-> Halts(events) # <<>>]

Days(events) == {e.event_time : e \in ToSet(events)}
OnDay(events, d) == Filter(events, {e \in ToSet(events) : e.event_time = d})
diaryView(events) ==
  [d \in Days(events) |-> [decisions |-> Len(OfType(OnDay(events, d), "Risk.decided")),
                           halted |-> \E e \in ToSet(Halts(events)) : e.event_time = d]]

ChainOrder == <<"MarketHealth.scored", "Feature.computed", "Strategy.evaluated", "Portfolio.planned",
                "Risk.decided", "Order.sent", "Fill.received">>
Stage(e) == CHOOSE i \in DOMAIN ChainOrder : ChainOrder[i] = e.event_type
timeline(events) ==
  StableSort(Filter(events, {e \in ToSet(events) : e.event_type \in ToSet(ChainOrder)}),
             LAMBDA a, b : Stage(a) < Stage(b) \/ (Stage(a) = Stage(b) /\ a.seq < b.seq))
explainabilityView(events, c) ==
  [timeline |-> timeline(byCorrelation(events, c)),
   decision |-> IF byCorrelation(events, c) = <<>> THEN <<>> ELSE <<projectDecision(byCorrelation(events, c))>>]
=============================================================================
