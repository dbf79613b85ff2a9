----------------------------- MODULE Governance -----------------------------
(***************************************************************************)
(* What decides that the system trades, on which version, and on whose     *)
(* proposal.  Four parts, each with a log of its own:                      *)
(*   production: ProductionRuntime, CycleOrchestrator, the risk engine's   *)
(*     state machine and the operator's views, on one shared store         *)
(*     (production-engine/src/{runtime,orchestrator}.ts);                  *)
(*   control: ControlPlane and SnapshotRuntime                             *)
(*     (production-engine/src/{control-plane,snapshot-runtime,manifest}.ts)*)
(*   ai: AILayer (ai-layer/src);                                           *)
(*   research: ResearchPlatform, ExperimentRunner and the champion         *)
(*     (research-platform/src).                                            *)
(* They share no state, so a behaviour works in one part, chosen at the    *)
(* start; every method is synchronous, so a call is one step.              *)
(***************************************************************************)
EXTENDS EventStore, Evaluation

CONSTANTS Symbols,          \* market symbols, numbers: their alphabetical order
          MaxProduction,    \* bound: transitions of the production machine; a cycle counts for two
          MaxCycles,        \* bound: cycles run
          SnapshotIds,      \* snapshot ids
          Contents,         \* what a snapshot can pin under an id
          MaxControl,       \* bound: control-plane calls
          MaxProposals,     \* bound: proposals of the AI layer
          MaxCalls,         \* bound: events before its last call
          MaxExperiments,   \* bound: experiments run
          MaxRecorded,      \* bound: events of the log an experiment replays
          NoSnapshot        \* nothing is active

ASSUME GovernanceAssumption ==
  /\ {MaxProduction, MaxCycles, MaxControl, MaxProposals, MaxCalls, MaxExperiments, MaxRecorded} \cup Symbols \subseteq Nat
  /\ IsFiniteSet(Symbols)

VARIABLES part,
          log, day, cycle,                  \* production
          sent, thrown,                     \* ghosts: orders the venue received; orders the adapter threw on
          active, previous, cpLog, backed,  \* control; backed: ghost, ids a signed and evidenced manifest named
          proposals, memory, aiLog,         \* ai: statuses by id, AIMemory.proposalHistory
          sourceLog, rpLog, champion        \* research

production == <<log, day, cycle, sent, thrown>>
control == <<active, previous, cpLog, backed>>
ai == <<proposals, memory, aiLog>>
research == <<sourceLog, rpLog, champion>>
vars == <<part, production, control, ai, research>>

\* append, without the hashes: EventLog checks those.
Numbered(input, n) ==
  [event_type |-> input.event_type, correlation_id |-> input.correlation_id, snapshot_id |-> input.snapshot_id,
   event_time |-> input.event_time, schema_version |-> input.schema_version, payload |-> input.payload, seq |-> n]
record(events, input) == Append(events, Numbered(input, Len(events) + 1))
\* One append after another.
recordAll(events, inputs) == events \o [i \in DOMAIN inputs |-> Numbered(inputs[i], Len(events) + i)]

-----------------------------------------------------------------------------
(* ProductionRuntime *)

\* Mutated form of VALID: a recovery resumes trading.
VALIDResuming ==
  [INIT |-> {"READY"}, READY |-> {"RUN"}, RUN |-> {"SAFE_MODE", "HALT"}, SAFE_MODE |-> {"RUN", "HALT"},
   HALT |-> {"RECOVERY"}, RECOVERY |-> {"RUN", "HALT", "FROZEN"}, FROZEN |-> {}]
VALID ==
  [INIT |-> {"READY"}, READY |-> {"RUN"}, RUN |-> {"SAFE_MODE", "HALT"}, SAFE_MODE |-> {"RUN", "HALT"},
   HALT |-> {"RECOVERY"}, RECOVERY |-> {"READY", "HALT", "FROZEN"}, FROZEN |-> {}]
state == currentState(log, "production")

CanProduce(n) == Len(transitionsOf(log, "production")) + 2 * cycle + n <= MaxProduction

\* transition(), with init() and start(); an invalid one throws.
RuntimeTransition(to) ==
  /\ CanProduce(1) /\ to \in VALID[state]
  /\ log' = record(log, Transition("production", to, day))
  /\ UNCHANGED <<part, day, cycle, sent, thrown, control, ai, research>>

\* The risk engine's machine, of the same store, is started.
RiskTransition ==
  /\ currentState(log, "risk") = "INIT"
  /\ log' = record(log, Transition("risk", "READY", day))
  /\ UNCHANGED <<part, day, cycle, sent, thrown, control, ai, research>>

NextDay == day = 1 /\ day' = 2 /\ UNCHANGED <<part, log, cycle, sent, thrown, control, ai, research>>

-----------------------------------------------------------------------------
(* CycleOrchestrator.  The ports answer anything: which symbols the        *)
(* portfolio optimizer gives a weight, and for each of them what becomes   *)
(* of its order.                                                           *)

\* What the feature port computes on each day.
Features == <<[liquidity |-> 80, trend |-> 60, volume |-> 70, volatility |-> 20],
              [liquidity |-> 20, trend |-> 0, volume |-> 10, volatility |-> 90]>>
\* An order is refused by risk, rejected by the gateway, or handed to the
\* adapter; one that throws may have reached the venue or not.
Throws == {"unreached", "unconfirmed"}
Arrives == {"filled", "unconfirmed"}
Fates == {"refused", "rejected"} \cup Arrives \cup Throws
\* What becomes of the allocations, in their order: an exception ends the cycle.
Courses(planned) ==
  {fates \in UNION {[1..k -> Fates] : k \in 0..Cardinality(planned)} :
     /\ \A i \in DOMAIN fates : fates[i] \in Throws => i = Len(fates)
     /\ Len(fates) < Cardinality(planned) => fates # <<>> /\ Last(fates) \in Throws}

CorrelationId(n) == <<"cycle", n>>
orch(type, n, payload) == Event(type, CorrelationId(n), "s1", day, 1, payload)
\* The gateway records under the correlation it was made with.
exec(type, s) == Event(type, <<"exec">>, "s1", day, 1, <<s>>)

\* Mutated form of GatewayEvents: an order is recorded once it is filled.
GatewayEventsLate(s, fate) ==
  CASE fate = "filled"   -> <<exec("Order.sent", s), exec("Fill.received", s)>>
    [] fate = "rejected" -> <<exec("Order.rejected", s)>>
    [] OTHER             -> <<>>
\* Order.sent is recorded before the adapter is called.
GatewayEvents(s, fate) ==
  CASE fate = "filled"   -> <<exec("Order.sent", s), exec("Fill.received", s)>>
    [] fate \in Throws   -> <<exec("Order.sent", s)>>
    [] fate = "rejected" -> <<exec("Order.rejected", s)>>
    [] OTHER             -> <<>>
\* An approval of the risk engine always carries a token.
OrderEvents(n, s, fate) ==
  <<orch("Risk.decided", n, <<s, IF fate = "refused" THEN "refused" ELSE "approved">>)>>
  \o GatewayEvents(s, fate)

\* The planned symbols, sorted.
Allocations(planned) ==
  CHOOSE a \in [1 .. Cardinality(planned) -> planned] : \A i, j \in DOMAIN a : i < j => a[i] < a[j]
CycleEvents(n, planned, fates) ==
  LET allocations == Allocations(planned)
      mode == MarketMode(MarketScore(Features[day])) IN
  <<orch("MarketHealth.scored", n, <<mode>>), orch("Strategy.evaluated", n, <<mode>>),
    orch("Portfolio.planned", n, allocations)>>
  \o FlattenSeq([i \in 1 .. Len(fates) |-> OrderEvents(n, allocations[i], fates[i])])
OrdersOf(n, planned, fates, ends) == {<<n, Allocations(planned)[i]>> : i \in {j \in 1 .. Len(fates) : fates[j] \in ends}}

\* runCycle does not ask the runtime for its state.
RunCycle(planned, fates) ==
  /\ CanProduce(2) /\ cycle < MaxCycles
  /\ cycle' = cycle + 1
  /\ log' = recordAll(log, CycleEvents(cycle', planned, fates))
  /\ sent' = sent \cup OrdersOf(cycle', planned, fates, Arrives)
  /\ thrown' = thrown \cup OrdersOf(cycle', planned, fates, Throws)
  /\ UNCHANGED <<part, day, control, ai, research>>

-----------------------------------------------------------------------------
(* ControlPlane.  The same id can come with another content, with a pin    *)
(* missing, or with a hash that does not match what it pins; a manifest    *)
(* names an id.                                                            *)

Snapshot == [id : SnapshotIds, content : Contents, pinned : BOOLEAN, intact : BOOLEAN]
ASSUME SnapshotAssumption == NoSnapshot \notin Snapshot
Manifest == [target : SnapshotIds, approvals : {{}, {"signed"}, {"unsigned"}, {"signed", "unsigned"}}, wfv : BOOLEAN]

verifyManifest(m, target) ==
  /\ m.approvals # {} /\ "unsigned" \notin m.approvals
  /\ m.target = target.id /\ target.intact /\ m.wfv /\ target.pinned

CanControl == Len(cpLog) < MaxControl
ControlEvent(type, id) == Event(type, "control-plane", id, 1, 1, <<id>>)

\* championSwap is deploy.  activate() checks pins and hash again.
Deploy(m, target) ==
  /\ CanControl
  /\ backed' = backed \cup (IF m.approvals = {"signed"} /\ m.wfv THEN {m.target} ELSE {})
  /\ IF verifyManifest(m, target) /\ target.pinned /\ target.intact
     THEN /\ previous' = active /\ active' = target
          /\ cpLog' = record(cpLog, ControlEvent("Snapshot.activated", target.id))
     ELSE /\ cpLog' = record(cpLog, ControlEvent("Deployment.rejected", target.id))
          /\ UNCHANGED <<active, previous>>
  /\ UNCHANGED <<part, production, ai, research>>

\* Mutated form of RolledBack: the snapshot left behind is forgotten.
RolledBackOnce == active' = previous /\ UNCHANGED previous
RolledBack == active' = previous /\ previous' = active

\* Throws, and records nothing, when there is none to return to.
Rollback ==
  /\ CanControl /\ previous # NoSnapshot
  /\ RolledBack
  /\ cpLog' = record(cpLog, ControlEvent("Snapshot.rolledBack", active'.id))
  /\ UNCHANGED <<part, backed, production, ai, research>>

-----------------------------------------------------------------------------
(* AILayer *)

ProposalKinds == {"market-analysis", "strategy", "parameter", "report"}    \* SUB_AIS has one agent each
LIFECYCLE ==
  [draft |-> {"candidate", "rejected"}, candidate |-> {"validated", "rejected"},
   validated |-> {"approved", "rejected"}, approved |-> {"archived"}, rejected |-> {"archived"}, archived |-> {}]
AiEvent(type, id, payload) == Event(type, <<"prop", id>>, "ai", 1, 1, payload)
CanCall == Len(aiLog) < MaxCalls

Draft(kind) == [kind |-> kind, status |-> "draft"]
\* The history keeps the status of the draft.
recordProposal(kind) == Append(memory, Draft(kind))

Propose(kind) ==
  /\ CanCall /\ Len(proposals) < MaxProposals
  /\ proposals' = Append(proposals, Draft(kind))
  /\ memory' = recordProposal(kind)
  /\ aiLog' = record(aiLog, AiEvent("AI.proposalCreated", Len(proposals) + 1, <<kind>>))
  /\ UNCHANGED <<part, production, control, research>>

TransitionEvents(id, from, to) ==
  <<AiEvent("AI.proposalTransitioned", id, <<from, to>>)>>
  \o (IF to = "validated" THEN <<AiEvent("AI.proposalValidated", id, <<>>)>> ELSE <<>>)
TransitionProposal(id, to) ==
  /\ CanCall /\ to \in LIFECYCLE[proposals[id].status]
  /\ proposals' = [proposals EXCEPT ![id].status = to]
  /\ aiLog' = recordAll(aiLog, TransitionEvents(id, proposals[id].status, to))
  /\ UNCHANGED <<part, memory, production, control, research>>

MayFreeze(status) == status \in {"validated", "approved"}
\* The content hash covers the kind, the proposal and the version.
freezeProposal(id, version) == <<proposals[id].kind, version>>
\* The artifact is handed to Research by its caller.
Freeze(id, version) ==
  /\ CanCall /\ MayFreeze(proposals[id].status)
  /\ aiLog' = record(aiLog, AiEvent("AI.artifactFrozen", id, freezeProposal(id, version)))
  /\ UNCHANGED <<part, proposals, memory, production, control, research>>

GenerateReport ==
  /\ CanCall
  /\ aiLog' = record(aiLog, Event("AI.reportGenerated", <<"report">>, "ai", 1, 1, <<>>))
  /\ UNCHANGED <<part, proposals, memory, production, control, research>>

-----------------------------------------------------------------------------
(* ExperimentRunner over a recorded log.  A period is 0..end; a fold is a  *)
(* replay as of its end, and starts where the log starts.                  *)

Outcome(corr, time, action) == Event("Decision.outcome", corr, "s1", time, 1, <<action>>)
SourceEvents == {Outcome("c1", 1, "buy"), Outcome("c2", 2, "sell"), Outcome("c1", 4, "sell"),
                 Event("MarketData.trade", "c3", "", 3, 1, <<>>)}
SourceLogs == {recordAll(<<>>, s) : s \in UNION {[1..n -> SourceEvents] : n \in 0..MaxRecorded}}
PeriodEnd == 4

defaultExecutor(decisions) ==
  LET of(action) == Cardinality({d \in decisions : d.action = action})
  IN [decisions |-> Cardinality(decisions), buys |-> of("buy"), sells |-> of("sell"), activity |-> of("buy") + of("sell")]
meetsCriteria(metrics, criteria) == \A k \in DOMAIN criteria : metrics[k] >= criteria[k]
Window(recorded, end) == Filter(recorded, {e \in ToSet(recorded) : e.event_time <= end})
runWindow(recorded, end) == defaultExecutor(decisionRecords(Window(recorded, end)))

\* run(): one pass, no folds.
runOnce(recorded, criteria) ==
  [passed |-> meetsCriteria(runWindow(recorded, PeriodEnd), criteria), folds |-> 0,
   decisions |-> runWindow(recorded, PeriodEnd).decisions]

FoldEnd(i, folds) == (i * PeriodEnd) \div folds
\* Mutated form of Gate: one good fold is enough.
GateAny(results) == \E i \in DOMAIN results : results[i]
Gate(results) == results # <<>> /\ \A i \in DOMAIN results : results[i]
FoldResults(recorded, criteria, folds) ==
  [i \in 1..folds |-> meetsCriteria(runWindow(recorded, FoldEnd(i, folds)), criteria)]
runWFV(recorded, criteria, folds) ==
  [passed |-> Gate(FoldResults(recorded, criteria, folds)), folds |-> folds,
   decisions |-> FoldLeft(LAMBDA n, i : n + runWindow(recorded, FoldEnd(i, folds)).decisions, 0, [i \in 1..folds |-> i])]

-----------------------------------------------------------------------------
(* ResearchPlatform: a result is recorded, then the champion is asked; an  *)
(* executor that throws fails the experiment.                              *)

Experiments == [criteria : {[decisions |-> 2], [activity |-> 1]}, folds : {0, 1, 2, 4}, throws : {FALSE}]
               \cup [criteria : {[activity |-> 1]}, folds : {0}, throws : {TRUE}]
RunOf(x) == IF x.folds = 0 THEN runOnce(sourceLog, x.criteria) ELSE runWFV(sourceLog, x.criteria, x.folds)
Started == SelectSeq(rpLog, LAMBDA e : e.type = "started")
Evaluated(r) == evaluate(champion, r)

RunExperiment(x) ==
  LET r == RunOf(x) IN
  /\ Len(Started) < MaxExperiments
  /\ IF x.throws
     THEN rpLog' = rpLog \o <<[type |-> "started"], [type |-> "failed"]>> /\ UNCHANGED champion
     ELSE /\ rpLog' = rpLog \o <<[type |-> "started"], [type |-> "result", experiment |-> x, result |-> r],
                                 [type |-> "completed", passed |-> r.passed],
                                 [type |-> "promotion", promoted |-> Evaluated(r) # champion]>>
          /\ champion' = Evaluated(r)
  /\ UNCHANGED <<part, sourceLog, production, control, ai>>

-----------------------------------------------------------------------------
Init ==
  /\ part \in {"production", "control", "ai", "research"}
  /\ log = <<>> /\ day = 1 /\ cycle = 0 /\ sent = {} /\ thrown = {}
  /\ active = NoSnapshot /\ previous = NoSnapshot /\ cpLog = <<>> /\ backed = {}
  /\ proposals = <<>> /\ memory = <<>> /\ aiLog = <<>>
  /\ sourceLog \in IF part = "research" THEN SourceLogs ELSE {<<>>}
  /\ rpLog = <<>> /\ champion = <<>>

InProduction ==
  \/ \E to \in DOMAIN VALID : RuntimeTransition(to)
  \/ RiskTransition \/ NextDay
  \/ \E planned \in SUBSET Symbols : \E fates \in Courses(planned) : RunCycle(planned, fates)
InControl ==
  \/ \E m \in Manifest, target \in Snapshot : Deploy(m, target)
  \/ Rollback
InAi ==
  \/ \E kind \in ProposalKinds : Propose(kind)
  \/ \E id \in DOMAIN proposals : \/ \E to \in DOMAIN LIFECYCLE : TransitionProposal(id, to)
                                  \/ \E version \in {"1", "2"} : Freeze(id, version)
  \/ GenerateReport
InResearch == \E x \in Experiments : RunExperiment(x)

Next == \/ part = "production" /\ InProduction
        \/ part = "control" /\ InControl
        \/ part = "ai" /\ InAi
        \/ part = "research" /\ InResearch
Spec == Init /\ [][Next]_vars

-----------------------------------------------------------------------------

(* INV-S2: a machine whose state exists only as events of a shared store   *)
(* cannot be restarted after a HALT without RECOVERY and READY between,    *)
(* whatever the other machines of the store record.                        *)
HaltNeedsRecovery ==
  LET own == transitionsOf(log, "production")
      path == [i \in DOMAIN own |-> own[i].payload[2]]
  IN \A i, j \in DOMAIN path : (i < j /\ path[i] = "HALT" /\ path[j] = "RUN") =>
       \E k, l \in i..j : k < l /\ path[k] = "RECOVERY" /\ path[l] = "READY"

(* What the operator sees: the runtime state, the market of the last       *)
(* cycle, over all days the decisions risk took, and as orders sent those  *)
(* handed to the adapter, which are the orders the venue received and the  *)
(* ones the adapter threw on, received or not; though other machines and   *)
(* the gateway write to the same log (dashboardView, diaryView).           *)
ViewsTellWhatHappened ==
  LET view == dashboardView(log)
      diary == diaryView(log)
  IN /\ view.runtime_state = state
     /\ view.orders_sent = Cardinality(sent \cup thrown)
     /\ (view.market_mode = <<>>) <=> (cycle = 0)
     /\ SumFunction([d \in DOMAIN diary |-> diary[d].decisions]) = Len(OfType(log, "Risk.decided"))
     /\ view.halted <=> \E d \in DOMAIN diary : diary[d].halted

(* The drill-down of a cycle shows its stages in order and the risk        *)
(* decisions in the order of the plan, one for each allocation unless the  *)
(* adapter threw: then they end with the approval of that order.  An order *)
(* reached the venue only with an approval there.  The order itself is not *)
(* there, whatever explainability.ts:31 says: the gateway records under a  *)
(* correlation of its own.                                                 *)
CycleIsExplained ==
  \A n \in 1..cycle :
    LET steps == explainabilityView(log, CorrelationId(n)).timeline
        decided == OfType(steps, "Risk.decided")
        plan == steps[3].payload
    IN /\ \A i \in DOMAIN steps : i > 1 => steps[i - 1].seq < steps[i].seq
       /\ SubSeq([i \in DOMAIN steps |-> steps[i].event_type], 1, 3) =
            <<"MarketHealth.scored", "Strategy.evaluated", "Portfolio.planned">>
       /\ [i \in DOMAIN decided |-> decided[i].payload[1]] = SubSeq(plan, 1, Len(decided))
       /\ Len(decided) < Len(plan) => \E s \in Symbols : <<n, s>> \in thrown
       /\ \A s \in Symbols : <<n, s>> \in thrown => decided # <<>> /\ Last(decided).payload = <<s, "approved">>
       /\ \A s \in Symbols : <<n, s>> \in sent =>
            \E i \in DOMAIN decided : decided[i].payload = <<s, "approved">>

(* The operator can tell what happened from the overview and the drill-down. *)
OperatorSeesWhatHappened == ViewsTellWhatHappened /\ CycleIsExplained

(* INV-V3: a snapshot that is active, or that a rollback would make        *)
(* active, has all its pins and a hash that matches its content, and a     *)
(* manifest with walk-forward evidence, all of whose approvals are signed, *)
(* named its id.  The id is all they share: the approvals of one content   *)
(* cover every other one under its id (manifest.ts:14).                    *)
OnlyBackedSnapshotsRun ==
  \A s \in {active, previous} : s # NoSnapshot => s.id \in backed /\ s.pinned /\ s.intact

Effective == Filter(cpLog, {e \in ToSet(cpLog) : e.event_type # "Deployment.rejected"})
(* INV-V4: the control plane's log tells what is active, and a rollback    *)
(* undoes exactly the last change that took effect, after rejected         *)
(* deployments, redeployments and other rollbacks too.                     *)
RollbackUndoesLastChange ==
  /\ active = NoSnapshot <=> Effective = <<>>
  /\ Effective # <<>> => Last(Effective).snapshot_id = active.id
  /\ \A i \in DOMAIN Effective : Effective[i].event_type = "Snapshot.rolledBack" =>
       i > 2 /\ Effective[i].snapshot_id = Effective[i - 2].snapshot_id

(* What runs was approved, and can be taken back.                          *)
DeploymentsAreBackedAndReversible == OnlyBackedSnapshotsRun /\ RollbackUndoesLastChange

Moves(id) == {i \in DOMAIN aiLog : aiLog[i].event_type = "AI.proposalTransitioned" /\ aiLog[i].correlation_id = <<"prop", id>>}
StatusInLog(id) == IF Moves(id) = {} THEN "draft" ELSE aiLog[Max(Moves(id))].payload[2]
(* "All lifecycle transitions are event-sourced" (ai-layer/src/            *)
(* platform.ts:19): the log alone gives the status of every proposal, and  *)
(* the AI memory has one entry for each, in order.                         *)
AiLogTellsStatus ==
  /\ \A id \in DOMAIN proposals : StatusInLog(id) = proposals[id].status
  /\ Len(memory) = Len(proposals) /\ \A id \in DOMAIN memory : memory[id].kind = proposals[id].kind

(* An artifact was frozen from a proposal that had been validated and was  *)
(* at that moment neither rejected nor archived, by the log.               *)
ArtifactsWereValidated ==
  \A i \in DOMAIN aiLog : aiLog[i].event_type = "AI.artifactFrozen" =>
    LET before == {aiLog[j] : j \in {k \in 1..i : aiLog[k].correlation_id = aiLog[i].correlation_id}}
    IN /\ \E e \in before : e.event_type = "AI.proposalValidated"
       /\ ~\E e \in before : /\ e.event_type = "AI.proposalTransitioned"
                             /\ e.payload[2] \in {"rejected", "archived"}

(* The research champion is a result of the log, and the experiment that   *)
(* gave it met its criteria on every fold it ran.  The folds are no        *)
(* rolling, out-of-sample windows, as experiment.ts:63 has it: each one    *)
(* replays the log from its beginning.                                     *)
ChampionPassedItsFolds ==
  champion # <<>> => \E e \in ToSet(rpLog) :
    /\ e.type = "result" /\ e.result = champion[1]
    /\ \A i \in 1..e.experiment.folds :
         meetsCriteria(runWindow(sourceLog, FoldEnd(i, e.experiment.folds)), e.experiment.criteria)
    /\ e.experiment.folds = 0 => meetsCriteria(runWindow(sourceLog, PeriodEnd), e.experiment.criteria)

(* Nothing an AI proposed or an experiment tried is promoted past a gate   *)
(* without the evidence for it in the log.                                 *)
PromotionIsGated == AiLogTellsStatus /\ ArtifactsWereValidated /\ ChampionPassedItsFolds
=============================================================================
