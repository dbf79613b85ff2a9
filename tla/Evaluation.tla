----------------------------- MODULE Evaluation -----------------------------
(***************************************************************************)
(* Judgements the system makes from observations: which experiment is the  *)
(* research champion, how healthy a component is, and how healthy the      *)
(* market is.                                                              *)
(*   packages/research-platform/src/champion-challenger.ts                 *)
(*   packages/ops/src/health.ts, packages/production-engine/src/           *)
(*     market-health.ts                                                    *)
(***************************************************************************)
EXTENDS Integers, Sequences, SequencesExt

(* ResearchChampionChallenger.  An experiment is [passed, folds,           *)
(* decisions]; a walk-forward result has no "activity", so the decisions   *)
(* are what is compared.  <<>> stands for no champion.                     *)

Validated(e) == e.passed /\ e.folds > 0
\* Mutated form of Beats: a tie dethrones the champion.
BeatsOrTies(champion, e) == champion = <<>> \/ e.decisions >= champion[1].decisions
Beats(champion, e) == champion = <<>> \/ e.decisions > champion[1].decisions
evaluate(champion, e) == IF Validated(e) /\ Beats(champion, e) THEN <<e>> ELSE champion
Championship(experiments) == FoldLeft(evaluate, <<>>, experiments)

-----------------------------------------------------------------------------
(* HealthMonitor: [status, beat] per component.  Nothing heard is          *)
(* critical; a reported degradation stays until the next beat or report.   *)

NoBeat == [status |-> "critical", beat |-> 0]
Heard(monitor, op, now) ==
  CASE op.do = "heartbeat" -> [monitor EXCEPT ![op.component] = [status |-> "healthy", beat |-> now]]
    [] op.do = "report"    -> [monitor EXCEPT ![op.component] = [status |-> op.status, beat |-> now]]
    [] op.do = "wait"      -> monitor

statusOf(h, now, warnAfter, critAfter) ==
  IF h.status # "healthy" THEN h.status
  ELSE IF now - h.beat > critAfter THEN "critical"
  ELSE IF now - h.beat > warnAfter THEN "warning" ELSE "healthy"

overall(statuses) ==
  IF "critical" \in statuses THEN "critical" ELSE IF "warning" \in statuses THEN "warning" ELSE "healthy"

\* A history of operations, one of which takes a unit of time.
Monitored(ops, components) ==
  FoldLeft(LAMBDA acc, op : [now |-> acc.now + (IF op.do = "wait" THEN 1 ELSE 0),
                             monitor |-> Heard(acc.monitor, op, acc.now)],
           [now |-> 9, monitor |-> [c \in components |-> NoBeat]], ops)

-----------------------------------------------------------------------------
(* MarketHealthCalculator, features and score in percent. *)

MarketScore(f) == (30 * f.liquidity + 25 * f.trend + 25 * f.volume - 20 * f.volatility) \div 100
MarketMode(score) ==
  IF score > 70 THEN "aggressive" ELSE IF score > 40 THEN "normal"
  ELSE IF score > 15 THEN "conservative" ELSE "observe"
=============================================================================
