----------------------------- MODULE FeatureDag -----------------------------
(***************************************************************************)
(* The order in which features are computed: topoOrder goes depth-first    *)
(* over the dependencies, in their order.  What visit() has still to do,   *)
(* the calls its loops will make and the ends of those it is in, is the    *)
(* agenda: [ref, done].                                                    *)
(*   packages/feature-store/src/dag.ts                                     *)
(***************************************************************************)
EXTENDS Integers, Sequences, SequencesExt, Functions

Visits(refs) == [i \in DOMAIN refs |-> [ref |-> refs[i], done |-> FALSE]]

visit(deps, s) ==
  LET ref  == Head(s.agenda).ref
      rest == Tail(s.agenda)
  IN  IF Head(s.agenda).done
      THEN [s EXCEPT !.agenda = rest, !.visiting = @ \ {ref}, !.order = Append(@, ref)]
      ELSE IF ref \in ToSet(s.order) THEN [s EXCEPT !.agenda = rest]
      ELSE IF ref \in s.visiting \/ ref \notin DOMAIN deps THEN [s EXCEPT !.failed = TRUE]
      ELSE [s EXCEPT !.visiting = @ \cup {ref},
                     !.agenda = Visits(deps[ref]) \o <<[ref |-> ref, done |-> TRUE]>> \o rest]

\* A feature is entered once: so many calls and ends there are at most.
MaxVisits(deps, roots) == Len(roots) + SumFunction([ref \in DOMAIN deps |-> Len(deps[ref]) + 1])

VisitAll(deps, roots) ==
  LET after[k \in 0..MaxVisits(deps, roots)] ==
        IF k = 0 THEN [order |-> <<>>, visiting |-> {}, failed |-> FALSE, agenda |-> Visits(roots)]
        ELSE IF after[k - 1].failed \/ after[k - 1].agenda = <<>> THEN after[k - 1]
        ELSE visit(deps, after[k - 1])
  IN  after[MaxVisits(deps, roots)]

\* Mutated form of topoOrder: a feature put before what it depends on.
topoOrderReversed(deps, roots) ==
  LET s == VisitAll(deps, roots) IN [order |-> Reverse(s.order), failed |-> s.failed]
topoOrder(deps, roots) ==
  LET s == VisitAll(deps, roots) IN [order |-> s.order, failed |-> s.failed]
=============================================================================
