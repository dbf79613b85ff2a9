----------------------------- MODULE Portfolio ------------------------------
(***************************************************************************)
(* The portfolio engine's survival-first optimizer and the rebalancing of  *)
(* a target against current holdings (packages/portfolio-engine/src).      *)
(* Weights are basis points of the total budget and every scaling rounds   *)
(* down; probabilities and correlations are percent, payoff ratios tenths. *)
(* Symbols are the natural numbers 1..n, in the order the code sorts them, *)
(* so the candidates are a sequence.  A correlation matrix is a function   *)
(* of pairs.                                                               *)
(***************************************************************************)
EXTENDS Integers, Sequences, FiniteSets, Functions, SequencesExt, FiniteSetsExt

WholeBudget == 10000 \* in basis points

Absolute(x) == IF x < 0 THEN -x ELSE x

kellyFraction(c) == Max({0, c.winProb * 100 - ((100 - c.winProb) * 1000) \div c.payoff})

\* Mean absolute correlation of s against the other symbols, 0 alone.
avgAbsCorr(corr, s, symbols) ==
  LET rest == symbols \ {s}
  IN  IF rest = {} THEN 0
      ELSE SumFunction([t \in rest |-> Absolute(corr[s, t])]) \div Cardinality(rest)

cappedWeight(c, corr, s, symbols, k) ==
  Min({(kellyFraction(c) * k.kelly) \div (100 + avgAbsCorr(corr, s, symbols)), k.maxWeight})

\* Greedy clusters in symbol order: the leader takes every later symbol
\* correlated with it that no earlier cluster has taken.
clusterByCorrelation(n, corr, threshold) ==
  LET assigned(groups) == UNION ToSet(groups)
      groups[s \in 0..n] ==
        IF s = 0 THEN <<>>
        ELSE IF s \in assigned(groups[s - 1]) THEN groups[s - 1]
        ELSE Append(groups[s - 1],
                    {s} \cup {t \in (1..n) \ assigned(groups[s - 1]) : Absolute(corr[s, t]) >= threshold})
  IN  groups[n]

ScaledTo(cap, total, w) == IF total > cap /\ total > 0 THEN (w * cap) \div total ELSE w

\* Mutated form of groupCapped: compares each weight, not the cluster's sum.
groupCappedOneByOne(weights, group, cap) ==
  [s \in DOMAIN weights |-> IF s \in group THEN Min({weights[s], cap}) ELSE weights[s]]
groupCapped(weights, group, cap) ==
  [s \in DOMAIN weights |-> IF s \in group
                            THEN ScaledTo(cap, SumFunctionOnSet(weights, group), weights[s]) ELSE weights[s]]

\* The clusters one after the other.
clustersCapped(weights, groups, cap) ==
  LET after[i \in 0..Len(groups)] == IF i = 0 THEN weights ELSE groupCapped(after[i - 1], groups[i], cap)
  IN  after[Len(groups)]

utilizationCap(k, budget) ==
  Min({k.maxUtilization, IF budget.total > 0 THEN (budget.available * WholeBudget) \div budget.total ELSE 0})

optimize(candidates, corr, k, budget) ==
  LET symbols == DOMAIN candidates
      capped  == [s \in symbols |-> cappedWeight(candidates[s], corr, s, symbols, k)]
      grouped == clustersCapped(capped, clusterByCorrelation(Len(candidates), corr, k.threshold), k.maxGroup)
      cap     == utilizationCap(k, budget)
      total   == SumFunction(grouped)
  IN  [s \in symbols |-> ScaledTo(cap, total, grouped[s])]

\* PortfolioEngine.optimize: weights to notionals, clipped to what Risk has left.
planAllocations(candidates, corr, k, budget) ==
  LET weights  == optimize(candidates, corr, k, budget)
      notional == [s \in DOMAIN candidates |-> (weights[s] * budget.total) \div WholeBudget]
  IN  [s \in DOMAIN candidates |-> ScaledTo(budget.available, SumFunction(notional), notional[s])]

rebalance(current, target, minTrade) ==
  LET delta(s) == (IF s \in DOMAIN target THEN target[s] ELSE 0) - (IF s \in DOMAIN current THEN current[s] ELSE 0)
  IN  {[symbol |-> s, side |-> IF delta(s) > 0 THEN "buy" ELSE "sell", notional |-> Absolute(delta(s))] :
         s \in {t \in DOMAIN current \cup DOMAIN target : Absolute(delta(t)) > minTrade}}
=============================================================================
