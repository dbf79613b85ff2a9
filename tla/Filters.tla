------------------------------ MODULE Filters -------------------------------
(***************************************************************************)
(* Array.prototype.filter, with the elements to keep given as a set, and   *)
(* Array.prototype.sort.                                                   *)
(***************************************************************************)
EXTENDS Integers, Sequences, FiniteSets

\* The elements of s that are in keep, in their order.
Filter(s, keep) ==
  LET kept[i \in 0 .. Len(s)] ==
        IF i = 0 THEN <<>> ELSE IF s[i] \in keep THEN Append(kept[i - 1], s[i]) ELSE kept[i - 1]
  IN kept[Len(s)]

\* The sort is stable: an element stands after those that come before it and
\* after the equal ones that stood before it.
StableSort(s, before(_, _)) ==
  LET place(i) == Cardinality({j \in DOMAIN s : before(s[j], s[i]) \/ (~before(s[i], s[j]) /\ j <= i)})
  IN [k \in DOMAIN s |-> s[CHOOSE i \in DOMAIN s : place(i) = k]]
=============================================================================
