------------------------------- MODULE Lists --------------------------------
(***************************************************************************)
(* What Python does with lists and sets of numbers, as the planning code   *)
(* uses it: comprehensions, sorted, min with a key, first occurrences,     *)
(* concatenation and slices.  Each operator says at which place an element *)
(* ends up, without recursion, so that theorems can be proved about every  *)
(* list.                                                                   *)
(***************************************************************************)
EXTENDS Integers, FiniteSets, SequencesExt

\* The elements of S in the strict order `before`: the k-th has k - 1 before it.
Ordered(S, before) ==
  [k \in 1..Cardinality(S) |->
    CHOOSE x \in S : Cardinality({y \in S : <<y, x>> \in before}) = k - 1]

\* sorted(S), of a set of numbers.
Ascending(S) == Ordered(S, {p \in S \X S : p[1] < p[2]})

\* The elements of s at the places I; a comprehension over a list.
Pick(s, I) ==
  LET at == Ascending(I) IN [k \in DOMAIN at |-> s[at[k]]]
Only(s, A) == Pick(s, {i \in DOMAIN s : s[i] \in A})

\* Each element once, where it occurs first.
Distinct(s) == Pick(s, {i \in DOMAIN s : \A j \in DOMAIN s : s[j] = s[i] => i =< j})

\* sorted(s, key=...) is stable, min(s, key=...) takes the first.
EarlierBy(s, key) ==
  {p \in (DOMAIN s) \X (DOMAIN s) :
    \/ key[s[p[1]]] < key[s[p[2]]]
    \/ key[s[p[1]]] = key[s[p[2]]] /\ p[1] < p[2]}
StableSort(s, key) ==
  LET at == Ordered(DOMAIN s, EarlierBy(s, key)) IN [k \in DOMAIN at |-> s[at[k]]]
FirstMin(s, key) == StableSort(s, key)[1]

\* The lists in ss one after the other.
Places(ss) == UNION {{i} \X (DOMAIN ss[i]) : i \in DOMAIN ss}
Concat(ss) ==
  LET before == {p \in Places(ss) \X Places(ss) :
                  \/ p[1][1] < p[2][1]
                  \/ p[1][1] = p[2][1] /\ p[1][2] < p[2][2]}
      at == Ordered(Places(ss), before)
  IN [k \in DOMAIN at |-> ss[at[k][1]][at[k][2]]]
=============================================================================
