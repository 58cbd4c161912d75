---------------------------- MODULE MCJobSystem -----------------------------
(* Instances of JobSystem for TLC. *)
EXTENDS JobSystem, TLC

\* The ids are interchangeable: no definition tells one from another.
Symmetry ==
  Permutations(Jobs) \cup Permutations(Tasks) \cup Permutations(Fieldmen)
    \cup Permutations(Workers) \cup Permutations(Requests)
=============================================================================
