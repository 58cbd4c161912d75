---------------------------- MODULE MCDataAdmin ----------------------------
\* Instance of DataAdmin for TLC: requests, processes and priorities are
\* interchangeable.
EXTENDS DataAdmin, TLC
\* Nominatim answers about land with a house number, about the sea with the
\* coordinates it was asked about.
MCKnows == [p \in Positions |-> IF p \in Land THEN "house" ELSE "coords"]
Symmetry == Permutations(Requests) \cup Permutations(Processes) \cup Permutations(Priorities)
=============================================================================
