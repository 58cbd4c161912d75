---------------------------- MODULE MCJobEvents -----------------------------
(* Instances of JobEvents for TLC. *)
EXTENDS JobEvents

\* Bound: no data reset.  A reset writes no status and no message and calls no
\* worker; what it may do to a run, refuse its rows, `Raise` does at every step.
NoReset == routesFk = RouteFks
=============================================================================
