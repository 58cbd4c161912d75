---------------------------- MODULE MCJobPolling ----------------------------
(* Instances of JobPolling for TLC. *)
EXTENDS JobPolling

\* Bound: no data reset.  A reset touches neither a job's status nor its reader,
\* and it ends in the same invalidation of every job as a creation or a deletion.
NoReset == routesFk = RouteFks
=============================================================================
