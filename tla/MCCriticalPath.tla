---------------------------- MODULE MCCriticalPath ----------------------------
(* Small instances of CriticalPath for TLC. *)
EXTENDS CriticalPath, FiniteSetsExt

\* Two dependencies of any kind, unknown ids and self-dependencies included, or
\* three between tasks: chains, forks, joins, short cuts and cycles.
SmallDependencies ==
    UNION {kSubset(n, (Ids \X Ids) \ (Outside \X Outside)) : n \in 0..2}
      \cup kSubset(3, {d \in Tasks \X Tasks : d[1] # d[2]})

\* A lag, or a lead longer than a task without a duration takes.
Lags == {-2, 1}

SmallPlans ==
    UNION {{[duration |-> d, deps |-> D, lag |-> [e \in Ids \X Ids |-> IF e \in D THEN l[e] ELSE 0]] :
               d \in [Tasks -> {0, 3}], l \in [D -> Lags]} :
              D \in SmallDependencies}

===============================================================================
