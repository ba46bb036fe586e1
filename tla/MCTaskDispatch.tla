--------------------------- MODULE MCTaskDispatch ---------------------------
(***************************************************************************)
(* Small instances of TaskDispatch for TLC: one or two tasks of one        *)
(* mission, one or two targets.  What TargetScope, PlanIntake and          *)
(* Commander compute is checked here too, before the first state.          *)
(***************************************************************************)
EXTENDS TaskDispatch, MCCommander, TLC

CONSTANTS t1, t2, m1, x1, x2

\* One mission.
OneMission == [t \in Task |-> m1]

\* Both tasks aim at x1; t2 may need x2 as well.
SameTarget == [t \in Task |-> {x1}]
Overlapping == t1 :> {x1} @@ t2 :> {x1, x2}

Disjoint == t1 :> {x1} @@ t2 :> {x2}

Independent == [t \in Task |-> {}]
Chain == t1 :> {} @@ t2 :> {t1}
=============================================================================
