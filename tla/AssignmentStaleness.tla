------------------------ MODULE AssignmentStaleness ------------------------
(***************************************************************************)
(* BoundaryAssignment, read through the helpers of BoundaryHistory: what   *)
(* is_redistricting_assignment_stale says of the rows assign_boundaries    *)
(* writes, with each chamber's own plans.                                  *)
(***************************************************************************)
EXTENDS BoundaryAssignment

History(t) ==
    INSTANCE BoundaryHistory WITH
        PlanOn <- PlanOf[t], today <- Today, MaxDay <- Today, RowInputs <- {}

\* "True only when ... the latest ABP for this type references a different plan":
\* an address assigned today, under the plans in effect today, is not stale for
\* any chamber.
FreshIsNotStale ==
    \A t \in Chambers, c \in Commands :
        /\ c.date = Today /\ addr.unitsAssigned /\ (\A a \in Assigners : pc[a] = "idle")
        /\ addr.geoid = Resolve(addr.geom, c) /\ addr.censusYear = c.year
        => ~History(t)!Stale(t)
=============================================================================
