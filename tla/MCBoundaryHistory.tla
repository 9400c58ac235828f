------------------------- MODULE MCBoundaryHistory -------------------------
(* Small instances of BoundaryHistory: two decades of two days; a plan that *)
(* replaces another on the last day.                                        *)
EXTENDS BoundaryHistory

CONSTANTS cd, g1, g2, v2010, v2020, p1, p2

MCWindow ==
    (v2010 :> [kind |-> "census-decadal", decade |-> 0, from |-> 0, to |-> 2]) @@
    (v2020 :> [kind |-> "census-decadal", decade |-> 1, from |-> 2, to |-> NoDate])

MCKeys == {<<v2010, NoPlan>>, <<v2020, NoPlan>>, <<v2020, p1>>, <<v2020, p2>>}
MCPlanOn == (0 :> NoPlan) @@ (1 :> NoPlan) @@ (2 :> p1) @@ (3 :> p2)

CdAt(ctx, a) == [ctx |-> ctx, geoid |-> (cd :> a)]

\* a row for every date that something depends on, and one without a cd
DatedRows == {CdAt(0, g1), CdAt(2, g2), CdAt(3, g1), CdAt(3, Blank)}
UndatedRows == {CdAt(NoDate, g1), CdAt(2, g2), CdAt(3, g1)}
=============================================================================
