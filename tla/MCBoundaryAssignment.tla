----------------------- MODULE MCBoundaryAssignment -----------------------
(* Small instances of BoundaryAssignment: two decades of two days, today in *)
(* the later one; a congressional and a state house plan in effect today;   *)
(* two places, at one of which no state house district is known.            *)
EXTENDS AssignmentStaleness, TLC

CONSTANTS state, cd, sldl, s1, s2, d1, d2, d3, h1, v2010, v2020, cp, hp, here, there, noplan,
    n1, a1, a2

MCTypes == {state, cd, sldl}

MCWindow ==
    (v2010 :> [kind |-> "census-decadal", decade |-> 0, from |-> 0, to |-> 2]) @@
    (v2020 :> [kind |-> "census-decadal", decade |-> 1, from |-> 2, to |-> NoDate])

MCKeys == {<<v2010, noplan>>, <<v2020, noplan>>, <<v2020, cp>>}

\* plans in effect from day 3
MCPlanOf ==
    LET from3(p) == [d \in 0..3 |-> IF d = 3 THEN p ELSE noplan] IN
    (cd :> from3(cp)) @@ (sldl :> from3(hp))

Found(s, c, h) == (state :> s) @@ (cd :> c) @@ (sldl :> h)

\* 0 and 1 are the decades, 5 is the year of no vintage
MCJoin ==
    (here  :> ((0 :> Found(s1, d1, h1)) @@ (1 :> Found(s1, d2, h1)) @@
               (5 :> Found(s1, d1, h1)) @@
               (cp :> Found(Blank, d3, Blank)) @@ (hp :> Found(Blank, Blank, h1)))) @@
    (there :> ((0 :> Found(s2, d2, h1)) @@ (1 :> Found(s2, d1, Blank)) @@
               (5 :> Found(Blank, Blank, Blank)) @@
               (cp :> Found(Blank, d1, Blank)) @@ (hp :> Found(Blank, Blank, h1))))

\* the Census geocoder and the joins may disagree on a point near a border
MCFips == {(state :> s1)}

\* the boundary table of the states lacks s2
MCMapped == {<<s1, 1>>}

Run(year, date, force, populate) ==
    [year |-> year, date |-> date, force |-> force, populate |-> populate]

\* --date today
TodayRuns == {Run(1, 3, TRUE, FALSE)}
\* today's plans, a past decade, and --year 2015, which has no vintage
RepeatedRuns == {Run(1, 3, TRUE, TRUE), Run(0, 1, FALSE, FALSE), Run(5, NoDate, TRUE, TRUE)}

RunSymmetry == Permutations({a1, a2})
=============================================================================
