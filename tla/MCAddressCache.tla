--------------------------- MODULE MCAddressCache ---------------------------
(* Small instances of AddressCache: two decades of two days, a Census-default *)
(* row per decade, a plan-bound row in the later one and a survey vintage.    *)
EXTENDS AddressCache, TLC

CONSTANTS cd, county, g1, g2, v2010, v2020, acs, census, plan

MCTypes == {cd, county}
MCGeoids == {g1, g2}

Decadal(decade, to) ==
    [kind |-> "census-decadal", decade |-> decade, from |-> 2 * decade, to |-> to]

\* the window of 2010 is closed when 2020 opens, as seed_known_vintages does
SealedWindow ==
    (v2010 :> Decadal(0, 2)) @@ (v2020 :> Decadal(1, NoDate))

\* sealed decades and an ACS vintage that is current throughout
SurveyWindow ==
    SealedWindow @@
    (acs :> [kind |-> "other", decade |-> NoDecade, from |-> 0, to |-> NoDate])

MCKeys == {<<v2010, census>>, <<v2020, census>>, <<v2020, plan>>, <<acs, census>>}

RowAt(ctx, a, b) == [ctx |-> ctx, geoid |-> (cd :> a) @@ (county :> b)]

\* an undated row and two that arrive together and disagree on cd; saving one
\* over another may empty a geoid
MCRows == {RowAt(NoDate, g1, Blank), RowAt(2, g2, Blank), RowAt(2, g1, g1)}
=============================================================================
