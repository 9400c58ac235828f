----------------------- MODULE MCAddressCacheSessions -----------------------
(* Small instances of AddressCacheSessions: one day, a closed decade and the *)
(* serving one, a Census-default row and a plan-bound row in the latter.     *)
EXTENDS AddressCacheSessions, TLC

CONSTANTS cd, g1, g2, v2010, v2020, census, plan, s1, s2

MCWindow ==
    (v2010 :> [kind |-> "census-decadal", decade |-> 0, from |-> 0, to |-> 2]) @@
    (v2020 :> [kind |-> "census-decadal", decade |-> 1, from |-> 2, to |-> NoDate])

ServingKeys == {<<v2020, census>>, <<v2020, plan>>}

Dated(ctx, a) == [ctx |-> ctx, geoid |-> [t \in Types |-> a]]

\* an undated row, two dates and a geoid for each
MCRows == {Dated(NoDate, g1), Dated(2, g2), Dated(3, g1)}

\* enough for two sessions to disagree on the latest row
PairRows == {Dated(NoDate, g1), Dated(2, g2)}

Upsert == [atomic |-> TRUE, upsert |-> TRUE]
AtomicCreate == [atomic |-> TRUE, upsert |-> FALSE]
AtomicModes == {Upsert, AtomicCreate}

\* in a transaction a create does nothing that an upsert of a new row does not
UpsertOnly == {Upsert}
=============================================================================
