-------------------------- MODULE BoundaryPeriods --------------------------
(***************************************************************************)
(* The AddressBoundaryPeriod ("ABP") rows of one address, and the queries  *)
(* the Address helpers and the cache-refresh signal make over them         *)
(* (socialwarehouse/geo/models/address.py, vintages.py, geo/signals.py).   *)
(*                                                                         *)
(* A date is a natural number.  NULL context dates are NoDate, which is    *)
(* below every date: `boundaries_on` orders by context_date DESC NULLS     *)
(* LAST and lets NULL rows apply on every date, so NoDate behaves there as *)
(* a date before all others.  A decade lasts DecadeDays days.              *)
(*                                                                         *)
(* The unique constraint (address, vintage, plan), NULL plans equal, makes *)
(* the rows of an address a function from <<vintage, plan>> to rows.  No   *)
(* query tells a missing row from one whose geoids are all empty, so a     *)
(* missing row is EmptyRow.                                                *)
(***************************************************************************)
EXTENDS Integers, FiniteSets

CONSTANTS
    Types,      \* the boundary types: cd, county, tract, ...
    Geoids,     \* non-empty geoid strings
    Blank,      \* the empty geoid ("" on an Address, NULL or "" on a row)
    Vintages,   \* rows of sw_geo_vintage
    Window,     \* Window[v]: kind, decade, effective_from, effective_to of v
    Keys,       \* the <<vintage, plan>> pairs rows may be written under
    DecadeDays  \* length of a decade in days

NoDate == -1
NoDecade == -1
Date == Nat
ContextDate == Date \cup {NoDate}
Kinds == {"census-decadal", "other"}

VintageRecord ==
    [kind : Kinds, decade : Nat \cup {NoDecade}, from : Date, to : ContextDate]

ASSUME BlankAssumption == Blank \notin Geoids
ASSUME DecadeAssumption == DecadeDays \in Nat \ {0}
ASSUME VintageAssumption ==
    /\ Window \in [Vintages -> VintageRecord]
    /\ \A v \in Vintages :
          Window[v].kind = "census-decadal" <=> Window[v].decade # NoDecade
ASSUME KeysAssumption ==
    /\ IsFiniteSet(Keys)
    /\ \A k \in Keys : k[1] \in Vintages

(***************************************************************************)
(* decade is unique among CensusDecadalVintage rows, and a decadal vintage *)
(* is in effect for at least its own decade: seed_known_vintages opens the *)
(* window on the first day of the decade and closes it, if at all, on the  *)
(* first day of the next one.                                              *)
(***************************************************************************)
ASSUME DecadalAssumption ==
    \A v \in Vintages : Window[v].kind = "census-decadal" =>
        /\ Window[v].from = Window[v].decade * DecadeDays
        /\ Window[v].to # NoDate =>
              Window[v].to >= (Window[v].decade + 1) * DecadeDays
        /\ \A w \in Vintages : Window[w].decade = Window[v].decade => w = v

-----------------------------------------------------------------------------
(* Rows *)

GeoidOrBlank == Geoids \cup {Blank}
Row == [ctx : ContextDate, geoid : [Types -> GeoidOrBlank]]
EmptyRow == [ctx |-> NoDate, geoid |-> [t \in Types |-> Blank]]
Touched(row) == {t \in Types : row.geoid[t] # Blank}

-----------------------------------------------------------------------------
(* Vintages *)

\* CensusDecadalVintageManager.for_year
ForYear(d) ==
    {v \in Vintages : /\ Window[v].kind = "census-decadal"
                      /\ Window[v].decade = d \div DecadeDays}

\* _is_current_vintage: today lies in [effective_from, effective_to)
IsCurrentVintage(v, d) ==
    /\ Window[v].from <= d
    /\ Window[v].to # NoDate => d < Window[v].to

\* _census_year_from_vintage: None unless the vintage is a census decade
CensusYearFromVintage(v) ==
    IF Window[v].kind = "census-decadal" THEN Window[v].decade ELSE NoDecade

-----------------------------------------------------------------------------
(* boundaries_on(d), type by type *)

\* the rows the query keeps for type t: right vintage, not in the future,
\* and carrying a geoid for t
Eligible(abp, t, d) ==
    {k \in Keys : /\ abp[k].geoid[t] # Blank
                  /\ abp[k].ctx <= d
                  /\ k[1] \in ForYear(d)}

\* the eligible rows with the most recent context date
Latest(abp, t, d) ==
    LET eligible == Eligible(abp, t, d) IN
    {k \in eligible : \A j \in eligible : abp[j].ctx <= abp[k].ctx}

\* ORDER BY context_date leaves the order of ties to the database: a scan
\* order ranks the rows, and the first of the latest rows answers the query.
ScanOrders ==
    {o \in [Keys -> 1..Cardinality(Keys)] :
        \A j, k \in Keys : o[j] = o[k] => j = k}

\* the rows are read in the scan order, the first one answers
First(S, scan) == CHOOSE k \in S : \A j \in S : scan[k] <= scan[j]

GeoidOn(abp, t, d, scan) ==
    LET latest == Latest(abp, t, d) IN
    IF latest = {} THEN Blank ELSE abp[First(latest, scan)].geoid[t]
=============================================================================
