----------------------- MODULE GeographicIntersections -----------------------
(***************************************************************************)
(* compute_geographic_intersections (socialwarehouse/geo/management/       *)
(* commands): the overlaps of counties, or of VTDs, with congressional     *)
(* districts, stored for one census year.  Units are taken one by one;     *)
(* each unit is one query, and each overlap is upserted by itself, so      *)
(* boundaries can be reloaded, runs overlap and the process die in between.*)
(*                                                                         *)
(* A map says what share of each unit and of each district their overlap   *)
(* is, in tenths of a percent; a pair that does not overlap has 0 of each. *)
(***************************************************************************)
EXTENDS Naturals, FiniteSets

CONSTANTS
    Computers,    \* processes that run the command
    Layers,       \* "county", "vtd": which units are computed
    Plots,        \* the units, counties or VTDs
    Districts,
    Maps,         \* the maps that are loaded, one after the other
    OfPlot,       \* OfPlot[m][<<u, d>>]: share of unit u that d covers in map m
    OfDistrict,   \* OfDistrict[m][<<u, d>>]: share of d that u covers
    MinOverlap,   \* --min-overlap
    NoOverlapRow

Pairs == Plots \X Districts

ASSUME OverlapAssumption ==
    /\ Maps \subseteq Nat /\ 1 \in Maps /\ IsFiniteSet(Maps)
    /\ \A m \in Maps : \A p \in Pairs :
          /\ OfPlot[m][p] \in Nat /\ OfPlot[m][p] <= 1000
          /\ OfDistrict[m][p] \in Nat /\ OfDistrict[m][p] <= 1000
    /\ MinOverlap \in Nat \ {0}

\* the districts of one map do not overlap each other
ASSUME PartitionAssumption ==
    \A m \in Maps : \A p, q \in Pairs :
        p[1] = q[1] /\ p # q => OfPlot[m][p] + OfPlot[m][q] <= 1000

VARIABLES
    layer,
    loaded,     \* the map in the boundary tables
    overlaps,   \* overlaps[p]: the row of a pair, with the map it was computed from
    computers   \* computers[c]: units to do, overlaps of the current unit to store, its map

overlapVars == <<layer, loaded, overlaps, computers>>

NoComputation == [todo |-> {}, found |-> {}, read |-> 0]

OverlapInit ==
    /\ layer \in Layers
    /\ loaded = 1
    /\ overlaps = [p \in Pairs |-> NoOverlapRow]
    /\ computers = [c \in Computers |-> NoComputation]

Computing == {c \in Computers : computers[c].todo # {} \/ computers[c].found # {}}

\* the boundary tables get other districts for the same year
ReloadBoundaries ==
    /\ loaded + 1 \in Maps
    /\ loaded' = loaded + 1
    /\ UNCHANGED <<layer, overlaps, computers>>

\* --state may leave only some of the units
BeginComputation(c, units) ==
    /\ c \notin Computing /\ units # {}
    /\ computers' = [computers EXCEPT ![c] = [todo |-> units, found |-> {}, read |-> 0]]
    /\ UNCHANGED <<layer, loaded, overlaps>>

\* a county is stored if either share is large enough, a VTD if its own is
Stored(m, p) ==
    \/ OfPlot[m][p] >= MinOverlap
    \/ layer = "county" /\ OfDistrict[m][p] >= MinOverlap

\* the query of the districts of one unit; the areas and percentages
ReadPlot(c, u) ==
    /\ computers[c].found = {} /\ u \in computers[c].todo
    /\ computers' = [computers EXCEPT ![c] =
          [todo |-> @.todo \ {u}, read |-> loaded,
           found |-> {p \in Pairs : p[1] = u /\ Stored(loaded, p)}]]
    /\ UNCHANGED <<layer, loaded, overlaps>>

Relationship(m, p) ==
    IF OfPlot[m][p] >= 999 THEN "CD_IN_COUNTY"
    ELSE IF OfDistrict[m][p] >= 999 THEN "COUNTY_IN_CD" ELSE "SPLIT"

\* mutant: half is enough
DominantFromHalf(m, p) == OfPlot[m][p] >= 500

Dominant(m, p) == OfPlot[m][p] > 500

OverlapRow(m, p) ==
    [from |-> m, dominant |-> Dominant(m, p),
     relationship |-> IF layer = "county" THEN Relationship(m, p) ELSE "none"]

\* update_or_create of one pair; an error is reported and the pair skipped
StoreOverlap(c, p) ==
    /\ p \in computers[c].found
    /\ overlaps' \in {overlaps, [overlaps EXCEPT ![p] = OverlapRow(computers[c].read, p)]}
    /\ computers' = [computers EXCEPT ![c].found = @ \ {p}]
    /\ UNCHANGED <<layer, loaded>>

StopComputation(c) ==
    /\ c \in Computing
    /\ computers' = [computers EXCEPT ![c] = NoComputation]
    /\ UNCHANGED <<layer, loaded, overlaps>>

OverlapNext ==
    \/ ReloadBoundaries
    \/ \E c \in Computers :
        \/ \E units \in SUBSET Plots : BeginComputation(c, units)
        \/ \E u \in Plots : ReadPlot(c, u)
        \/ \E p \in Pairs : StoreOverlap(c, p)
        \/ StopComputation(c)

OverlapSpec == OverlapInit /\ [][OverlapNext]_overlapVars

-----------------------------------------------------------------------------
(* Properties *)

OverlapRows == [from : Maps, dominant : BOOLEAN,
                relationship : {"COUNTY_IN_CD", "CD_IN_COUNTY", "SPLIT", "none"}]

OverlapTypeOK ==
    /\ layer \in Layers /\ loaded \in Maps
    /\ overlaps \in [Pairs -> OverlapRows \cup {NoOverlapRow}]
    /\ computers \in [Computers -> [todo : SUBSET Plots, found : SUBSET Pairs, read : 0..loaded]]

Rows(u) == {p \in Pairs : p[1] = u /\ overlaps[p] # NoOverlapRow}

\* A unit is attributed to one district: two dominant rows of a unit were computed
\* from different boundaries, since a run deletes nothing.
OneDominantUnlessReloaded ==
    \A u \in Plots : \A p, q \in Rows(u) :
        p # q /\ overlaps[p].dominant /\ overlaps[q].dominant =>
            overlaps[p].from # overlaps[q].from
=============================================================================
