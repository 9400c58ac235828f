----------------------------- MODULE MCComponents -----------------------------
(* The components that share no state, on small instances, in one state      *)
(* space: focus says which of them runs.  The others stay as they begin.     *)
EXTENDS MCBoundaryHistory, ObligationLedger, FecLoad, DomainLoads,
        GeographicIntersections, WarehouseLoad, CrosswalkApplication, VintageSeeding,
        FecGraph, VoterFileLoad, CensusTables, SourceFetch

CONSTANTS
    NoSession,
    x1, x2  \* two processes of the component that runs

Symmetry == Permutations({x1, x2})

VARIABLES
    focus,
    sessionAbp, sessionCache, sessionMirror, sessionOwner, sessionPc, sessionJob,
    sessionInst, sessionLone, sessionStored

sessionVars == <<sessionAbp, sessionCache, sessionMirror, sessionOwner, sessionPc, sessionJob,
                 sessionInst, sessionLone, sessionStored>>

-----------------------------------------------------------------------------
(* AddressCacheSessions: one session, in transactions, that reads the Address *)
(* before each save, on the last day of the serving decade                    *)

SessionKeys == {<<v2010, NoPlan>>, <<v2020, NoPlan>>, <<v2020, p1>>}
SessionRows == {CdAt(NoDate, g1), CdAt(2, g2), CdAt(3, g1)}
AtomicModes == [atomic : {TRUE}, upsert : BOOLEAN]

ASSUME SessionAssumption ==
    SessionRows \subseteq Row /\ {v2010, v2020} \subseteq Vintages /\ NoSession # "s1"

Alone == INSTANCE AddressCacheSessions WITH
    Keys <- SessionKeys, RowInputs <- SessionRows, Sessions <- {"s1"}, Modes <- AtomicModes,
    Today <- 3, FreshCallers <- TRUE,
    abp <- sessionAbp, cache <- sessionCache, mirror <- sessionMirror, owner <- sessionOwner,
    pc <- sessionPc, job <- sessionJob, inst <- sessionInst, lone <- sessionLone,
    stored <- sessionStored

-----------------------------------------------------------------------------
(* ObligationLedger: a draw, a repayment and an event larger than the rest *)

ObAmounts == {1, -1, 2}

(* FecLoad: one id in two tables of persons, and two rows that normalise alike *)

FecOrder == <<"candidate", "individual">>
FecAttOrder == <<"candidate">>
GoldNamed(name) == [id |-> "id1", name |-> name]
FecGold == {{}, {GoldNamed("n1")}, {GoldNamed("n1"), GoldNamed("n2")}}

(* DomainLoads: a command with files and two parts, and those of one part *)

LoadListed == [p \in PartNames |->
    IF p = "nonfiscal" THEN <<{"u1"}, {}>> ELSE <<{"u1"}, {"u1", "u2"}>>]

(* GeographicIntersections: halves, slivers and whole units; two maps *)

Shares(x, y, z, w) ==
    (<<"a", "d1">> :> x) @@ (<<"a", "d2">> :> y) @@ (<<"b", "d1">> :> z) @@ (<<"b", "d2">> :> w)
MapOfPlot == <<Shares(500, 500, 0, 1000), Shares(995, 5, 1000, 0)>>
MapOfDistrict == <<Shares(1000, 400, 0, 600), Shares(700, 1000, 300, 0)>>

(* WarehouseLoad: a state legislative district with the geoid of the county, *)
(* which is missing from the boundary tables at first                        *)

ShapeOf(level, geoid) == [level |-> level, geoid |-> geoid, year |-> 2020]
AllShapes == {ShapeOf("state", "06"), ShapeOf("county", "06001"),
              ShapeOf("tract", "06001400100"), ShapeOf("sldl", "06001")}
EarlyShapes == AllShapes \ {ShapeOf("county", "06001")}
PrefixOf == [level \in {"state", "county"} |->
                [code \in Codes |-> IF level = "state" THEN "06" ELSE "06001"]]
Provisioned == {{"dates"} \cup Datasets}

(* CrosswalkApplication: a tract with two targets of one weight, one with none *)

TractCrosswalk == <<[from |-> "o1", to |-> "n1", weight |-> 1], [from |-> "o1", to |-> "n2", weight |-> 1]>>

(* VintageSeeding: consecutive periods, and a series that skips one *)

SeedStarts == [five_year |-> <<1>>, one_year |-> <<1, 2, 4>>, decades |-> <<1, 2>>]
SeedShipped == [five_year |-> 1, one_year |-> 2, decades |-> 1]

GraphParties == <<"DEM", "REP">>

VoterChunks == {<<"rows", "none", "rows">>, <<"none">>, <<"rows", "drifted">>}

CensusStates == <<"06", "48">>
CensusRequests == {<<"cd", "county">>, <<"county">>}

(* SourceFetch: two vintages; two plans of one name, of different states *)

FetchPortions ==
    [acs |-> {"06", "48"}, rdh |-> {"06", "48"}] @@ ("census-tiger" :> {"CD"})
FetchPlanStates == <<"06", "48">>
FetchPlanNames == <<"plan", "plan">>

-----------------------------------------------------------------------------
Components == {"history", "session", "ledger", "fec", "loads", "overlaps",
               "warehouse", "crosswalk", "seeding", "graph", "voters", "census", "fetch"}

ComponentsInit ==
    /\ focus \in Components
    /\ Init /\ Alone!Init /\ ObInit
    /\ FecInit /\ (focus # "fec" => gold = [t \in Tables |-> {}] /\ foreign = {} /\ typed = [i \in Identities |-> NoRow])
    /\ LoadInit /\ (focus # "loads" => command = "load_acs")
    /\ OverlapInit /\ (focus # "overlaps" => layer = "vtd")
    /\ CrosswalkInit /\ (focus # "crosswalk" => \A a \in Residences, p \in SourcePlans : sourceTract[a][p] = NoTract)
    /\ WarehouseInit /\ SeedInit /\ GraphInit /\ VoterInit /\ CensusInit
    /\ FetchInit /\ (focus # "fetch" => source = "acs")

ComponentsNext ==
    \/ /\ focus = "history" /\ Next
       /\ UNCHANGED <<focus, sessionVars, obVars, fecVars, loadVars, overlapVars, warehouseVars,
                      crosswalkVars, seedVars, graphVars, voterVars, censusVars, fetchVars>>
    \/ /\ focus = "session" /\ Alone!Next
       /\ UNCHANGED <<focus, vars, obVars, fecVars, loadVars, overlapVars, warehouseVars,
                      crosswalkVars, seedVars, graphVars, voterVars, censusVars, fetchVars>>
    \/ /\ focus = "ledger" /\ ObNext
       /\ UNCHANGED <<focus, vars, sessionVars, fecVars, loadVars, overlapVars, warehouseVars,
                      crosswalkVars, seedVars, graphVars, voterVars, censusVars, fetchVars>>
    \/ /\ focus = "fec" /\ FecNext
       /\ UNCHANGED <<focus, vars, sessionVars, obVars, loadVars, overlapVars, warehouseVars,
                      crosswalkVars, seedVars, graphVars, voterVars, censusVars, fetchVars>>
    \/ /\ focus = "loads" /\ LoadNext
       /\ UNCHANGED <<focus, vars, sessionVars, obVars, fecVars, overlapVars, warehouseVars,
                      crosswalkVars, seedVars, graphVars, voterVars, censusVars, fetchVars>>
    \/ /\ focus = "overlaps" /\ OverlapNext
       /\ UNCHANGED <<focus, vars, sessionVars, obVars, fecVars, loadVars, warehouseVars,
                      crosswalkVars, seedVars, graphVars, voterVars, censusVars, fetchVars>>
    \/ /\ focus = "warehouse" /\ WarehouseNext
       /\ UNCHANGED <<focus, vars, sessionVars, obVars, fecVars, loadVars, overlapVars,
                      crosswalkVars, seedVars, graphVars, voterVars, censusVars, fetchVars>>
    \/ /\ focus = "crosswalk" /\ CrosswalkNext
       /\ UNCHANGED <<focus, vars, sessionVars, obVars, fecVars, loadVars, overlapVars,
                      warehouseVars, seedVars, graphVars, voterVars, censusVars, fetchVars>>
    \/ /\ focus = "seeding" /\ SeedNext
       /\ UNCHANGED <<focus, vars, sessionVars, obVars, fecVars, loadVars, overlapVars,
                      warehouseVars, crosswalkVars, graphVars, voterVars, censusVars, fetchVars>>
    \/ /\ focus = "graph" /\ GraphNext
       /\ UNCHANGED <<focus, vars, sessionVars, obVars, fecVars, loadVars, overlapVars,
                      warehouseVars, crosswalkVars, seedVars, voterVars, censusVars, fetchVars>>
    \/ /\ focus = "voters" /\ VoterNext
       /\ UNCHANGED <<focus, vars, sessionVars, obVars, fecVars, loadVars, overlapVars,
                      warehouseVars, crosswalkVars, seedVars, graphVars, censusVars, fetchVars>>
    \/ /\ focus = "census" /\ CensusNext
       /\ UNCHANGED <<focus, vars, sessionVars, obVars, fecVars, loadVars, overlapVars,
                      warehouseVars, crosswalkVars, seedVars, graphVars, voterVars, fetchVars>>
    \/ /\ focus = "fetch" /\ FetchNext
       /\ UNCHANGED <<focus, vars, sessionVars, obVars, fecVars, loadVars, overlapVars,
                      warehouseVars, crosswalkVars, seedVars, graphVars, voterVars, censusVars>>

ComponentsSpec == ComponentsInit /\ [][ComponentsNext]_<<focus, vars, sessionVars, obVars, fecVars,
        loadVars, overlapVars, warehouseVars, crosswalkVars, seedVars, graphVars,
        voterVars, censusVars, fetchVars>>

\* The component that runs keeps to its types.
ComponentsTypeOK ==
    CASE focus = "history" -> TypeOK
      [] focus = "session" -> Alone!TypeOK
      [] focus = "ledger" -> ObTypeOK
      [] focus = "fec" -> FecTypeOK
      [] focus = "loads" -> LoadTypeOK
      [] focus = "overlaps" -> OverlapTypeOK
      [] focus = "warehouse" -> WarehouseTypeOK
      [] focus = "crosswalk" -> CrosswalkTypeOK
      [] focus = "seeding" -> SeedTypeOK
      [] focus = "graph" -> GraphTypeOK
      [] focus = "voters" -> VoterTypeOK
      [] focus = "census" -> CensusTypeOK
      [] focus = "fetch" -> FetchTypeOK

\* The statements of a save that has the address to itself amount to the one
\* indivisible step that signals.py promises (CurrentCache).
PromiseKept == Alone!PromiseKept
=============================================================================
