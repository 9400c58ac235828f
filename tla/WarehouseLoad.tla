---------------------------- MODULE WarehouseLoad ----------------------------
(***************************************************************************)
(* load_warehouse (socialwarehouse/warehouse): the geography dimension of  *)
(* one vintage year from the boundary tables, level by level, then the     *)
(* census facts of the tracts.  Every row is upserted by itself, under     *)
(* autocommit, so a run can stop after any of them, and runs can overlap.  *)
(* The enrichment step only counts, except for apply_crosswalks, which is  *)
(* in CrosswalkApplication.                                                *)
(*                                                                         *)
(* Some rows the loaders mean to create cannot be created: one of DimTime  *)
(* would lack day_of_year, which is not NULL, and what DimSurvey and       *)
(* DimCensusVariable are given has a name, which is no field of theirs.    *)
(* A run goes past those steps only where somebody has put the rows there. *)
(*                                                                         *)
(* A boundary is [level, geoid, year].  A geoid is a model value;          *)
(* UpTo[level][geoid] is its prefix of the length of that level.           *)
(***************************************************************************)
EXTENDS Naturals, Sequences

CONSTANTS
    Workers,     \* processes that run load_warehouse
    Shapes,      \* rows the boundary tables can have
    FirstShapes, \* the ones they have at first
    Codes,       \* geoids
    UpTo,
    Years,
    Tabulated,   \* tracts the Census API has data for
    Provisions,  \* rows that somebody can put there at once, for want of the loaders
    NoDim

Levels == {"state", "county", "tract", "sldl"}
Datasets == {"acs5", "dec_pl"}

ASSUME ShapeAssumption ==
    /\ FirstShapes \subseteq Shapes
    /\ Shapes \subseteq [level : Levels, geoid : Codes, year : Years]
    /\ UpTo \in [{"state", "county"} -> [Codes -> Codes]]
    /\ NoDim \notin (Codes \X Years)
          \cup [level : Levels, parent : (Codes \X Years) \cup {NoDim}]
    /\ Tabulated \subseteq Codes
    \* the length of a geoid tells its level, but that of a legislative district
    /\ \A s, t \in Shapes : s.geoid = t.geoid /\ s.level # t.level =>
          {s.level, t.level} = {"county", "sldl"}
    /\ Provisions \subseteq SUBSET ({"dates"} \cup Datasets)

VARIABLES
    shapes,   \* the boundary tables
    dims,     \* DimGeography by its natural key, (geoid, vintage_year)
    provided, \* the rows the loaders cannot create that somebody else has put there
    facts,    \* facts[d]: keys of the dimension rows that have facts of dataset d
    workers   \* workers[w]: what a run has still to do

warehouseVars == <<shapes, dims, provided, facts, workers>>

NoWork == [step |-> "idle", year |-> 0, levels |-> <<>>, rows |-> {}, seen |-> {}, all |-> FALSE]

WarehouseInit ==
    /\ shapes = FirstShapes
    /\ dims = [k \in Codes \X Years |-> NoDim]
    /\ provided = {}
    /\ facts = [d \in Datasets |-> {}]
    /\ workers = [w \in Workers |-> NoWork]

Key(s) == <<s.geoid, s.year>>
Loaded(k) == dims[k] # NoDim

\* the boundary tables are filled by siege_utilities
ImportShapes(new) ==
    /\ shapes' = shapes \cup new
    /\ UNCHANGED <<dims, provided, facts, workers>>

\* the dates of DimTime, or the survey and the variables of a dataset
Provide(rows) ==
    /\ provided' = provided \cup rows
    /\ UNCHANGED <<shapes, dims, facts, workers>>

\* mutant: tracts are loaded before the counties they hang off
summary_levels_by_size == <<"state", "tract", "county", "sldl">>

\* the default of load_geography_from_siege; the levels left out hang off these
\* in the same way
summary_levels == <<"state", "county", "tract", "sldl">>

\* MODEL_MAP: the level a level hangs off
ParentLevel(level) == IF level = "tract" THEN "county" ELSE "state"

ParentKey(s) == <<UpTo[ParentLevel(s.level)][s.geoid], s.year>>

\* run_all, --dimensions-only or --census-only
BeginWork(w, year, step, all) ==
    /\ workers[w].step = "idle"
    /\ step = "acs5" => ~all
    /\ workers' = [workers EXCEPT ![w] =
          [step |-> step, year |-> year, levels |-> summary_levels, rows |-> {},
           seen |-> {s \in shapes : s.year = year}, all |-> all]]
    /\ UNCHANGED <<shapes, dims, provided, facts>>

\* the next level: its boundaries of the year are queried
BeginLevel(w) ==
    /\ workers[w].step = "dims" /\ workers[w].rows = {} /\ workers[w].levels # <<>>
    /\ workers' = [workers EXCEPT ![w].levels = Tail(@),
          ![w].rows = {s \in shapes : s.level = Head(workers[w].levels) /\ s.year = workers[w].year}]
    /\ UNCHANGED <<shapes, dims, provided, facts>>

\* the parent is looked up by its geoid and the row upserted by (geoid, year)
UpsertDim(w, s) ==
    /\ workers[w].step = "dims" /\ s \in workers[w].rows
    /\ dims' = [dims EXCEPT ![Key(s)] =
          [level |-> s.level,
           parent |-> IF s.level # "state" /\ Loaded(ParentKey(s)) THEN ParentKey(s) ELSE NoDim]]
    /\ workers' = [workers EXCEPT ![w].rows = @ \ {s}]
    /\ UNCHANGED <<shapes, provided, facts>>

EndDims(w) ==
    /\ workers[w].step = "dims" /\ workers[w].rows = {} /\ workers[w].levels = <<>>
    /\ workers' = [workers EXCEPT ![w].step = "dates"]
    /\ UNCHANGED <<shapes, dims, provided, facts>>

\* load_time_dimension updates; the first date that it has to create stops it
LoadDates(w) ==
    /\ workers[w].step = "dates" /\ "dates" \in provided
    /\ workers' = [workers EXCEPT ![w].step = "cycles"]
    /\ UNCHANGED <<shapes, dims, provided, facts>>

\* load_redistricting_cycles upserts rows that no other step reads
LoadCycles(w) ==
    /\ workers[w].step = "cycles"
    /\ workers' = [workers EXCEPT ![w] = IF workers[w].all THEN [@ EXCEPT !.step = "acs5"] ELSE NoWork]
    /\ UNCHANGED <<shapes, dims, provided, facts>>

\* load_acs_estimates goes before load_decennial_counts
AfterDataset(w) ==
    workers' = [workers EXCEPT ![w] = IF workers[w].step = "acs5" THEN [@ EXCEPT !.step = "dec_pl"] ELSE NoWork]

\* facts are upserted; data without a dimension row is dropped
UpsertFacts(w, dataset) ==
    /\ workers[w].step = dataset /\ dataset \in provided
    /\ facts' = [facts EXCEPT ![dataset] = @ \cup {k \in Tabulated \X {workers[w].year} : Loaded(k)}]
    /\ AfterDataset(w)
    /\ UNCHANGED <<shapes, dims, provided>>

LoadEstimates(w) == UpsertFacts(w, "acs5")
LoadCounts(w) == UpsertFacts(w, "dec_pl")

\* the survey is there and the Census API fails or has no data: 0 rows, and on
FetchNothing(w) ==
    /\ workers[w].step \in Datasets \cap provided
    /\ AfterDataset(w)
    /\ UNCHANGED <<shapes, dims, provided, facts>>

\* an error, or the end of the process
StopWork(w) ==
    /\ workers[w].step # "idle"
    /\ workers' = [workers EXCEPT ![w] = NoWork]
    /\ UNCHANGED <<shapes, dims, provided, facts>>

\* _resolve_districts of the civic lookup, which writes nothing: the level and
\* census year of an address find the name of a geoid it carries
Named(level, geoid, year) == Loaded(<<geoid, year>>) /\ dims[<<geoid, year>>].level = level

WarehouseNext ==
    \/ \E new \in SUBSET Shapes : ImportShapes(new)
    \/ \E rows \in Provisions : Provide(rows)
    \/ \E w \in Workers :
        \/ \E year \in Years, step \in {"dims", "acs5"}, all \in BOOLEAN : BeginWork(w, year, step, all)
        \/ BeginLevel(w) \/ EndDims(w) \/ LoadDates(w) \/ LoadCycles(w)
        \/ LoadEstimates(w) \/ LoadCounts(w) \/ FetchNothing(w) \/ StopWork(w)
        \/ \E s \in Shapes : UpsertDim(w, s)

WarehouseSpec == WarehouseInit /\ [][WarehouseNext]_warehouseVars

-----------------------------------------------------------------------------
(* Properties *)

WarehouseTypeOK ==
    /\ shapes \subseteq Shapes
    /\ dims \in [Codes \X Years -> [level : Levels, parent : (Codes \X Years) \cup {NoDim}] \cup {NoDim}]
    /\ provided \subseteq {"dates"} \cup Datasets
    /\ facts \in [Datasets -> SUBSET {k \in Codes \X Years : Loaded(k)}]
    /\ \A w \in Workers :
         /\ workers[w].step \in {"idle", "dims", "dates", "cycles"} \cup Datasets
         /\ workers[w].rows \subseteq shapes

\* The boundary s was there when run w began, and so was the one it hangs off.
HangsOff(w, s) ==
    \E p \in workers[w].seen : p.level = ParentLevel(s.level) /\ Key(p) = ParentKey(s)

SharesGeoid(s) == \E other \in Shapes \ {s} : Key(other) = Key(s)

\* A load of the dimension that reaches its end, whatever else ran or stopped in
\* between, leaves every boundary that was there when it began with a row, and
\* with its parent if that was there too; the civic lookup names it, unless a
\* boundary of another level has its geoid.  Facts that the same run loads later
\* leave out none of the tracts it began with.
FullLoadLinks ==
    [][\A w \in Workers : \A s \in workers[w].seen :
         /\ EndDims(w) =>
              /\ Loaded(Key(s))
              /\ s.level # "state" /\ HangsOff(w, s) => dims[Key(s)].parent = ParentKey(s)
              /\ SharesGeoid(s) \/ Named(s.level, s.geoid, s.year)
         /\ (LoadEstimates(w) \/ LoadCounts(w)) /\ workers[w].all /\ s.geoid \in Tabulated =>
              Key(s) \in facts'[workers[w].step]]_warehouseVars

\* "Supports drill-up via the parent FK (tract -> county -> state)."
DrillUpFollowsLevels ==
    \A k \in Codes \X Years :
        Loaded(k) /\ dims[k].parent # NoDim => dims[dims[k].parent].level = ParentLevel(dims[k].level)
=============================================================================
