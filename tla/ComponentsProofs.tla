-------------------------- MODULE ComponentsProofs ---------------------------
(***************************************************************************)
(* Proofs about the components of MCComponents, and that what is proved of *)
(* each holds where they are put together.  What is derived from stored    *)
(* boundaries: the timeline of an address (BoundaryHistory), the warehouse *)
(* (WarehouseLoad), overlaps (GeographicIntersections), the crosswalk      *)
(* (CrosswalkApplication).  What is registered by a natural key: obligations *)
(* (ObligationLedger), FEC entities (FecLoad) and their graph (FecGraph),  *)
(* seeded vintages (VintageSeeding).  The loads are in BulkLoadProofs.     *)
(***************************************************************************)
EXTENDS MCComponents, BulkLoadProofs, BoundaryPeriodsProofs, FiniteSetTheorems

-----------------------------------------------------------------------------
(***************************************************************************)
(* The warehouse load.  A run is done with a boundary it began with once   *)
(* its level and its row are behind it; it then has a row, and its parent  *)
(* too, since that was loaded a level before.  Another run, or a boundary  *)
(* with the same geoid, writes the same parent again.                      *)
(***************************************************************************)
LevelLists ==
    {<<"state", "county", "tract", "sldl">>, <<"county", "tract", "sldl">>,
     <<"tract", "sldl">>, <<"sldl">>, <<>>}
WorkType ==
    [step : {"idle", "dims", "dates", "cycles"} \cup Datasets, year : Years \cup {0},
     levels : LevelLists, rows : SUBSET Shapes, seen : SUBSET Shapes, all : BOOLEAN]
DimKeys == Codes \X Years

WarehouseTyped ==
    /\ shapes \subseteq Shapes
    /\ dims \in [DimKeys -> [level : Levels, parent : DimKeys \cup {NoDim}] \cup {NoDim}]
    /\ provided \subseteq {"dates"} \cup Datasets
    /\ facts \in [Datasets -> SUBSET {k \in DimKeys : Loaded(k)}]
    /\ workers \in [Workers -> WorkType]

Left(levels) == {levels[i] : i \in 1..Len(levels)}
InHand(levels) ==
    CASE levels = <<"county", "tract", "sldl">> -> "state"
      [] levels = <<"tract", "sldl">> -> "county"
      [] levels = <<"sldl">> -> "tract"
      [] levels = <<>> -> "sldl"
      [] OTHER -> "none"

\* The row of a boundary, as FullLoadLinks wants it.
Linked(run, s) ==
    /\ Loaded(Key(s))
    /\ s.level # "state" /\ (\E p \in run.seen : p.level = ParentLevel(s.level) /\ Key(p) = ParentKey(s))
          => dims[Key(s)].parent = ParentKey(s)
    /\ SharesGeoid(s) \/ dims[Key(s)].level = s.level

WorkSound(run) ==
    /\ run.step # "idle" => run.year \in Years
    /\ \A s \in run.seen : s \in shapes /\ s.year = run.year
    /\ \A r \in run.rows : r \in shapes
    /\ run.step = "dims" =>
         /\ \A r \in run.rows : r.level = InHand(run.levels)
         /\ \A s \in run.seen : s.level \notin Left(run.levels) /\ s \notin run.rows => Linked(run, s)
    /\ run.step \in {"dates", "cycles"} => \A s \in run.seen : Loaded(Key(s))
    /\ run.step \in Datasets /\ run.all => \A s \in run.seen : Loaded(Key(s))

\* A row hangs off a row that is there.
ParentsLoaded ==
    \A k \in DimKeys : Loaded(k) /\ dims[k].parent # NoDim => Loaded(dims[k].parent)

WarehouseInd ==
    /\ WarehouseTyped
    /\ ParentsLoaded
    /\ \A w \in Workers : WorkSound(workers[w])

-----------------------------------------------------------------------------

LEMMA ShapesTyped ==
    ASSUME NEW s \in Shapes
    PROVE  /\ s.level \in Levels /\ s.geoid \in Codes /\ s.year \in Years
           /\ s = [level |-> s.level, geoid |-> s.geoid, year |-> s.year]
           /\ Key(s) \in DimKeys /\ ParentKey(s) \in DimKeys /\ ParentKey(s) # NoDim
<1>1. s \in [level : Levels, geoid : Codes, year : Years]
  BY ShapeAssumption
<1>2. /\ s.level \in Levels /\ s.geoid \in Codes /\ s.year \in Years
      /\ s = [level |-> s.level, geoid |-> s.geoid, year |-> s.year]
  BY <1>1
<1>3. ParentLevel(s.level) \in {"state", "county"}
  BY DEF ParentLevel
<1>4. UpTo[ParentLevel(s.level)][s.geoid] \in Codes
  BY <1>2, <1>3, ShapeAssumption
<1> QED BY <1>2, <1>4, ShapeAssumption DEF Key, ParentKey, DimKeys

\* Two boundaries that share a row hang off the same one.
LEMMA SameRow ==
    ASSUME NEW s \in Shapes, NEW t \in Shapes, Key(s) = Key(t), s # t
    PROVE  SharesGeoid(t) /\ s.level # "state" /\ t.level # "state" /\ ParentKey(s) = ParentKey(t)
<1>1. s.geoid = t.geoid /\ s.year = t.year
  BY DEF Key
<1>2. s.level # t.level
  BY <1>1, ShapesTyped
<1>3. {s.level, t.level} = {"county", "sldl"}
  BY <1>1, <1>2, ShapeAssumption
<1>4. s.level \in {"county", "sldl"} /\ t.level \in {"county", "sldl"}
  BY <1>3
<1>5. ParentLevel(s.level) = "state" /\ ParentLevel(t.level) = "state"
  BY <1>4 DEF ParentLevel
<1> QED BY <1>1, <1>4, <1>5 DEF SharesGeoid, ParentKey

\* A level is behind a run once it is neither left nor in hand; the level a row
\* in hand hangs off is.
LEMMA LevelsInOrder ==
    ASSUME NEW levels \in LevelLists
    PROVE  /\ levels # <<>> => /\ Tail(levels) \in LevelLists
                               /\ InHand(Tail(levels)) = Head(levels)
                               /\ Left(levels) = {Head(levels)} \cup Left(Tail(levels))
           /\ InHand(levels) \in Levels /\ InHand(levels) # "state" =>
                 /\ ParentLevel(InHand(levels)) \notin Left(levels)
                 /\ ParentLevel(InHand(levels)) # InHand(levels)
           /\ levels = <<>> => Left(levels) = {}
<1>1. CASE levels = <<"state", "county", "tract", "sldl">>
  <2>1. Tail(levels) = <<"county", "tract", "sldl">> /\ Head(levels) = "state"
    BY <1>1
  <2>2. Left(levels) = {"state", "county", "tract", "sldl"}
    BY <1>1 DEF Left
  <2>3. Left(Tail(levels)) = {"county", "tract", "sldl"}
    <3>1. PICK rest : rest = <<"county", "tract", "sldl">>
      OBVIOUS
    <3>2. Left(rest) = {"county", "tract", "sldl"}
      BY <3>1 DEF Left
    <3> QED BY <2>1, <3>1, <3>2
  <2> QED BY <1>1, <2>1, <2>2, <2>3 DEF InHand, LevelLists, Levels, ParentLevel
<1>2. CASE levels = <<"county", "tract", "sldl">>
  <2>1. Tail(levels) = <<"tract", "sldl">> /\ Head(levels) = "county"
    BY <1>2
  <2>2. Left(levels) = {"county", "tract", "sldl"}
    BY <1>2 DEF Left
  <2>3. Left(Tail(levels)) = {"tract", "sldl"}
    <3>1. PICK rest : rest = <<"tract", "sldl">>
      OBVIOUS
    <3>2. Left(rest) = {"tract", "sldl"}
      BY <3>1 DEF Left
    <3> QED BY <2>1, <3>1, <3>2
  <2> QED BY <1>2, <2>1, <2>2, <2>3 DEF InHand, LevelLists, Levels, ParentLevel
<1>3. CASE levels = <<"tract", "sldl">>
  <2>1. Tail(levels) = <<"sldl">> /\ Head(levels) = "tract"
    BY <1>3
  <2>2. Left(levels) = {"tract", "sldl"}
    BY <1>3 DEF Left
  <2>3. Left(Tail(levels)) = {"sldl"}
    <3>1. PICK rest : rest = <<"sldl">>
      OBVIOUS
    <3>2. Left(rest) = {"sldl"}
      BY <3>1 DEF Left
    <3> QED BY <2>1, <3>1, <3>2
  <2> QED BY <1>3, <2>1, <2>2, <2>3 DEF InHand, LevelLists, Levels, ParentLevel
<1>4. CASE levels = <<"sldl">>
  <2>1. Tail(levels) = <<>> /\ Head(levels) = "sldl"
    BY <1>4
  <2>2. Left(levels) = {"sldl"}
    BY <1>4 DEF Left
  <2>3. Left(Tail(levels)) = {}
    <3>1. PICK rest : rest = <<>>
      OBVIOUS
    <3>2. Left(rest) = {}
      BY <3>1 DEF Left
    <3> QED BY <2>1, <3>1, <3>2
  <2> QED BY <1>4, <2>1, <2>2, <2>3 DEF InHand, LevelLists, Levels, ParentLevel
<1>5. CASE levels = <<>>
  <2>1. Left(levels) = {}
    BY <1>5 DEF Left
  <2> QED BY <1>5, <2>1 DEF InHand, Levels, ParentLevel
<1> QED BY <1>1, <1>2, <1>3, <1>4, <1>5 DEF LevelLists

\* A step of one run that writes no dimension.
LEMMA WorkStep ==
    ASSUME WarehouseInd, NEW w \in Workers, NEW run \in WorkType,
           workers' = [workers EXCEPT ![w] = run], WorkSound(run),
           UNCHANGED <<shapes, dims, provided>>,
           facts' \in [Datasets -> SUBSET {k \in DimKeys : Loaded(k)}]
    PROVE  WarehouseInd'
<1>1. /\ workers' \in [Workers -> WorkType]
      /\ \A v \in Workers : workers'[v] = IF v = w THEN run ELSE workers[v]
  BY DEF WarehouseInd, WarehouseTyped
<1>2. WarehouseTyped' /\ ParentsLoaded'
  BY <1>1 DEF WarehouseInd, WarehouseTyped, ParentsLoaded, Loaded
<1>3. ASSUME NEW v \in Workers PROVE WorkSound(workers[v])'
  <2>1. PICK other : other = workers'[v]
    OBVIOUS
  <2>2. WorkSound(other)
    BY <1>1, <2>1 DEF WarehouseInd
  <2>3. WorkSound(other)'
    BY <2>2 DEF WorkSound, Linked, Loaded
  <2> QED BY <2>1, <2>3 DEF WorkSound, Linked, Loaded
<1> QED BY <1>2, <1>3 DEF WarehouseInd

\* What a boundary's row is survives the upsert of a row, the boundary's or
\* another's that hangs off a row.
LEMMA LinkedStays ==
    ASSUME WarehouseTyped, ParentsLoaded, NEW s \in Shapes, NEW run, NEW t \in Shapes,
           NEW row, row # NoDim, dims' = [dims EXCEPT ![Key(s)] = row],
           row.level = s.level,
           s.level # "state" /\ Loaded(ParentKey(s)) => row.parent = ParentKey(s),
           Linked(run, t)
    PROVE  Linked(run, t)'
<1>1. /\ Key(s) \in DimKeys /\ ParentKey(s) \in DimKeys /\ ParentKey(s) # NoDim
      /\ Key(t) \in DimKeys /\ ParentKey(t) \in DimKeys /\ ParentKey(t) # NoDim
  BY ShapesTyped
<1>2. \A k \in DimKeys : dims'[k] = IF k = Key(s) THEN row ELSE dims[k]
  BY DEF WarehouseTyped
<1>3. CASE Key(t) # Key(s)
  <2>1. dims'[Key(t)] = dims[Key(t)]
    BY <1>1, <1>2, <1>3
  <2> QED BY <2>1 DEF Linked, Loaded
<1>4. CASE Key(t) = Key(s)
  <2>1. dims'[Key(t)] = row
    BY <1>1, <1>2, <1>4
  <2>2. t # s => SharesGeoid(t) /\ s.level # "state" /\ t.level # "state" /\ ParentKey(s) = ParentKey(t)
    BY <1>4, SameRow
  <2>3. ASSUME t.level # "state",
               \E p \in run.seen : p.level = ParentLevel(t.level) /\ Key(p) = ParentKey(t)
        PROVE  row.parent = ParentKey(t)
    <3>1. dims[Key(t)].parent = ParentKey(t) /\ Loaded(Key(t))
      BY <2>3 DEF Linked
    <3>2. Loaded(ParentKey(t))
      BY <1>1, <3>1 DEF ParentsLoaded
    <3> QED BY <2>2, <2>3, <3>2
  <2>4. Loaded(Key(t))'
    BY <2>1 DEF Loaded
  <2>5. SharesGeoid(t) \/ row.level = t.level
    BY <2>2
  <2> QED BY <2>1, <2>3, <2>4, <2>5 DEF Linked
<1> QED BY <1>3, <1>4

\* Once its level is in hand, and its row with it, the upsert of a boundary the
\* run began with links it.
LEMMA UpsertLinks ==
    ASSUME WarehouseTyped, NEW run \in WorkType, WorkSound(run), run.step = "dims",
           NEW s \in Shapes, s \in run.rows,
           NEW row, row # NoDim, dims' = [dims EXCEPT ![Key(s)] = row],
           row.level = s.level,
           s.level # "state" /\ Loaded(ParentKey(s)) => row.parent = ParentKey(s)
    PROVE  Linked(run, s)'
<1>1. Key(s) \in DimKeys /\ s.level \in Levels
  BY ShapesTyped
<1>2. dims'[Key(s)] = row
  BY <1>1 DEF WarehouseTyped
<1>3. s.level = InHand(run.levels)
  BY DEF WorkSound
<1>4. ASSUME s.level # "state",
             NEW p \in run.seen, p.level = ParentLevel(s.level), Key(p) = ParentKey(s)
      PROVE  row.parent = ParentKey(s)
  <2>1. run.levels \in LevelLists
    BY DEF WorkType
  <2>2. p.level \notin Left(run.levels) /\ p.level # InHand(run.levels)
    BY <1>1, <1>3, <1>4, <2>1, LevelsInOrder
  <2>3. p \notin run.rows
    BY <2>2 DEF WorkSound
  <2>4. Loaded(Key(p))
    BY <2>2, <2>3 DEF WorkSound, Linked
  <2> QED BY <1>4, <2>4
<1>5. Loaded(Key(s))'
  BY <1>2 DEF Loaded
<1> QED BY <1>2, <1>4, <1>5 DEF Linked

LEMMA UpsertKeepsWarehouse ==
    ASSUME WarehouseInd, NEW w \in Workers, NEW s \in Shapes, UpsertDim(w, s)
    PROVE  WarehouseInd'
<1>1. PICK row : row = [level |-> s.level,
           parent |-> IF s.level # "state" /\ Loaded(ParentKey(s)) THEN ParentKey(s) ELSE NoDim]
  OBVIOUS
<1>2. PICK run : run = [workers[w] EXCEPT !.rows = workers[w].rows \ {s}]
  OBVIOUS
<1>3. /\ workers[w].step = "dims" /\ s \in workers[w].rows
      /\ dims' = [dims EXCEPT ![Key(s)] = row]
      /\ workers' = [workers EXCEPT ![w] = run]
      /\ UNCHANGED <<shapes, provided, facts>>
  BY <1>1, <1>2 DEF UpsertDim, WarehouseInd, WarehouseTyped
<1>4. /\ Key(s) \in DimKeys /\ ParentKey(s) \in DimKeys /\ ParentKey(s) # NoDim /\ s.level \in Levels
  BY ShapesTyped
<1>5. /\ row \in [level : Levels, parent : DimKeys \cup {NoDim}] /\ row # NoDim
      /\ row.level = s.level
      /\ row.parent = IF s.level # "state" /\ Loaded(ParentKey(s)) THEN ParentKey(s) ELSE NoDim
  <2>1. row \in [level : Levels, parent : DimKeys \cup {NoDim}]
    BY <1>1, <1>4
  <2>2. row # NoDim
    BY <2>1, ShapeAssumption DEF DimKeys
  <2> QED BY <1>1, <2>1, <2>2
<1>6. workers[w] \in WorkType /\ WorkSound(workers[w])
  BY DEF WarehouseInd, WarehouseTyped
<1>7. /\ run \in WorkType
      /\ run.step = "dims" /\ run.year = workers[w].year /\ run.levels = workers[w].levels
      /\ run.rows = workers[w].rows \ {s} /\ run.seen = workers[w].seen
  BY <1>2, <1>3, <1>6 DEF WorkType
<1>8. /\ workers' \in [Workers -> WorkType]
      /\ \A v \in Workers : workers'[v] = IF v = w THEN run ELSE workers[v]
  BY <1>3, <1>7 DEF WarehouseInd, WarehouseTyped
<1>9. \A k \in DimKeys : dims'[k] = IF k = Key(s) THEN row ELSE dims[k]
  BY <1>3 DEF WarehouseInd, WarehouseTyped
<1>10. \A k \in DimKeys : Loaded(k) => Loaded(k)'
  BY <1>5, <1>9 DEF Loaded
<1>11. WarehouseTyped'
  <2>1. dims' \in [DimKeys -> [level : Levels, parent : DimKeys \cup {NoDim}] \cup {NoDim}]
    BY <1>3, <1>4, <1>5 DEF WarehouseInd, WarehouseTyped
  <2>2. facts' \in [Datasets -> SUBSET {k \in DimKeys : Loaded(k)'}]
    BY <1>3, <1>10 DEF WarehouseInd, WarehouseTyped
  <2> QED BY <1>3, <1>8, <2>1, <2>2 DEF WarehouseInd, WarehouseTyped
<1>12. ParentsLoaded'
  <2>1. ASSUME NEW k \in DimKeys, Loaded(k)', dims'[k].parent # NoDim
        PROVE  dims'[dims'[k].parent] # NoDim
    <3>1. CASE k = Key(s)
      <4>1. dims'[k].parent = ParentKey(s) /\ Loaded(ParentKey(s))
        BY <1>5, <1>9, <2>1, <3>1
      <4> QED BY <1>4, <1>10, <4>1 DEF Loaded
    <3>2. CASE k # Key(s)
      <4>1. dims'[k] = dims[k]
        BY <1>9, <3>2
      <4>2. Loaded(dims[k].parent)
        BY <2>1, <4>1 DEF WarehouseInd, ParentsLoaded, Loaded
      <4>3. dims[k].parent \in DimKeys
        <5>1. dims[k] \in [level : Levels, parent : DimKeys \cup {NoDim}]
          BY <2>1, <4>1 DEF WarehouseInd, WarehouseTyped, Loaded
        <5> QED BY <2>1, <4>1, <5>1
      <4> QED BY <1>10, <4>1, <4>2, <4>3 DEF Loaded
    <3> QED BY <3>1, <3>2
  <2> QED BY <2>1 DEF ParentsLoaded, Loaded
<1>13. ASSUME NEW v \in Workers PROVE WorkSound(workers[v])'
  <2>1. PICK other : other = workers'[v]
    OBVIOUS
  <2>2. /\ WorkSound(workers[v]) /\ workers[v] \in WorkType
        /\ workers[v].seen \subseteq Shapes
    BY DEF WarehouseInd, WarehouseTyped, WorkType
  <2>3. \A t \in workers[v].seen : Linked(workers[v], t) => Linked(other, t)'
    <3>1. other.seen = workers[v].seen
      BY <1>7, <1>8, <2>1
    <3>2. ASSUME NEW t \in workers[v].seen, Linked(workers[v], t) PROVE Linked(other, t)'
      <4>1. Linked(other, t)
        BY <3>1, <3>2 DEF Linked
      <4> QED BY <1>3, <1>5, <2>2, <4>1, LinkedStays DEF WarehouseInd
    <3> QED BY <3>2
  <2>4. \A t \in workers[v].seen : Loaded(Key(t)) => Loaded(Key(t))'
    BY <1>10, <2>2, ShapesTyped
  <2>5. CASE v # w
    <3>1. other = workers[v]
      BY <1>8, <2>1, <2>5
    <3>2. WorkSound(other)'
      BY <1>3, <2>2, <2>3, <2>4, <3>1 DEF WorkSound
    <3> QED BY <2>1, <3>2 DEF WorkSound, Linked, Loaded
  <2>6. CASE v = w
    <3>1. other = run
      BY <1>8, <2>1, <2>6
    <3>2. Linked(other, s)'
      <4>1. PICK before : before = workers[w]
        OBVIOUS
      <4>2. Linked(before, s)'
        BY <1>3, <1>5, <1>6, <4>1, UpsertLinks DEF WarehouseInd
      <4>3. other.seen = before.seen
        BY <1>7, <3>1, <4>1
      <4> QED BY <4>2, <4>3 DEF Linked, Loaded
    <3>3. WorkSound(other)'
      <4>1. ASSUME NEW t \in other.seen, t.level \notin Left(other.levels), t \notin other.rows
            PROVE  Linked(other, t)'
        <5>1. CASE t = s
          BY <1>7, <2>6, <3>1, <3>2, <4>1, <5>1
        <5>2. CASE t # s
          <6>1. Linked(workers[v], t)
            BY <1>3, <1>7, <2>2, <2>6, <3>1, <4>1, <5>2 DEF WorkSound
          <6> QED BY <1>7, <2>3, <2>6, <3>1, <6>1
        <5> QED BY <5>1, <5>2
      <4>2. \A t \in other.seen : t \in shapes' /\ t.year = other.year
        BY <1>3, <1>7, <2>2, <2>6, <3>1 DEF WorkSound
      <4>3. \A r \in other.rows : r \in shapes' /\ r.level = InHand(other.levels)
        BY <1>3, <1>7, <2>2, <2>6, <3>1 DEF WorkSound
      <4>4. other.step = "dims" /\ other.year \in Years
        BY <1>3, <1>7, <2>2, <2>6, <3>1 DEF WorkSound
      <4> QED BY <4>1, <4>2, <4>3, <4>4 DEF WorkSound, Datasets
    <3> QED BY <2>1, <3>3 DEF WorkSound, Linked, Loaded
  <2> QED BY <2>5, <2>6
<1> QED BY <1>11, <1>12, <1>13 DEF WarehouseInd

LEMMA BeginKeepsWarehouse ==
    ASSUME WarehouseInd, NEW w \in Workers, NEW year \in Years, NEW step \in {"dims", "acs5"},
           NEW all \in BOOLEAN, BeginWork(w, year, step, all)
    PROVE  WarehouseInd'
<1>1. PICK run : run = [step |-> step, year |-> year, levels |-> summary_levels, rows |-> {},
                        seen |-> {s \in shapes : s.year = year}, all |-> all]
  OBVIOUS
<1>2. workers' = [workers EXCEPT ![w] = run] /\ UNCHANGED <<shapes, dims, provided, facts>>
  BY <1>1 DEF BeginWork
<1>3. /\ run.step = step /\ run.year = year /\ run.levels = summary_levels /\ run.rows = {}
      /\ run.seen = {s \in shapes : s.year = year} /\ run.all = all
  BY <1>1
<1>4. run \in WorkType
  BY <1>1 DEF WorkType, LevelLists, summary_levels, Datasets, WarehouseInd, WarehouseTyped
<1>5. WorkSound(run)
  <2>1. Left(run.levels) = Levels
    <3>1. PICK order : order = <<"state", "county", "tract", "sldl">>
      OBVIOUS
    <3>2. Left(order) = {"state", "county", "tract", "sldl"}
      BY <3>1 DEF Left
    <3> QED BY <1>3, <3>1, <3>2 DEF summary_levels, Levels
  <2>2. \A s \in run.seen : s \in Shapes /\ s.level \in Levels
    BY <1>3, ShapesTyped DEF WarehouseInd, WarehouseTyped
  <2>3. run.step \in Datasets => ~run.all
    BY <1>3 DEF BeginWork, Datasets
  <2>4. run.step \in {"dims", "acs5"}
    BY <1>3
  <2> QED BY <1>3, <2>1, <2>2, <2>3, <2>4 DEF WorkSound
<1> QED BY <1>2, <1>4, <1>5, WorkStep DEF WarehouseInd, WarehouseTyped

LEMMA BeginLevelKeepsWarehouse ==
    ASSUME WarehouseInd, NEW w \in Workers, BeginLevel(w)
    PROVE  WarehouseInd'
<1>1. PICK before : before = workers[w]
  OBVIOUS
<1>2. before \in WorkType /\ WorkSound(before)
  BY <1>1 DEF WarehouseInd, WarehouseTyped
<1>3. PICK run : run = [before EXCEPT !.levels = Tail(before.levels),
                            !.rows = {s \in shapes : s.level = Head(before.levels) /\ s.year = before.year}]
  OBVIOUS
<1>4. /\ before.step = "dims" /\ before.rows = {} /\ before.levels # <<>>
      /\ workers' = [workers EXCEPT ![w] = run]
      /\ UNCHANGED <<shapes, dims, provided, facts>>
  BY <1>1, <1>3 DEF BeginLevel
<1>5. /\ run.step = before.step /\ run.year = before.year /\ run.levels = Tail(before.levels)
      /\ run.rows = {s \in shapes : s.level = Head(before.levels) /\ s.year = before.year}
      /\ run.seen = before.seen /\ run.all = before.all
  BY <1>2, <1>3 DEF WorkType
<1>6. /\ Tail(before.levels) \in LevelLists
      /\ InHand(Tail(before.levels)) = Head(before.levels)
      /\ Left(before.levels) = {Head(before.levels)} \cup Left(Tail(before.levels))
  BY <1>2, <1>4, LevelsInOrder DEF WorkType
<1>7. run \in WorkType
  BY <1>2, <1>3, <1>5, <1>6 DEF WorkType, WarehouseInd, WarehouseTyped
<1>8. WorkSound(run)
  <2>1. ASSUME NEW s \in run.seen, s.level \notin Left(run.levels), s \notin run.rows
        PROVE  Linked(run, s)
    <3>1. s \in shapes /\ s.year = before.year
      BY <1>2, <1>5 DEF WorkSound
    <3>2. s.level \notin Left(before.levels)
      BY <1>5, <1>6, <2>1, <3>1
    <3>3. Linked(before, s)
      BY <1>2, <1>4, <1>5, <3>2 DEF WorkSound
    <3> QED BY <1>5, <3>3 DEF Linked
  <2> QED BY <1>2, <1>4, <1>5, <1>6, <2>1 DEF WorkSound, Datasets
<1> QED BY <1>4, <1>7, <1>8, WorkStep DEF WarehouseInd, WarehouseTyped

\* A run that is through with the levels has linked all it began with.
LEMMA AllLinked ==
    ASSUME WarehouseInd, NEW w \in Workers, EndDims(w), NEW s \in workers[w].seen
    PROVE  Linked(workers[w], s)
<1>1. WorkSound(workers[w])
  BY DEF WarehouseInd
<1>2. Left(workers[w].levels) = {}
  BY LevelsInOrder DEF EndDims, LevelLists
<1> QED BY <1>1, <1>2 DEF EndDims, WorkSound

\* A run goes on to another step, or ends.
LEMMA StepOn ==
    ASSUME WarehouseInd, NEW w \in Workers, NEW step \in {"dates", "cycles"} \cup Datasets,
           NEW run, run = [workers[w] EXCEPT !.step = step],
           workers[w].step # "idle",
           \A s \in workers[w].seen : (step \in Datasets /\ ~workers[w].all) \/ Loaded(Key(s))
    PROVE  run \in WorkType /\ WorkSound(run)
<1>1. PICK before : before = workers[w]
  OBVIOUS
<1>2. before \in WorkType /\ WorkSound(before)
  BY <1>1 DEF WarehouseInd, WarehouseTyped
<1>3. /\ run.step = step /\ run.year = before.year /\ run.levels = before.levels
      /\ run.rows = before.rows /\ run.seen = before.seen /\ run.all = before.all
  BY <1>1, <1>2 DEF WorkType
<1>4. run \in WorkType
  BY <1>1, <1>2 DEF WorkType
<1>5. before.step # "idle"
  BY <1>1
<1>6. \A s \in before.seen : (step \in Datasets /\ ~before.all) \/ Loaded(Key(s))
  BY <1>1
<1>7. step # "dims" /\ step # "idle" /\ (step \in {"dates", "cycles"} => step \notin Datasets)
  BY DEF Datasets
<1> QED BY <1>2, <1>3, <1>4, <1>5, <1>6, <1>7 DEF WorkSound

LEMMA NoWorkSound == NoWork \in WorkType /\ WorkSound(NoWork)
<1>1. /\ NoWork.step = "idle" /\ NoWork.rows = {} /\ NoWork.seen = {}
  BY DEF NoWork
<1>2. NoWork \in WorkType
  BY DEF NoWork, WorkType, LevelLists
<1> QED BY <1>1, <1>2 DEF WorkSound, Datasets

\* Another step of one run that only moves it on.
LEMMA MoveKeepsWarehouse ==
    ASSUME WarehouseInd, NEW w \in Workers,
           EndDims(w) \/ LoadDates(w) \/ LoadCycles(w) \/ FetchNothing(w) \/ StopWork(w)
    PROVE  WarehouseInd'
<1>1. workers[w] \in WorkType /\ WorkSound(workers[w]) /\ facts \in [Datasets -> SUBSET {k \in DimKeys : Loaded(k)}]
  BY DEF WarehouseInd, WarehouseTyped
<1>2. SUFFICES ASSUME NEW run, workers' = [workers EXCEPT ![w] = run], run \in WorkType, WorkSound(run),
                      UNCHANGED <<shapes, dims, provided, facts>>
               PROVE  WarehouseInd'
  <2>1. CASE EndDims(w)
    <3>1. PICK run : run = [workers[w] EXCEPT !.step = "dates"]
      OBVIOUS
    <3>2. workers' = [workers EXCEPT ![w] = run] /\ UNCHANGED <<shapes, dims, provided, facts>>
      BY <1>1, <2>1, <3>1 DEF EndDims
    <3>3. \A s \in workers[w].seen : Loaded(Key(s))
      BY <2>1, AllLinked DEF Linked
    <3>4. workers[w].step # "idle"
      BY <2>1 DEF EndDims
    <3>5. run \in WorkType /\ WorkSound(run)
      BY <3>1, <3>3, <3>4, StepOn
    <3> QED BY <1>2, <3>2, <3>5
  <2>2. CASE LoadDates(w)
    <3>1. PICK run : run = [workers[w] EXCEPT !.step = "cycles"]
      OBVIOUS
    <3>2. workers' = [workers EXCEPT ![w] = run] /\ UNCHANGED <<shapes, dims, provided, facts>>
      BY <1>1, <2>2, <3>1 DEF LoadDates
    <3>3. workers[w].step = "dates"
      BY <2>2 DEF LoadDates
    <3>4. \A s \in workers[w].seen : Loaded(Key(s))
      BY <1>1, <3>3 DEF WorkSound
    <3>5. run \in WorkType /\ WorkSound(run)
      BY <3>1, <3>3, <3>4, StepOn
    <3> QED BY <1>2, <3>2, <3>5
  <2>3. CASE LoadCycles(w)
    <3>1. PICK run : run = IF workers[w].all THEN [workers[w] EXCEPT !.step = "acs5"] ELSE NoWork
      OBVIOUS
    <3>2. workers' = [workers EXCEPT ![w] = run] /\ UNCHANGED <<shapes, dims, provided, facts>>
      BY <1>1, <2>3, <3>1 DEF LoadCycles
    <3>3. workers[w].step = "cycles"
      BY <2>3 DEF LoadCycles
    <3>4. \A s \in workers[w].seen : Loaded(Key(s))
      BY <1>1, <3>3 DEF WorkSound
    <3>5. run = [workers[w] EXCEPT !.step = "acs5"] => run \in WorkType /\ WorkSound(run)
      BY <3>3, <3>4, StepOn DEF Datasets
    <3>6. run \in WorkType /\ WorkSound(run)
      BY <3>1, <3>5, NoWorkSound
    <3> QED BY <1>2, <3>2, <3>6
  <2>4. CASE FetchNothing(w)
    <3>1. PICK run : run = IF workers[w].step = "acs5" THEN [workers[w] EXCEPT !.step = "dec_pl"] ELSE NoWork
      OBVIOUS
    <3>2. workers' = [workers EXCEPT ![w] = run] /\ UNCHANGED <<shapes, dims, provided, facts>>
      BY <1>1, <2>4, <3>1 DEF FetchNothing, AfterDataset
    <3>3. workers[w].step \in Datasets
      BY <2>4 DEF FetchNothing
    <3>4. \A s \in workers[w].seen : ~workers[w].all \/ Loaded(Key(s))
      BY <1>1, <3>3 DEF WorkSound
    <3>5. run = [workers[w] EXCEPT !.step = "dec_pl"] => run \in WorkType /\ WorkSound(run)
      BY <3>3, <3>4, StepOn DEF Datasets
    <3>6. run \in WorkType /\ WorkSound(run)
      BY <3>1, <3>5, NoWorkSound
    <3> QED BY <1>2, <3>2, <3>6
  <2>5. CASE StopWork(w)
    <3>1. workers' = [workers EXCEPT ![w] = NoWork] /\ UNCHANGED <<shapes, dims, provided, facts>>
      BY <2>5 DEF StopWork
    <3> QED BY <1>2, <3>1, NoWorkSound
  <2> QED BY <2>1, <2>2, <2>3, <2>4, <2>5
<1> QED BY <1>1, <1>2, WorkStep

\* The tracts a full run began with are among the keys it writes facts of.
LEMMA FactsOfAll ==
    ASSUME WarehouseInd, NEW w \in Workers, NEW dataset \in Datasets, UpsertFacts(w, dataset)
    PROVE  /\ facts' \in [Datasets -> SUBSET {k \in DimKeys : Loaded(k)}]
           /\ \A s \in workers[w].seen : workers[w].all /\ s.geoid \in Tabulated =>
                 Key(s) \in facts'[dataset]
<1>1. /\ workers[w] \in WorkType /\ WorkSound(workers[w])
      /\ facts \in [Datasets -> SUBSET {k \in DimKeys : Loaded(k)}]
  BY DEF WarehouseInd, WarehouseTyped
<1>2. workers[w].step = dataset /\ dataset \in Datasets
  BY DEF UpsertFacts
<1>3. workers[w].year \in Years
  BY <1>1, <1>2 DEF WorkSound, Datasets
<1>4. PICK new : new = {k \in Tabulated \X {workers[w].year} : Loaded(k)}
  OBVIOUS
<1>5. facts' = [facts EXCEPT ![dataset] = facts[dataset] \cup new]
  BY <1>4 DEF UpsertFacts
<1>6. new \subseteq {k \in DimKeys : Loaded(k)}
  BY <1>3, <1>4, ShapeAssumption DEF DimKeys
<1>7. facts' \in [Datasets -> SUBSET {k \in DimKeys : Loaded(k)}]
  BY <1>1, <1>5, <1>6
<1>8. ASSUME NEW s \in workers[w].seen, workers[w].all, s.geoid \in Tabulated
      PROVE  Key(s) \in facts'[dataset]
  <2>1. Loaded(Key(s)) /\ s.year = workers[w].year
    BY <1>1, <1>2, <1>8 DEF WorkSound
  <2>2. Key(s) \in new
    BY <1>4, <1>8, <2>1 DEF Key
  <2> QED BY <1>1, <1>5, <2>2
<1> QED BY <1>7, <1>8

LEMMA FactsKeepWarehouse ==
    ASSUME WarehouseInd, NEW w \in Workers, NEW dataset \in Datasets, UpsertFacts(w, dataset)
    PROVE  WarehouseInd'
<1>1. PICK run : run = IF workers[w].step = "acs5" THEN [workers[w] EXCEPT !.step = "dec_pl"] ELSE NoWork
  OBVIOUS
<1>2. workers[w] \in WorkType /\ WorkSound(workers[w])
  BY DEF WarehouseInd, WarehouseTyped
<1>3. /\ workers' = [workers EXCEPT ![w] = run] /\ UNCHANGED <<shapes, dims, provided>>
      /\ workers[w].step \in Datasets
  BY <1>1, <1>2 DEF UpsertFacts, AfterDataset
<1>4. \A s \in workers[w].seen : ~workers[w].all \/ Loaded(Key(s))
  BY <1>2, <1>3 DEF WorkSound
<1>5. run = [workers[w] EXCEPT !.step = "dec_pl"] => run \in WorkType /\ WorkSound(run)
  BY <1>3, <1>4, StepOn DEF Datasets
<1>6. run \in WorkType /\ WorkSound(run)
  BY <1>1, <1>5, NoWorkSound
<1>7. facts' \in [Datasets -> SUBSET {k \in DimKeys : Loaded(k)}]
  BY FactsOfAll
<1> QED BY <1>3, <1>6, <1>7, WorkStep

\* Boundaries and rows from elsewhere only add.
LEMMA OthersKeepWarehouse ==
    ASSUME WarehouseInd,
           (\E new \in SUBSET Shapes : ImportShapes(new)) \/ (\E rows \in Provisions : Provide(rows))
    PROVE  WarehouseInd'
<1>1. /\ shapes \subseteq shapes' /\ shapes' \subseteq Shapes
      /\ provided' \subseteq {"dates"} \cup Datasets
      /\ UNCHANGED <<dims, facts, workers>>
  BY ShapeAssumption DEF WarehouseInd, WarehouseTyped, ImportShapes, Provide
<1>2. WarehouseTyped' /\ ParentsLoaded'
  BY <1>1 DEF WarehouseInd, WarehouseTyped, ParentsLoaded, Loaded
<1>3. ASSUME NEW v \in Workers PROVE WorkSound(workers[v])'
  BY <1>1 DEF WarehouseInd, WorkSound, Linked, Loaded
<1> QED BY <1>2, <1>3 DEF WarehouseInd

LEMMA WarehouseStarts == WarehouseInit => WarehouseInd
<1> SUFFICES ASSUME WarehouseInit PROVE WarehouseInd
  OBVIOUS
<1>1. \A k \in DimKeys : ~Loaded(k)
  BY DEF WarehouseInit, DimKeys, Loaded
<1>2. WarehouseTyped
  BY ShapeAssumption, NoWorkSound DEF WarehouseInit, WarehouseTyped, DimKeys
<1>3. \A w \in Workers : WorkSound(workers[w])
  BY NoWorkSound DEF WarehouseInit
<1> QED BY <1>1, <1>2, <1>3 DEF WarehouseInd, ParentsLoaded

LEMMA WarehouseSteps == WarehouseInd /\ [WarehouseNext]_warehouseVars => WarehouseInd'
<1> SUFFICES ASSUME WarehouseInd, [WarehouseNext]_warehouseVars PROVE WarehouseInd'
  OBVIOUS
<1>1. CASE UNCHANGED warehouseVars
  BY <1>1 DEF warehouseVars, WarehouseInd, WarehouseTyped, ParentsLoaded, WorkSound, Linked, Loaded
<1>2. CASE (\E new \in SUBSET Shapes : ImportShapes(new)) \/ (\E rows \in Provisions : Provide(rows))
  BY <1>2, OthersKeepWarehouse
<1>3. ASSUME NEW w \in Workers,
             \/ \E year \in Years, step \in {"dims", "acs5"}, all \in BOOLEAN : BeginWork(w, year, step, all)
             \/ BeginLevel(w) \/ EndDims(w) \/ LoadDates(w) \/ LoadCycles(w)
             \/ LoadEstimates(w) \/ LoadCounts(w) \/ FetchNothing(w) \/ StopWork(w)
             \/ \E s \in Shapes : UpsertDim(w, s)
      PROVE  WarehouseInd'
  <2>1. CASE \E year \in Years, step \in {"dims", "acs5"}, all \in BOOLEAN : BeginWork(w, year, step, all)
    BY <2>1, BeginKeepsWarehouse
  <2>2. CASE BeginLevel(w)
    BY <2>2, BeginLevelKeepsWarehouse
  <2>3. CASE EndDims(w) \/ LoadDates(w) \/ LoadCycles(w) \/ FetchNothing(w) \/ StopWork(w)
    BY <2>3, MoveKeepsWarehouse
  <2>4. CASE LoadEstimates(w) \/ LoadCounts(w)
    BY <2>4, FactsKeepWarehouse DEF LoadEstimates, LoadCounts, Datasets
  <2>5. CASE \E s \in Shapes : UpsertDim(w, s)
    BY <2>5, UpsertKeepsWarehouse
  <2> QED BY <1>3, <2>1, <2>2, <2>3, <2>4, <2>5
<1> QED BY <1>1, <1>2, <1>3 DEF WarehouseNext

LEMMA WarehouseInvariance == WarehouseSpec => []WarehouseInd
BY WarehouseStarts, WarehouseSteps, PTL DEF WarehouseSpec

-----------------------------------------------------------------------------

\* Type correctness of the warehouse: rows in hand are rows of the boundary
\* tables, and facts have a dimension row.
THEOREM WarehouseTypeCorrect == WarehouseSpec => []WarehouseTypeOK
<1>1. WarehouseInd => WarehouseTypeOK
  <2> SUFFICES ASSUME WarehouseInd PROVE WarehouseTypeOK
    OBVIOUS
  <2>1. ASSUME NEW w \in Workers
        PROVE  /\ workers[w].step \in {"idle", "dims", "dates", "cycles"} \cup Datasets
               /\ workers[w].rows \subseteq shapes
    <3>1. workers[w] \in WorkType /\ WorkSound(workers[w])
      BY DEF WarehouseInd, WarehouseTyped
    <3> QED BY <3>1 DEF WorkType, WorkSound
  <2> QED BY <2>1 DEF WarehouseInd, WarehouseTyped, WarehouseTypeOK, DimKeys
<1> QED BY <1>1, WarehouseInvariance, PTL

\* A load of the dimension that reaches its end leaves every boundary it began
\* with a row that hangs off its parent, and the facts of the same run leave out
\* none of the tracts, whatever other runs and imports did in between.
THEOREM FullLoadsLink == WarehouseSpec => FullLoadLinks
<1>1. ASSUME WarehouseInd, NEW w \in Workers, NEW s \in workers[w].seen, EndDims(w)
      PROVE  /\ Loaded(Key(s))
             /\ s.level # "state" /\ HangsOff(w, s) => dims[Key(s)].parent = ParentKey(s)
             /\ SharesGeoid(s) \/ Named(s.level, s.geoid, s.year)
  <2>1. Linked(workers[w], s)
    BY <1>1, AllLinked
  <2> QED BY <2>1 DEF Linked, HangsOff, Named, Key
<1>2. ASSUME WarehouseInd, NEW w \in Workers, NEW s \in workers[w].seen,
             LoadEstimates(w) \/ LoadCounts(w), workers[w].all, s.geoid \in Tabulated
      PROVE  Key(s) \in facts'[workers[w].step]
  <2>1. UpsertFacts(w, workers[w].step) /\ workers[w].step \in Datasets
    BY <1>2 DEF LoadEstimates, LoadCounts, UpsertFacts, Datasets
  <2> QED BY <1>2, <2>1, FactsOfAll
<1>3. WarehouseInd /\ [WarehouseNext]_warehouseVars =>
        [\A w \in Workers : \A s \in workers[w].seen :
           /\ EndDims(w) =>
                /\ Loaded(Key(s))
                /\ s.level # "state" /\ HangsOff(w, s) => dims[Key(s)].parent = ParentKey(s)
                /\ SharesGeoid(s) \/ Named(s.level, s.geoid, s.year)
           /\ (LoadEstimates(w) \/ LoadCounts(w)) /\ workers[w].all /\ s.geoid \in Tabulated =>
                Key(s) \in facts'[workers[w].step]]_warehouseVars
  BY <1>1, <1>2
<1> QED BY <1>3, WarehouseInvariance, PTL DEF WarehouseSpec, FullLoadLinks

-----------------------------------------------------------------------------
(* Drilling up.  The warehouse finds the parent of a row by the prefix of its *)
(* geoid, whatever the level of the row it comes to: that is the right one if *)
(* no boundary of another level has that geoid, as none has while legislative *)
(* districts are left out of the load.                                        *)

\* The geoid a boundary hangs off is never one of another level.
PrefixesTellLevels ==
    \A s, p \in Shapes :
        s.level # "state" /\ p.geoid = UpTo[ParentLevel(s.level)][s.geoid] => p.level = ParentLevel(s.level)

\* A row is that of a boundary with its geoid, and hangs off where that hangs off.
RowsOfShapes ==
    \A k \in DimKeys : Loaded(k) =>
        \E s \in Shapes : /\ Key(s) = k /\ dims[k].level = s.level
                          /\ dims[k].parent # NoDim => s.level # "state" /\ dims[k].parent = ParentKey(s)

LEMMA RowsOfShapesKept ==
    ASSUME WarehouseInd, RowsOfShapes, [WarehouseNext]_warehouseVars
    PROVE  RowsOfShapes'
<1>1. CASE dims' = dims
  BY <1>1 DEF RowsOfShapes, Loaded
<1>2. ASSUME NEW w \in Workers, NEW s \in Shapes, UpsertDim(w, s)
      PROVE  RowsOfShapes'
  <2>1. PICK row : row = [level |-> s.level,
           parent |-> IF s.level # "state" /\ Loaded(ParentKey(s)) THEN ParentKey(s) ELSE NoDim]
    OBVIOUS
  <2>2. /\ row.level = s.level
        /\ row.parent # NoDim => s.level # "state" /\ row.parent = ParentKey(s)
    BY <2>1
  <2>3. Key(s) \in DimKeys /\ dims' = [dims EXCEPT ![Key(s)] = row]
    BY <1>2, <2>1, ShapesTyped DEF UpsertDim
  <2>4. dims'[Key(s)] = row /\ \A k \in DimKeys \ {Key(s)} : dims'[k] = dims[k]
    BY <2>3 DEF WarehouseInd, WarehouseTyped
  <2>5. ASSUME NEW k \in DimKeys, dims'[k] # NoDim
        PROVE  \E t \in Shapes : /\ Key(t) = k /\ dims'[k].level = t.level
                                 /\ dims'[k].parent # NoDim => t.level # "state" /\ dims'[k].parent = ParentKey(t)
    BY <2>2, <2>4, <2>5 DEF RowsOfShapes, Loaded
  <2> QED
    BY <2>5 DEF RowsOfShapes, Loaded
<1>3. dims' = dims \/ \E w \in Workers, s \in Shapes : UpsertDim(w, s)
  BY DEF WarehouseNext, warehouseVars, ImportShapes, Provide, BeginWork, BeginLevel, EndDims,
         LoadDates, LoadCycles, LoadEstimates, LoadCounts, UpsertFacts, FetchNothing, StopWork
<1> QED
  BY <1>1, <1>2, <1>3

\* load_warehouse (dimension_loader.py:83): drill-up reaches the level above from
\* every row, for any loads side by side, unless some boundary of another level has
\* the geoid of a parent, as a legislative district can have a county's.
THEOREM DrillUpUnlessShared ==
    ASSUME PrefixesTellLevels
    PROVE  WarehouseSpec => []DrillUpFollowsLevels
<1>1. WarehouseInit => RowsOfShapes
  BY DEF WarehouseInit, RowsOfShapes, Loaded, DimKeys
<1>2. WarehouseInd /\ RowsOfShapes /\ [WarehouseNext]_warehouseVars => RowsOfShapes'
  BY RowsOfShapesKept
<1>3. WarehouseInd /\ RowsOfShapes => DrillUpFollowsLevels
  <2> SUFFICES ASSUME WarehouseInd, RowsOfShapes,
                      NEW k \in DimKeys, Loaded(k), dims[k].parent # NoDim
               PROVE  dims[dims[k].parent].level = ParentLevel(dims[k].level)
    BY DEF DrillUpFollowsLevels, DimKeys
  <2>1. PICK s \in Shapes : /\ Key(s) = k /\ dims[k].level = s.level
                            /\ s.level # "state" /\ dims[k].parent = ParentKey(s)
    BY DEF RowsOfShapes
  <2>2. ParentKey(s) \in DimKeys /\ Loaded(ParentKey(s))
    BY <2>1, ShapesTyped DEF WarehouseInd, ParentsLoaded
  <2>3. PICK p \in Shapes : Key(p) = ParentKey(s) /\ dims[ParentKey(s)].level = p.level
    BY <2>2 DEF RowsOfShapes
  <2>4. p.geoid = UpTo[ParentLevel(s.level)][s.geoid]
    BY <2>3 DEF Key, ParentKey
  <2> QED
    BY <2>1, <2>3, <2>4 DEF PrefixesTellLevels
<1> QED
  BY <1>1, <1>2, <1>3, WarehouseInvariance, PTL DEF WarehouseSpec

-----------------------------------------------------------------------------
(***************************************************************************)
(* The overlaps of units and districts, for any units, districts, maps and *)
(* number of runs, given only that the districts of one map do not overlap *)
(* (PartitionAssumption).  Every stored row is the one some map gives its  *)
(* pair, and every run that has rows to store holds the map it read.       *)
(***************************************************************************)
Computation == [todo : SUBSET Plots, found : SUBSET Pairs, read : Nat]

Computed ==
    /\ layer \in Layers /\ loaded \in Maps
    /\ DOMAIN overlaps = Pairs /\ overlaps = [p \in Pairs |-> overlaps[p]]
    /\ \A p \in Pairs : overlaps[p] = NoOverlapRow \/ \E m \in Maps : overlaps[p] = OverlapRow(m, p)
    /\ computers \in [Computers -> Computation]
    /\ \A c \in Computers :
         computers[c].read <= loaded /\ (computers[c].found # {} => computers[c].read \in Maps)

LEMMA MapsAreNumbers == Maps \subseteq Nat /\ 1 \in Maps
BY OverlapAssumption

\* Two districts of one map cannot both hold more than half of a unit.
LEMMA OneMajority ==
    ASSUME NEW m \in Maps, NEW p \in Pairs, NEW q \in Pairs, p # q, p[1] = q[1],
           Dominant(m, p), Dominant(m, q)
    PROVE  FALSE
<1> DEFINE x == OfPlot[m][p]
           y == OfPlot[m][q]
<1>1. x + y <= 1000
  BY PartitionAssumption
<1>2. x \in Nat /\ y \in Nat
  BY OverlapAssumption
<1>3. x > 500 /\ y > 500
  BY DEF Dominant
<1> HIDE DEF x, y
<1>. QED
  BY <1>1, <1>2, <1>3

\* The row of a pair is well formed, and stays what it is until other layers are.
LEMMA RowOfPair ==
    ASSUME NEW m \in Maps, NEW p \in Pairs
    PROVE  /\ OverlapRow(m, p) \in OverlapRows
           /\ layer' = layer => OverlapRow(m, p)' = OverlapRow(m, p)
<1>1. Dominant(m, p) \in BOOLEAN /\ Relationship(m, p) \in {"COUNTY_IN_CD", "CD_IN_COUNTY", "SPLIT"}
  BY DEF Dominant, Relationship
<1>2. OverlapRow(m, p) \in OverlapRows
  BY <1>1 DEF OverlapRow, OverlapRows
<1> QED
  BY <1>2 DEF OverlapRow, Dominant, Relationship

\* A step of one run, that stores the row of a pair or none.
LEMMA ComputationStep ==
    ASSUME Computed, NEW c \in Computers, NEW run \in Computation,
           computers' = [computers EXCEPT ![c] = run],
           run.read <= loaded, run.found # {} => run.read \in Maps,
           UNCHANGED <<layer, loaded>>,
           overlaps' = overlaps \/
             \E m \in Maps, p \in Pairs : overlaps' = [overlaps EXCEPT ![p] = OverlapRow(m, p)]
    PROVE  Computed'
<1>1. /\ computers' \in [Computers -> Computation]
      /\ \A d \in Computers : computers'[d] = IF d = c THEN run ELSE computers[d]
  BY DEF Computed
<1>2. \A d \in Computers :
        computers'[d].read <= loaded' /\ (computers'[d].found # {} => computers'[d].read \in Maps)
  BY <1>1 DEF Computed
<1>3. /\ DOMAIN overlaps' = Pairs /\ overlaps' = [p \in Pairs |-> overlaps'[p]]
      /\ \A p \in Pairs : overlaps'[p] = NoOverlapRow \/ \E m \in Maps : overlaps'[p] = OverlapRow(m, p)
  BY DEF Computed
<1>4. \A p \in Pairs : overlaps'[p] = NoOverlapRow \/ \E m \in Maps : overlaps'[p] = OverlapRow(m, p)'
  BY <1>3, RowOfPair
<1> QED
  BY <1>1, <1>2, <1>3, <1>4 DEF Computed

LEMMA NothingComputed ==
    NoComputation \in Computation /\ NoComputation.read = 0 /\ NoComputation.found = {}
BY DEF NoComputation, Computation

LEMMA OverlapStarts == OverlapInit => Computed
<1> SUFFICES ASSUME OverlapInit PROVE Computed
  OBVIOUS
<1>1. loaded \in Maps /\ 0 <= loaded
  BY MapsAreNumbers DEF OverlapInit
<1> QED
  BY <1>1, NothingComputed DEF OverlapInit, Computed

\* Reloads, partial runs, skipped pairs and deaths keep it.
LEMMA OverlapSteps == Computed /\ [OverlapNext]_overlapVars => Computed'
<1> SUFFICES ASSUME Computed, [OverlapNext]_overlapVars PROVE Computed'
  OBVIOUS
<1>1. CASE ReloadBoundaries
  <2>1. PICK before \in Nat : before = loaded
    BY MapsAreNumbers DEF Computed
  <2>2. loaded' \in Maps /\ loaded' = before + 1 /\ UNCHANGED <<layer, overlaps, computers>>
    BY <1>1, <2>1 DEF ReloadBoundaries
  <2>3. \A c \in Computers : computers[c].read \in Nat /\ computers[c].read <= before
    BY <2>1 DEF Computed, Computation
  <2>4. \A c \in Computers : computers[c].read <= loaded'
    BY <2>1, <2>2, <2>3
  <2>5. \A p \in Pairs : overlaps[p] = NoOverlapRow \/ \E m \in Maps : overlaps[p] = OverlapRow(m, p)'
    BY <2>2, RowOfPair DEF Computed
  <2> QED
    BY <2>2, <2>4, <2>5 DEF Computed
<1>2. ASSUME NEW c \in Computers, NEW units \in SUBSET Plots, BeginComputation(c, units)
      PROVE  Computed'
  <2>1. PICK run : run = [todo |-> units, found |-> {}, read |-> 0]
    OBVIOUS
  <2>2. run \in Computation /\ run.read = 0 /\ run.found = {}
    BY <2>1 DEF Computation
  <2>3. computers' = [computers EXCEPT ![c] = run] /\ UNCHANGED <<layer, loaded, overlaps>>
    BY <1>2, <2>1 DEF BeginComputation
  <2>4. 0 <= loaded
    BY MapsAreNumbers DEF Computed
  <2> QED
    BY <2>2, <2>3, <2>4, ComputationStep
<1>3. ASSUME NEW c \in Computers, NEW u \in Plots, ReadPlot(c, u)
      PROVE  Computed'
  <2>1. PICK run : run = [todo |-> computers[c].todo \ {u}, read |-> loaded,
                          found |-> {p \in Pairs : p[1] = u /\ Stored(loaded, p)}]
    OBVIOUS
  <2>2. loaded \in Nat /\ loaded \in Maps /\ computers[c] \in Computation
    BY MapsAreNumbers DEF Computed
  <2>3. run \in Computation /\ run.read = loaded
    BY <2>1, <2>2 DEF Computation
  <2>4. computers' = [computers EXCEPT ![c] = run] /\ UNCHANGED <<layer, loaded, overlaps>>
    BY <1>3, <2>1 DEF ReadPlot, Computed
  <2>5. run.read <= loaded
    BY <2>2, <2>3
  <2> QED
    BY <2>2, <2>3, <2>4, <2>5, ComputationStep
<1>4. ASSUME NEW c \in Computers, NEW p \in Pairs, StoreOverlap(c, p)
      PROVE  Computed'
  <2>1. PICK run : run = [computers[c] EXCEPT !.found = computers[c].found \ {p}]
    OBVIOUS
  <2>2. /\ computers[c] \in Computation /\ computers[c].read <= loaded
        /\ computers[c].read \in Maps
    BY <1>4 DEF Computed, StoreOverlap
  <2>3. run \in Computation /\ run.read = computers[c].read
    BY <2>1, <2>2 DEF Computation
  <2>4. computers' = [computers EXCEPT ![c] = run] /\ UNCHANGED <<layer, loaded>>
    BY <1>4, <2>1 DEF StoreOverlap, Computed
  <2>5. overlaps' = overlaps \/ overlaps' = [overlaps EXCEPT ![p] = OverlapRow(computers[c].read, p)]
    BY <1>4 DEF StoreOverlap
  <2> QED
    BY <2>2, <2>3, <2>4, <2>5, ComputationStep
<1>5. ASSUME NEW c \in Computers, StopComputation(c)
      PROVE  Computed'
  <2>1. computers' = [computers EXCEPT ![c] = NoComputation] /\ UNCHANGED <<layer, loaded, overlaps>>
    BY <1>5 DEF StopComputation
  <2>2. 0 <= loaded
    BY MapsAreNumbers DEF Computed
  <2> QED
    BY <2>1, <2>2, NothingComputed, ComputationStep
<1>6. CASE UNCHANGED overlapVars
  <2>1. UNCHANGED <<layer, loaded, overlaps, computers>>
    BY <1>6 DEF overlapVars
  <2>2. \A p \in Pairs : overlaps[p] = NoOverlapRow \/ \E m \in Maps : overlaps[p] = OverlapRow(m, p)'
    BY <2>1, RowOfPair DEF Computed
  <2> QED
    BY <2>1, <2>2 DEF Computed
<1>. QED
  BY <1>1, <1>2, <1>3, <1>4, <1>5, <1>6 DEF OverlapNext

LEMMA ComputedInvariant == OverlapSpec => []Computed
BY OverlapStarts, OverlapSteps, PTL DEF OverlapSpec

\* Type correctness of the overlaps: rows have a map, and no run has read a map
\* that has not been loaded.
THEOREM OverlapTypeCorrect == OverlapSpec => []OverlapTypeOK
<1>1. Computed => OverlapTypeOK
  <2> SUFFICES ASSUME Computed PROVE OverlapTypeOK
    OBVIOUS
  <2>1. \A p \in Pairs : overlaps[p] \in OverlapRows \cup {NoOverlapRow}
    BY RowOfPair DEF Computed
  <2>2. ASSUME NEW c \in Computers
        PROVE  computers[c] \in [todo : SUBSET Plots, found : SUBSET Pairs, read : 0..loaded]
    <3>1. computers[c] \in Computation /\ computers[c].read <= loaded /\ loaded \in Nat
      BY MapsAreNumbers DEF Computed
    <3>2. computers[c].read \in 0..loaded
      BY <3>1 DEF Computation
    <3> QED
      BY <3>1, <3>2 DEF Computation
  <2> QED
    BY <2>1, <2>2 DEF Computed, OverlapTypeOK
<1>. QED
  BY <1>1, ComputedInvariant, PTL

\* compute_geographic_intersections never leaves a county or VTD with two dominant
\* districts from one set of boundaries, however many runs overlap, stop or cover
\* only part of the units.
THEOREM OneDominantDistrict == OverlapSpec => []OneDominantUnlessReloaded
<1>1. Computed => OneDominantUnlessReloaded
  <2> SUFFICES ASSUME Computed, NEW u \in Plots, NEW p \in Rows(u), NEW q \in Rows(u), p # q,
                      overlaps[p].dominant, overlaps[q].dominant,
                      overlaps[p].from = overlaps[q].from
               PROVE  FALSE
    BY DEF OneDominantUnlessReloaded
  <2>1. p \in Pairs /\ q \in Pairs /\ p[1] = q[1]
    BY DEF Rows
  <2>2. PICK m \in Maps : overlaps[p] = OverlapRow(m, p)
    BY <2>1 DEF Computed, Rows
  <2>3. PICK n \in Maps : overlaps[q] = OverlapRow(n, q)
    BY <2>1 DEF Computed, Rows
  <2>4. m = n /\ Dominant(m, p) /\ Dominant(n, q)
    BY <2>2, <2>3 DEF OverlapRow
  <2>. QED
    BY <2>1, <2>4, OneMajority
<1>. QED
  BY <1>1, ComputedInvariant, PTL

-----------------------------------------------------------------------------
(***************************************************************************)
(* Proofs about CrosswalkApplication for any addresses, plans, tracts,     *)
(* crosswalk and number of runs.                                           *)
(***************************************************************************)

\* Among the records of a tract there is a heaviest one that is scanned before all
\* others of its weight, so the tract a mapped one becomes is of the new vintage.
LEMMA MappedIsNew ==
    ASSUME NEW t \in OldTracts, RecordsOf(t) # {}
    PROVE  MappedTo(t) \in NewTracts
<1>1. /\ DOMAIN Crosswalk = 1..Len(Crosswalk) /\ Len(Crosswalk) \in Nat
      /\ \A i \in DOMAIN Crosswalk :
            Crosswalk[i] \in [from : OldTracts, to : NewTracts, weight : Nat]
  <2>1. PICK R : R = [from : OldTracts, to : NewTracts, weight : Nat]
    OBVIOUS
  <2>2. Crosswalk \in Seq(R)
    BY <2>1, CrosswalkAssumption
  <2>3. DOMAIN Crosswalk = 1..Len(Crosswalk) /\ Len(Crosswalk) \in Nat
        /\ \A i \in 1..Len(Crosswalk) : Crosswalk[i] \in R
    BY <2>2, LenProperties, ElementOfSeq
  <2> QED
    BY <2>1, <2>3
<1>2. IsFiniteSet(RecordsOf(t)) /\ RecordsOf(t) \subseteq DOMAIN Crosswalk
  <2>1. IsFiniteSet(1..Len(Crosswalk))
    BY <1>1, FS_Interval
  <2>2. RecordsOf(t) \subseteq DOMAIN Crosswalk
    BY DEF RecordsOf
  <2> QED
    BY <1>1, <2>1, <2>2, FS_Subset
<1>3. PICK weight : weight = [i \in RecordsOf(t) |-> Crosswalk[i].weight]
  OBVIOUS
<1>4. weight \in [RecordsOf(t) -> Int]
  BY <1>1, <1>2, <1>3
<1>5. PICK m \in RecordsOf(t) : \A n \in RecordsOf(t) : weight[n] <= weight[m]
  BY <1>2, <1>4, FiniteMaximum
<1>6. PICK heaviest : heaviest = {n \in RecordsOf(t) : weight[n] = weight[m]}
  OBVIOUS
<1>7. heaviest # {} /\ IsFiniteSet(heaviest) /\ heaviest \subseteq DOMAIN Crosswalk
  BY <1>2, <1>5, <1>6, FS_Subset
<1>8. PICK place : place = [i \in heaviest |-> 0 - i]
  OBVIOUS
<1>9. place \in [heaviest -> Int]
  BY <1>1, <1>7, <1>8
<1>10. PICK f \in heaviest : \A n \in heaviest : place[n] <= place[f]
  BY <1>7, <1>9, FiniteMaximum
<1>11. ASSUME NEW j \in RecordsOf(t) PROVE Heavier(f, j)
  <2>1. f \in RecordsOf(t) /\ weight[f] = weight[m] /\ weight[j] <= weight[m]
    BY <1>5, <1>6
  <2>2. /\ weight[f] = Crosswalk[f].weight /\ weight[j] = Crosswalk[j].weight
        /\ Crosswalk[f].weight \in Nat /\ Crosswalk[j].weight \in Nat
    BY <1>1, <1>2, <1>3, <2>1
  <2>3. CASE weight[j] = weight[f]
    <3>1. j \in heaviest /\ f \in Int /\ j \in Int
      BY <1>1, <1>2, <1>6, <2>1, <2>3
    <3>2. 0 - j <= 0 - f
      BY <1>8, <1>10, <3>1
    <3>3. f <= j
      BY <3>1, <3>2
    <3> QED
      BY <2>2, <2>3, <3>3 DEF Heavier
  <2>4. CASE weight[j] # weight[f]
    BY <2>1, <2>2, <2>4 DEF Heavier
  <2> QED
    BY <2>3, <2>4
<1>12. PICK first : first = CHOOSE i \in RecordsOf(t) : \A j \in RecordsOf(t) : Heavier(i, j)
  OBVIOUS
<1>13. first \in RecordsOf(t)
  BY <1>6, <1>11, <1>12
<1>14. MappedTo(t) = Crosswalk[first].to
  BY <1>12 DEF MappedTo
<1> QED
  BY <1>1, <1>2, <1>13, <1>14

\* Rows and selections are of the addresses and tracts there are; an estimate in
\* particular is a tract of the target vintage, whatever weights the records have.
THEOREM CrosswalkTypeCorrect == CrosswalkSpec => []CrosswalkTypeOK
<1>1. CrosswalkInit => CrosswalkTypeOK
  BY DEF CrosswalkInit, CrosswalkTypeOK, NoTargetRow, NoApplication
<1>2. CrosswalkTypeOK /\ [CrosswalkNext]_crosswalkVars => CrosswalkTypeOK'
  <2> SUFFICES ASSUME CrosswalkTypeOK, [CrosswalkNext]_crosswalkVars PROVE CrosswalkTypeOK'
    OBVIOUS
  <2>1. ASSUME NEW a \in Residences, NEW t \in NewTracts, AssignTarget(a, t)
        PROVE  CrosswalkTypeOK'
    <3>1. appliers' \in [Appliers -> [rows : SUBSET (Residences \X OldTracts), since : SUBSET Residences]]
      BY <2>1 DEF AssignTarget, Since, CrosswalkTypeOK
    <3>2. PICK row : row = [tract |-> t, tractBy |-> "assignment", restBy |-> "assignment"]
      OBVIOUS
    <3>3. row \in [tract : NewTracts \cup {NoTract},
            tractBy : {"none", "assignment", "crosswalk"}, restBy : {"none", "assignment"}]
      BY <3>2
    <3> QED
      BY <2>1, <3>1, <3>2, <3>3 DEF AssignTarget, CrosswalkTypeOK
  <2>2. ASSUME NEW a \in Residences, NEW p \in SourcePlans, NEW t \in OldTracts, AssignSource(a, p, t)
        PROVE  CrosswalkTypeOK'
    BY <2>2 DEF AssignSource, CrosswalkTypeOK
  <2>3. ASSUME NEW c \in Appliers, SelectPeriods(c)
        PROVE  CrosswalkTypeOK'
    <3>1. SourcePeriods \subseteq Residences \X OldTracts
      BY DEF SourcePeriods
    <3> QED
      BY <2>3, <3>1 DEF SelectPeriods, CrosswalkTypeOK
  <2>4. ASSUME NEW c \in Appliers, StopApplying(c)
        PROVE  CrosswalkTypeOK'
    BY <2>4 DEF StopApplying, NoApplication, CrosswalkTypeOK
  <2>5. ASSUME NEW c \in Appliers, NEW a \in Residences, NEW t \in OldTracts, ApplyPeriod(c, a, t)
        PROVE  CrosswalkTypeOK'
    <3>1. estimate' \in [Residences -> [tract : NewTracts \cup {NoTract},
            tractBy : {"none", "assignment", "crosswalk"}, restBy : {"none", "assignment"}]]
      <4>1. CASE RecordsOf(t) = {}
        BY <2>5, <4>1 DEF ApplyPeriod, CrosswalkTypeOK
      <4>2. CASE RecordsOf(t) # {}
        <5>1. PICK tract \in NewTracts : tract = MappedTo(t)
          BY <4>2, MappedIsNew
        <5>2. estimate' = [estimate EXCEPT ![a] =
                [estimate[a] EXCEPT !.tract = tract, !.tractBy = "crosswalk"]]
          BY <2>5, <4>2, <5>1 DEF ApplyPeriod, CrosswalkTypeOK
        <5> QED
          BY <5>2 DEF CrosswalkTypeOK
      <4> QED
        BY <4>1, <4>2
    <3>2. appliers' \in [Appliers -> [rows : SUBSET (Residences \X OldTracts), since : SUBSET Residences]]
      BY <2>5 DEF ApplyPeriod, CrosswalkTypeOK
    <3> QED
      BY <2>5, <3>1, <3>2 DEF ApplyPeriod, CrosswalkTypeOK
  <2>6. CASE UNCHANGED crosswalkVars
    BY <2>6 DEF crosswalkVars, CrosswalkTypeOK
  <2> QED
    BY <2>1, <2>2, <2>3, <2>4, <2>5, <2>6 DEF CrosswalkNext
<1> QED
  BY <1>1, <1>2, PTL DEF CrosswalkSpec

\* Whoever has been assigned among the addresses a run still has to translate was
\* assigned after the run selected them.
Selection ==
    \A c \in Appliers, a \in Residences, t \in OldTracts :
        <<a, t>> \in appliers[c].rows /\ Assigned(a) => a \in appliers[c].since

\* Assignments only accumulate: no step takes one back.
LEMMA AssignedStays ==
    ASSUME CrosswalkTypeOK, [CrosswalkNext]_crosswalkVars, NEW a \in Residences, Assigned(a)
    PROVE  Assigned(a)'
<1>1. ASSUME NEW b \in Residences, NEW t \in NewTracts, AssignTarget(b, t)
      PROVE  Assigned(a)'
  BY <1>1 DEF AssignTarget, Assigned, CrosswalkTypeOK
<1>2. ASSUME NEW c \in Appliers, NEW b \in Residences, NEW t \in OldTracts, ApplyPeriod(c, b, t)
      PROVE  Assigned(a)'
  BY <1>2 DEF ApplyPeriod, Assigned, CrosswalkTypeOK
<1>3. CASE UNCHANGED <<estimate, planned>>
  BY <1>3 DEF Assigned
<1>. QED
  BY <1>1, <1>2, <1>3 DEF CrosswalkNext, AssignSource, SelectPeriods, StopApplying, crosswalkVars

\* Selection is inductive: selecting passes assigned addresses over, and an
\* assignment is noted by every run under way.
LEMMA SelectionInvariant == CrosswalkSpec => []Selection
<1>1. CrosswalkInit => Selection
  BY DEF CrosswalkInit, Selection, NoApplication
<1>2. CrosswalkTypeOK /\ Selection /\ [CrosswalkNext]_crosswalkVars => Selection'
  <2> SUFFICES ASSUME CrosswalkTypeOK, Selection, [CrosswalkNext]_crosswalkVars,
                      NEW d \in Appliers, NEW b \in Residences, NEW s \in OldTracts,
                      <<b, s>> \in appliers'[d].rows, Assigned(b)'
               PROVE  b \in appliers'[d].since
    BY DEF Selection
  <2>1. ASSUME NEW a \in Residences, NEW t \in NewTracts, AssignTarget(a, t)
        PROVE  b \in appliers'[d].since
    <3>1. /\ appliers'[d].rows = appliers[d].rows
          /\ appliers'[d].since = appliers[d].since \cup {a}
      BY <2>1 DEF AssignTarget, Since, CrosswalkTypeOK
    <3>2. b # a => (Assigned(b)' <=> Assigned(b))
      BY <2>1 DEF AssignTarget, Assigned, CrosswalkTypeOK
    <3>. QED
      BY <3>1, <3>2 DEF Selection
  <2>2. ASSUME NEW a \in Residences, NEW p \in SourcePlans, NEW t \in OldTracts, AssignSource(a, p, t)
        PROVE  b \in appliers'[d].since
    BY <2>2 DEF AssignSource, Assigned, Selection
  <2>3. ASSUME NEW c \in Appliers, SelectPeriods(c)
        PROVE  b \in appliers'[d].since
    <3>1. Assigned(b)
      BY <2>3 DEF SelectPeriods, Assigned
    <3>2. <<b, s>> \notin SourcePeriods
      BY <3>1 DEF SourcePeriods, Assigned, NoTargetRow
    <3>3. d # c
      BY <2>3, <3>2 DEF SelectPeriods, CrosswalkTypeOK
    <3>4. appliers'[d] = appliers[d]
      BY <2>3, <3>3 DEF SelectPeriods, CrosswalkTypeOK
    <3>. QED
      BY <3>1, <3>4 DEF Selection
  <2>4. ASSUME NEW c \in Appliers, StopApplying(c)
        PROVE  b \in appliers'[d].since
    <3>1. Assigned(b)
      BY <2>4 DEF StopApplying, Assigned
    <3>2. d # c /\ appliers'[d] = appliers[d]
      BY <2>4 DEF StopApplying, NoApplication, CrosswalkTypeOK
    <3>. QED
      BY <3>1, <3>2 DEF Selection
  <2>5. ASSUME NEW c \in Appliers, NEW a \in Residences, NEW t \in OldTracts, ApplyPeriod(c, a, t)
        PROVE  b \in appliers'[d].since
    <3>1. appliers'[d].rows \subseteq appliers[d].rows /\ appliers'[d].since = appliers[d].since
      BY <2>5 DEF ApplyPeriod, CrosswalkTypeOK
    <3>2. Assigned(b)
      BY <2>5 DEF ApplyPeriod, Assigned, CrosswalkTypeOK
    <3>. QED
      BY <3>1, <3>2 DEF Selection
  <2>6. CASE UNCHANGED crosswalkVars
    BY <2>6 DEF crosswalkVars, Assigned, Selection
  <2>. QED
    BY <2>1, <2>2, <2>3, <2>4, <2>5, <2>6 DEF CrosswalkNext
<1>. QED
  BY <1>1, <1>2, CrosswalkTypeCorrect, PTL DEF CrosswalkSpec

\* apply_crosswalks writes an estimate beside an assignment only if the assignment
\* came after the run had selected its rows: an address that was assigned before
\* is left alone, for any crosswalk and any runs side by side.
THEOREM EstimatesAlwaysYield == CrosswalkSpec => EstimatesYield
<1>1. Selection /\ [CrosswalkNext]_crosswalkVars =>
        [\A c \in Appliers, a \in Residences, t \in OldTracts :
            ApplyPeriod(c, a, t) /\ Assigned(a) => a \in appliers[c].since]_crosswalkVars
  BY DEF Selection, ApplyPeriod
<1>. QED
  BY <1>1, SelectionInvariant, PTL DEF CrosswalkSpec, EstimatesYield

\* No step of a run takes an assignment away.
THEOREM AssignmentsStay ==
    CrosswalkSpec => [][\A a \in Residences : Assigned(a) => Assigned(a)']_crosswalkVars
<1>1. CrosswalkTypeOK /\ [CrosswalkNext]_crosswalkVars =>
        [\A a \in Residences : Assigned(a) => Assigned(a)']_crosswalkVars
  BY AssignedStays
<1>. QED
  BY <1>1, CrosswalkTypeCorrect, PTL DEF CrosswalkSpec

-----------------------------------------------------------------------------
(***************************************************************************)
(* BoundaryHistory: the history and the timeline of an address, for any    *)
(* rows written in any order.                                              *)
(***************************************************************************)

\* What the saves keep: the rows are those that were created, each once.
HistoryInd ==
    /\ TypeOK
    /\ \A k \in Keys \ ToSet(created) : abp[k] = EmptyRow

LEMMA HistoryInvariance == Spec => []HistoryInd
<1>1. Init => HistoryInd
  <2>1. EmptyRow \in Row
    BY DEF EmptyRow, Row, ContextDate, GeoidOrBlank
  <2>2. <<>> \in Seq(Keys) /\ IsInjective(<<>>) /\ ToSet(<<>>) = {}
    BY DEF IsInjective, ToSet
  <2> QED
    BY <2>1, <2>2, HistoryAssumption DEF Init, HistoryInd, TypeOK, Days
<1>2. HistoryInd /\ [Next]_vars => HistoryInd'
  <2> SUFFICES ASSUME HistoryInd, [Next]_vars PROVE HistoryInd'
    OBVIOUS
  <2>1. ASSUME NEW k \in Keys, NEW row \in RowInputs, Save(k, row) PROVE HistoryInd'
    <3>1. row \in Row /\ today' \in Days /\ abp' \in [Keys -> Row] /\ abp' = [abp EXCEPT ![k] = row]
      BY <2>1, HistoryAssumption DEF Save, HistoryInd, TypeOK
    <3>2. created \in Seq(Keys) /\ IsInjective(created)
      BY DEF HistoryInd, TypeOK
    <3>3. CASE k \in ToSet(created)
      <4>1. created' = created
        BY <2>1, <3>3 DEF Save
      <4>2. \A j \in Keys \ ToSet(created) : abp'[j] = abp[j]
        BY <3>1, <3>3 DEF HistoryInd, TypeOK
      <4> QED
        BY <3>1, <3>2, <4>1, <4>2 DEF HistoryInd, TypeOK
    <3>4. CASE k \notin ToSet(created)
      <4>1. created' = Append(created, k)
        BY <2>1, <3>4 DEF Save
      <4>2. /\ created' \in Seq(Keys) /\ DOMAIN created' = 1..(Len(created) + 1)
            /\ DOMAIN created = 1..Len(created) /\ Len(created) \in Nat
            /\ created'[Len(created) + 1] = k
            /\ \A i \in 1..Len(created) : created'[i] = created[i]
        BY <3>2, <4>1
      <4>3. \A i \in 1..Len(created) : created'[i] # k
        BY <3>4, <4>2 DEF ToSet
      <4>4. IsInjective(created')
        <5> SUFFICES ASSUME NEW i \in DOMAIN created', NEW j \in DOMAIN created', created'[i] = created'[j]
                     PROVE  i = j
          BY DEF IsInjective
        <5>1. i \in 1..Len(created) \/ i = Len(created) + 1
          BY <4>2
        <5>2. j \in 1..Len(created) \/ j = Len(created) + 1
          BY <4>2
        <5> QED
          BY <3>2, <4>2, <4>3, <5>1, <5>2 DEF IsInjective
      <4>5. ToSet(created') = ToSet(created) \cup {k}
        BY <4>2 DEF ToSet
      <4>6. \A j \in Keys \ ToSet(created') : abp'[j] = abp[j] /\ j \in Keys \ ToSet(created)
        BY <3>1, <4>5 DEF HistoryInd, TypeOK
      <4> QED
        BY <3>1, <4>2, <4>4, <4>6 DEF HistoryInd, TypeOK
    <3> QED
      BY <3>3, <3>4
  <2>2. CASE NextDay
    <3>1. today' \in Days
      BY <2>2, HistoryAssumption DEF NextDay, HistoryInd, TypeOK, Days
    <3> QED
      BY <2>2, <3>1 DEF NextDay, HistoryInd, TypeOK
  <2>3. CASE UNCHANGED vars
    BY <2>3 DEF vars, HistoryInd, TypeOK
  <2> QED
    BY <2>1, <2>2, <2>3 DEF Next
<1> QED
  BY <1>1, <1>2, PTL DEF Spec

-----------------------------------------------------------------------------
(* The order of the history *)

\* A strict total order numbers the elements of a finite set from 1 on: by how
\* many others come before.
LEMMA Ranked ==
    ASSUME NEW S, IsFiniteSet(S), NEW R \in SUBSET (S \X S),
           \A x \in S : <<x, x>> \notin R,
           \A x, y, z \in S : <<x, y>> \in R /\ <<y, z>> \in R => <<x, z>> \in R,
           \A x, y \in S : x # y => <<x, y>> \in R \/ <<y, x>> \in R,
           NEW f,
           \A i \in 1..Cardinality(S) : \A k \in S :
              Cardinality({j \in S : <<j, k>> \in R}) + 1 = i =>
                 /\ f[i] \in S
                 /\ Cardinality({j \in S : <<j, f[i]>> \in R}) + 1 = i
    PROVE  /\ \A i \in 1..Cardinality(S) : f[i] \in S
           /\ \A k \in S : \E i \in 1..Cardinality(S) : f[i] = k
           /\ \A i, j \in 1..Cardinality(S) : i < j => <<f[i], f[j]>> \in R
<1> DEFINE n == Cardinality(S)
           before(k) == {j \in S : <<j, k>> \in R}
           rank == [k \in S |-> Cardinality(before(k)) + 1]
<1>1. n \in Nat
  BY FS_CardinalityType
<1>2. ASSUME NEW k \in S
      PROVE  /\ IsFiniteSet(before(k)) /\ Cardinality(before(k)) \in Nat
             /\ Cardinality(before(k)) < n
  <2>1. before(k) \in SUBSET S /\ before(k) # S
    OBVIOUS
  <2> HIDE DEF before
  <2>2. /\ IsFiniteSet(before(k)) /\ Cardinality(before(k)) <= n /\ Cardinality(before(k)) # n
    BY <2>1, FS_Subset
  <2>3. Cardinality(before(k)) \in Nat
    BY <2>2, FS_CardinalityType
  <2> QED
    BY <1>1, <2>2, <2>3
<1>3. ASSUME NEW j \in S, NEW k \in S, <<j, k>> \in R
      PROVE  Cardinality(before(j)) < Cardinality(before(k))
  <2>1. before(j) \in SUBSET before(k) /\ before(j) # before(k)
    BY <1>3
  <2>2. IsFiniteSet(before(k)) /\ Cardinality(before(k)) \in Nat /\ Cardinality(before(j)) \in Nat
    BY <1>2
  <2> HIDE DEF before
  <2>3. Cardinality(before(j)) <= Cardinality(before(k)) /\ Cardinality(before(j)) # Cardinality(before(k))
    BY <2>1, <2>2, FS_Subset
  <2> QED
    BY <2>2, <2>3
<1>4. rank \in [S -> 1..n] /\ \A k \in S : rank[k] = Cardinality(before(k)) + 1
  <2> HIDE DEF before, n
  <2>1. \A k \in S : Cardinality(before(k)) + 1 \in 1..n
    BY <1>1, <1>2
  <2> QED
    BY <2>1
<1>5. \A j, k \in S : rank[j] = rank[k] => j = k
  <2> SUFFICES ASSUME NEW j \in S, NEW k \in S, rank[j] = rank[k], j # k PROVE FALSE
    OBVIOUS
  <2> HIDE DEF before, rank
  <2>0. rank[j] = Cardinality(before(j)) + 1 /\ rank[k] = Cardinality(before(k)) + 1
    BY <1>4
  <2>2. Cardinality(before(j)) \in Nat /\ Cardinality(before(k)) \in Nat
    BY <1>2
  <2>1. Cardinality(before(j)) = Cardinality(before(k))
    <3>1. \A x, y \in Nat : x + 1 = y + 1 => x = y
      OBVIOUS
    <3> QED
      BY <2>0, <2>2, <3>1, Zenon
  <2>3. CASE <<j, k>> \in R
    BY <1>3, <2>1, <2>2, <2>3
  <2>4. CASE <<k, j>> \in R
    BY <1>3, <2>1, <2>2, <2>4
  <2> QED
    BY <2>3, <2>4
<1>6. rank \in Injection(S, 1..n)
  <2> HIDE DEF rank, n
  <2> QED
    BY <1>4, <1>5 DEF Injection, IsInjective
<1>7. rank \in Surjection(S, 1..n)
  <2>1. IsFiniteSet(1..n) /\ Cardinality(1..n) = n
    BY <1>1, FS_Interval
  <2> HIDE DEF rank
  <2> QED
    BY <1>6, <2>1, FS_Injection
<1>8. ASSUME NEW i \in 1..n PROVE f[i] \in S /\ rank[f[i]] = i
  <2> HIDE DEF rank, n
  <2>1. PICK k \in S : rank[k] = i
    BY <1>7 DEF Surjection
  <2>2. Cardinality(before(k)) + 1 = i
    <3> HIDE DEF before
    <3> QED
      BY <1>4, <2>1
  <2>3. f[i] \in S /\ Cardinality(before(f[i])) + 1 = i
    BY <2>2 DEF n
  <2> HIDE DEF before
  <2>4. rank[f[i]] = Cardinality(before(f[i])) + 1
    BY <1>4, <2>3
  <2> QED
    BY <2>3, <2>4
<1>9. ASSUME NEW i \in 1..n, NEW j \in 1..n, i < j PROVE <<f[i], f[j]>> \in R
  <2>1. f[i] \in S /\ f[j] \in S /\ rank[f[i]] = i /\ rank[f[j]] = j
    BY <1>8
  <2> HIDE DEF rank, before, n
  <2>2. f[i] # f[j]
    BY <1>1, <1>9, <2>1
  <2>3. ASSUME <<f[j], f[i]>> \in R PROVE FALSE
    <3>1. Cardinality(before(f[j])) < Cardinality(before(f[i]))
      BY <1>3, <2>1, <2>3
    <3>2. Cardinality(before(f[j])) + 1 = j /\ Cardinality(before(f[i])) + 1 = i
      BY <1>4, <2>1
    <3>3. Cardinality(before(f[j])) \in Nat /\ Cardinality(before(f[i])) \in Nat
      BY <1>2, <2>1
    <3> QED
      BY <1>1, <1>9, <3>1, <3>2, <3>3
  <2> QED
    BY <2>1, <2>2, <2>3
<1>10. ASSUME NEW k \in S PROVE \E i \in 1..n : f[i] = k
  <2>1. rank[k] \in 1..n
    BY <1>4
  <2>2. f[rank[k]] \in S /\ rank[f[rank[k]]] = rank[k]
    BY <1>8, <2>1
  <2> HIDE DEF rank
  <2> QED
    BY <1>5, <2>1, <2>2
<1> QED
  BY <1>8, <1>9, <1>10

\* Creation is a total order: a row that was created has its place.
LEMMA CreatedPlace ==
    ASSUME TypeOK, NEW k \in ToSet(created)
    PROVE  AssignedAt(k) \in 1..Len(created) /\ created[AssignedAt(k)] = k
<1>1. DOMAIN created = 1..Len(created)
  BY DEF TypeOK
<1>2. PICK i \in DOMAIN created : created[i] = k
  BY DEF ToSet
<1> QED
  BY <1>1, <1>2 DEF AssignedAt

\* ORDER BY context_date DESC, assigned_at DESC orders the rows of a type
\* totally, and boundary_history lists them in that order.
LEMMA HistorySorts ==
    ASSUME TypeOK, NEW t \in Types
    PROVE  LET line == boundary_history(t)
               n == Cardinality(RowsOf(t))
           IN  /\ n \in Nat /\ line \in Seq(RowsOf(t)) /\ Len(line) = n
               /\ \A k \in RowsOf(t) : \E i \in 1..n : line[i] = k
               /\ \A i, j \in 1..n : i < j => Precedes(line[i], line[j])
<1> DEFINE S == RowsOf(t)
           R == {p \in S \X S : Precedes(p[1], p[2])}
           line == boundary_history(t)
<1>1. S \subseteq ToSet(created) /\ S \subseteq Keys
  BY DEF RowsOf, TypeOK, ToSet
<1>2. IsFiniteSet(S)
  BY <1>1, KeysAssumption, FS_Subset
<1>3. \A k \in S : AssignedAt(k) \in Nat /\ abp[k].ctx \in Int /\ NoDate \in Int
  <2>1. \A k \in S : AssignedAt(k) \in Nat
    BY <1>1, CreatedPlace DEF TypeOK
  <2>2. \A k \in S : abp[k] \in Row
    BY <1>1 DEF TypeOK
  <2> QED
    BY <2>1, <2>2 DEF Row, ContextDate, Date, NoDate
<1>4. \A j, k \in S : AssignedAt(j) = AssignedAt(k) => j = k
  BY <1>1, CreatedPlace
<1>5. \A j, k \in S : <<j, k>> \in R <=> Precedes(j, k)
  OBVIOUS
<1>6. \A x \in S : ~Precedes(x, x)
  BY <1>3 DEF Precedes, Undated
<1>7. \A x, y, z \in S : Precedes(x, y) /\ Precedes(y, z) => Precedes(x, z)
  BY <1>3 DEF Precedes, Undated
<1>8. \A x, y \in S : x # y => Precedes(x, y) \/ Precedes(y, x)
  BY <1>3, <1>4 DEF Precedes, Undated
<1>9. \A k \in S : {j \in S : Precedes(j, k)} = {j \in S : <<j, k>> \in R}
  BY <1>5
<1>10. ASSUME NEW i \in 1..Cardinality(S), NEW k \in S,
              Cardinality({j \in S : <<j, k>> \in R}) + 1 = i
       PROVE  line[i] \in S /\ Cardinality({j \in S : <<j, line[i]>> \in R}) + 1 = i
  <2> DEFINE place == [m \in S |-> Cardinality({j \in S : Precedes(j, m)}) + 1]
  <2>1. \A m \in S : place[m] = Cardinality({j \in S : <<j, m>> \in R}) + 1
    BY <1>9
  <2>2. line[i] = CHOOSE m \in S : place[m] = i
    BY DEF boundary_history
  <2> HIDE DEF S, R, line, place
  <2>3. line[i] \in S /\ place[line[i]] = i
    BY <1>10, <2>1, <2>2
  <2> QED
    BY <2>1, <2>3
<1>11. R \in SUBSET (S \X S)
  OBVIOUS
<1> HIDE DEF S, R, line
<1>12. /\ \A i \in 1..Cardinality(S) : line[i] \in S
       /\ \A k \in S : \E i \in 1..Cardinality(S) : line[i] = k
       /\ \A i, j \in 1..Cardinality(S) : i < j => <<line[i], line[j]>> \in R
  <2>1. /\ \A x \in S : <<x, x>> \notin R
        /\ \A x, y, z \in S : <<x, y>> \in R /\ <<y, z>> \in R => <<x, z>> \in R
        /\ \A x, y \in S : x # y => <<x, y>> \in R \/ <<y, x>> \in R
    BY <1>5, <1>6, <1>7, <1>8
  <2>2. \A i \in 1..Cardinality(S) : \A k \in S :
           Cardinality({j \in S : <<j, k>> \in R}) + 1 = i =>
              /\ line[i] \in S
              /\ Cardinality({j \in S : <<j, line[i]>> \in R}) + 1 = i
    BY <1>10
  <2> QED
    BY <1>2, <1>11, <2>1, <2>2, Ranked
<1>13. Cardinality(S) \in Nat
  BY <1>2, FS_CardinalityType
<1>14. line \in Seq(S) /\ Len(line) = Cardinality(S)
  <2>1. line \in [1..Cardinality(S) -> S]
    <3> DEFINE place == [m \in S |-> Cardinality({j \in S : Precedes(j, m)}) + 1]
    <3>1. line = [i \in 1..Cardinality(S) |-> CHOOSE m \in S : place[m] = i]
      BY DEF boundary_history, S, line
    <3> HIDE DEF place
    <3> QED
      BY <1>12, <3>1, Zenon
  <2> QED
    BY <1>13, <2>1
<1>15. \A i, j \in 1..Cardinality(S) : i < j => Precedes(line[i], line[j])
  BY <1>5, <1>12
<1> QED
  BY <1>12, <1>13, <1>14, <1>15 DEF S, line

\* The timeline is the history backwards, and its dated rows go forward in time.
LEMMA TimelineAscends ==
    ASSUME TypeOK, NEW t \in Types, ~TimelineRaises(t)
    PROVE  LET line == boundary_timeline(t)
               n == Cardinality(RowsOf(t))
           IN  /\ n \in Nat /\ DOMAIN line = 1..n /\ Len(line) = n
               /\ \A i \in 1..n :
                     /\ line[i].key \in RowsOf(t) /\ line[i].geoid = abp[line[i].key].geoid[t]
                     /\ line[i].from = abp[line[i].key].ctx /\ line[i].from \in Nat
                     /\ i = n => line[i].to = NoEnd
                     /\ i < n => line[i].to = line[i + 1].from - 1
               /\ \A k \in RowsOf(t) : \E i \in 1..n : line[i].key = k
               /\ \A i, j \in 1..n : i < j => line[i].from <= line[j].from
<1> DEFINE rows == Reverse(boundary_history(t))
           n == Cardinality(RowsOf(t))
           line == boundary_timeline(t)
<1>1. /\ n \in Nat /\ boundary_history(t) \in Seq(RowsOf(t)) /\ Len(boundary_history(t)) = n
      /\ \A k \in RowsOf(t) : \E i \in 1..n : boundary_history(t)[i] = k
      /\ \A i, j \in 1..n : i < j => Precedes(boundary_history(t)[i], boundary_history(t)[j])
  BY HistorySorts
<1>2. /\ rows \in Seq(RowsOf(t)) /\ Len(rows) = n /\ DOMAIN rows = 1..n
      /\ \A i \in 1..n : rows[i] = boundary_history(t)[n - i + 1]
  <2> DEFINE h == boundary_history(t)
             S == RowsOf(t)
  <2> HIDE DEF n, h, S
  <2>1. rows = [i \in 1..n |-> h[n - i + 1]]
    BY <1>1 DEF Reverse, h
  <2>2. \A i \in 1..n : n - i + 1 \in 1..n
    BY <1>1
  <2>3. \A i \in 1..n : h[i] \in S
    BY <1>1 DEF h, S
  <2>4. rows \in [1..n -> S]
    BY <2>1, <2>2, <2>3
  <2> QED
    BY <1>1, <2>1, <2>4 DEF h, S
<1>3. \A k \in RowsOf(t) : abp[k].ctx \in Nat
  <2>1. \A k \in RowsOf(t) : k \in Keys /\ ~Undated(k)
    BY DEF TimelineRaises, RowsOf, TypeOK, ToSet
  <2> QED
    BY <2>1 DEF TypeOK, Row, ContextDate, Date, Undated
<1>4. \A i, j \in 1..n : i < j => abp[rows[i]].ctx <= abp[rows[j]].ctx
  <2> SUFFICES ASSUME NEW i \in 1..n, NEW j \in 1..n, i < j
               PROVE  abp[rows[i]].ctx <= abp[rows[j]].ctx
    OBVIOUS
  <2> HIDE DEF rows, n
  <2>1. n - j + 1 \in 1..n /\ n - i + 1 \in 1..n /\ n - j + 1 < n - i + 1
    BY <1>1
  <2>2. Precedes(rows[j], rows[i])
    BY <1>1, <1>2, <2>1
  <2>3. rows[i] \in RowsOf(t) /\ rows[j] \in RowsOf(t)
    BY <1>2
  <2>4. abp[rows[i]].ctx \in Nat /\ abp[rows[j]].ctx \in Nat
    BY <1>3, <2>3
  <2> QED
    BY <2>2, <2>4 DEF Precedes, Undated, NoDate
<1>5. \A k \in RowsOf(t) : \E i \in 1..n : rows[i] = k
  <2> SUFFICES ASSUME NEW k \in RowsOf(t) PROVE \E i \in 1..n : rows[i] = k
    OBVIOUS
  <2>1. PICK i \in 1..n : boundary_history(t)[i] = k
    BY <1>1
  <2> HIDE DEF rows, n
  <2>2. n - i + 1 \in 1..n /\ n - (n - i + 1) + 1 = i
    BY <1>1
  <2>3. rows[n - i + 1] = k
    BY <1>2, <2>1, <2>2
  <2> QED
    BY <2>2, <2>3
<1>6. line = [i \in 1..n |->
                 [geoid |-> abp[rows[i]].geoid[t], key |-> rows[i], from |-> abp[rows[i]].ctx,
                  to |-> IF i < n THEN abp[rows[i + 1]].ctx - 1 ELSE NoEnd]]
  <2> HIDE DEF rows, n
  <2> QED
    BY <1>2 DEF boundary_timeline, rows
<1> HIDE DEF rows, line, n
<1>7. DOMAIN line = 1..n /\ Len(line) = n
  BY <1>1, <1>6
<1>8. ASSUME NEW i \in 1..n
      PROVE  /\ line[i].key = rows[i] /\ line[i].geoid = abp[rows[i]].geoid[t]
             /\ line[i].from = abp[rows[i]].ctx
             /\ line[i].to = IF i < n THEN abp[rows[i + 1]].ctx - 1 ELSE NoEnd
  BY <1>6
<1>9. ASSUME NEW i \in 1..n
      PROVE  /\ line[i].key \in RowsOf(t) /\ line[i].geoid = abp[line[i].key].geoid[t]
             /\ line[i].from = abp[line[i].key].ctx /\ line[i].from \in Nat
             /\ i = n => line[i].to = NoEnd
             /\ i < n => line[i].to = line[i + 1].from - 1
  <2>1. rows[i] \in RowsOf(t)
    BY <1>2
  <2>2. i < n => i + 1 \in 1..n
    BY <1>1
  <2>3. i < n => line[i + 1].from = abp[rows[i + 1]].ctx
    BY <1>8, <2>2
  <2>4. abp[rows[i]].ctx \in Nat
    BY <1>3, <2>1
  <2>5. line[i].key = rows[i] /\ line[i].geoid = abp[rows[i]].geoid[t] /\ line[i].from = abp[rows[i]].ctx
    BY <1>8
  <2>6. i = n => line[i].to = NoEnd
    BY <1>1, <1>8
  <2>7. i < n => line[i].to = line[i + 1].from - 1
    BY <1>8, <2>3
  <2> QED
    BY <2>1, <2>4, <2>5, <2>6, <2>7
<1>10. \A k \in RowsOf(t) : \E i \in 1..n : line[i].key = k
  BY <1>5, <1>8
<1>11. \A i, j \in 1..n : i < j => line[i].from <= line[j].from
  BY <1>4, <1>8
<1> QED
  BY <1>1, <1>7, <1>9, <1>10, <1>11 DEF line, n

\* A row that no other precedes heads the history.
HeadIsFirst ==
    \A t \in Types, k \in Keys :
        k \in RowsOf(t) /\ (\A j \in RowsOf(t) \ {k} : ~Precedes(j, k)) => Head(boundary_history(t)) = k

LEMMA HeadOfHistory == TypeOK => HeadIsFirst
<1> SUFFICES ASSUME TypeOK, NEW t \in Types, NEW k \in RowsOf(t),
                    \A j \in RowsOf(t) \ {k} : ~Precedes(j, k)
             PROVE  Head(boundary_history(t)) = k
  BY DEF HeadIsFirst
<1> DEFINE line == boundary_history(t)
           n == Cardinality(RowsOf(t))
<1>1. /\ n \in Nat /\ line \in Seq(RowsOf(t)) /\ Len(line) = n
      /\ \A m \in RowsOf(t) : \E i \in 1..n : line[i] = m
      /\ \A i, j \in 1..n : i < j => Precedes(line[i], line[j])
  BY HistorySorts
<1> HIDE DEF line, n
<1>2. PICK i \in 1..n : line[i] = k
  BY <1>1
<1>3. 1 \in 1..n /\ (1 < i => Precedes(line[1], k))
  BY <1>1, <1>2
<1>4. line[1] \in RowsOf(t)
  BY <1>1, <1>3
<1>5. ~Precedes(k, k)
  <2>1. k \in ToSet(created) /\ k \in Keys
    BY DEF RowsOf, TypeOK, ToSet
  <2>2. AssignedAt(k) \in Nat /\ abp[k].ctx \in Int
    BY <2>1, CreatedPlace DEF TypeOK, Row, ContextDate, Date, NoDate
  <2> QED
    BY <2>2 DEF Precedes, Undated
<1>6. line[1] = k
  <2>1. CASE i = 1
    BY <1>2, <2>1
  <2>2. CASE 1 < i
    BY <1>3, <1>4, <1>5, <2>2
  <2> QED
    BY <1>1, <2>1, <2>2
<1>7. line # <<>>
  BY <1>1, <1>3
<1> QED
  BY <1>1, <1>6, <1>7 DEF line

-----------------------------------------------------------------------------
(* Theorems *)

\* The rows stay well formed, each with one place in the order of creation.
THEOREM HistoryTypeCorrect == Spec => []TypeOK
<1>1. HistoryInd => TypeOK
  BY DEF HistoryInd
<1> QED
  BY <1>1, HistoryInvariance, PTL

\* boundary_timeline leaves no gap, and agrees with geoid_on on every day that
\* the vintage of a period serves, for any rows saved in any order.
THEOREM TimelineAlwaysSound == Spec => []TimelineSound
<1>1. ASSUME HistoryInd, NEW t \in Types, ~TimelineRaises(t)
      PROVE  LET line == boundary_timeline(t) IN
             \A i \in DOMAIN line :
                IF i = Len(line) THEN line[i].to = NoEnd
                ELSE /\ line[i].from <= line[i + 1].from
                     /\ line[i].to + 1 = line[i + 1].from
  <2> DEFINE line == boundary_timeline(t)
             n == Cardinality(RowsOf(t))
  <2>1. /\ n \in Nat /\ DOMAIN line = 1..n /\ Len(line) = n
        /\ \A i \in 1..n : line[i].from \in Nat /\ (i = n => line[i].to = NoEnd)
              /\ (i < n => line[i].to = line[i + 1].from - 1)
        /\ \A i, j \in 1..n : i < j => line[i].from <= line[j].from
    BY <1>1, TimelineAscends DEF HistoryInd
  <2> HIDE DEF line, n
  <2>2. ASSUME NEW i \in 1..n, i # n
        PROVE  line[i].from <= line[i + 1].from /\ line[i].to + 1 = line[i + 1].from
    <3>1. i + 1 \in 1..n /\ i < i + 1 /\ i < n
      BY <2>1, <2>2
    <3>2. line[i + 1].from \in Nat /\ line[i].to = line[i + 1].from - 1
      BY <2>1, <3>1
    <3>3. line[i].from <= line[i + 1].from
      BY <2>1, <3>1
    <3>4. line[i].to + 1 = line[i + 1].from
      BY <3>2
    <3> QED
      BY <3>3, <3>4
  <2> QED
    BY <2>1, <2>2 DEF line
<1>2. ASSUME HistoryInd, NEW t \in Types, ~TimelineRaises(t),
             NEW i \in DOMAIN boundary_timeline(t), NEW d \in Days,
             Covers(boundary_timeline(t)[i], d), boundary_timeline(t)[i].key[1] \in ForYear(d)
      PROVE  boundary_timeline(t)[i].geoid \in {abp[k].geoid[t] : k \in Latest(abp, t, d)}
  <2> DEFINE line == boundary_timeline(t)
             n == Cardinality(RowsOf(t))
             key == line[i].key
  <2>1. /\ n \in Nat /\ DOMAIN line = 1..n
        /\ \A j \in 1..n :
              /\ line[j].key \in RowsOf(t) /\ line[j].geoid = abp[line[j].key].geoid[t]
              /\ line[j].from = abp[line[j].key].ctx /\ line[j].from \in Nat
              /\ j = n => line[j].to = NoEnd
              /\ j < n => line[j].to = line[j + 1].from - 1
        /\ \A k \in RowsOf(t) : \E j \in 1..n : line[j].key = k
        /\ \A j, m \in 1..n : j < m => line[j].from <= line[m].from
    BY <1>2, TimelineAscends DEF HistoryInd
  <2>2. d \in Nat
    BY HistoryAssumption DEF Days
  <2>3. Covers(line[i], d) /\ i \in 1..n /\ key[1] \in ForYear(d)
    BY <1>2, <2>1
  <2> HIDE DEF line, n
  <2>4. /\ key \in RowsOf(t) /\ abp[key].ctx <= d /\ abp[key].ctx \in Nat
    BY <2>1, <2>3 DEF Covers
  <2>5. key \in Eligible(abp, t, d)
    BY <1>2, <2>3, <2>4 DEF Eligible, RowsOf, HistoryInd, TypeOK, ToSet
  <2>6. ASSUME NEW j \in Eligible(abp, t, d) PROVE abp[j].ctx <= abp[key].ctx
    <3>1. j \in Keys /\ abp[j].geoid[t] # Blank /\ abp[j].ctx <= d
      BY <2>6 DEF Eligible
    <3>2. j \in RowsOf(t)
      BY <1>2, <3>1 DEF HistoryInd, EmptyRow, RowsOf
    <3>3. PICK m \in 1..n : line[m].key = j
      BY <2>1, <3>2
    <3>4. line[m].from = abp[j].ctx /\ line[i].from = abp[key].ctx
      BY <2>1, <2>3, <3>3
    <3>5. line[m].from \in Nat /\ line[i].from \in Nat
      BY <2>1, <2>3
    <3>6. CASE m <= i
      <4>1. m < i \/ m = i
        BY <2>1, <2>3, <3>6
      <4> QED
        BY <2>1, <2>3, <3>4, <3>5, <4>1
    <3>7. CASE i < m
      <4>1. i + 1 \in 1..n /\ (i + 1 = m \/ i + 1 < m) /\ i < n
        BY <2>1, <2>3, <3>7
      <4>2. line[i + 1].from <= line[m].from /\ line[i + 1].from \in Nat
        BY <2>1, <3>5, <4>1
      <4>3. line[i].to = line[i + 1].from - 1
        BY <2>1, <2>3, <4>1
      <4>4. d <= line[i].to
        BY <2>3, <4>2, <4>3 DEF Covers, NoEnd
      <4>5. FALSE
        BY <2>2, <3>1, <3>4, <3>5, <4>2, <4>3, <4>4
      <4> QED
        BY <4>5
    <3> QED
      BY <2>1, <2>3, <3>6, <3>7
  <2>7. key \in Latest(abp, t, d)
    BY <2>5, <2>6 DEF Latest
  <2>8. line[i].geoid = abp[key].geoid[t]
    BY <2>1, <2>3
  <2> QED
    BY <2>7, <2>8 DEF line
<1>3. HistoryInd => TimelineTiles
  BY <1>1 DEF TimelineTiles
<1>4. HistoryInd => TimelineAgreesWithGeoidOn
  BY <1>2 DEF TimelineAgreesWithGeoidOn
<1> QED
  BY <1>3, <1>4, HistoryInvariance, PTL DEF TimelineSound

\* Assigning under the plan in effect, as of today, clears staleness: the row
\* just assigned heads the history of every type it touches.
THEOREM AssigningAlwaysClears == Spec => AssigningClearsStaleness
<1> DEFINE Clears ==
      \A k \in Keys, t \in Types :
          /\ abp'[k] # abp[k] /\ t \in Touched(abp'[k])
          /\ k[2] = PlanOn[today] /\ abp'[k].ctx = today
          /\ \A j \in Keys \ {k} : abp[j].ctx < today /\ ~(Undated(j) /\ t \in Touched(abp[j]))
          => ~Stale(t)'
<1>1. ASSUME HistoryInd, HistoryInd', [Next]_vars PROVE [Clears]_vars
  <2> SUFFICES ASSUME NEW k \in Keys, NEW t \in Types,
                      abp'[k] # abp[k], t \in Touched(abp'[k]),
                      k[2] = PlanOn[today], abp'[k].ctx = today,
                      \A j \in Keys \ {k} :
                         abp[j].ctx < today /\ ~(Undated(j) /\ t \in Touched(abp[j]))
               PROVE  ~Stale(t)'
    OBVIOUS
  <2>1. PICK at \in Keys, row \in RowInputs : Save(at, row)
    BY <1>1 DEF Next, NextDay, vars
  <2>2. at = k /\ today' = today /\ today \in Nat
    BY <1>1, <2>1, HistoryAssumption DEF Save, HistoryInd, TypeOK, Days
  <2>3. k \in ToSet(created)'
    <3>1. created \in Seq(Keys)
      BY <1>1 DEF HistoryInd, TypeOK
    <3>2. CASE k \in ToSet(created)
      BY <2>1, <2>2, <3>2 DEF Save
    <3>3. CASE k \notin ToSet(created)
      <4>1. created' = Append(created, k)
        BY <2>1, <2>2, <3>3 DEF Save
      <4>2. Len(created) + 1 \in DOMAIN created' /\ created'[Len(created) + 1] = k
        BY <3>1, <4>1
      <4> QED
        BY <4>2 DEF ToSet
    <3> QED
      BY <3>2, <3>3
  <2>4. k \in RowsOf(t)'
    BY <2>3 DEF RowsOf, Touched
  <2>5. \A j \in RowsOf(t)' \ {k} : abp'[j] = abp[j] /\ j \in Keys
    <3>1. RowsOf(t)' \subseteq Keys
      BY <1>1 DEF RowsOf, HistoryInd, TypeOK, ToSet
    <3> QED
      BY <1>1, <2>1, <2>2, <3>1 DEF Save, HistoryInd, TypeOK
  <2>6. \A j \in RowsOf(t)' \ {k} : ~Precedes(j, k)'
    <3> SUFFICES ASSUME NEW j \in RowsOf(t)' \ {k}, Precedes(j, k)' PROVE FALSE
      OBVIOUS
    <3>1. j \in Keys /\ abp'[j] = abp[j]
      BY <2>5
    <3>2. abp[j].ctx < today /\ ~(Undated(j) /\ t \in Touched(abp[j]))
      BY <3>1
    <3>3. t \in Touched(abp[j])
      BY <3>1 DEF RowsOf, Touched
    <3>4. ~Undated(j) /\ ~Undated(j)' /\ ~Undated(k)'
      BY <2>2, <3>1, <3>2, <3>3 DEF Undated, NoDate
    <3>5. abp[j].ctx \in Int
      BY <1>1, <3>1 DEF HistoryInd, TypeOK, Row, ContextDate, Date, NoDate
    <3> QED
      BY <2>2, <3>1, <3>2, <3>4, <3>5 DEF Precedes
  <2>7. Head(boundary_history(t))' = k
    <3>1. TypeOK'
      BY <1>1 DEF HistoryInd
    <3>2. HeadIsFirst'
      BY <3>1, HeadOfHistory, PTL
    <3> QED
      BY <2>4, <2>6, <3>2 DEF HeadIsFirst
  <2>8. Head(boundary_history(t))'[2] = PlanOn[today']
    BY <2>2, <2>7
  <2> QED
    BY <2>8 DEF Stale
<1> QED
  BY <1>1, HistoryInvariance, PTL DEF Spec, AssigningClearsStaleness

-----------------------------------------------------------------------------
(***************************************************************************)
(* The balance of an obligation, proved for any number of callers, events  *)
(* and amounts.                                                            *)
(***************************************************************************)

\* An object that is not out of date differs from the row by what its holder
\* has recorded and not saved, and only ever closes what the row has open.
UpToDate(c) ==
    /\ objects[c].sum = obligation.sum + unsaved[c]
    /\ obligation.status # "active" => objects[c].status # "active"

ObInd ==
    /\ ObTypeOK
    /\ BooksBalance
    /\ \A c \in Holders \ outdated : UpToDate(c)
    /\ \A c \in Callers \ Holders : unsaved[c] = 0

\* apply_event keeps an object well formed, moves its sum by the event, leaves a
\* closed obligation closed and the balance the reflected sum.
LEMMA AppliedReflects ==
    ASSUME NEW o \in Obligation, Reflected(o),
           NEW type \in EventTypes, NEW amount \in Int
    PROVE  /\ Applied(o, type, amount) \in Obligation
           /\ Reflected(Applied(o, type, amount))
           /\ Applied(o, type, amount).sum = o.sum + Signed(type, amount)
           /\ o.status # "active" => Applied(o, type, amount).status # "active"
<1> DEFINE d == Signed(type, amount)
<1> DEFINE a == Applied(o, type, amount)
<1>1. d \in Int
  BY DEF Signed
<1>2. o.balance \in Nat /\ o.sum \in Int /\ o.low \in Int /\ o.status \in Statuses
  BY DEF Obligation
<1>3. /\ a.balance = Floored(o.balance + d)
      /\ a.status = StatusAfter(o.status, type, o.balance + d)
      /\ a.sum = o.sum + d
      /\ a.low = IF o.sum + d < o.low THEN o.sum + d ELSE o.low
  BY DEF Applied
<1>4. a \in Obligation
  BY <1>1, <1>2 DEF Applied, Obligation, Floored, StatusAfter, Statuses
<1> HIDE DEF d, a
<1>5. o.low <= 0 /\ o.balance = o.sum - o.low
  BY DEF Reflected
<1>6. a.low <= 0 /\ a.balance = a.sum - a.low
  BY <1>1, <1>2, <1>3, <1>5 DEF Floored
<1>7. a.status = "active" => a.balance > 0 /\ a.low = 0
  <2> SUFFICES ASSUME a.status = "active" PROVE a.balance > 0 /\ a.low = 0
    OBVIOUS
  <2>1. o.balance + d > 0 /\ o.status = "active"
    BY <1>1, <1>2, <1>3 DEF StatusAfter
  <2>2. o.low = 0
    BY <2>1 DEF Reflected
  <2> QED
    BY <2>1, <2>2, <1>1, <1>2, <1>3, <1>5 DEF Floored
<1>8. o.status # "active" => a.status # "active"
  BY <1>3 DEF StatusAfter
<1> QED
  BY <1>3, <1>4, <1>6, <1>7, <1>8 DEF Reflected, d, a

LEMMA ObInitInd == ObInit => ObInd
<1> SUFFICES ASSUME ObInit PROVE ObInd
  OBVIOUS
<1>1. obligation \in Obligation /\ Reflected(obligation)
  BY ObligationAssumption DEF ObInit, Obligation, Statuses, Reflected
<1>2. objects \in [Callers -> Obligation \cup {NoObject}] /\ Holders = {}
  BY DEF ObInit, Holders
<1>3. unsaved \in [Callers -> Int] /\ settled \in Int /\ recorded \in 0..MaxEvents
  BY ObligationAssumption DEF ObInit
<1>4. ObTypeOK
  BY <1>1, <1>2, <1>3 DEF ObInit, ObTypeOK
<1>5. obligation.sum = Original + settled
  BY ObligationAssumption DEF ObInit
<1> QED
  BY <1>1, <1>2, <1>4, <1>5 DEF ObInd, BooksBalance, ObInit

LEMMA ObNextInd == ObInd /\ [ObNext]_obVars => ObInd'
<1> SUFFICES ASSUME ObInd, [ObNext]_obVars PROVE ObInd'
  OBVIOUS
<1> USE DEF ObInd, ObTypeOK
<1>1. ASSUME NEW c \in Callers, Get(c) PROVE ObInd'
  <2>1. /\ objects' = [objects EXCEPT ![c] = obligation] /\ c \notin Holders
        /\ UNCHANGED <<obligation, recorded, unsaved, settled, outdated, overwritten>>
    BY <1>1 DEF Get
  <2>2. Holders' \subseteq Holders \cup {c} /\ Holders \subseteq Holders'
    BY <2>1 DEF Holders
  <2>3. ObTypeOK'
    BY <2>1, <2>2
  <2>4. objects'[c] = obligation /\ \A d \in Callers \ {c} : objects'[d] = objects[d]
    BY <2>1
  <2>5. BooksBalance'
    BY <2>1, <2>2, <2>4 DEF BooksBalance, Reflected
  <2>6. UpToDate(c)'
    BY <2>1, <2>4 DEF UpToDate, Obligation
  <2>7. \A d \in Holders' \ outdated' : UpToDate(d)'
    BY <2>1, <2>2, <2>4, <2>6 DEF UpToDate
  <2> QED
    BY <2>1, <2>2, <2>3, <2>5, <2>7
<1>2. ASSUME NEW c \in Callers, NEW type \in EventTypes, NEW amount \in Amounts,
             Record(c, type, amount)
      PROVE  ObInd'
  <2> DEFINE a == Applied(objects[c], type, amount)
  <2> DEFINE d == Signed(type, amount)
  <2>1. /\ c \in Holders
        /\ objects' = [objects EXCEPT ![c] = a]
        /\ recorded < MaxEvents /\ recorded' = recorded + 1
        /\ unsaved' = [unsaved EXCEPT ![c] = @ + d]
        /\ UNCHANGED <<obligation, settled, outdated, overwritten>>
    BY <1>2 DEF Record
  <2>2. objects[c] \in Obligation /\ Reflected(objects[c]) /\ amount \in Int
    BY <2>1, ObligationAssumption DEF Holders, BooksBalance
  <2>3. /\ a \in Obligation /\ Reflected(a) /\ a.sum = objects[c].sum + d
        /\ objects[c].status # "active" => a.status # "active"
    BY <2>2, AppliedReflects
  <2>4. d \in Int
    BY <2>2 DEF Signed
  <2> HIDE DEF a, d
  <2>5. objects'[c] = a /\ \A e \in Callers \ {c} : objects'[e] = objects[e]
    BY <2>1
  <2>6. unsaved'[c] = unsaved[c] + d /\ \A e \in Callers \ {c} : unsaved'[e] = unsaved[e]
    BY <2>1
  <2>7. Holders \subseteq Holders' /\ Holders' \subseteq Holders
    BY <2>1, <2>3, <2>5, NoObjectAssumption DEF Holders
  <2>8. ObTypeOK'
    BY <2>1, <2>3, <2>4, <2>7, ObligationAssumption
  <2>9. BooksBalance'
    BY <2>1, <2>3, <2>5, <2>7 DEF BooksBalance, Reflected
  <2>10. \A e \in Holders' \ outdated' : UpToDate(e)'
    <3> SUFFICES ASSUME NEW e \in Holders' \ outdated' PROVE UpToDate(e)'
      OBVIOUS
    <3>1. UpToDate(e) /\ e \in Callers
      BY <2>1, <2>7 DEF Holders
    <3>2. CASE e = c
      BY <3>1, <3>2, <2>1, <2>2, <2>3, <2>4, <2>5, <2>6 DEF UpToDate, Obligation
    <3>3. CASE e # c
      BY <3>1, <3>3, <2>1, <2>5, <2>6 DEF UpToDate
    <3> QED
      BY <3>2, <3>3
  <2> QED
    BY <2>1, <2>6, <2>7, <2>8, <2>9, <2>10
<1>3. ASSUME NEW c \in Callers, SaveObligation(c) PROVE ObInd'
  <2>1. /\ c \in Holders /\ objects[c].balance <= MaxBalance
        /\ obligation' = objects[c]
        /\ settled' = settled + unsaved[c]
        /\ unsaved' = [unsaved EXCEPT ![c] = 0]
        /\ outdated' = IF objects[c] = obligation THEN outdated
                       ELSE (outdated \cup Holders) \ {c}
        /\ overwritten' = (overwritten \/ c \in outdated)
        /\ UNCHANGED <<objects, recorded>>
    BY <1>3 DEF SaveObligation
  <2>2. Holders' = Holders /\ objects[c] \in Obligation
    BY <2>1 DEF Holders
  <2>3. ObTypeOK'
    BY <2>1, <2>2
  <2>4. unsaved[c] \in Int /\ settled \in Int
    OBVIOUS
  <2>5. ~overwritten' => obligation'.sum = Original + settled'
    <3> SUFFICES ASSUME ~overwritten' PROVE obligation'.sum = Original + settled'
      OBVIOUS
    <3>1. ~overwritten /\ c \notin outdated
      BY <2>1
    <3>2. objects[c].sum = obligation.sum + unsaved[c] /\ obligation.sum = Original + settled
      BY <2>1, <3>1 DEF UpToDate, BooksBalance
    <3> QED
      BY <2>1, <2>4, <3>2, ObligationAssumption
  <2>6. BooksBalance'
    BY <2>1, <2>2, <2>5 DEF BooksBalance, Reflected
  <2>7. \A e \in Holders' \ outdated' : UpToDate(e)'
    <3> SUFFICES ASSUME NEW e \in Holders' \ outdated' PROVE UpToDate(e)'
      OBVIOUS
    <3>1. e \in Holders /\ e \in Callers
      BY <2>2 DEF Holders
    <3>2. CASE e = c
      BY <3>2, <2>1, <2>2 DEF UpToDate, Obligation
    <3>3. CASE e # c
      <4>1. e \notin outdated /\ objects[c] = obligation
        BY <3>1, <3>3, <2>1
      <4> QED
        BY <4>1, <3>1, <3>3, <2>1 DEF UpToDate
    <3> QED
      BY <3>2, <3>3
  <2>8. \A e \in Callers \ Holders' : unsaved'[e] = 0
    BY <2>1, <2>2
  <2> QED
    BY <2>3, <2>6, <2>7, <2>8
<1>4. ASSUME NEW c \in Callers, Drop(c) PROVE ObInd'
  <2>1. /\ c \in Holders
        /\ objects' = [objects EXCEPT ![c] = NoObject]
        /\ unsaved' = [unsaved EXCEPT ![c] = 0]
        /\ outdated' = outdated \ {c}
        /\ UNCHANGED <<obligation, recorded, settled, overwritten>>
    BY <1>4 DEF Drop
  <2>2. Holders' = Holders \ {c}
    BY <2>1 DEF Holders
  <2>3. ObTypeOK'
    BY <2>1, <2>2
  <2>4. \A e \in Holders' : objects'[e] = objects[e] /\ unsaved'[e] = unsaved[e] /\ e \in Callers
    BY <2>1, <2>2 DEF Holders
  <2>5. BooksBalance'
    BY <2>1, <2>2, <2>4 DEF BooksBalance, Reflected
  <2>6. \A e \in Holders' \ outdated' : UpToDate(e)'
    BY <2>1, <2>2, <2>4 DEF UpToDate
  <2>7. \A e \in Callers \ Holders' : unsaved'[e] = 0
    BY <2>1, <2>2
  <2> QED
    BY <2>3, <2>5, <2>6, <2>7
<1>5. ASSUME UNCHANGED obVars PROVE ObInd'
  BY <1>5 DEF obVars, BooksBalance, Holders, UpToDate, Reflected
<1> QED
  BY <1>1, <1>2, <1>3, <1>4, <1>5 DEF ObNext

\* Every state the obligation can be in is well formed.
THEOREM ObTypeCorrect == ObSpec => []ObTypeOK
<1>1. ObInd => ObTypeOK
  BY DEF ObInd
<1> QED
  BY ObInitInd, ObNextInd, <1>1, PTL DEF ObSpec

\* However sessions interleave, the balance is the reflected sum of its events,
\* and accounts for all that were saved unless a stale object was saved.
THEOREM BooksAlwaysBalance == ObSpec => []BooksBalance
<1>1. ObInd => BooksBalance
  BY DEF ObInd
<1> QED
  BY ObInitInd, ObNextInd, <1>1, PTL DEF ObSpec

\* Only a save of an out-of-date object takes a closed obligation back to active.
THEOREM ReopeningIsStale == ObSpec => ReopensOnlyByStaleSave
<1> DEFINE Step == obligation.status # "active" /\ obligation'.status = "active" =>
                       \E c \in outdated : obligation' = objects[c]
<1>1. ObInd /\ [ObNext]_obVars => [Step]_obVars
  <2> SUFFICES ASSUME ObInd, ObNext, obligation.status # "active",
                      obligation'.status = "active"
               PROVE  \E c \in outdated : obligation' = objects[c]
    OBVIOUS
  <2>1. obligation' # obligation
    OBVIOUS
  <2>2. PICK c \in Callers : SaveObligation(c)
    BY <2>1 DEF ObNext, Get, Record, Drop
  <2>3. c \in Holders /\ obligation' = objects[c]
    BY <2>2 DEF SaveObligation
  <2>4. c \in outdated
    BY <2>3 DEF ObInd, UpToDate
  <2> QED
    BY <2>3, <2>4
<1> QED
  BY ObInitInd, ObNextInd, <1>1, PTL DEF ObSpec, ReopensOnlyByStaleSave

-----------------------------------------------------------------------------
(***************************************************************************)
(* The loads of FEC entities, proved for any gold tables, any number of    *)
(* loads at once and any corrections between their statements.             *)
(***************************************************************************)

FecInd == FecTypeOK /\ LinksSound

\* the tables that are left to a job, and the one it is at
LEMMA TableOfJob ==
    ASSUME FecTypeOK, NEW w \in Loaders, Running(w)
    PROVE  /\ Table(w) \in Tables /\ Tail(jobs[w].todo) \in Seq(Tables)
           /\ gold[Table(w)] \in SUBSET GoldRow
<1>1. jobs[w].todo \in Seq(Tables) /\ jobs[w].todo # <<>>
  BY DEF FecTypeOK, Job, Running
<1>2. Table(w) \in Tables /\ Tail(jobs[w].todo) \in Seq(Tables)
  BY <1>1, HeadTailProperties DEF Table
<1> QED
  BY <1>2 DEF FecTypeOK

\* what a gold table enters are identities, and each has a name in it
LEMMA EnteredTyped ==
    ASSUME NEW t \in Tables, gold[t] \in SUBSET GoldRow
    PROVE  /\ Entered(t) \subseteq Identities
           /\ \A i \in Entered(t) : NameIn(t, i) \in Names
<1>1. \A row \in gold[t] : IdentityOf(t, row) \in Identities
  BY DEF IdentityOf, Identities, GoldRow
<1>2. ASSUME NEW i \in Entered(t) PROVE NameIn(t, i) \in Names
  <2>1. \E row \in gold[t] : IdentityOf(t, row) = i
    BY DEF Entered
  <2>2. (CHOOSE row \in gold[t] : IdentityOf(t, row) = i) \in gold[t]
    BY <2>1
  <2> QED
    BY <2>2 DEF NameIn, GoldRow
<1> QED
  BY <1>1, <1>2 DEF Entered

\* the typed insert makes a row of its own hub, or keeps the hub there was
LEMMA UpsertedTyped ==
    ASSUME NEW i \in Identities, NEW old \in TypedRow \cup {NoRow}, NEW name \in Names
    PROVE  /\ UpsertedRow(old, i, name) \in TypedRow
           /\ UpsertedRow(old, i, name).hub = IF old = NoRow THEN i ELSE old.hub
BY DEF UpsertedRow, TypedRow

\* a job for one table is a sequence of tables
LEMMA OneTable == ASSUME NEW S, NEW t \in S PROVE <<t>> \in Seq(S)
OBVIOUS

LEMMA FecInitInd == FecInit => FecInd
<1> SUFFICES ASSUME FecInit PROVE FecInd
  OBVIOUS
<1>1. gold \in [Tables -> SUBSET GoldRow] /\ corrections \in 0..MaxCorrections
  BY FecAssumption DEF FecInit
<1>2. PICK legacy \in SUBSET Identities, n \in Names :
        typed = [i \in Identities |-> IF i \in legacy THEN [name |-> n, hub |-> NoHub] ELSE NoRow]
  BY DEF FecInit
<1>3. typed \in [Identities -> TypedRow \cup {NoRow}]
  BY <1>2 DEF TypedRow
<1>4. \A i \in Identities : typed[i] # NoRow => typed[i].hub = NoHub
  BY <1>2
<1>5. jobs \in [Loaders -> Job]
  BY EmptySeq DEF FecInit, NoJob, Job
<1> QED
  BY <1>1, <1>3, <1>4, <1>5 DEF FecInit, FecInd, FecTypeOK, LinksSound

LEMMA FecNextInd == FecInd /\ [FecNext]_fecVars => FecInd'
<1> SUFFICES ASSUME FecInd, [FecNext]_fecVars PROVE FecInd'
  OBVIOUS
<1> USE DEF FecInd
<1>1. ASSUME NEW w \in Loaders, NEW called \in {"agents", "attestations"},
             NEW todo \in Seq(Tables), Begin(w, called, todo)
      PROVE  FecInd'
  <2>1. [command |-> called, todo |-> todo, stage |-> "agents", whole |-> Len(todo) > 1,
         quiet |-> \A v \in Loaders \ {w} : ~Running(v)] \in Job
    BY DEF Job
  <2> QED
    BY <1>1, <2>1 DEF Begin, FecTypeOK, LinksSound
<1>2. ASSUME NEW w \in Loaders, BeginAgents(w) PROVE FecInd'
  <2>1. PICK todo \in {ORDER} \cup {<<t>> : t \in Tables} : Begin(w, "agents", todo)
    BY <1>2 DEF BeginAgents
  <2>2. todo \in Seq(Tables)
    BY <2>1, FecAssumption, OneTable
  <2> QED
    BY <1>1, <2>1, <2>2
<1>3. ASSUME NEW w \in Loaders, BeginAttestations(w) PROVE FecInd'
  <2>1. PICK todo \in {ATT_ORDER} \cup {<<t>> : t \in AttestedTables} : Begin(w, "attestations", todo)
    BY <1>3 DEF BeginAttestations
  <2>2. AttestedTables \subseteq Tables
    BY FecAssumption DEF AttestedTables, ToSet
  <2>3. todo \in Seq(Tables)
    <3>1. \A t \in AttestedTables : <<t>> \in Seq(Tables)
      BY <2>2, OneTable
    <3> QED
      BY <2>1, <3>1, FecAssumption
  <2> QED
    BY <1>1, <2>1, <2>3
<1>4. ASSUME NEW w \in Loaders
      PROVE  /\ [Disturb(w) EXCEPT ![w].stage = "typed"] \in [Loaders -> Job]
             /\ Running(w) => [Disturb(w) EXCEPT ![w] = NextTable(w)] \in [Loaders -> Job]
  <2>1. Disturb(w) \in [Loaders -> Job]
    BY DEF Disturb, FecTypeOK, Job
  <2>2. Running(w) => NextTable(w) \in Job
    BY TableOfJob DEF NextTable, FecTypeOK, Job
  <2>3. [Disturb(w)[w] EXCEPT !.stage = "typed"] \in Job
    BY <2>1 DEF Job
  <2> QED
    BY <2>1, <2>2, <2>3
<1>5. ASSUME NEW w \in Loaders, InsertAgents(w) PROVE FecInd'
  <2>1. Entered(Table(w)) \subseteq Identities
    BY <1>5, TableOfJob, EnteredTyped DEF InsertAgents
  <2> QED
    BY <1>5, <1>4, <2>1 DEF InsertAgents, FecTypeOK, LinksSound
<1>6. ASSUME NEW w \in Loaders, UpsertTyped(w) PROVE FecInd'
  <2> DEFINE t == Table(w)
  <2>1. /\ Joined(t) \subseteq Identities /\ Joined(t) \subseteq agents
        /\ \A i \in Joined(t) : NameIn(t, i) \in Names
    BY <1>6, TableOfJob, EnteredTyped DEF UpsertTyped, Joined
  <2>2. /\ typed' = [i \in Identities |->
              IF i \in Joined(t) THEN UpsertedRow(typed[i], i, NameIn(t, i)) ELSE typed[i]]
        /\ torn' = torn \ Joined(t)
        /\ jobs' \in [Loaders -> Job]
        /\ UNCHANGED <<gold, corrections, agents, attested, foreign>>
    BY <1>6, <1>4 DEF UpsertTyped
  <2> HIDE DEF t
  <2>3. \A i \in Identities : typed[i] \in TypedRow \cup {NoRow}
    BY DEF FecTypeOK
  <2>4. ASSUME NEW i \in Joined(t)
        PROVE  typed'[i] \in TypedRow /\ typed'[i].hub = IF typed[i] = NoRow THEN i ELSE typed[i].hub
    <3>1. typed'[i] = UpsertedRow(typed[i], i, NameIn(t, i))
      BY <2>1, <2>2
    <3>2. i \in Identities /\ typed[i] \in TypedRow \cup {NoRow} /\ NameIn(t, i) \in Names
      BY <2>1, <2>3
    <3> QED
      BY <3>1, <3>2, UpsertedTyped
  <2>5. \A i \in Identities \ Joined(t) : typed'[i] = typed[i]
    BY <2>2
  <2>6. typed' \in [Identities -> TypedRow \cup {NoRow}]
    BY <2>2, <2>3, <2>4, <2>5
  <2>7. FecTypeOK'
    BY <2>2, <2>6 DEF FecTypeOK
  <2>8. \A i \in Identities : typed'[i] # NoRow => (typed'[i].hub = NoHub \/ (typed'[i].hub = i /\ i \in agents))
    BY <2>1, <2>4, <2>5 DEF LinksSound
  <2>9. NoRow \notin TypedRow
    BY FecAssumption DEF TypedRow
  <2>10. \A i \in agents \ torn' : typed'[i] # NoRow
    BY <2>1, <2>2, <2>4, <2>5, <2>9 DEF LinksSound, FecTypeOK
  <2> QED
    BY <2>2, <2>7, <2>8, <2>10 DEF LinksSound
<1>7. ASSUME NEW w \in Loaders, Attest(w) PROVE FecInd'
  <2>1. Entered(Table(w)) \subseteq Identities /\ Entered(Table(w)) \cap foreign = {}
    BY <1>7, TableOfJob, EnteredTyped DEF Attest, CanonicalFree
  <2> QED
    BY <1>7, <1>4, <2>1 DEF Attest, CanonicalFree, FecTypeOK, LinksSound
<1>8. ASSUME NEW w \in Loaders, Stop(w) PROVE FecInd'
  <2>1. NoJob \in Job
    BY EmptySeq DEF NoJob, Job
  <2> QED
    BY <1>8, <2>1 DEF Stop, FecTypeOK, LinksSound
<1>9. ASSUME NEW t \in Tables, NEW rows \in GoldInputs, Correct(t, rows) PROVE FecInd'
  <2>1. corrections' \in 0..MaxCorrections
    BY <1>9, FecAssumption DEF Correct, FecTypeOK
  <2>2. jobs' \in [Loaders -> Job]
    <3>1. \A w \in Loaders : jobs[w] \in Job
      BY DEF FecTypeOK
    <3>2. \A w \in Loaders : [jobs[w] EXCEPT !.quiet = FALSE] \in Job
      BY <3>1 DEF Job
    <3> QED
      BY <1>9, <3>2 DEF Correct
  <2>3. rows \in SUBSET GoldRow
    BY FecAssumption
  <2> QED
    BY <1>9, <2>1, <2>2, <2>3 DEF Correct, FecTypeOK, LinksSound
<1>10. ASSUME NEW i \in Identities, LinkAgent(i) PROVE FecInd'
  <2>1. typed[i] \in TypedRow /\ i \in agents
    BY <1>10 DEF LinkAgent, FecTypeOK
  <2>2. [typed[i] EXCEPT !.hub = i] \in TypedRow /\ [typed[i] EXCEPT !.hub = i].hub = i
    BY <2>1 DEF TypedRow
  <2>3. /\ typed' = [typed EXCEPT ![i].hub = i]
        /\ UNCHANGED <<gold, corrections, agents, attested, foreign, jobs, torn>>
    BY <1>10 DEF LinkAgent
  <2>4. FecTypeOK'
    BY <2>2, <2>3 DEF FecTypeOK
  <2>5. NoRow \notin TypedRow
    BY FecAssumption DEF TypedRow
  <2> QED
    BY <2>1, <2>2, <2>3, <2>4, <2>5 DEF FecTypeOK, LinksSound
<1>11. CASE UNCHANGED fecVars
  BY <1>11 DEF fecVars, FecTypeOK, LinksSound
<1> QED
  BY <1>2, <1>3, <1>5, <1>6, <1>7, <1>8, <1>9, <1>10, <1>11 DEF FecNext

\* A hub and its typed row agree, whatever loads, corrections and deaths
\* interleave.
THEOREM LinksAlwaysSound == FecSpec => [](FecTypeOK /\ LinksSound)
<1>1. FecInd => FecTypeOK /\ LinksSound
  BY DEF FecInd
<1> QED
  BY <1>1, FecInitInd, FecNextInd, PTL DEF FecSpec

\* Every step of the loads enters identities, links them, or leaves the register alone.
LEMMA StepEnters ==
    FecInd /\ FecInd' /\ [FecNext]_fecVars => [Register!Enter]_<<agents, [i \in Identities |-> HubOf(i)]>>
<1> SUFFICES ASSUME FecInd, FecInd', [FecNext]_fecVars
             PROVE  Register!Enter \/ UNCHANGED <<agents, [i \in Identities |-> HubOf(i)]>>
  OBVIOUS
<1> USE DEF FecInd
<1>1. \A i \in Identities : HubOf(i)' = IF typed'[i] = NoRow THEN NoHub ELSE typed'[i].hub
  BY DEF HubOf
<1>2. [i \in Identities |-> HubOf(i)]' \in [Identities -> Identities \cup {NoHub}]
  BY <1>1 DEF FecTypeOK, TypedRow
<1>3. agents' \subseteq Identities
  BY DEF FecTypeOK
<1>4. ASSUME agents \subseteq agents',
             \A i \in Identities : HubOf(i)' # HubOf(i) => HubOf(i) = NoHub /\ HubOf(i)' = i /\ i \in agents'
      PROVE  Register!Enter
  BY <1>2, <1>3, <1>4 DEF Register!Enter
<1>5. ASSUME UNCHANGED typed, agents \subseteq agents' PROVE Register!Enter
  BY <1>1, <1>4, <1>5 DEF HubOf
<1>6. ASSUME NEW w \in Loaders, UpsertTyped(w) PROVE Register!Enter
  <2> DEFINE t == Table(w)
  <2>1. /\ Joined(t) \subseteq Identities /\ Joined(t) \subseteq agents
        /\ \A i \in Joined(t) : NameIn(t, i) \in Names
    BY <1>6, TableOfJob, EnteredTyped DEF UpsertTyped, Joined
  <2>2. /\ typed' = [i \in Identities |->
              IF i \in Joined(t) THEN UpsertedRow(typed[i], i, NameIn(t, i)) ELSE typed[i]]
        /\ agents' = agents
    BY <1>6 DEF UpsertTyped
  <2> HIDE DEF t
  <2>3. \A i \in Identities : typed[i] \in TypedRow \cup {NoRow}
    BY DEF FecTypeOK
  <2>4. ASSUME NEW i \in Joined(t)
        PROVE  typed'[i] \in TypedRow /\ typed'[i].hub = IF typed[i] = NoRow THEN i ELSE typed[i].hub
    <3>1. typed'[i] = UpsertedRow(typed[i], i, NameIn(t, i))
      BY <2>1, <2>2
    <3>2. i \in Identities /\ typed[i] \in TypedRow \cup {NoRow} /\ NameIn(t, i) \in Names
      BY <2>1, <2>3
    <3> QED
      BY <3>1, <3>2, UpsertedTyped
  <2>5. NoRow \notin TypedRow
    BY FecAssumption DEF TypedRow
  <2>6. \A i \in Identities : HubOf(i)' # HubOf(i) => HubOf(i) = NoHub /\ HubOf(i)' = i /\ i \in agents'
    BY <1>1, <2>1, <2>2, <2>4, <2>5 DEF HubOf
  <2> QED
    BY <1>4, <2>2, <2>6
<1>7. ASSUME NEW i \in Identities, LinkAgent(i) PROVE Register!Enter
  <2>1. /\ i \in agents /\ typed[i] # NoRow /\ typed[i].hub = NoHub /\ agents' = agents
        /\ typed' = [typed EXCEPT ![i].hub = i]
    BY <1>7 DEF LinkAgent
  <2>2. typed[i] \in TypedRow
    BY <2>1 DEF FecTypeOK
  <2>3. NoRow \notin TypedRow /\ [typed[i] EXCEPT !.hub = i] \in TypedRow
    BY <2>2, FecAssumption DEF TypedRow
  <2>4. typed'[i].hub = i /\ typed'[i] # NoRow /\ \A j \in Identities \ {i} : typed'[j] = typed[j]
    BY <2>1, <2>2, <2>3 DEF FecTypeOK, TypedRow
  <2>5. \A j \in Identities : HubOf(j)' # HubOf(j) => HubOf(j) = NoHub /\ HubOf(j)' = j /\ j \in agents'
    BY <1>1, <2>1, <2>4 DEF HubOf
  <2> QED
    BY <1>4, <2>1, <2>5
<1>8. ASSUME NEW w \in Loaders,
             BeginAgents(w) \/ BeginAttestations(w) \/ InsertAgents(w) \/ Attest(w) \/ Stop(w)
      PROVE  UNCHANGED typed /\ agents \subseteq agents'
  BY <1>8 DEF BeginAgents, BeginAttestations, Begin, InsertAgents, Attest, Stop
<1>9. ASSUME NEW t \in Tables, NEW rows \in GoldInputs, Correct(t, rows)
      PROVE  UNCHANGED typed /\ agents \subseteq agents'
  BY <1>9 DEF Correct
<1>10. CASE UNCHANGED fecVars
  BY <1>5, <1>10 DEF fecVars
<1> QED
  BY <1>5, <1>6, <1>7, <1>8, <1>9, <1>10 DEF FecNext

\* "Immutable once assigned": the loads implement the register of identities,
\* which only grows.
THEOREM IdentityIsImmutable == FecSpec => ImmutableIdentity
<1>1. FecInit => Register!RegisterInit
  <2> SUFFICES ASSUME FecInit PROVE Register!RegisterInit
    OBVIOUS
  <2>1. PICK legacy \in SUBSET Identities, n \in Names :
          typed = [i \in Identities |-> IF i \in legacy THEN [name |-> n, hub |-> NoHub] ELSE NoRow]
    BY DEF FecInit
  <2>2. \A i \in Identities : HubOf(i) = NoHub
    BY <2>1 DEF HubOf
  <2> QED
    BY <2>2 DEF FecInit, Register!RegisterInit
<1>2. FecInd /\ FecInd' /\ [FecNext]_fecVars => [Register!Enter]_<<agents, [i \in Identities |-> HubOf(i)]>>
  BY StepEnters
<1> QED
  BY <1>1, <1>2, FecInitInd, FecNextInd, PTL DEF FecSpec, ImmutableIdentity, Register!RegisterSpec

-----------------------------------------------------------------------------
(***************************************************************************)
(* FecLoad: what a full load that nothing interferes with comes to, for any *)
(* order of the tables and any gold, loaders, corrections and links between. *)
(***************************************************************************)

OrderOf(called) == IF called = "agents" THEN ORDER ELSE ATT_ORDER

\* Place n of an order is the last before place m whose table has the id.
LastBefore(n, m, i) ==
    /\ n \in 1..(m - 1) /\ i \in Entered(ORDER[n])
    /\ \A k \in (n + 1)..(m - 1) : i \notin Entered(ORDER[k])

\* What the tables before place m have given the register.
LoadedBefore(m) ==
    \A k \in 1..(m - 1) : \A i \in Entered(ORDER[k]) :
        /\ i \in agents /\ typed[i] # NoRow
        /\ \E n \in 1..(m - 1) : LastBefore(n, m, i) /\ typed[i].name = NameIn(ORDER[n], i)

AttestedBefore(m) == \A k \in 1..(m - 1) : Entered(ATT_ORDER[k]) \subseteq attested

\* A job by itself for all tables has come to a place, and everything before it
\* is done.
AtTable(job, m) ==
    LET order == OrderOf(job.command) IN
    /\ m \in 1..Len(order) /\ Len(job.todo) = Len(order) - m + 1
    /\ \A k \in 1..Len(job.todo) : job.todo[k] = order[m - 1 + k]
    /\ IF job.command = "agents"
       THEN LoadedBefore(m) /\ (job.stage = "typed" => Entered(ORDER[m]) \subseteq agents)
       ELSE AttestedBefore(m)

WholeJobs ==
    \A w \in Loaders : jobs[w].todo # <<>> /\ jobs[w].quiet /\ jobs[w].whole =>
        jobs[w].command # "none" /\ \E m \in Nat : AtTable(jobs[w], m)

\* While gold stays, so do the places of an id.
LEMMA SamePlaces ==
    ASSUME gold' = gold, NEW m
    PROVE  LoadedBefore(m)' <=>
             \A k \in 1..(m - 1) : \A i \in Entered(ORDER[k]) :
                 /\ i \in agents' /\ typed'[i] # NoRow
                 /\ \E n \in 1..(m - 1) : LastBefore(n, m, i) /\ typed'[i].name = NameIn(ORDER[n], i)
<1>1. /\ \A t : Entered(t)' = Entered(t)
      /\ \A t, i : NameIn(t, i)' = NameIn(t, i)
  BY DEF Entered, NameIn
<1>2. \A n, i : LastBefore(n, m, i)' <=> LastBefore(n, m, i)
  BY <1>1 DEF LastBefore
<1> QED
  BY <1>1, <1>2 DEF LoadedBefore

LEMMA OrdersTyped ==
    ASSUME NEW called
    PROVE  /\ OrderOf(called) \in Seq(Tables) /\ Len(OrderOf(called)) \in Nat
           /\ \A k \in 1..Len(OrderOf(called)) : OrderOf(called)[k] \in Tables
<1>1. OrderOf(called) \in Seq(Tables)
  BY FecAssumption DEF OrderOf
<1> QED
  BY <1>1, ElementOfSeq

\* The table a job is at is the one in its place of the order.
LEMMA PlaceOfJob ==
    ASSUME FecInd, NEW w \in Loaders, Running(w), NEW m \in Nat, AtTable(jobs[w], m)
    PROVE  Table(w) = OrderOf(jobs[w].command)[m] /\ Table(w) \in Tables
<1>1. jobs[w].todo \in Seq(Tables) /\ jobs[w].todo # <<>>
  BY DEF FecInd, FecTypeOK, Job, Running
<1>2. Head(jobs[w].todo) = jobs[w].todo[1] /\ Len(jobs[w].todo) \in Nat /\ Len(jobs[w].todo) > 0
  BY <1>1, EmptySeq
<1>3. jobs[w].todo[1] = OrderOf(jobs[w].command)[m - 1 + 1]
  BY <1>2 DEF AtTable
<1> QED
  BY <1>2, <1>3, TableOfJob DEF Table, FecInd

\* The rest of a job is the order from the next place on.
LEMMA NextPlace ==
    ASSUME FecInd, NEW w \in Loaders, Running(w), NEW m \in Nat, AtTable(jobs[w], m)
    PROVE  LET order == OrderOf(jobs[w].command) IN
           /\ Len(Tail(jobs[w].todo)) = Len(order) - (m + 1) + 1
           /\ \A k \in 1..Len(Tail(jobs[w].todo)) : Tail(jobs[w].todo)[k] = order[m + 1 - 1 + k]
           /\ Tail(jobs[w].todo) # <<>> => m + 1 \in 1..Len(order)
           /\ Tail(jobs[w].todo) = <<>> => m = Len(order)
<1> DEFINE order == OrderOf(jobs[w].command)
<1>1. PICK todo : todo = jobs[w].todo
  OBVIOUS
<1>2. todo \in Seq(Tables) /\ todo # <<>>
  BY <1>1 DEF FecInd, FecTypeOK, Job, Running
<1>3. /\ Tail(todo) \in Seq(Tables) /\ Len(Tail(todo)) = Len(todo) - 1
      /\ \A k \in 1..Len(Tail(todo)) : Tail(todo)[k] = todo[k + 1]
  BY <1>2, HeadTailProperties
<1>4. /\ m \in 1..Len(order) /\ Len(todo) = Len(order) - m + 1 /\ Len(order) \in Nat
      /\ \A k \in 1..Len(todo) : todo[k] = order[m - 1 + k]
  BY <1>1, OrdersTyped DEF AtTable
<1>5. Len(Tail(todo)) = Len(order) - (m + 1) + 1 /\ Len(Tail(todo)) \in Nat
  BY <1>3, <1>4
<1>6. ASSUME NEW k \in 1..Len(Tail(todo)) PROVE Tail(todo)[k] = order[m + 1 - 1 + k]
  <2>1. k + 1 \in 1..Len(todo) /\ Tail(todo)[k] = todo[k + 1]
    BY <1>3, <1>4
  <2>2. todo[k + 1] = order[m - 1 + (k + 1)] /\ m - 1 + (k + 1) = m + 1 - 1 + k
    BY <1>4, <2>1
  <2> QED
    BY <2>1, <2>2
<1>7. Tail(todo) # <<>> <=> Len(Tail(todo)) > 0
  BY <1>3, <1>5, EmptySeq
<1> QED
  BY <1>1, <1>4, <1>5, <1>6, <1>7

LEMMA UpsertedNamed ==
    ASSUME NEW i \in Identities, NEW old \in TypedRow \cup {NoRow}, NEW name \in Names
    PROVE  UpsertedRow(old, i, name).name = name /\ UpsertedRow(old, i, name) # NoRow
<1>1. UpsertedRow(old, i, name).name = name /\ UpsertedRow(old, i, name) \in TypedRow
  BY DEF UpsertedRow, TypedRow
<1> QED
  BY <1>1, FecAssumption DEF TypedRow

\* The second statement of a table gives all its identities a row of its name.
LEMMA UpsertLoads ==
    ASSUME FecInd, NEW w \in Loaders, UpsertTyped(w), NEW m \in Nat, AtTable(jobs[w], m)
    PROVE  LoadedBefore(m + 1)'
<1>1. /\ Running(w) /\ jobs[w].command = "agents" /\ jobs[w].stage = "typed"
      /\ gold' = gold /\ agents' = agents
  BY DEF UpsertTyped
<1>2. PICK t : t = Table(w)
  OBVIOUS
<1>3. t = ORDER[m] /\ t \in Tables /\ m \in 1..Len(ORDER)
  BY <1>1, <1>2, PlaceOfJob DEF OrderOf, AtTable
<1>4. LoadedBefore(m) /\ Entered(t) \subseteq agents
  BY <1>1, <1>3 DEF AtTable
<1>5. Joined(t) = Entered(t)
  BY <1>4 DEF Joined
<1>6. typed' = [i \in Identities |->
          IF i \in Entered(t) THEN UpsertedRow(typed[i], i, NameIn(t, i)) ELSE typed[i]]
  BY <1>2, <1>5 DEF UpsertTyped
<1>7. gold[t] \in SUBSET GoldRow
  BY <1>3 DEF FecInd, FecTypeOK
<1>8. Entered(t) \subseteq Identities /\ \A i \in Entered(t) : NameIn(t, i) \in Names
  BY <1>3, <1>7, EnteredTyped
<1>9. \A i \in Entered(t) : typed'[i].name = NameIn(t, i) /\ typed'[i] # NoRow
  <2> SUFFICES ASSUME NEW i \in Entered(t) PROVE typed'[i].name = NameIn(t, i) /\ typed'[i] # NoRow
    OBVIOUS
  <2>1. i \in Identities /\ NameIn(t, i) \in Names /\ typed[i] \in TypedRow \cup {NoRow}
    BY <1>8 DEF FecInd, FecTypeOK
  <2>2. typed'[i] = UpsertedRow(typed[i], i, NameIn(t, i))
    BY <1>6, <2>1
  <2> QED
    BY <2>1, <2>2, UpsertedNamed
<1>10. ASSUME NEW k \in 1..m, NEW i \in Entered(ORDER[k])
       PROVE  /\ i \in agents /\ typed'[i] # NoRow
              /\ \E n \in 1..m : LastBefore(n, m + 1, i) /\ typed'[i].name = NameIn(ORDER[n], i)
  <2>1. CASE i \in Entered(t)
    <3>1. LastBefore(m, m + 1, i)
      BY <1>3, <2>1 DEF LastBefore
    <3> QED
      BY <1>3, <1>4, <1>9, <2>1, <3>1
  <2>2. CASE i \notin Entered(t)
    <3>1. k \in 1..(m - 1)
      BY <1>3, <1>10, <2>2
    <3>2. PICK n \in 1..(m - 1) : LastBefore(n, m, i) /\ typed[i].name = NameIn(ORDER[n], i)
      BY <1>4, <3>1 DEF LoadedBefore
    <3>3. i \in agents /\ typed[i] # NoRow
      BY <1>4, <3>1 DEF LoadedBefore
    <3>4. i \in Identities
      BY <3>3 DEF FecInd, FecTypeOK
    <3>5. typed'[i] = typed[i]
      BY <1>6, <2>2, <3>4
    <3>6. LastBefore(n, m + 1, i)
      <4>1. \A j \in (n + 1)..(m + 1 - 1) : j \in (n + 1)..(m - 1) \/ j = m
        OBVIOUS
      <4> QED
        BY <1>3, <2>2, <3>2, <4>1 DEF LastBefore
    <3>7. n \in 1..m
      OBVIOUS
    <3> QED
      BY <3>2, <3>3, <3>5, <3>6, <3>7
  <2> QED
    BY <2>1, <2>2
<1>11. m + 1 - 1 = m
  OBVIOUS
<1>12. \A k \in 1..(m + 1 - 1) : \A i \in Entered(ORDER[k]) :
         /\ i \in agents' /\ typed'[i] # NoRow
         /\ \E n \in 1..(m + 1 - 1) : LastBefore(n, m + 1, i) /\ typed'[i].name = NameIn(ORDER[n], i)
  BY <1>1, <1>10, <1>11
<1> QED
  BY <1>1, <1>12, SamePlaces

LEMMA AttestsNext ==
    ASSUME FecInd, NEW w \in Loaders, Attest(w), NEW m \in Nat, AtTable(jobs[w], m)
    PROVE  AttestedBefore(m + 1)'
<1>1. Running(w) /\ jobs[w].command = "attestations" /\ gold' = gold
  BY DEF Attest
<1>2. Table(w) = ATT_ORDER[m] /\ m \in 1..Len(ATT_ORDER)
  BY <1>1, PlaceOfJob DEF OrderOf, AtTable
<1>3. AttestedBefore(m)
  BY <1>1 DEF AtTable
<1>4. attested' = attested \cup Entered(ATT_ORDER[m])
  BY <1>2 DEF Attest
<1>5. \A k \in 1..m : Entered(ATT_ORDER[k]) \subseteq attested'
  BY <1>2, <1>3, <1>4 DEF AttestedBefore
<1>6. m + 1 - 1 = m
  OBVIOUS
<1> QED
  BY <1>1, <1>5, <1>6 DEF AttestedBefore, Entered

\* What a job by itself has done stays done while the register only grows.
LEMMA PlaceStays ==
    ASSUME FecInd, FecInd', NEW w \in Loaders, NEW m \in Nat, AtTable(jobs[w], m),
           jobs'[w] = jobs[w], gold' = gold, agents \subseteq agents', attested \subseteq attested',
           \A i \in Identities : typed[i] # NoRow => typed'[i] # NoRow /\ typed'[i].name = typed[i].name
    PROVE  AtTable(jobs[w], m)'
<1>1. LoadedBefore(m) => LoadedBefore(m)'
  <2> SUFFICES ASSUME LoadedBefore(m) PROVE LoadedBefore(m)'
    OBVIOUS
  <2>1. ASSUME NEW k \in 1..(m - 1), NEW i \in Entered(ORDER[k])
        PROVE  /\ i \in agents' /\ typed'[i] # NoRow
               /\ \E n \in 1..(m - 1) : LastBefore(n, m, i) /\ typed'[i].name = NameIn(ORDER[n], i)
    <3>1. /\ i \in agents /\ typed[i] # NoRow
          /\ \E n \in 1..(m - 1) : LastBefore(n, m, i) /\ typed[i].name = NameIn(ORDER[n], i)
      BY DEF LoadedBefore
    <3>2. i \in Identities
      BY <3>1 DEF FecInd, FecTypeOK
    <3> QED
      BY <3>1, <3>2
  <2> QED
    BY <2>1, SamePlaces
<1>2. AttestedBefore(m) => AttestedBefore(m)'
  BY DEF AttestedBefore, Entered
<1>3. jobs[w].stage = "typed" /\ Entered(ORDER[m]) \subseteq agents => (Entered(ORDER[m]) \subseteq agents)'
  BY DEF Entered
<1> QED
  BY <1>1, <1>2, <1>3 DEF AtTable

LEMMA WholeStart == FecInit => WholeJobs
BY DEF FecInit, WholeJobs, NoJob

\* A step that does not touch a job, or takes its quiet away.
LEMMA OthersStay ==
    ASSUME FecInd, FecInd', WholeJobs, NEW w \in Loaders,
           jobs'[w] = jobs[w] \/ ~jobs'[w].quiet, gold' = gold \/ ~jobs'[w].quiet,
           agents \subseteq agents' /\ attested \subseteq attested',
           \/ ~jobs'[w].quiet
           \/ \A i \in Identities : typed[i] # NoRow => typed'[i] # NoRow /\ typed'[i].name = typed[i].name
    PROVE  jobs'[w].todo # <<>> /\ jobs'[w].quiet /\ jobs'[w].whole =>
              jobs'[w].command # "none" /\ \E m \in Nat : AtTable(jobs[w], m)'
<1> SUFFICES ASSUME jobs'[w].todo # <<>>, jobs'[w].quiet, jobs'[w].whole
             PROVE  jobs'[w].command # "none" /\ \E m \in Nat : AtTable(jobs[w], m)'
  OBVIOUS
<1>1. jobs'[w] = jobs[w]
  OBVIOUS
<1>2. jobs[w].command # "none" /\ \E m \in Nat : AtTable(jobs[w], m)
  BY <1>1 DEF WholeJobs
<1> QED
  BY <1>1, <1>2, PlaceStays

LEMMA AttestedAreTables == AttestedTables \subseteq Tables
<1> SUFFICES ASSUME NEW k \in DOMAIN ATT_ORDER PROVE ATT_ORDER[k] \in Tables
  BY DEF AttestedTables, ToSet
<1> QED
  BY FecAssumption, ElementOfSeq

\* A link by hand is no new name.
LEMMA LinkRenamesNone ==
    ASSUME FecInd, NEW i \in Identities, LinkAgent(i), NEW j \in Identities, typed[j] # NoRow
    PROVE  typed'[j] # NoRow /\ typed'[j].name = typed[j].name
<1>1. typed' = [typed EXCEPT ![i].hub = i] /\ typed[i] \in TypedRow /\ DOMAIN typed = Identities
  BY DEF LinkAgent, FecInd, FecTypeOK
<1>2. CASE j = i
  <2>1. PICK new : new = [typed[i] EXCEPT !.hub = i]
    OBVIOUS
  <2>2. new \in TypedRow /\ new.name = typed[i].name
    BY <1>1, <2>1 DEF TypedRow
  <2>3. typed'[i] = new
    BY <1>1, <2>1
  <2> QED
    BY <1>2, <2>2, <2>3, FecAssumption DEF TypedRow
<1>3. CASE j # i
  BY <1>1, <1>3
<1> QED
  BY <1>2, <1>3

\* Only the last statement of a job leaves it through and in quiet.
LEMMA Finishers ==
    ASSUME FecInd, FecNext, NEW w \in Loaders, Running(w), jobs'[w].todo = <<>>, jobs'[w].quiet
    PROVE  UpsertTyped(w) \/ Attest(w)
<1>0. jobs \in [Loaders -> Job] /\ jobs[w].todo # <<>>
  BY DEF FecInd, FecTypeOK, Running
<1>1. ASSUME NEW v \in Loaders \ {w} PROVE Disturb(v)[w].quiet = FALSE
  BY <1>0 DEF Disturb, Job
<1>2. ASSUME NEW v \in Loaders, UpsertTyped(v) \/ Attest(v), v # w PROVE FALSE
  <2>1. jobs' = [Disturb(v) EXCEPT ![v] = NextTable(v)]
    BY <1>2 DEF UpsertTyped, Attest
  <2>2. DOMAIN Disturb(v) = Loaders
    BY DEF Disturb
  <2> QED
    BY <1>1, <1>2, <2>1, <2>2
<1>3. ASSUME NEW v \in Loaders, InsertAgents(v) PROVE FALSE
  <2>1. jobs' = [Disturb(v) EXCEPT ![v].stage = "typed"] /\ DOMAIN Disturb(v) = Loaders
    BY <1>3 DEF InsertAgents, Disturb
  <2>2. CASE v = w
    <3>1. Disturb(v)[w] = jobs[w]
      BY <2>2 DEF Disturb
    <3>2. jobs'[w] = [jobs[w] EXCEPT !.stage = "typed"]
      BY <2>1, <2>2, <3>1
    <3> QED
      BY <1>0, <3>2 DEF Job
  <2>3. CASE v # w
    <3>1. jobs'[w] = Disturb(v)[w]
      BY <2>1, <2>3
    <3> QED
      BY <1>1, <2>3, <3>1
  <2> QED
    BY <2>2, <2>3
<1>4. ASSUME NEW v \in Loaders, NEW called, NEW todo, Begin(v, called, todo) PROVE FALSE
  BY <1>0, <1>4 DEF Begin, Running
<1>5. ASSUME NEW v \in Loaders, Stop(v) PROVE FALSE
  BY <1>0, <1>5 DEF Stop, NoJob
<1>6. ASSUME NEW t \in Tables, NEW rows \in GoldInputs, Correct(t, rows) PROVE FALSE
  BY <1>0, <1>6 DEF Correct, Job
<1>7. ASSUME NEW i \in Identities, LinkAgent(i) PROVE FALSE
  BY <1>0, <1>7 DEF LinkAgent
<1> QED
  BY <1>2, <1>3, <1>4, <1>5, <1>6, <1>7 DEF FecNext, BeginAgents, BeginAttestations

\* A job that begins is at the first place.
LEMMA BeginsWhole ==
    ASSUME FecInd, NEW w \in Loaders, NEW called \in {"agents", "attestations"}, NEW todo \in Seq(Tables),
           Begin(w, called, todo), todo = OrderOf(called) \/ Len(todo) <= 1
    PROVE  jobs'[w].todo # <<>> /\ jobs'[w].quiet /\ jobs'[w].whole =>
              jobs'[w].command # "none" /\ AtTable(jobs[w], 1)'
<1> SUFFICES ASSUME jobs'[w].todo # <<>>, jobs'[w].whole
             PROVE  jobs'[w].command # "none" /\ AtTable(jobs[w], 1)'
  OBVIOUS
<1>1. PICK new : new = [command |-> called, todo |-> todo, stage |-> "agents", whole |-> Len(todo) > 1,
                        quiet |-> \A v \in Loaders \ {w} : ~Running(v)]
  OBVIOUS
<1>2. jobs'[w] = new
  BY <1>1 DEF Begin, FecInd, FecTypeOK
<1>3. new.command = called /\ new.todo = todo /\ new.stage = "agents" /\ (new.whole = (Len(todo) > 1))
  BY <1>1
<1>4. todo = OrderOf(called) /\ Len(todo) > 1 /\ Len(todo) \in Nat
  <2>1. Len(todo) > 1
    BY <1>2, <1>3
  <2>2. Len(todo) \in Nat
    OBVIOUS
  <2> QED
    BY <2>1, <2>2
<1>5. 1 \in 1..Len(OrderOf(called)) /\ Len(new.todo) = Len(OrderOf(called)) - 1 + 1
  BY <1>3, <1>4
<1>6. \A k \in 1..Len(new.todo) : new.todo[k] = OrderOf(called)[1 - 1 + k]
  BY <1>3, <1>4
<1>7. LoadedBefore(1)' /\ AttestedBefore(1)'
  BY DEF LoadedBefore, AttestedBefore
<1> QED
  BY <1>2, <1>3, <1>5, <1>6, <1>7 DEF AtTable, OrderOf

\* A statement of a job leaves no other job by itself.
LEMMA Disturbed ==
    ASSUME FecInd, NEW w \in Loaders, NEW new \in Job, jobs' = [Disturb(w) EXCEPT ![w] = new]
    PROVE  jobs'[w] = new /\ \A v \in Loaders \ {w} : ~jobs'[v].quiet
<1>1. \A v \in Loaders \ {w} : Disturb(w)[v].quiet = FALSE
  BY DEF Disturb, FecInd, FecTypeOK, Job
<1>2. DOMAIN Disturb(w) = Loaders
  BY DEF Disturb
<1> QED
  BY <1>1, <1>2

\* A step of one job, after which it is at a place or through.
LEMMA JobMoves ==
    ASSUME FecInd, FecInd', WholeJobs, NEW w \in Loaders, NEW new \in Job,
           jobs' = [Disturb(w) EXCEPT ![w] = new],
           agents \subseteq agents', attested \subseteq attested',
           new.todo # <<>> /\ new.quiet /\ new.whole =>
               new.command # "none" /\ \E m \in Nat : AtTable(jobs[w], m)'
    PROVE  WholeJobs'
<1>1. jobs'[w] = new /\ \A v \in Loaders \ {w} : ~jobs'[v].quiet
  BY Disturbed
<1> QED
  BY <1>1 DEF WholeJobs

LEMMA InsertMoves ==
    ASSUME FecInd, FecInd', WholeJobs, NEW w \in Loaders, InsertAgents(w)
    PROVE  WholeJobs'
<1>1. /\ Running(w) /\ jobs[w].command = "agents" /\ jobs[w] \in Job
      /\ gold' = gold /\ typed' = typed /\ attested' = attested
      /\ agents' = agents \cup Entered(Table(w))
  BY DEF InsertAgents, FecInd, FecTypeOK
<1>2. PICK new : new = [jobs[w] EXCEPT !.stage = "typed"]
  OBVIOUS
<1>3. /\ new \in Job /\ new.command = jobs[w].command /\ new.todo = jobs[w].todo
      /\ new.whole = jobs[w].whole /\ new.quiet = jobs[w].quiet
  BY <1>1, <1>2 DEF Job
<1>4. Disturb(w)[w] = jobs[w]
  BY DEF Disturb
<1>5. jobs' = [Disturb(w) EXCEPT ![w] = new]
  BY <1>2, <1>4 DEF InsertAgents
<1>6. jobs'[w] = new
  BY <1>3, <1>5, Disturbed
<1>7. ASSUME new.todo # <<>>, new.quiet, new.whole PROVE \E m \in Nat : AtTable(jobs[w], m)'
  <2>1. PICK m \in Nat : AtTable(jobs[w], m)
    BY <1>3, <1>7 DEF WholeJobs
  <2>2. Table(w) = ORDER[m]
    BY <1>1, <2>1, PlaceOfJob DEF OrderOf
  <2>3. Entered(ORDER[m]) \subseteq agents'
    BY <1>1, <2>2
  <2>4. LoadedBefore(m)
    BY <1>1, <2>1 DEF AtTable
  <2>5. LoadedBefore(m)'
    <3>1. agents \subseteq agents'
      BY <1>1
    <3>2. \A k \in 1..(m - 1) : \A i \in Entered(ORDER[k]) :
            /\ i \in agents' /\ typed'[i] # NoRow
            /\ \E n \in 1..(m - 1) : LastBefore(n, m, i) /\ typed'[i].name = NameIn(ORDER[n], i)
      BY <1>1, <2>4, <3>1 DEF LoadedBefore
    <3> QED
      BY <1>1, <3>2, SamePlaces
  <2>6. /\ m \in 1..Len(ORDER) /\ Len(jobs[w].todo) = Len(ORDER) - m + 1
        /\ \A k \in 1..Len(jobs[w].todo) : jobs[w].todo[k] = ORDER[m - 1 + k]
    BY <1>1, <2>1 DEF AtTable, OrderOf
  <2>7. (Entered(ORDER[m]) \subseteq agents)'
    BY <1>1, <2>3 DEF Entered
  <2>8. jobs'[w].todo = jobs[w].todo /\ jobs'[w].command = "agents"
    BY <1>1, <1>3, <1>6
  <2>9. AtTable(jobs[w], m)'
    BY <2>5, <2>6, <2>7, <2>8 DEF AtTable, OrderOf
  <2> QED
    BY <2>9
<1> QED
  BY <1>1, <1>3, <1>5, <1>7, JobMoves

\* A job that is through with a table.
LEMMA TableDone ==
    ASSUME FecInd, NEW w \in Loaders, Running(w), jobs' = [Disturb(w) EXCEPT ![w] = NextTable(w)]
    PROVE  /\ NextTable(w) \in Job /\ jobs'[w] = NextTable(w)
           /\ jobs'[w].command = jobs[w].command /\ jobs'[w].todo = Tail(jobs[w].todo)
           /\ jobs'[w].stage = "agents"
           /\ jobs'[w].whole = jobs[w].whole /\ jobs'[w].quiet = jobs[w].quiet
<1>1. PICK todo, new : todo = jobs[w].todo /\ new = NextTable(w)
  OBVIOUS
<1>2. jobs[w] \in Job /\ todo \in Seq(Tables) /\ todo # <<>>
  BY <1>1 DEF Running, FecInd, FecTypeOK, Job
<1>3. Tail(todo) \in Seq(Tables)
  BY <1>2, HeadTailProperties
<1>4. new = [jobs[w] EXCEPT !.todo = Tail(todo), !.stage = "agents"]
  BY <1>1 DEF NextTable
<1>5. new \in Job
  BY <1>2, <1>3, <1>4 DEF Job
<1>6. /\ new.command = jobs[w].command /\ new.todo = Tail(todo) /\ new.stage = "agents"
      /\ new.whole = jobs[w].whole /\ new.quiet = jobs[w].quiet
  BY <1>2, <1>4 DEF Job
<1>7. jobs'[w] = new
  BY <1>1, <1>5, Disturbed
<1> QED
  BY <1>1, <1>5, <1>6, <1>7

LEMMA UpsertMoves ==
    ASSUME FecInd, FecInd', WholeJobs, NEW w \in Loaders, UpsertTyped(w)
    PROVE  WholeJobs'
<1>1. /\ Running(w) /\ jobs[w].command = "agents"
      /\ agents' = agents /\ attested' = attested
      /\ jobs' = [Disturb(w) EXCEPT ![w] = NextTable(w)]
  BY DEF UpsertTyped
<1>2. /\ NextTable(w) \in Job /\ jobs'[w] = NextTable(w)
      /\ jobs'[w].command = "agents" /\ jobs'[w].todo = Tail(jobs[w].todo)
      /\ jobs'[w].stage = "agents"
      /\ jobs'[w].whole = jobs[w].whole /\ jobs'[w].quiet = jobs[w].quiet
  BY <1>1, TableDone
<1>3. ASSUME jobs'[w].todo # <<>>, jobs'[w].quiet, jobs'[w].whole
      PROVE  \E m \in Nat : AtTable(jobs[w], m)'
  <2>1. PICK m \in Nat : AtTable(jobs[w], m)
    BY <1>1, <1>2, <1>3 DEF WholeJobs, Running
  <2>2. LoadedBefore(m + 1)'
    BY <2>1, UpsertLoads
  <2>3. /\ Len(Tail(jobs[w].todo)) = Len(ORDER) - (m + 1) + 1
        /\ \A k \in 1..Len(Tail(jobs[w].todo)) : Tail(jobs[w].todo)[k] = ORDER[m + 1 - 1 + k]
        /\ m + 1 \in 1..Len(ORDER)
    BY <1>1, <1>2, <1>3, <2>1, NextPlace DEF OrderOf
  <2>4. AtTable(jobs[w], m + 1)'
    BY <1>2, <2>2, <2>3 DEF AtTable, OrderOf
  <2> QED
    BY <2>4
<1> QED
  BY <1>1, <1>2, <1>3, JobMoves

LEMMA AttestMoves ==
    ASSUME FecInd, FecInd', WholeJobs, NEW w \in Loaders, Attest(w)
    PROVE  WholeJobs'
<1>1. /\ Running(w) /\ jobs[w].command = "attestations"
      /\ agents' = agents /\ attested \subseteq attested'
      /\ jobs' = [Disturb(w) EXCEPT ![w] = NextTable(w)]
  BY DEF Attest
<1>2. /\ NextTable(w) \in Job /\ jobs'[w] = NextTable(w)
      /\ jobs'[w].command = "attestations" /\ jobs'[w].todo = Tail(jobs[w].todo)
      /\ jobs'[w].whole = jobs[w].whole /\ jobs'[w].quiet = jobs[w].quiet
  BY <1>1, TableDone
<1>3. ASSUME jobs'[w].todo # <<>>, jobs'[w].quiet, jobs'[w].whole
      PROVE  \E m \in Nat : AtTable(jobs[w], m)'
  <2>1. PICK m \in Nat : AtTable(jobs[w], m)
    BY <1>1, <1>2, <1>3 DEF WholeJobs, Running
  <2>2. AttestedBefore(m + 1)'
    BY <2>1, AttestsNext
  <2>3. /\ Len(Tail(jobs[w].todo)) = Len(ATT_ORDER) - (m + 1) + 1
        /\ \A k \in 1..Len(Tail(jobs[w].todo)) : Tail(jobs[w].todo)[k] = ATT_ORDER[m + 1 - 1 + k]
        /\ m + 1 \in 1..Len(ATT_ORDER)
    BY <1>1, <1>2, <1>3, <2>1, NextPlace DEF OrderOf
  <2>4. AtTable(jobs[w], m + 1)'
    BY <1>2, <2>2, <2>3 DEF AtTable, OrderOf
  <2> QED
    BY <2>4
<1> QED
  BY <1>1, <1>2, <1>3, JobMoves

LEMMA BeginMoves ==
    ASSUME FecInd, FecInd', WholeJobs, NEW w \in Loaders,
           NEW called \in {"agents", "attestations"}, NEW todo \in Seq(Tables),
           Begin(w, called, todo), todo = OrderOf(called) \/ Len(todo) <= 1
    PROVE  WholeJobs'
<1>1. \A v \in Loaders \ {w} : jobs'[v] = jobs[v]
  BY DEF Begin, FecInd, FecTypeOK
<1>2. UNCHANGED <<gold, agents, typed, attested>>
  BY DEF Begin
<1>3. ASSUME NEW v \in Loaders \ {w}
      PROVE  jobs'[v].todo # <<>> /\ jobs'[v].quiet /\ jobs'[v].whole =>
               jobs'[v].command # "none" /\ \E m \in Nat : AtTable(jobs[v], m)'
  BY <1>1, <1>2, OthersStay
<1>4. jobs'[w].todo # <<>> /\ jobs'[w].quiet /\ jobs'[w].whole =>
        jobs'[w].command # "none" /\ AtTable(jobs[w], 1)'
  BY BeginsWhole
<1> QED
  BY <1>3, <1>4 DEF WholeJobs

LEMMA WholeSteps == FecInd /\ FecInd' /\ WholeJobs /\ [FecNext]_fecVars => WholeJobs'
<1> SUFFICES ASSUME FecInd, FecInd', WholeJobs, [FecNext]_fecVars PROVE WholeJobs'
  OBVIOUS
<1>1. ASSUME NEW w \in Loaders, BeginAgents(w) PROVE WholeJobs'
  <2>1. PICK todo \in {ORDER} \cup {<<t>> : t \in Tables} : Begin(w, "agents", todo)
    BY <1>1 DEF BeginAgents
  <2>2. todo \in Seq(Tables) /\ (todo = OrderOf("agents") \/ Len(todo) <= 1)
    <3>1. \A t \in Tables : <<t>> \in Seq(Tables) /\ Len(<<t>>) <= 1
      BY OneTable
    <3>2. ORDER \in Seq(Tables) /\ ORDER = OrderOf("agents")
      BY FecAssumption DEF OrderOf
    <3> QED
      BY <3>1, <3>2
  <2> QED
    BY <2>1, <2>2, BeginMoves
<1>2. ASSUME NEW w \in Loaders, BeginAttestations(w) PROVE WholeJobs'
  <2>1. PICK todo \in {ATT_ORDER} \cup {<<t>> : t \in AttestedTables} : Begin(w, "attestations", todo)
    BY <1>2 DEF BeginAttestations
  <2>2. AttestedTables \subseteq Tables
    BY AttestedAreTables
  <2>3. todo \in Seq(Tables) /\ (todo = OrderOf("attestations") \/ Len(todo) <= 1)
    <3>1. \A t \in Tables : <<t>> \in Seq(Tables) /\ Len(<<t>>) <= 1
      BY OneTable
    <3>2. ATT_ORDER \in Seq(Tables) /\ ATT_ORDER = OrderOf("attestations")
      BY FecAssumption DEF OrderOf
    <3> QED
      BY <2>2, <3>1, <3>2
  <2> QED
    BY <2>1, <2>3, BeginMoves
<1>3. ASSUME NEW w \in Loaders, Stop(w) PROVE WholeJobs'
  <2>1. /\ jobs'[w] = NoJob /\ \A v \in Loaders \ {w} : jobs'[v] = jobs[v]
        /\ UNCHANGED <<gold, agents, typed, attested>>
    BY <1>3 DEF Stop, FecInd, FecTypeOK
  <2>2. ASSUME NEW v \in Loaders \ {w}
        PROVE  jobs'[v].todo # <<>> /\ jobs'[v].quiet /\ jobs'[v].whole =>
                 jobs'[v].command # "none" /\ \E m \in Nat : AtTable(jobs[v], m)'
    BY <2>1, OthersStay
  <2> QED
    BY <2>1, <2>2 DEF WholeJobs, NoJob
<1>4. ASSUME NEW t \in Tables, NEW rows \in GoldInputs, Correct(t, rows) PROVE WholeJobs'
  <2>1. \A w \in Loaders : jobs'[w].quiet = FALSE
    BY <1>4 DEF Correct, FecInd, FecTypeOK, Job
  <2> QED
    BY <2>1 DEF WholeJobs
<1>5. ASSUME NEW i \in Identities, LinkAgent(i) PROVE WholeJobs'
  <2>1. UNCHANGED <<gold, agents, attested, jobs>>
    BY <1>5 DEF LinkAgent
  <2>2. \A j \in Identities : typed[j] # NoRow => typed'[j] # NoRow /\ typed'[j].name = typed[j].name
    BY <1>5, LinkRenamesNone
  <2> QED
    BY <2>1, <2>2, OthersStay DEF WholeJobs
<1>6. CASE UNCHANGED fecVars
  <2>1. UNCHANGED <<gold, agents, attested, typed, jobs>>
    BY <1>6 DEF fecVars
  <2> QED
    BY <2>1, OthersStay DEF WholeJobs
<1> QED
  BY <1>1, <1>2, <1>3, <1>4, <1>5, <1>6, InsertMoves, UpsertMoves, AttestMoves DEF FecNext

\* The last table that has an id is the one after which no table has it.
LEMMA LastsIs ==
    ASSUME NEW i, NEW m \in Nat, m = Len(ORDER) + 1, NEW n, LastBefore(n, m, i)
    PROVE  Lasts(i) = n
<1>1. ORDER \in Seq(Tables) /\ Len(ORDER) \in Nat /\ DOMAIN ORDER = 1..Len(ORDER)
  BY FecAssumption
<1>2. /\ n \in 1..Len(ORDER) /\ i \in Entered(ORDER[n])
      /\ \A k \in (n + 1)..Len(ORDER) : i \notin Entered(ORDER[k])
  BY <1>1 DEF LastBefore
<1> DEFINE places == {k \in 1..Len(ORDER) : i \in Entered(ORDER[k])}
<1>3. n \in places /\ \A k \in places : k <= n
  <2>1. ASSUME NEW k \in places PROVE k <= n
    <3>1. k \in 1..Len(ORDER) /\ ~(k \in (n + 1)..Len(ORDER))
      BY <1>2
    <3> QED
      BY <1>1, <1>2, <3>1
  <2> QED
    BY <1>2, <2>1
<1>4. \A k \in places : (\A j \in places : k >= j) => k = n
  BY <1>1, <1>3
<1>5. places # {} /\ Max(places) = n
  BY <1>3, <1>4 DEF Max
<1> QED
  BY <1>1, <1>5 DEF Lasts, SelectLastInSeq

\* A full load that nothing interferes with leaves every id of gold with a hub
\* and a typed row named as in the last table of the order that has it; a full
\* run of the attestations leaves each of them attested.
THEOREM LoadsAlwaysSettle == FecSpec => LoadSettles
<1>1. FecInd /\ FecInd' /\ WholeJobs /\ [FecNext]_fecVars =>
        [\A w \in Loaders :
           Running(w) /\ jobs'[w].todo = <<>> /\ jobs'[w].quiet /\ jobs'[w].whole =>
             IF jobs[w].command = "agents"
             THEN \A i \in UNION {Entered(t) : t \in Tables} :
                    i \in agents' /\ typed'[i] # NoRow /\ typed'[i].name = NameIn(ORDER[Lasts(i)], i)
             ELSE \A t \in AttestedTables : Entered(t) \subseteq attested']_fecVars
  <2> SUFFICES ASSUME FecInd, FecInd', WholeJobs, FecNext, NEW w \in Loaders, Running(w),
                      jobs'[w].todo = <<>>, jobs'[w].quiet, jobs'[w].whole
               PROVE  IF jobs[w].command = "agents"
                      THEN \A i \in UNION {Entered(t) : t \in Tables} :
                             i \in agents' /\ typed'[i] # NoRow /\ typed'[i].name = NameIn(ORDER[Lasts(i)], i)
                      ELSE \A t \in AttestedTables : Entered(t) \subseteq attested'
    OBVIOUS
  <2>1. UpsertTyped(w) \/ Attest(w)
    BY Finishers
  <2>2. /\ jobs' = [Disturb(w) EXCEPT ![w] = NextTable(w)] /\ gold' = gold
    BY <2>1 DEF UpsertTyped, Attest
  <2>3. jobs[w].quiet /\ jobs[w].whole /\ Tail(jobs[w].todo) = <<>>
    BY <2>2, TableDone
  <2>4. PICK m \in Nat : AtTable(jobs[w], m)
    BY <2>3 DEF WholeJobs, Running
  <2>5. m = Len(OrderOf(jobs[w].command))
    BY <2>3, <2>4, NextPlace
  <2>6. CASE UpsertTyped(w)
    <3>1. jobs[w].command = "agents" /\ m = Len(ORDER)
      BY <2>5, <2>6 DEF UpsertTyped, OrderOf
    <3>2. LoadedBefore(m + 1)'
      BY <2>4, <2>6, UpsertLoads
    <3>3. ASSUME NEW t \in Tables, NEW i \in Entered(t)
          PROVE  i \in agents' /\ typed'[i] # NoRow /\ typed'[i].name = NameIn(ORDER[Lasts(i)], i)
      <4>1. PICK k \in 1..m : t = ORDER[k]
        BY <3>1, FecAssumption DEF Tables, ToSet
      <4>2. /\ i \in agents' /\ typed'[i] # NoRow
            /\ \E n \in 1..m : LastBefore(n, m + 1, i) /\ typed'[i].name = NameIn(ORDER[n], i)
        <5>1. m + 1 - 1 = m
          OBVIOUS
        <5> QED
          BY <2>2, <3>2, <3>3, <4>1, <5>1, SamePlaces
      <4>3. PICK n \in 1..m : LastBefore(n, m + 1, i) /\ typed'[i].name = NameIn(ORDER[n], i)
        BY <4>2
      <4>4. Lasts(i) = n
        <5>1. m + 1 \in Nat /\ m + 1 = Len(ORDER) + 1
          BY <3>1
        <5> QED
          BY <4>3, <5>1, LastsIs
      <4> QED
        BY <4>2, <4>3, <4>4
    <3> QED
      BY <3>1, <3>3
  <2>7. CASE Attest(w)
    <3>1. jobs[w].command = "attestations" /\ m = Len(ATT_ORDER)
      BY <2>5, <2>7 DEF Attest, OrderOf
    <3>2. AttestedBefore(m + 1)'
      BY <2>4, <2>7, AttestsNext
    <3>3. ASSUME NEW t \in AttestedTables PROVE Entered(t) \subseteq attested'
      <4>1. PICK k \in 1..m : t = ATT_ORDER[k]
        BY <3>1, FecAssumption DEF AttestedTables, ToSet
      <4>2. m + 1 - 1 = m
        OBVIOUS
      <4> QED
        BY <2>2, <3>2, <4>1, <4>2 DEF AttestedBefore, Entered
    <3> QED
      BY <3>1, <3>3
  <2> QED
    BY <2>1, <2>6, <2>7
<1>2. FecSpec => []FecInd
  BY FecInitInd, FecNextInd, PTL DEF FecSpec
<1>3. []FecInd /\ [][FecNext]_fecVars /\ WholeJobs => []WholeJobs
  BY WholeSteps, PTL
<1>4. FecSpec => WholeJobs
  BY WholeStart DEF FecSpec
<1>5. []FecInd /\ []WholeJobs /\ [][FecNext]_fecVars => LoadSettles
  BY <1>1, PTL DEF LoadSettles
<1> QED
  BY <1>2, <1>3, <1>4, <1>5, PTL DEF FecSpec

-----------------------------------------------------------------------------
(***************************************************************************)
(* FecGraph: reports on one graph, for any builders, analysts and reissued *)
(* bulk files.                                                             *)
(***************************************************************************)

Build == [step : {"idle", "drop edges", "edges", "drop vertices", "vertices"},
          cycle : Cycles \cup {"none"}, alone : BOOLEAN]
Analysis == [step : {"idle", "edges", "report"}, edges : SUBSET BulkFiles, vertices : SUBSET BulkFiles,
             todo : Seq(ToSet(Parties)), there : BOOLEAN, quiet : BOOLEAN]

GraphTyped ==
    /\ issue \in 1..MaxIssue /\ suspect \in BOOLEAN
    /\ edges \subseteq BulkFiles /\ vertices \subseteq BulkFiles
    /\ reports \in [ToSet(Parties) -> (SUBSET BulkFiles) \X (SUBSET BulkFiles)]
    /\ builders \in [Builders -> Build]
    /\ \A b \in Building : builders[b].cycle \in Cycles
    /\ analysts \in [Analysts -> Analysis]

\* A build that is still alone has the directory to itself.
AloneBuilds ==
    \A b \in Builders : builders[b].alone =>
        LET made == {<<builders[b].cycle, issue>>} IN
        /\ \A c \in Building : c = b
        /\ builders[b].step = "edges" => edges = {}
        /\ builders[b].step = "drop vertices" => edges = made
        /\ builders[b].step = "vertices" => edges = made /\ vertices = {}

\* The directory that nobody builds in, after a build that was alone to its end.
DirectoryWhole == Building = {} /\ ~suspect => edges = vertices /\ \A x, y \in edges : x = y

\* What an analyst that nobody disturbed has loaded is still in the directory.
QuietAnalyses ==
    \A a \in Analysts : analysts[a].quiet =>
        /\ Building = {} /\ analysts[a].step # "idle"
        /\ analysts[a].vertices = vertices /\ vertices # {}
        /\ analysts[a].step = "report" => analysts[a].edges = edges

GraphInd == GraphTyped /\ AloneBuilds /\ DirectoryWhole /\ QuietAnalyses

LEMMA GraphStarts == GraphInit => GraphInd
<1> SUFFICES ASSUME GraphInit PROVE GraphInd
  OBVIOUS
<1>1. NoBuild \in Build /\ NoBuild.step = "idle" /\ NoBuild.alone = FALSE
  BY DEF NoBuild, Build
<1>2. NoAnalysis \in Analysis /\ NoAnalysis.quiet = FALSE
  BY DEF NoAnalysis, Analysis
<1>3. Building = {}
  BY <1>1 DEF GraphInit, Building
<1>4. NoReport \in (SUBSET BulkFiles) \X (SUBSET BulkFiles)
  BY DEF NoReport
<1>5. GraphTyped
  <2>1. issue \in 1..MaxIssue
    BY GraphAssumption DEF GraphInit
  <2>2. reports \in [ToSet(Parties) -> (SUBSET BulkFiles) \X (SUBSET BulkFiles)]
    BY <1>4 DEF GraphInit
  <2>3. builders \in [Builders -> Build] /\ analysts \in [Analysts -> Analysis]
    BY <1>1, <1>2 DEF GraphInit
  <2> QED
    BY <1>3, <2>1, <2>2, <2>3 DEF GraphInit, GraphTyped
<1> QED
  BY <1>1, <1>2, <1>5 DEF GraphInit, GraphInd, AloneBuilds, DirectoryWhole, QuietAnalyses

\* The step of one builder, if its record keeps its cycle.
LEMMA BuilderGoes ==
    ASSUME GraphTyped, NEW b \in Builders, NEW step \in {"edges", "drop vertices", "vertices"},
           builders[b].step # "idle", Goes(b, step)
    PROVE  /\ builders' \in [Builders -> Build] /\ Building' = Building /\ b \in Building
           /\ builders'[b].step = step
           /\ \A c \in Builders : builders'[c].alone = builders[c].alone /\ builders'[c].cycle = builders[c].cycle
           /\ \A c \in Builders \ {b} : builders'[c] = builders[c]
<1>1. builders \in [Builders -> Build] /\ builders' = [builders EXCEPT ![b].step = step]
  BY DEF GraphTyped, Goes
<1>2. builders'[b] = [builders[b] EXCEPT !.step = step] /\ \A c \in Builders \ {b} : builders'[c] = builders[c]
  BY <1>1
<1>3. builders[b] \in Build /\ builders'[b] \in Build /\ builders'[b].step = step
      /\ builders'[b].alone = builders[b].alone /\ builders'[b].cycle = builders[b].cycle
  <2>1. PICK old \in Build : old = builders[b]
    BY <1>1
  <2>2. PICK new : new = [old EXCEPT !.step = step]
    OBVIOUS
  <2>3. new \in Build /\ new.step = step /\ new.alone = old.alone /\ new.cycle = old.cycle
    BY <2>2 DEF Build
  <2> QED
    BY <1>2, <2>1, <2>2, <2>3
<1>4. builders' \in [Builders -> Build]
  BY <1>1, <1>3 DEF Build
<1>5. Building' = Building
  BY <1>2, <1>3 DEF Building
<1> QED
  BY <1>2, <1>3, <1>4, <1>5 DEF Building

\* A builder that is done or stops.
LEMMA BuilderLeaves ==
    ASSUME GraphTyped, NEW b \in Builders, builders[b].step # "idle",
           builders' = [builders EXCEPT ![b] = NoBuild]
    PROVE  /\ builders' \in [Builders -> Build] /\ Building' = Building \ {b} /\ b \in Building
           /\ builders'[b].alone = FALSE
           /\ \A c \in Builders \ {b} : builders'[c] = builders[c]
<1>1. NoBuild \in Build /\ NoBuild.step = "idle" /\ NoBuild.alone = FALSE
  BY DEF NoBuild, Build
<1>2. builders \in [Builders -> Build]
  BY DEF GraphTyped
<1>3. builders'[b] = NoBuild /\ \A c \in Builders \ {b} : builders'[c] = builders[c]
  BY <1>2
<1>4. builders' \in [Builders -> Build]
  BY <1>1, <1>2
<1> QED
  BY <1>1, <1>3, <1>4 DEF Building

\* A build that is no longer alone is otherwise as it was.
LEMMA Unaccompanied ==
    ASSUME GraphTyped, NEW after,
           after = [b \in Builders |-> [builders[b] EXCEPT !.alone = FALSE]]
    PROVE  /\ after \in [Builders -> Build]
           /\ \A b \in Builders : /\ after[b].step = builders[b].step /\ after[b].cycle = builders[b].cycle
                                   /\ after[b].alone = FALSE
<1>0. builders \in [Builders -> Build]
  BY DEF GraphTyped
<1>1. ASSUME NEW old \in Build, NEW new, new = [old EXCEPT !.alone = FALSE]
      PROVE  new \in Build /\ new.step = old.step /\ new.cycle = old.cycle /\ new.alone = FALSE
  BY <1>1 DEF Build
<1>2. \A b \in Builders : builders[b] \in Build /\ after[b] = [builders[b] EXCEPT !.alone = FALSE]
  BY <1>0
<1>3. \A b \in Builders : after[b] \in Build
  BY <1>1, <1>2
<1>4. after \in [Builders -> Build]
  BY <1>3
<1> QED
  BY <1>1, <1>2, <1>4

\* Analysts are only ever told that files are gone or that somebody builds.
LEMMA AnalystsTold ==
    ASSUME GraphTyped,
           \/ analysts' = Removed
           \/ analysts' = [a \in Analysts |-> [analysts[a] EXCEPT !.quiet = FALSE]]
           \/ analysts' = analysts
    PROVE  /\ analysts' \in [Analysts -> Analysis]
           /\ \A a \in Analysts :
                /\ analysts'[a].step = analysts[a].step /\ analysts'[a].edges = analysts[a].edges
                /\ analysts'[a].vertices = analysts[a].vertices
                /\ analysts'[a].quiet => analysts[a].quiet
<1>1. analysts \in [Analysts -> Analysis]
  BY DEF GraphTyped
<1>2. ASSUME NEW old \in Analysis, NEW new, new = [old EXCEPT !.there = FALSE] \/ new = [old EXCEPT !.quiet = FALSE]
      PROVE  /\ new \in Analysis /\ new.step = old.step /\ new.edges = old.edges
             /\ new.vertices = old.vertices /\ (new.quiet => old.quiet)
  BY <1>2 DEF Analysis
<1>3. CASE analysts' = Removed
  <2>1. \A a \in Analysts : analysts'[a] = [analysts[a] EXCEPT !.there = FALSE]
    BY <1>3 DEF Removed
  <2>2. \A a \in Analysts : analysts'[a] \in Analysis
    BY <1>1, <1>2, <2>1
  <2>3. analysts' \in [Analysts -> Analysis]
    BY <1>3, <2>1, <2>2 DEF Removed
  <2> QED
    BY <1>1, <1>2, <2>1, <2>3
<1>4. CASE analysts' = [a \in Analysts |-> [analysts[a] EXCEPT !.quiet = FALSE]]
  <2>1. \A a \in Analysts : analysts'[a] = [analysts[a] EXCEPT !.quiet = FALSE]
    BY <1>4
  <2>2. \A a \in Analysts : analysts'[a] \in Analysis
    BY <1>1, <1>2, <2>1
  <2>3. analysts' \in [Analysts -> Analysis]
    BY <1>4, <2>1, <2>2
  <2> QED
    BY <1>1, <1>2, <2>1, <2>3
<1> QED
  BY <1>1, <1>3, <1>4

-----------------------------------------------------------------------------
(* The steps *)

LEMMA ReissueKeeps == GraphInd /\ ReissueBulk => GraphInd'
<1> SUFFICES ASSUME GraphInd, ReissueBulk PROVE GraphInd'
  OBVIOUS
<1>1. issue' \in 1..MaxIssue
  BY GraphAssumption DEF ReissueBulk, GraphInd, GraphTyped
<1>2. /\ builders' \in [Builders -> Build]
      /\ \A b \in Builders : builders'[b].step = builders[b].step /\ builders'[b].cycle = builders[b].cycle
                             /\ builders'[b].alone = FALSE
  <2>1. builders \in [Builders -> Build] /\ builders' = [b \in Builders |-> [builders[b] EXCEPT !.alone = FALSE]]
    BY DEF ReissueBulk, GraphInd, GraphTyped
  <2>2. PICK after : after = [b \in Builders |-> [builders[b] EXCEPT !.alone = FALSE]]
    OBVIOUS
  <2>3. /\ after \in [Builders -> Build]
        /\ \A b \in Builders : /\ after[b].step = builders[b].step /\ after[b].cycle = builders[b].cycle
                                /\ after[b].alone = FALSE
    BY <2>2, Unaccompanied DEF GraphInd
  <2> QED
    BY <2>1, <2>2, <2>3
<1>3. Building' = Building
  BY <1>2 DEF Building
<1>4. GraphTyped'
  BY <1>1, <1>2, <1>3 DEF ReissueBulk, GraphInd, GraphTyped, Building
<1>5. AloneBuilds'
  BY <1>2 DEF AloneBuilds
<1>6. DirectoryWhole'
  BY <1>3 DEF ReissueBulk, GraphInd, DirectoryWhole
<1>7. QuietAnalyses'
  BY <1>3 DEF ReissueBulk, GraphInd, QuietAnalyses
<1> QED
  BY <1>4, <1>5, <1>6, <1>7 DEF GraphInd

LEMMA BuildBeginKeeps ==
    ASSUME GraphInd, NEW b \in Builders, NEW cycle \in Cycles, BeginBuild(b, cycle)
    PROVE  GraphInd'
<1>0. builders \in [Builders -> Build] /\ analysts \in [Analysts -> Analysis]
  BY DEF GraphInd, GraphTyped
<1> DEFINE accompanied == [c \in Builders |-> [builders[c] EXCEPT !.alone = FALSE]]
<1>a. /\ accompanied \in [Builders -> Build]
      /\ \A c \in Builders : /\ accompanied[c].step = builders[c].step
                              /\ accompanied[c].cycle = builders[c].cycle /\ accompanied[c].alone = FALSE
  BY Unaccompanied DEF GraphInd
<1>b. PICK new : new = [step |-> "drop edges", cycle |-> cycle, alone |-> Building = {}]
  OBVIOUS
<1>c. new \in Build /\ new.step = "drop edges" /\ new.cycle = cycle /\ (new.alone <=> Building = {})
  BY <1>b DEF Build
<1>d. builders' = [c \in Builders |-> IF c = b THEN new ELSE accompanied[c]]
  BY <1>b DEF BeginBuild
<1> HIDE DEF accompanied
<1>1. /\ builders' \in [Builders -> Build] /\ builders'[b] = new
      /\ \A c \in Builders \ {b} : builders'[c] = accompanied[c]
  BY <1>a, <1>c, <1>d
<1>2. Building' = Building \cup {b}
  BY <1>1, <1>a, <1>c DEF Building
<1>3. analysts' \in [Analysts -> Analysis] /\ \A a \in Analysts : analysts'[a].quiet = FALSE
  <2>1. analysts' = [a \in Analysts |-> [analysts[a] EXCEPT !.quiet = FALSE]]
    BY DEF BeginBuild
  <2>2. ASSUME NEW a \in Analysts PROVE analysts'[a].quiet = FALSE
    BY <1>0, <2>1 DEF Analysis
  <2> QED
    BY <2>1, <2>2, AnalystsTold DEF GraphInd
<1>4. GraphTyped'
  <2>1. \A c \in Building' : builders'[c].cycle \in Cycles
    BY <1>1, <1>2, <1>a, <1>c DEF GraphInd, GraphTyped, Building
  <2> QED
    BY <1>1, <1>3, <2>1 DEF BeginBuild, GraphInd, GraphTyped
<1>5. AloneBuilds'
  BY <1>1, <1>2, <1>a, <1>c DEF AloneBuilds
<1>6. DirectoryWhole' /\ QuietAnalyses'
  BY <1>2, <1>3 DEF DirectoryWhole, QuietAnalyses
<1> QED
  BY <1>4, <1>5, <1>6 DEF GraphInd

LEMMA DropEdgesKeeps == ASSUME GraphInd, NEW b \in Builders, DropEdges(b) PROVE GraphInd'
<1>1. /\ builders' \in [Builders -> Build] /\ Building' = Building /\ b \in Building
      /\ builders'[b].step = "edges"
      /\ \A c \in Builders : builders'[c].alone = builders[c].alone /\ builders'[c].cycle = builders[c].cycle
      /\ \A c \in Builders \ {b} : builders'[c] = builders[c]
  BY BuilderGoes DEF DropEdges, GraphInd
<1>2. /\ analysts' \in [Analysts -> Analysis]
      /\ \A a \in Analysts : analysts'[a].quiet => analysts[a].quiet
  BY AnalystsTold DEF DropEdges, GraphInd
<1>3. GraphTyped'
  <2>1. \A c \in Building' : builders'[c].cycle \in Cycles
    BY <1>1 DEF GraphInd, GraphTyped, Building
  <2> QED
    BY <1>1, <1>2, <2>1 DEF DropEdges, GraphInd, GraphTyped
<1>4. AloneBuilds'
  <2> SUFFICES ASSUME NEW c \in Builders, builders'[c].alone
               PROVE  /\ \A d \in Building' : d = c
                      /\ builders'[c].step = "edges" => edges' = {}
                      /\ builders'[c].step \notin {"drop vertices", "vertices"}
    BY DEF AloneBuilds
  <2>1. \A d \in Building : d = c
    BY <1>1 DEF GraphInd, AloneBuilds
  <2> QED
    BY <1>1, <2>1 DEF DropEdges
<1>5. DirectoryWhole' /\ QuietAnalyses'
  BY <1>1, <1>2 DEF DirectoryWhole, QuietAnalyses, GraphInd
<1> QED
  BY <1>3, <1>4, <1>5 DEF GraphInd

LEMMA WriteEdgesKeeps == ASSUME GraphInd, NEW b \in Builders, WriteEdges(b) PROVE GraphInd'
<1>1. /\ builders' \in [Builders -> Build] /\ Building' = Building /\ b \in Building
      /\ builders'[b].step = "drop vertices"
      /\ \A c \in Builders : builders'[c].alone = builders[c].alone /\ builders'[c].cycle = builders[c].cycle
      /\ \A c \in Builders \ {b} : builders'[c] = builders[c]
  BY BuilderGoes DEF WriteEdges, GraphInd
<1>2. edges' = edges \cup {<<builders[b].cycle, issue>>} /\ edges' \subseteq BulkFiles
  <2>1. <<builders[b].cycle, issue>> \in BulkFiles
    BY <1>1 DEF GraphInd, GraphTyped, BulkFiles
  <2> QED
    BY <2>1 DEF WriteEdges, GraphInd, GraphTyped
<1>3. GraphTyped'
  <2>1. \A c \in Building' : builders'[c].cycle \in Cycles
    BY <1>1 DEF GraphInd, GraphTyped, Building
  <2> QED
    BY <1>1, <1>2, <2>1 DEF WriteEdges, GraphInd, GraphTyped
<1>4. AloneBuilds'
  <2> SUFFICES ASSUME NEW c \in Builders, builders'[c].alone
               PROVE  /\ \A d \in Building' : d = c
                      /\ builders'[c].step = "drop vertices" => edges' = {<<builders'[c].cycle, issue'>>}
                      /\ builders'[c].step \notin {"edges", "vertices"}
    BY DEF AloneBuilds
  <2>1. /\ \A d \in Building : d = c
        /\ builders[c].step = "edges" => edges = {}
    BY <1>1 DEF GraphInd, AloneBuilds
  <2>2. c = b
    BY <1>1, <2>1
  <2> QED
    BY <1>1, <1>2, <2>1, <2>2 DEF WriteEdges
<1>5. DirectoryWhole' /\ QuietAnalyses'
  BY <1>1 DEF WriteEdges, DirectoryWhole, QuietAnalyses, GraphInd
<1> QED
  BY <1>3, <1>4, <1>5 DEF GraphInd

LEMMA DropVerticesKeeps == ASSUME GraphInd, NEW b \in Builders, DropVertices(b) PROVE GraphInd'
<1>1. /\ builders' \in [Builders -> Build] /\ Building' = Building /\ b \in Building
      /\ builders'[b].step = "vertices"
      /\ \A c \in Builders : builders'[c].alone = builders[c].alone /\ builders'[c].cycle = builders[c].cycle
      /\ \A c \in Builders \ {b} : builders'[c] = builders[c]
  BY BuilderGoes DEF DropVertices, GraphInd
<1>2. /\ analysts' \in [Analysts -> Analysis]
      /\ \A a \in Analysts : analysts'[a].quiet => analysts[a].quiet
  BY AnalystsTold DEF DropVertices, GraphInd
<1>3. GraphTyped'
  <2>1. \A c \in Building' : builders'[c].cycle \in Cycles
    BY <1>1 DEF GraphInd, GraphTyped, Building
  <2> QED
    BY <1>1, <1>2, <2>1 DEF DropVertices, GraphInd, GraphTyped
<1>4. AloneBuilds'
  <2> SUFFICES ASSUME NEW c \in Builders, builders'[c].alone
               PROVE  /\ \A d \in Building' : d = c
                      /\ builders'[c].step = "vertices" => edges' = {<<builders'[c].cycle, issue'>>} /\ vertices' = {}
                      /\ builders'[c].step \notin {"edges", "drop vertices"}
    BY DEF AloneBuilds
  <2>1. /\ \A d \in Building : d = c
        /\ builders[c].step = "drop vertices" => edges = {<<builders[c].cycle, issue>>}
    BY <1>1 DEF GraphInd, AloneBuilds
  <2>2. c = b
    BY <1>1, <2>1
  <2> QED
    BY <1>1, <2>1, <2>2 DEF DropVertices
<1>5. DirectoryWhole' /\ QuietAnalyses'
  BY <1>1, <1>2 DEF DirectoryWhole, QuietAnalyses, GraphInd
<1> QED
  BY <1>3, <1>4, <1>5 DEF GraphInd

LEMMA WriteVerticesKeeps == ASSUME GraphInd, NEW b \in Builders, WriteVertices(b) PROVE GraphInd'
<1>1. /\ builders' \in [Builders -> Build] /\ Building' = Building \ {b} /\ b \in Building
      /\ builders'[b].alone = FALSE
      /\ \A c \in Builders \ {b} : builders'[c] = builders[c]
  BY BuilderLeaves DEF WriteVertices, GraphInd
<1>2. vertices' = vertices \cup {<<builders[b].cycle, issue>>} /\ vertices' \subseteq BulkFiles
  BY <1>1 DEF WriteVertices, GraphInd, GraphTyped, BulkFiles
<1>3. GraphTyped'
  <2>1. suspect' \in BOOLEAN
    BY DEF WriteVertices
  <2> QED
    BY <1>1, <1>2, <2>1 DEF WriteVertices, GraphInd, GraphTyped, Building
<1>4. \A c \in Builders : ~builders'[c].alone
  <2> SUFFICES ASSUME NEW c \in Builders, builders'[c].alone PROVE FALSE
    OBVIOUS
  <2>1. c # b /\ builders[c].alone
    BY <1>1
  <2> QED
    BY <1>1, <2>1 DEF GraphInd, AloneBuilds
<1>5. DirectoryWhole'
  <2> SUFFICES ASSUME ~suspect' PROVE edges' = vertices' /\ \A x, y \in edges' : x = y
    BY DEF DirectoryWhole
  <2>1. builders[b].alone
    BY DEF WriteVertices, GraphInd, GraphTyped
  <2>2. edges = {<<builders[b].cycle, issue>>} /\ vertices = {}
    BY <2>1 DEF WriteVertices, GraphInd, AloneBuilds
  <2> QED
    BY <1>2, <2>2 DEF WriteVertices
<1>6. QuietAnalyses'
  BY <1>1 DEF WriteVertices, QuietAnalyses, GraphInd
<1> QED
  BY <1>3, <1>4, <1>5, <1>6 DEF GraphInd, AloneBuilds

LEMMA StopKeeps == ASSUME GraphInd, NEW b \in Builders, StopBuild(b) PROVE GraphInd'
<1>1. /\ builders' \in [Builders -> Build] /\ Building' = Building \ {b} /\ b \in Building
      /\ builders'[b].alone = FALSE
      /\ \A c \in Builders \ {b} : builders'[c] = builders[c]
  BY BuilderLeaves DEF StopBuild, GraphInd, Building
<1>2. GraphTyped'
  BY <1>1 DEF StopBuild, GraphInd, GraphTyped, Building
<1>3. \A c \in Builders : ~builders'[c].alone
  <2> SUFFICES ASSUME NEW c \in Builders, builders'[c].alone PROVE FALSE
    OBVIOUS
  <2>1. c # b /\ builders[c].alone
    BY <1>1
  <2> QED
    BY <1>1, <2>1 DEF GraphInd, AloneBuilds
<1>4. DirectoryWhole' /\ QuietAnalyses'
  BY <1>1 DEF StopBuild, DirectoryWhole, QuietAnalyses, GraphInd
<1> QED
  BY <1>2, <1>3, <1>4 DEF GraphInd, AloneBuilds

LEMMA AnalystKeeps ==
    ASSUME GraphInd, NEW a \in Analysts,
           LoadVertices(a) \/ LoadEdges(a) \/ WriteReport(a) \/ EndAnalysis(a)
    PROVE  GraphInd'
<1>1. UNCHANGED <<issue, edges, vertices, builders, suspect>>
  BY DEF LoadVertices, LoadEdges, WriteReport, EndAnalysis
<1>2. Building' = Building
  BY <1>1 DEF Building
<1>3. AloneBuilds' /\ DirectoryWhole'
  BY <1>1, <1>2 DEF GraphInd, AloneBuilds, DirectoryWhole
<1>4. /\ reports' \in [ToSet(Parties) -> (SUBSET BulkFiles) \X (SUBSET BulkFiles)]
      /\ analysts' \in [Analysts -> Analysis] /\ QuietAnalyses'
  <2>1. CASE LoadVertices(a)
    <3>1. Parties \in Seq(ToSet(Parties))
      BY GraphAssumption
    <3>2. /\ analysts'[a] = [step |-> "edges", edges |-> {}, vertices |-> vertices,
                             todo |-> Parties, there |-> TRUE, quiet |-> Building = {}]
          /\ \A c \in Analysts \ {a} : analysts'[c] = analysts[c]
          /\ analysts' = [analysts EXCEPT ![a] = analysts'[a]]
      BY <2>1 DEF LoadVertices, GraphInd, GraphTyped
    <3>3. analysts'[a] \in Analysis
      BY <3>1, <3>2 DEF Analysis, GraphInd, GraphTyped
    <3>4. analysts' \in [Analysts -> Analysis]
      BY <3>2, <3>3 DEF GraphInd, GraphTyped
    <3>5. QuietAnalyses'
      <4> SUFFICES ASSUME NEW c \in Analysts, analysts'[c].quiet
                   PROVE  /\ Building = {} /\ analysts'[c].step # "idle"
                          /\ analysts'[c].vertices = vertices /\ vertices # {}
                          /\ analysts'[c].step = "report" => analysts'[c].edges = edges
        BY <1>1, <1>2 DEF QuietAnalyses
      <4>1. CASE c = a
        <5>1. /\ analysts'[a].step = "edges" /\ analysts'[a].vertices = vertices
              /\ analysts'[a].quiet = (Building = {})
          BY <3>2
        <5>2. vertices # {}
          BY <2>1 DEF LoadVertices
        <5>3. Building = {}
          BY <4>1, <5>1
        <5> QED
          BY <4>1, <5>1, <5>2, <5>3
      <4>2. CASE c # a
        BY <3>2, <4>2 DEF QuietAnalyses, GraphInd
      <4> QED
        BY <4>1, <4>2
    <3> QED
      BY <2>1, <3>4, <3>5 DEF LoadVertices, GraphInd, GraphTyped
  <2>2. CASE LoadEdges(a)
    <3>1. /\ analysts' = [analysts EXCEPT ![a] = [analysts[a] EXCEPT !.step = "report", !.edges = edges]]
          /\ analysts[a] \in Analysis
      BY <2>2 DEF LoadEdges, GraphInd, GraphTyped
    <3>2. /\ analysts'[a] = [analysts[a] EXCEPT !.step = "report", !.edges = edges]
          /\ \A c \in Analysts \ {a} : analysts'[c] = analysts[c]
      BY <3>1 DEF GraphInd, GraphTyped
    <3>3. /\ analysts'[a] \in Analysis /\ analysts'[a].vertices = analysts[a].vertices
          /\ analysts'[a].quiet = analysts[a].quiet /\ analysts'[a].edges = edges
          /\ analysts'[a].step = "report"
      BY <3>1, <3>2 DEF Analysis, GraphInd, GraphTyped
    <3>4. analysts' \in [Analysts -> Analysis]
      BY <3>1, <3>2, <3>3 DEF GraphInd, GraphTyped
    <3>5. QuietAnalyses'
      <4> SUFFICES ASSUME NEW c \in Analysts, analysts'[c].quiet
                   PROVE  /\ Building = {} /\ analysts'[c].step # "idle"
                          /\ analysts'[c].vertices = vertices /\ vertices # {}
                          /\ analysts'[c].step = "report" => analysts'[c].edges = edges
        BY <1>1, <1>2 DEF QuietAnalyses
      <4>1. CASE c = a
        BY <3>3, <4>1 DEF QuietAnalyses, GraphInd
      <4>2. CASE c # a
        BY <3>2, <4>2 DEF QuietAnalyses, GraphInd
      <4> QED
        BY <4>1, <4>2
    <3> QED
      BY <2>2, <3>4, <3>5 DEF LoadEdges, GraphInd, GraphTyped
  <2>3. CASE WriteReport(a)
    <3>1. analysts[a] \in Analysis /\ analysts[a].todo # <<>> /\ analysts[a].todo \in Seq(ToSet(Parties))
      BY <2>3 DEF WriteReport, GraphInd, GraphTyped, Analysis
    <3>2. Tail(analysts[a].todo) \in Seq(ToSet(Parties)) /\ Head(analysts[a].todo) \in ToSet(Parties)
      BY <3>1
    <3>3. Centrality(a) \in (SUBSET BulkFiles) \X (SUBSET BulkFiles)
      BY <3>1 DEF Centrality, Analysis
    <3>4. analysts' = [analysts EXCEPT ![a] = [analysts[a] EXCEPT !.todo = Tail(analysts[a].todo)]]
      BY <2>3 DEF WriteReport, GraphInd, GraphTyped
    <3>5. /\ analysts'[a] = [analysts[a] EXCEPT !.todo = Tail(analysts[a].todo)]
          /\ \A c \in Analysts \ {a} : analysts'[c] = analysts[c]
      BY <3>4 DEF GraphInd, GraphTyped
    <3>6. /\ analysts'[a] \in Analysis /\ analysts'[a].vertices = analysts[a].vertices
          /\ analysts'[a].quiet = analysts[a].quiet /\ analysts'[a].edges = analysts[a].edges
          /\ analysts'[a].step = analysts[a].step
      BY <3>1, <3>2, <3>5 DEF Analysis
    <3>7. analysts' \in [Analysts -> Analysis]
      BY <3>4, <3>5, <3>6 DEF GraphInd, GraphTyped
    <3>8. QuietAnalyses'
      <4>1. ASSUME NEW c \in Analysts
            PROVE  /\ analysts'[c].quiet = analysts[c].quiet /\ analysts'[c].step = analysts[c].step
                   /\ analysts'[c].edges = analysts[c].edges /\ analysts'[c].vertices = analysts[c].vertices
        BY <3>5, <3>6
      <4> QED
        BY <1>1, <1>2, <4>1 DEF QuietAnalyses, GraphInd
    <3>9. reports' \in [ToSet(Parties) -> (SUBSET BulkFiles) \X (SUBSET BulkFiles)]
      BY <2>3, <3>2, <3>3 DEF WriteReport, GraphInd, GraphTyped
    <3> QED
      BY <3>7, <3>8, <3>9
  <2>4. CASE EndAnalysis(a)
    <3>1. NoAnalysis \in Analysis /\ NoAnalysis.quiet = FALSE
      BY DEF NoAnalysis, Analysis
    <3>2. analysts'[a] = NoAnalysis /\ \A c \in Analysts \ {a} : analysts'[c] = analysts[c]
      BY <2>4 DEF EndAnalysis, GraphInd, GraphTyped
    <3>3. analysts' \in [Analysts -> Analysis]
      BY <2>4, <3>1 DEF EndAnalysis, GraphInd, GraphTyped
    <3>4. QuietAnalyses'
      BY <1>1, <1>2, <3>1, <3>2 DEF QuietAnalyses, GraphInd
    <3>5. reports' \in [ToSet(Parties) -> (SUBSET BulkFiles) \X (SUBSET BulkFiles)]
      <4>1. NoReport \in (SUBSET BulkFiles) \X (SUBSET BulkFiles)
        BY DEF NoReport
      <4> QED
        BY <2>4, <4>1 DEF EndAnalysis, GraphInd, GraphTyped
    <3> QED
      BY <3>3, <3>4, <3>5
  <2> QED
    BY <2>1, <2>2, <2>3, <2>4
<1>5. GraphTyped'
  BY <1>1, <1>2, <1>4 DEF GraphInd, GraphTyped
<1> QED
  BY <1>3, <1>4, <1>5 DEF GraphInd

LEMMA GraphInvariance == GraphSpec => []GraphInd
<1>1. GraphInd /\ [GraphNext]_graphVars => GraphInd'
  <2> SUFFICES ASSUME GraphInd, [GraphNext]_graphVars PROVE GraphInd'
    OBVIOUS
  <2>1. CASE GraphNext
    BY <2>1, ReissueKeeps, BuildBeginKeeps, DropEdgesKeeps, WriteEdgesKeeps, DropVerticesKeeps, WriteVerticesKeeps,
       StopKeeps, AnalystKeeps DEF GraphNext
  <2>2. CASE UNCHANGED graphVars
    <3>1. Building' = Building
      BY <2>2 DEF graphVars, Building
    <3> QED
      BY <2>2, <3>1 DEF graphVars, GraphInd, GraphTyped, AloneBuilds, DirectoryWhole, QuietAnalyses
  <2> QED
    BY <2>1, <2>2
<1> QED
  BY <1>1, GraphStarts, PTL DEF GraphSpec

\* The directory, the report tables and what processes hold are made of issues of
\* the bulk files that have been out.
THEOREM GraphTypeCorrect == GraphSpec => []GraphTypeOK
<1>1. GraphInd => GraphTypeOK
  BY DEF GraphInd, GraphTyped, GraphTypeOK, Analysis
<1> QED
  BY <1>1, GraphInvariance, PTL

\* fec-centrality reports on the edges and vertices of one build, whatever builds
\* overlapped or died before, if the last to end had been alone.
THEOREM ReportsAlwaysOneGraph == GraphSpec => ReportsOneGraph
<1>1. GraphInd => [\A a \in Analysts : WriteReport(a) /\ analysts[a].quiet /\ ~suspect =>
         analysts[a].edges = analysts[a].vertices /\ Cardinality(analysts[a].edges) = 1]_graphVars
  <2> SUFFICES ASSUME GraphInd, NEW a \in Analysts, WriteReport(a), analysts[a].quiet, ~suspect
               PROVE  analysts[a].edges = analysts[a].vertices /\ Cardinality(analysts[a].edges) = 1
    OBVIOUS
  <2>1. /\ analysts[a].vertices = vertices /\ vertices # {} /\ analysts[a].edges = edges /\ Building = {}
    BY DEF GraphInd, QuietAnalyses, WriteReport
  <2>2. edges = vertices /\ \A x, y \in edges : x = y
    BY <2>1 DEF GraphInd, DirectoryWhole
  <2>3. PICK x \in edges : edges = {x}
    BY <2>1, <2>2
  <2>4. Cardinality(edges) = 1
    BY <2>3, FS_Singleton
  <2> QED
    BY <2>1, <2>2, <2>4
<1> QED
  BY <1>1, GraphInvariance, PTL DEF ReportsOneGraph

-----------------------------------------------------------------------------
(***************************************************************************)
(* VintageSeeding: seeded series tile, for any catalogs and any number of  *)
(* runs.                                                                   *)
(***************************************************************************)

\* What a committed row says of its period: it ends where the next one begins,
\* or is open and was the latest of the catalog it is from.
RowSound(row, e) ==
    /\ row.from = Starts[e[1]][e[2]]
    /\ \/ row.to = Unreplaced /\ row.latestOf = e[2]
       \/ row.to = Starts[e[1]][e[2]] + 1

\* the entries a run is to see to
SeedsAsked(run) == UNION {{s} \X (1..run.knows[s]) : s \in Chosen(run.kinds)}

\* A run that is under way has every entry before it, of its own, or in the table.
RunSeeds(run) ==
    /\ run.step \in {"idle", "check", "create"}
    /\ run.kinds \in SUBSET VintageKinds
    /\ \A s \in Series : run.knows[s] \in DOMAIN Starts[s]
    /\ run.own \subseteq Entries /\ run.todo \subseteq Entries
    /\ run.step # "idle" => \A e \in SeedsAsked(run) : e \in run.todo \cup run.own \/ vintages[e] # NoEntry

SeedInd ==
    /\ DOMAIN known = DOMAIN Shipped
    /\ \A s \in Series : known[s] \in Shipped[s]..Len(Starts[s])
    /\ DOMAIN vintages = Entries
    /\ \A e \in Entries : vintages[e] # NoEntry => RowSound(vintages[e], e)
    /\ DOMAIN seeding = Seeders
    /\ \A p \in Seeders : RunSeeds(seeding[p])

\* What the assumption says of one series.
LEMMA StartsAreDays ==
    ASSUME NEW s \in Series
    PROVE  /\ DOMAIN Starts[s] = 1..Len(Starts[s]) /\ Len(Starts[s]) \in Nat
           /\ Shipped[s] \in 1..Len(Starts[s])
           /\ \A n \in DOMAIN Starts[s] : Starts[s][n] \in Nat
BY SeedingAssumption

LEMMA EntryOf ==
    ASSUME NEW e \in Entries
    PROVE  e[1] \in Series /\ e[2] \in DOMAIN Starts[e[1]] /\ e = <<e[1], e[2]>>
<1>1. PICK s \in Series : e \in {s} \X DOMAIN Starts[s]
  BY DEF Entries
<1>2. e[1] = s /\ e[2] \in DOMAIN Starts[s] /\ e = <<e[1], e[2]>>
  BY <1>1
<1> QED
  BY <1>2

LEMMA EntryIs ==
    ASSUME NEW s \in Series, NEW n \in DOMAIN Starts[s]
    PROVE  <<s, n>> \in Entries
BY DEF Entries

\* The series of kinds that are seeded are series of the catalog.
LEMMA ChosenSeries ==
    ASSUME NEW kinds \in SUBSET VintageKinds
    PROVE  Chosen(kinds) \subseteq Series
BY DEF Chosen, Series

\* What a run is asked for are entries of the catalog.
LEMMA AskedEntries ==
    ASSUME NEW run, run.kinds \in SUBSET VintageKinds,
           \A s \in Series : run.knows[s] \in DOMAIN Starts[s]
    PROVE  SeedsAsked(run) \subseteq Entries
<1> SUFFICES ASSUME NEW e \in SeedsAsked(run) PROVE e \in Entries
  OBVIOUS
<1>1. PICK s \in Chosen(run.kinds) : e \in {s} \X (1..run.knows[s])
  BY DEF SeedsAsked
<1>2. s \in Series
  BY ChosenSeries
<1>3. e = <<s, e[2]>> /\ e[2] \in 1..run.knows[s]
  BY <1>1
<1>4. e[2] \in DOMAIN Starts[s]
  BY <1>2, <1>3, StartsAreDays
<1> QED
  BY <1>2, <1>3, <1>4, EntryIs

\* The row a run creates is a row, and a sound one.
LEMMA WindowSound ==
    ASSUME NEW e \in Entries, NEW knows, knows[e[1]] \in Nat
    PROVE  SeededWindow(knows, e) # NoEntry /\ RowSound(SeededWindow(knows, e), e)
<1>1. Starts[e[1]][e[2]] \in Nat /\ Starts[e[1]][e[2]] + 1 \in Nat
  BY EntryOf, StartsAreDays
<1>2. PICK w : w = SeededWindow(knows, e)
  OBVIOUS
<1>3. w \in [from : Nat, latestOf : Nat, to : Nat \cup {Unreplaced}]
  BY <1>1, <1>2 DEF SeededWindow
<1>4. RowSound(w, e)
  BY <1>1, <1>2 DEF SeededWindow, RowSound
<1> QED
  BY <1>2, <1>3, <1>4, SeedingAssumption

LEMMA SeedBegins == SeedInit => SeedInd
<1> SUFFICES ASSUME SeedInit PROVE SeedInd
  OBVIOUS
<1>1. DOMAIN known = DOMAIN Shipped /\ \A s \in Series : known[s] \in Shipped[s]..Len(Starts[s])
  BY StartsAreDays DEF SeedInit
<1>2. DOMAIN vintages = Entries /\ \A e \in Entries : vintages[e] = NoEntry
  BY DEF SeedInit
<1>3. ASSUME NEW p \in Seeders PROVE RunSeeds(seeding[p])
  <2>1. seeding[p] = NoSeeding
    BY DEF SeedInit
  <2> QED
    BY <2>1, StartsAreDays DEF RunSeeds, NoSeeding
<1> QED
  BY <1>1, <1>2, <1>3 DEF SeedInd, SeedInit

\* Nothing of a run has to change while no row disappears.
LEMMA RunSeedsStay ==
    ASSUME SeedInd, NEW p \in Seeders, seeding'[p] = seeding[p],
           \A e \in Entries : vintages[e] # NoEntry => vintages'[e] # NoEntry
    PROVE  RunSeeds(seeding[p])'
<1>1. RunSeeds(seeding[p])
  BY DEF SeedInd
<1>2. SeedsAsked(seeding[p]) \subseteq Entries
  BY <1>1, AskedEntries DEF RunSeeds
<1>3. SeedsAsked(seeding[p])' = SeedsAsked(seeding[p])
  BY DEF SeedsAsked
<1>4. seeding[p].step # "idle" =>
         \A e \in SeedsAsked(seeding[p]) : e \in seeding[p].todo \cup seeding[p].own \/ vintages'[e] # NoEntry
  BY <1>1, <1>2 DEF RunSeeds
<1> QED
  BY <1>1, <1>3, <1>4 DEF RunSeeds

LEMMA SeedUnchanged == SeedInd /\ UNCHANGED seedVars => SeedInd'
<1> SUFFICES ASSUME SeedInd, UNCHANGED seedVars PROVE SeedInd'
  OBVIOUS
<1>1. \A p \in Seeders : RunSeeds(seeding[p])'
  BY RunSeedsStay DEF seedVars
<1> QED
  BY <1>1 DEF SeedInd, seedVars

LEMMA ExtendKeeps == \A s \in Series : SeedInd /\ ExtendCatalog(s) => SeedInd'
<1> SUFFICES ASSUME NEW s \in Series, SeedInd, ExtendCatalog(s) PROVE SeedInd'
  OBVIOUS
<1>1. \A p \in Seeders : RunSeeds(seeding[p])'
  BY RunSeedsStay DEF ExtendCatalog
<1>2. ASSUME NEW t \in Series PROVE known'[t] \in Shipped[t]..Len(Starts[t])
  <2>1. known[t] \in Shipped[t]..Len(Starts[t]) /\ known[s] < Len(Starts[s]) /\ s \in DOMAIN known
    BY SeedingAssumption DEF SeedInd, ExtendCatalog
  <2>2. known' = [known EXCEPT ![s] = @ + 1]
    BY DEF ExtendCatalog
  <2>3. known'[t] = IF t = s THEN known[t] + 1 ELSE known[t]
    BY <2>1, <2>2, SeedingAssumption DEF SeedInd
  <2> QED
    BY <2>1, <2>3, StartsAreDays
<1>3. DOMAIN known' = DOMAIN known
  BY DEF ExtendCatalog
<1> QED
  BY <1>1, <1>2, <1>3 DEF SeedInd, ExtendCatalog

\* A step of one run that leaves the catalog and the table alone.
LEMMA RunStepKeeps ==
    ASSUME SeedInd, NEW p \in Seeders, NEW new, RunSeeds(new),
           seeding' = [seeding EXCEPT ![p] = new], UNCHANGED <<known, vintages>>
    PROVE  SeedInd'
<1>1. ASSUME NEW q \in Seeders PROVE RunSeeds(seeding[q])'
  <2>1. CASE q = p
    <3>1. seeding'[q] = new
      BY <2>1 DEF SeedInd
    <3>2. RunSeeds(seeding'[q])
      BY <3>1
    <3> QED
      BY <3>2 DEF RunSeeds, SeedsAsked
  <2>2. CASE q # p
    <3>1. seeding'[q] = seeding[q]
      BY <2>2 DEF SeedInd
    <3> QED
      BY <3>1, RunSeedsStay
  <2> QED
    BY <2>1, <2>2
<1> QED
  BY <1>1 DEF SeedInd

LEMMA NoSeedingSeeds == RunSeeds(NoSeeding)
BY StartsAreDays DEF RunSeeds, NoSeeding

LEMMA BeginSeedingKeeps ==
    \A p \in Seeders, kinds \in SUBSET VintageKinds : SeedInd /\ BeginSeeding(p, kinds) => SeedInd'
<1> SUFFICES ASSUME NEW p \in Seeders, NEW kinds \in SUBSET VintageKinds,
                    SeedInd, BeginSeeding(p, kinds)
             PROVE  SeedInd'
  OBVIOUS
<1>1. PICK new : new = [step |-> "check", knows |-> known, kinds |-> kinds, own |-> {},
                        todo |-> UNION {Published(s) : s \in Chosen(kinds)}]
  OBVIOUS
<1>2. \A s \in Series : known[s] \in DOMAIN Starts[s]
  BY StartsAreDays DEF SeedInd
<1>3. /\ new.step = "check" /\ new.knows = known /\ new.kinds = kinds /\ new.own = {}
      /\ new.todo = UNION {Published(s) : s \in Chosen(kinds)}
  BY <1>1
<1>4. SeedsAsked(new) = new.todo
  BY <1>3 DEF SeedsAsked, Published
<1>5. SeedsAsked(new) \subseteq Entries
  BY <1>2, <1>3, AskedEntries
<1>6. RunSeeds(new)
  BY <1>2, <1>3, <1>4, <1>5 DEF RunSeeds
<1>7. seeding' = [seeding EXCEPT ![p] = new] /\ UNCHANGED <<known, vintages>>
  BY <1>1 DEF BeginSeeding
<1> QED
  BY <1>6, <1>7, RunStepKeeps

LEMMA CheckKeeps == \A p \in Seeders : SeedInd /\ CheckEntry(p) => SeedInd'
<1> SUFFICES ASSUME NEW p \in Seeders, SeedInd, CheckEntry(p) PROVE SeedInd'
  OBVIOUS
<1>1. PICK e \in Due(p) :
         seeding' = IF vintages[e] # NoEntry
                    THEN [seeding EXCEPT ![p].todo = @ \ {e}]
                    ELSE [seeding EXCEPT ![p].step = "create"]
  BY DEF CheckEntry
<1>2. PICK old : old = seeding[p]
  OBVIOUS
<1>3. RunSeeds(old) /\ old.step = "check"
  BY <1>2 DEF SeedInd, CheckEntry
<1>4. CASE vintages[e] # NoEntry
  <2>1. PICK new : new = [old EXCEPT !.todo = @ \ {e}]
    OBVIOUS
  <2>2. new.step = "check" /\ new.knows = old.knows /\ new.kinds = old.kinds /\ new.own = old.own
    BY <1>3, <2>1
  <2>3. new.todo \subseteq old.todo /\ old.todo \subseteq new.todo \cup {e}
    BY <2>1
  <2>4. SeedsAsked(new) = SeedsAsked(old)
    BY <2>2 DEF SeedsAsked
  <2>5. RunSeeds(new)
    BY <1>3, <1>4, <2>2, <2>3, <2>4 DEF RunSeeds
  <2>6. seeding' = [seeding EXCEPT ![p] = new]
    BY <1>1, <1>2, <1>4, <2>1
  <2> QED
    BY <2>5, <2>6, RunStepKeeps DEF CheckEntry
<1>5. CASE ~(vintages[e] # NoEntry)
  <2>1. PICK new : new = [old EXCEPT !.step = "create"]
    OBVIOUS
  <2>2. /\ new.knows = old.knows /\ new.kinds = old.kinds /\ new.own = old.own
        /\ new.todo = old.todo
    BY <2>1
  <2>3. new.step \in {"idle", "create"}
    BY <1>3, <2>1
  <2>4. SeedsAsked(new) = SeedsAsked(old)
    BY <2>2 DEF SeedsAsked
  <2>5. RunSeeds(new)
    BY <1>3, <2>2, <2>3, <2>4 DEF RunSeeds
  <2>6. seeding' = [seeding EXCEPT ![p] = new]
    BY <1>1, <1>2, <1>5, <2>1
  <2> QED
    BY <2>5, <2>6, RunStepKeeps DEF CheckEntry
<1> QED
  BY <1>4, <1>5

LEMMA CreateKeeps == \A p \in Seeders : SeedInd /\ CreateEntry(p) => SeedInd'
<1> SUFFICES ASSUME NEW p \in Seeders, SeedInd, CreateEntry(p) PROVE SeedInd'
  OBVIOUS
<1>1. PICK e \in Due(p) :
         seeding' = [seeding EXCEPT ![p] =
            IF vintages[e] # NoEntry THEN NoSeeding
            ELSE [seeding[p] EXCEPT !.step = "check", !.todo = @ \ {e}, !.own = @ \cup {e}]]
  BY DEF CreateEntry
<1>2. PICK old : old = seeding[p]
  OBVIOUS
<1>3. RunSeeds(old) /\ old.step = "create"
  BY <1>2 DEF SeedInd, CreateEntry
<1>4. CASE vintages[e] # NoEntry
  <2>1. seeding' = [seeding EXCEPT ![p] = NoSeeding]
    BY <1>1, <1>4
  <2> QED
    BY <2>1, NoSeedingSeeds, RunStepKeeps DEF CreateEntry
<1>5. CASE ~(vintages[e] # NoEntry)
  <2>1. PICK new : new = [old EXCEPT !.step = "check", !.todo = @ \ {e}, !.own = @ \cup {e}]
    OBVIOUS
  <2>2. new.knows = old.knows /\ new.kinds = old.kinds
    BY <2>1
  <2>3. /\ new.todo \subseteq old.todo /\ new.own \subseteq old.own \cup {e}
        /\ old.todo \cup old.own \subseteq new.todo \cup new.own \cup {e}
    BY <2>1
  <2>4. new.step \in {"check", "create"}
    BY <1>3, <2>1
  <2>5. SeedsAsked(new) = SeedsAsked(old)
    BY <2>2 DEF SeedsAsked
  <2>6. e \in old.todo
    BY <1>2 DEF Due
  <2>7. e \in new.own \/ e \in new.todo
    BY <2>1, <2>6
  <2>8. RunSeeds(new)
    BY <1>3, <2>2, <2>3, <2>4, <2>5, <2>6, <2>7 DEF RunSeeds
  <2>9. seeding' = [seeding EXCEPT ![p] = new]
    <3>1. seeding' = [seeding EXCEPT ![p] =
             [seeding[p] EXCEPT !.step = "check", !.todo = @ \ {e}, !.own = @ \cup {e}]]
      BY <1>1, <1>5
    <3> QED
      BY <1>2, <2>1, <3>1
  <2> QED
    BY <2>8, <2>9, RunStepKeeps DEF CreateEntry
<1> QED
  BY <1>4, <1>5

\* What a commit leaves in the table: the run's own rows and those it found.
LEMMA CommittedRows ==
    ASSUME SeedInd, NEW p \in Seeders, CommitSeeding(p), NEW e \in Entries
    PROVE  /\ vintages'[e] # NoEntry => RowSound(vintages'[e], e)
           /\ vintages[e] # NoEntry => vintages'[e] # NoEntry
           /\ e \in seeding[p].own => vintages'[e] # NoEntry
<1>1. vintages'[e] = IF e \in seeding[p].own THEN SeededWindow(seeding[p].knows, e) ELSE vintages[e]
  BY DEF CommitSeeding
<1>2. seeding[p].knows[e[1]] \in Nat
  BY EntryOf, StartsAreDays DEF SeedInd, RunSeeds
<1>3. SeededWindow(seeding[p].knows, e) # NoEntry /\ RowSound(SeededWindow(seeding[p].knows, e), e)
  BY <1>2, WindowSound
<1> QED
  BY <1>1, <1>3 DEF SeedInd

LEMMA CommitKeeps == \A p \in Seeders : SeedInd /\ CommitSeeding(p) => SeedInd'
<1> SUFFICES ASSUME NEW p \in Seeders, SeedInd, CommitSeeding(p) PROVE SeedInd'
  OBVIOUS
<1>1. \A e \in Entries : vintages'[e] # NoEntry => RowSound(vintages'[e], e)
  BY CommittedRows
<1>2. \A e \in Entries : vintages[e] # NoEntry => vintages'[e] # NoEntry
  BY CommittedRows
<1>3. ASSUME NEW q \in Seeders PROVE RunSeeds(seeding[q])'
  <2>1. CASE q = p
    <3>1. seeding'[q] = NoSeeding
      BY <2>1 DEF SeedInd, CommitSeeding
    <3>2. RunSeeds(seeding'[q]) \/ seeding'[q] # NoSeeding
      BY NoSeedingSeeds
    <3> QED
      BY <3>1, StartsAreDays DEF RunSeeds, NoSeeding
  <2>2. CASE q # p
    <3>1. seeding'[q] = seeding[q]
      BY <2>2 DEF SeedInd, CommitSeeding
    <3> QED
      BY <1>2, <3>1, RunSeedsStay
  <2> QED
    BY <2>1, <2>2
<1>4. DOMAIN vintages' = Entries /\ DOMAIN seeding' = Seeders /\ known' = known
  BY DEF SeedInd, CommitSeeding
<1> QED
  BY <1>1, <1>3, <1>4 DEF SeedInd, RowSound

LEMMA RollBackKeeps == \A p \in Seeders : SeedInd /\ RollBackSeeding(p) => SeedInd'
<1> SUFFICES ASSUME NEW p \in Seeders, SeedInd, RollBackSeeding(p) PROVE SeedInd'
  OBVIOUS
<1> QED
  BY NoSeedingSeeds, RunStepKeeps DEF RollBackSeeding

LEMMA SeedFollows == SeedInd /\ [SeedNext]_seedVars => SeedInd'
BY SeedUnchanged, ExtendKeeps, BeginSeedingKeeps, CheckKeeps, CreateKeeps, CommitKeeps, RollBackKeeps
   DEF SeedNext

LEMMA SeedAlwaysInd == SeedSpec => []SeedInd
BY SeedBegins, SeedFollows, PTL DEF SeedSpec

\* The catalog of the deployed code grows and never passes what is published,
\* a row starts with its period, and a run creates entries of the catalog only.
THEOREM SeedTypeCorrect == SeedSpec => []SeedTypeOK
<1>1. SeedInd => SeedTypeOK
  BY DEF SeedInd, SeedTypeOK, RowSound, RunSeeds
<1> QED
  BY <1>1, SeedAlwaysInd, PTL

\* seed_known_vintages: after a run that commits, whatever others ran before it
\* or beside it, every period of its catalog has a row in force at its start, and
\* no earlier row is in force there but one that an older catalog left open.
THEOREM SeriesAlwaysTile == SeedSpec => SeededSeriesTile
<1>1. SeedInd /\ [SeedNext]_seedVars =>
        [\A p \in Seeders : CommitSeeding(p) =>
           \A k \in seeding[p].kinds : \A s \in ToSet(SeriesOf[k]) :
           \A n \in 1..seeding[p].knows[s] :
              /\ InForce(<<s, n>>, Starts[s][n])'
              /\ \A m \in 1..(n - 1) :
                   InForce(<<s, m>>, Starts[s][n])' => vintages'[<<s, m>>].latestOf = m]_seedVars
  <2> SUFFICES ASSUME SeedInd, NEW p \in Seeders, CommitSeeding(p),
                      NEW k \in seeding[p].kinds, NEW s \in ToSet(SeriesOf[k]),
                      NEW n \in 1..seeding[p].knows[s]
               PROVE  /\ InForce(<<s, n>>, Starts[s][n])'
                      /\ \A m \in 1..(n - 1) :
                           InForce(<<s, m>>, Starts[s][n])' => vintages'[<<s, m>>].latestOf = m
    OBVIOUS
  <2>1. RunSeeds(seeding[p]) /\ s \in Chosen(seeding[p].kinds)
    BY DEF SeedInd, Chosen
  <2>2. s \in Series
    BY <2>1, ChosenSeries DEF RunSeeds
  <2>3. /\ seeding[p].knows[s] \in 1..Len(Starts[s]) /\ DOMAIN Starts[s] = 1..Len(Starts[s])
        /\ \A i \in DOMAIN Starts[s] : Starts[s][i] \in Nat
        /\ Len(Starts[s]) \in Nat
    BY <2>1, <2>2, StartsAreDays DEF RunSeeds
  <2>4. n \in DOMAIN Starts[s] /\ \A m \in 1..(n - 1) : m \in DOMAIN Starts[s] /\ m < n
    BY <2>3
  <2>5. InForce(<<s, n>>, Starts[s][n])'
    <3>1. <<s, n>> \in Entries /\ <<s, n>>[1] = s /\ <<s, n>>[2] = n
      BY <2>2, <2>4, EntryIs
    <3>2. <<s, n>> \in SeedsAsked(seeding[p])
      BY <2>1 DEF SeedsAsked
    <3>3. <<s, n>> \in seeding[p].own \/ vintages[<<s, n>>] # NoEntry
      BY <2>1, <3>2 DEF RunSeeds, CommitSeeding
    <3>4. vintages'[<<s, n>>] # NoEntry /\ RowSound(vintages'[<<s, n>>], <<s, n>>)
      BY <3>1, <3>3, CommittedRows
    <3>5. Starts[s][n] \in Nat
      BY <2>3, <2>4
    <3> QED
      BY <3>1, <3>4, <3>5 DEF RowSound, InForce
  <2>6. ASSUME NEW m \in 1..(n - 1), InForce(<<s, m>>, Starts[s][n])'
        PROVE  vintages'[<<s, m>>].latestOf = m
    <3>1. <<s, m>> \in Entries /\ <<s, m>>[1] = s /\ <<s, m>>[2] = m
      BY <2>2, <2>4, EntryIs
    <3>2. RowSound(vintages'[<<s, m>>], <<s, m>>)
      BY <2>6, <3>1, CommittedRows DEF InForce
    <3>3. Starts[s][m] \in Nat /\ Starts[s][n] \in Nat /\ Starts[s][m] < Starts[s][n]
      BY <2>2, <2>3, <2>4, SeedingAssumption
    <3>4. vintages'[<<s, m>>].to = Unreplaced \/ Starts[s][n] < vintages'[<<s, m>>].to
      BY <2>6 DEF InForce
    <3>5. Starts[s][m] + 1 # Unreplaced /\ ~(Starts[s][n] < Starts[s][m] + 1)
      BY <3>3, SeedingAssumption
    <3> QED
      BY <3>1, <3>2, <3>4, <3>5 DEF RowSound
  <2> QED
    BY <2>5, <2>6
<1>2. SeedSpec => [][SeedNext]_seedVars
  BY PTL DEF SeedSpec
<1>3. []SeedInd /\ [][SeedNext]_seedVars => SeededSeriesTile
  BY <1>1, PTL DEF SeededSeriesTile
<1> QED
  BY <1>2, <1>3, SeedAlwaysInd, PTL

-----------------------------------------------------------------------------
(* The composition *)

\* Whichever component is in focus, what MCComponents does is a behaviour of
\* each of them by itself, so what is proved of them holds there.
THEOREM ComponentsRunEach ==
    ComponentsSpec =>
        /\ Spec /\ Alone!Spec /\ ObSpec /\ FecSpec /\ LoadSpec /\ OverlapSpec /\ WarehouseSpec
        /\ CrosswalkSpec /\ SeedSpec /\ GraphSpec /\ VoterSpec /\ CensusSpec /\ FetchSpec
<1> DEFINE others == <<focus, vars, sessionVars, obVars, fecVars, loadVars, overlapVars,
                       warehouseVars, crosswalkVars, seedVars, graphVars, voterVars,
                       censusVars, fetchVars>>
<1>1. ComponentsInit =>
         /\ Init /\ Alone!Init /\ ObInit /\ FecInit /\ LoadInit /\ OverlapInit /\ WarehouseInit
         /\ CrosswalkInit /\ SeedInit /\ GraphInit /\ VoterInit /\ CensusInit /\ FetchInit
  BY DEF ComponentsInit
<1>2. [ComponentsNext]_others =>
         /\ [Next]_vars /\ [Alone!Next]_sessionVars /\ [ObNext]_obVars /\ [FecNext]_fecVars
         /\ [LoadNext]_loadVars /\ [OverlapNext]_overlapVars /\ [WarehouseNext]_warehouseVars
         /\ [CrosswalkNext]_crosswalkVars /\ [SeedNext]_seedVars /\ [GraphNext]_graphVars
         /\ [VoterNext]_voterVars /\ [CensusNext]_censusVars /\ [FetchNext]_fetchVars
  BY DEF ComponentsNext
<1>3. Alone!vars = sessionVars
  BY DEF Alone!vars, sessionVars
<1>4. [Alone!Next]_sessionVars <=> [Alone!Next]_(Alone!vars)
  BY <1>3 DEF Alone!vars, sessionVars
<1>5. ComponentsSpec => Spec /\ ObSpec /\ FecSpec /\ LoadSpec /\ OverlapSpec /\ WarehouseSpec
  BY <1>1, <1>2, PTL DEF ComponentsSpec, Spec, ObSpec, FecSpec, LoadSpec, OverlapSpec, WarehouseSpec
<1>6. ComponentsSpec => Alone!Spec
  BY <1>1, <1>2, <1>4, PTL DEF ComponentsSpec, Alone!Spec
<1>7. ComponentsSpec => CrosswalkSpec /\ SeedSpec /\ GraphSpec /\ VoterSpec /\ CensusSpec /\ FetchSpec
  BY <1>1, <1>2, PTL DEF ComponentsSpec, CrosswalkSpec, SeedSpec, GraphSpec, VoterSpec, CensusSpec, FetchSpec
<1> QED
  BY <1>5, <1>6, <1>7

\* The session of MCComponents, with what is proved of AddressCacheSessions.
AloneProofs == INSTANCE AddressCacheSessionsProofs WITH
    Keys <- SessionKeys, RowInputs <- SessionRows, Sessions <- {"s1"}, Modes <- AtomicModes,
    Today <- 3, FreshCallers <- TRUE,
    abp <- sessionAbp, cache <- sessionCache, mirror <- sessionMirror, owner <- sessionOwner,
    pc <- sessionPc, job <- sessionJob, inst <- sessionInst, lone <- sessionLone,
    stored <- sessionStored

\* The two instances of AddressCacheSessions are one machine.
LEMMA SameMachine ==
    /\ Alone!Init <=> AloneProofs!Init
    /\ [Alone!Next]_(Alone!vars) <=> [AloneProofs!Next]_(AloneProofs!vars)
    /\ Alone!TypeOK <=> AloneProofs!TypeOK
<1>1. Alone!Init <=> AloneProofs!Init
  BY DEF Alone!Init, AloneProofs!Init, Alone!BlankGeoids, AloneProofs!BlankGeoids,
         Alone!EmptyRow, AloneProofs!EmptyRow, Alone!NoDate, AloneProofs!NoDate
<1>2. Alone!Next <=> AloneProofs!Next
  BY DEF Alone!Next, AloneProofs!Next, Alone!Advance, AloneProofs!Advance, Alone!Load,
         AloneProofs!Load, Alone!Kill, AloneProofs!Kill, Alone!WriteRow,
         AloneProofs!WriteRow, Alone!Compare, AloneProofs!Compare, Alone!UpdateAddress,
         AloneProofs!UpdateAddress, Alone!Notify, AloneProofs!Notify,
         Alone!SubscriberRaises, AloneProofs!SubscriberRaises, Alone!Finish,
         AloneProofs!Finish, Alone!End, AloneProofs!End, Alone!Disturb,
         AloneProofs!Disturb, Alone!CommitRow, AloneProofs!CommitRow, Alone!GeoidsOf,
         AloneProofs!GeoidsOf, Alone!Overlay, AloneProofs!Overlay, Alone!Visible,
         AloneProofs!Visible, Alone!Uncommitted, AloneProofs!Uncommitted, Alone!Atomic,
         AloneProofs!Atomic, Alone!EmptyRow, AloneProofs!EmptyRow, Alone!NoDate,
         AloneProofs!NoDate, Alone!Touched, AloneProofs!Touched, Alone!IsCurrentVintage,
         AloneProofs!IsCurrentVintage, Alone!GeoidOn, AloneProofs!GeoidOn, Alone!First,
         AloneProofs!First, Alone!Latest, AloneProofs!Latest, Alone!Eligible,
         AloneProofs!Eligible, Alone!ForYear, AloneProofs!ForYear, Alone!ScanOrders,
         AloneProofs!ScanOrders, Alone!Cardinality, AloneProofs!Cardinality,
         Alone!IsFiniteSet, AloneProofs!IsFiniteSet
<1>3. Alone!TypeOK <=> AloneProofs!TypeOK
  BY DEF Alone!TypeOK, AloneProofs!TypeOK, Alone!Row, AloneProofs!Row, Alone!GeoidMap,
         AloneProofs!GeoidMap, Alone!Job, AloneProofs!Job, Alone!Steps,
         AloneProofs!Steps, Alone!GeoidOrBlank, AloneProofs!GeoidOrBlank,
         Alone!ContextDate, AloneProofs!ContextDate, Alone!Date, AloneProofs!Date,
         Alone!NoDate, AloneProofs!NoDate
<1> QED
  BY <1>1, <1>2, <1>3 DEF Alone!vars, AloneProofs!vars

\* The constants of the session are as AddressCacheSessions assumes.
LEMMA SessionConstants ==
    /\ Window \in [Vintages -> AloneProofs!VintageRecord]
    /\ AloneProofs!NoDate = NoDate /\ AloneProofs!NoDecade = NoDecade
    /\ AloneProofs!IsFiniteSet(SessionKeys) /\ \A k \in SessionKeys : k[1] \in Vintages
    /\ NoSession \notin {"s1"}
    /\ AtomicModes \subseteq AloneProofs!ModeRecord
    /\ SessionRows \subseteq AloneProofs!Row /\ 3 \in AloneProofs!Date
<1>1. AloneProofs!NoDate = NoDate /\ AloneProofs!NoDecade = NoDecade
  BY DEF AloneProofs!NoDate, NoDate, AloneProofs!NoDecade, NoDecade
<1>2. Window \in [Vintages -> AloneProofs!VintageRecord]
  BY <1>1, VintageAssumption
     DEF VintageRecord, AloneProofs!VintageRecord, Kinds, AloneProofs!Kinds, Date, AloneProofs!Date,
         ContextDate, AloneProofs!ContextDate
<1>3. AloneProofs!IsFiniteSet(SessionKeys)
  <2>1. IsFiniteSet({<<v2010, NoPlan>>} \cup {<<v2020, NoPlan>>} \cup {<<v2020, p1>>})
    BY FS_Singleton, FS_AddElement
  <2>2. SessionKeys = {<<v2010, NoPlan>>} \cup {<<v2020, NoPlan>>} \cup {<<v2020, p1>>}
    BY DEF SessionKeys
  <2> QED
    BY <2>1, <2>2 DEF AloneProofs!IsFiniteSet, IsFiniteSet
<1>4. \A k \in SessionKeys : k[1] \in Vintages
  BY SessionAssumption DEF SessionKeys
<1>5. AtomicModes \subseteq AloneProofs!ModeRecord
  BY DEF AtomicModes, AloneProofs!ModeRecord
<1>6. SessionRows \subseteq AloneProofs!Row /\ 3 \in AloneProofs!Date
  BY <1>1, SessionAssumption DEF Row, AloneProofs!Row, ContextDate, AloneProofs!ContextDate, Date,
              AloneProofs!Date, GeoidOrBlank, AloneProofs!GeoidOrBlank
<1> QED
  BY <1>1, <1>2, <1>3, <1>4, <1>5, <1>6, SessionAssumption

\* The session keeps to its types: the lemmas of SessionsTypeCorrect, for it.
LEMMA AloneTypes == Alone!Spec => []Alone!TypeOK
<1> USE SessionConstants, BlankAssumption, DecadeAssumption, VintageAssumption, DecadalAssumption
<1>1. AloneProofs!Init => AloneProofs!IInv
  BY AloneProofs!TypesInit
<1>2. AloneProofs!IInv /\ [AloneProofs!Next]_(AloneProofs!vars) => AloneProofs!IInv'
  BY AloneProofs!TypesStep
<1>3. AloneProofs!IInv => Alone!TypeOK
  BY SameMachine DEF AloneProofs!IInv
<1>4. Alone!Spec => AloneProofs!Spec
  BY SameMachine, PTL DEF Alone!Spec, AloneProofs!Spec
<1> QED
  BY <1>1, <1>2, <1>3, <1>4, PTL DEF AloneProofs!Spec

\* The component in focus keeps to its types.
THEOREM ComponentTypesCorrect == ComponentsSpec => []ComponentsTypeOK
<1>1. /\ Spec => []TypeOK
      /\ Alone!Spec => []Alone!TypeOK
      /\ ObSpec => []ObTypeOK
      /\ FecSpec => []FecTypeOK
      /\ LoadSpec => []LoadTypeOK
      /\ OverlapSpec => []OverlapTypeOK
      /\ WarehouseSpec => []WarehouseTypeOK
  BY HistoryTypeCorrect, AloneTypes, ObTypeCorrect, LinksAlwaysSound, LoadTypeCorrect,
     OverlapTypeCorrect, WarehouseTypeCorrect, PTL
<1>2. /\ CrosswalkSpec => []CrosswalkTypeOK
      /\ SeedSpec => []SeedTypeOK
      /\ GraphSpec => []GraphTypeOK
      /\ VoterSpec => []VoterTypeOK
      /\ CensusSpec => []CensusTypeOK
      /\ FetchSpec => []FetchTypeOK
  BY CrosswalkTypeCorrect, SeedTypeCorrect, GraphTypeCorrect, VoterTypeCorrect, CensusTypeCorrect,
     FetchTypeCorrect, PTL
<1>3. ComponentsInit => focus \in Components
  BY DEF ComponentsInit
<1>4. focus \in Components /\ [ComponentsNext]_<<focus, vars, sessionVars, obVars, fecVars, loadVars,
        overlapVars, warehouseVars, crosswalkVars, seedVars, graphVars, voterVars, censusVars,
        fetchVars>> => (focus \in Components)'
  BY DEF ComponentsNext
<1>5. /\ focus \in Components
      /\ TypeOK /\ Alone!TypeOK /\ ObTypeOK /\ FecTypeOK /\ LoadTypeOK /\ OverlapTypeOK
      /\ WarehouseTypeOK /\ CrosswalkTypeOK /\ SeedTypeOK /\ GraphTypeOK /\ VoterTypeOK
      /\ CensusTypeOK /\ FetchTypeOK
      => ComponentsTypeOK
  BY DEF Components, ComponentsTypeOK
<1> QED
  BY <1>1, <1>2, <1>3, <1>4, <1>5, ComponentsRunEach, PTL DEF ComponentsSpec

\* So are the two instances of CurrentCache that they promise to implement.
LEMMA SamePromise ==
    /\ Alone!Promise!Init <=> AloneProofs!Promise!Init
    /\ [Alone!Promise!Next]_(Alone!Promise!vars)
         <=> [AloneProofs!Promise!Next]_(AloneProofs!Promise!vars)
<1>1. Alone!Promise!Init <=> AloneProofs!Promise!Init
  BY DEF Alone!Promise!Init, AloneProofs!Promise!Init, Alone!Promise!EmptyRow,
         AloneProofs!Promise!EmptyRow, Alone!Promise!NoDate,
         AloneProofs!Promise!NoDate
<1>2. Alone!Promise!Next <=> AloneProofs!Promise!Next
  BY DEF Alone!Promise!Next, AloneProofs!Promise!Next, Alone!Promise!Write,
         AloneProofs!Promise!Write, Alone!Promise!Current,
         AloneProofs!Promise!Current, Alone!Promise!GeoidOrBlank,
         AloneProofs!Promise!GeoidOrBlank, Alone!Promise!IsCurrentVintage,
         AloneProofs!Promise!IsCurrentVintage, Alone!Promise!Touched,
         AloneProofs!Promise!Touched, Alone!Promise!Answers,
         AloneProofs!Promise!Answers, Alone!Promise!Latest,
         AloneProofs!Promise!Latest, Alone!Promise!Eligible,
         AloneProofs!Promise!Eligible, Alone!Promise!ForYear,
         AloneProofs!Promise!ForYear, Alone!Promise!EmptyRow,
         AloneProofs!Promise!EmptyRow, Alone!Promise!NoDate,
         AloneProofs!Promise!NoDate
<1> QED
  BY <1>1, <1>2 DEF Alone!Promise!vars, AloneProofs!Promise!vars

\* The session of MCComponents is alone, reads the Address before each save and
\* saves in transactions, so it keeps the promise of signals.py.
THEOREM SessionKeepsPromise == ComponentsSpec => PromiseKept
<1> USE SessionConstants, BlankAssumption, DecadeAssumption, VintageAssumption, DecadalAssumption
<1>1. AloneProofs!InTransactions /\ AloneProofs!OneSession
  BY DEF AloneProofs!InTransactions, AloneProofs!OneSession, AtomicModes
<1>2. AloneProofs!Init => AloneProofs!AloneInv /\ AloneProofs!Promise!Init
  BY AloneProofs!AloneInit
<1>3. AloneProofs!AloneInv /\ [AloneProofs!Next]_(AloneProofs!vars)
        => AloneProofs!AloneInv' /\ [AloneProofs!Promise!Next]_(AloneProofs!Promise!vars)
  BY <1>1, AloneProofs!AloneNext
<1>4. Alone!Spec => Alone!PromiseKept
  BY <1>2, <1>3, SameMachine, SamePromise, PTL DEF Alone!Spec, Alone!PromiseKept, Alone!Promise!Spec
<1> QED
  BY <1>4, ComponentsRunEach DEF PromiseKept
=============================================================================
