# Verification of socialwarehouse

TLA+ models of socialwarehouse: its geographic core, its voter pipeline, the jobs that
fetch, load, derive and publish its data, and the balances it keeps. They are
model-checked with TLC on small instances; theorems are checked by TLAPS for every value
of the constants. A line of the source is written `signals.py:197`; paths are under
`src/`, and under `src/socialwarehouse/geo/` where the file is named alone.

## 1. Inventory

| component | state | operations | what is hard | correct when |
|---|---|---|---|---|
| **boundary cache** (`signals.py`) | `Address.{type}_geoid`, `census_year`; the thread's `_signal_state.disabled` | the `post_save` receiver, `address_cache_refresh_disabled`, `refresh_address_caches`, the `address_boundary_cache_changed` signal | rows saved out of date order, suppressed and raw saves, nested blocks, concurrent transactions, stale objects, subscribers that raise, the calendar | each cached geoid is the one `current_boundaries()` gives; nothing foreign is ever cached; save, cache and notification share one fate |
| **boundary queries** (`models/address.py`) | none | `boundaries_on`, `geoid_on`, `boundary_history`, `boundary_timeline`, `is_redistricting_assignment_stale`, `populate_foreign_keys` | ties and NULLs in orderings, period ends, plan changes | the point-in-time query, the history and the timeline tell one story |
| **rows and vintages** (`models/address_boundary.py`, `models/vintages.py`) | `AddressBoundaryPeriod`, unique per (address, vintage, plan); `Vintage` windows | create, `update_or_create`, `for_year` | windows that are never closed | at most one decade is current |
| **vintage seeding** (`seed_known_vintages.py`) | the rows of the vintage tables | one transaction of exists/create pairs | a grown catalog, overlapping runs, columns set once | the periods of a series tile time |
| **batch writers** (`assign_boundaries.py`, `geocode_addresses.py`, `tasks.py`) | the `Address` row and its boundary rows; objects in a worker's memory | select, read, geocode, join, save, `update_or_create`; Celery retries and chains | whole objects written back after others wrote; death between two statements; repeated runs | a geocoded address has a point; a row is one assignment; an undisturbed run settles the address |
| **intersections** (`compute_geographic_intersections.py`) | pairs of a unit and a district with overlap shares | recompute a year, unit by unit | overlaps that are gone are kept; reloads under a run | a unit is dominated by one district of a map |
| **crosswalks** (`socialwarehouse/warehouse/services/geographic_enrichment.py`) | undated rows of estimated tracts | `apply_crosswalks` | rows selected once, upserted while others assign | an estimate never replaces an assignment |
| **warehouse** (`socialwarehouse/warehouse/`) | `DimGeography` with parents, dates, surveys, `FactACSEstimate`, `FactDecennialCount` | `load_warehouse`, row by row under autocommit | parents and dimensions that are not there yet, geoids shared by levels | a complete load links everything that was there |
| **domain loaders** (`socialwarehouse/civic`, `demographic`, `economic`) | a table per domain, files on disk, variable catalogs | fetch or reuse, select, merge, upsert in one transaction | files that are never fetched again, releases that arrive in between, overlap | no row goes back to an older release by itself |
| **voter medallion** (`swh/voters/`) | bronze and silver Delta tables, `DimPerson` in PostgreSQL | ingest, build silver, aggregate, materialise, backfill addresses | one person in two stores with no common transaction; re-ingest; MERGE that replaces whole rows | everything kept of a voter goes back to the vendor; counts, facts and links agree across the stores; an undisturbed run ends right whatever died before it |
| **`swh` bulk loads** (`swh/census.py`, `swh/voters/_legacy_raw.py`) | PostGIS tables, staging tables, exit codes | `load-census`, `download-census`, `load-voters` | refused uploads, types that fail, loads of one table beside each other | the exit code is true; a voter table is one whole file |
| **source fetching** (`scripts/fetch.py`, `scripts/sources/`) | files, the state file of a source | check, fetch, load, record, for ACS, TIGER and plans | downloads cut short, failing commands, runs beside each other | what the state file names is here |
| **FEC graph** (`swh/analysis/fec/`) | the dataset directories of a cycle, report tables | build edges and vertices, centrality by party | two overwrites of one directory, lazy reads | a report describes one graph |
| **Dagster** (`socialwarehouse/orchestration/`) | Delta tables, PostGIS tables, sensor cursor, `MaterializationRecord` | factory assets, sensors, the nightly schedule | append on retry, overlapping runs, a daemon that dies with the cursor unwritten | parity means a mirror of the source; the newest commit of the addresses is requested |
| **agents, attestations, FEC load** (`socialwarehouse/agents/`, `core/`) | `Agent` hubs, typed rows, attestations | two set-based statements per entity kind | a death between them, corrections of gold | identities are immutable and linked |
| **obligations** (`socialwarehouse/transactions/`) | `current_balance`, `status` | `apply_event`, save | clamping, statuses that do not reopen, objects out of date | balance and status follow the events |
| **Delta registry, events, political reference data, agent facets, API, operator tools, deployment** | none, or declarations only | reads, reports, configuration | | |

How they meet. `scripts/fetch.py` brings TIGER, ACS and plans into files and starts the
loads. `geocode_addresses` gives an address its point; `assign_boundaries` joins the point
with boundaries and plans, saves the `Address` and writes its `AddressBoundaryPeriod` under
a block that switches the receiver off; every other writer of a boundary row goes through
the receiver, which re-resolves the cached geoids by `boundaries_on` and signals subscribers
in the same transaction. `apply_crosswalks` writes rows of the same table, undated; vintages
come from `seed_known_vintages`. Celery repeats and chains the commands. The warehouse and
the intersections are computed from the boundary tables, whose reload they do not notice.
The voter pipeline links its persons to addresses; Dagster copies Delta tables into PostGIS,
where the API reads them.

## 2. Modules

```
BoundaryPeriods ──────── rows, vintages, boundaries_on   (operators, no state)
 ├─ AddressCache         the receiver, a save is one step
 ├─ CurrentCache         what signals.py promises: one indivisible step
 ├─ AddressCacheSessions the statements of a save, between sessions; refines CurrentCache
 ├─ BoundaryHistory      boundary_history, boundary_timeline, staleness
 └─ BoundaryAssignment   geocode_addresses and assign_boundaries on one address
      └─ AssignmentStaleness   its rows read through INSTANCE BoundaryHistory

VintageSeeding          seed_known_vintages
GeographicIntersections compute_geographic_intersections
CrosswalkApplication    apply_crosswalks
WarehouseLoad           load_warehouse
DomainLoads             the load commands of civic, demographic, economic
SourceFetch             scripts/fetch.py
CensusTables            load-census, download-census
VoterFileLoad           load-voters
VoterMedallion          bronze, silver, PostgreSQL and the address link of one voter
FecGraph                fec-build-graph, fec-centrality
PostgisPublication      the Dagster assets, their sensor and schedule
FecLoad                 load_fec_agents, _attestations
 └─ IdentityRegister    what the agent hub promises: identities are only added
ObligationLedger        Obligation.apply_event

MCComponents            thirteen of them in one state space
MCFairComponents        AddressCacheSessions and PostgisPublication, with fairness

theorems in             about
BoundaryPeriodsProofs        lemmas about BoundaryPeriods
AddressCacheProofs           AddressCache
AddressCacheSessionsProofs   AddressCacheSessions, and that it implements CurrentCache
BoundaryAssignmentProofs     BoundaryAssignment
VoterMedallionProofs         VoterMedallion
BulkLoadProofs               SourceFetch, DomainLoads, CensusTables, VoterFileLoad
ComponentsProofs             BoundaryHistory, WarehouseLoad, GeographicIntersections,
                             CrosswalkApplication, ObligationLedger, FecLoad, FecGraph,
                             VintageSeeding, and the composition MCComponents
FairComponentsProofs         PostgisPublication, and the composition MCFairComponents
```

The other `MC…` modules give one machine its constants. Operators whose comment begins with
*mutant* are the mutated forms of the definition that follows: they stand for a bug the
properties must notice, and no specification uses them. Model-wide prefixes (`ob`, `pub`,
`seed`…) only keep the names of one composition apart.

**BoundaryPeriods.** One address. The unique constraint with NULL plans equal
(`address_boundary.py:182`) makes its rows a function `abp` from `<<vintage, plan>>` to
`[ctx, geoid]`; no query distinguishes a missing row from one without geoids, so a missing
row is `EmptyRow`. Dates are naturals, a decade is `DecadeDays` of them. `Eligible` and
`Latest` are the filter and the order of `boundaries_on` (`address.py:514-570`); its
`ORDER BY` has no tie-breaker, so every injective `ScanOrders` is a possible answer.

**AddressCache.** `Save` is the whole of a save and its receiver: the gates
(`HandlerRuns`: raw, disabled, current vintage), the touched types, the re-resolution
(`Refreshed`), the census year (`YearAfter`), one update. `EnterBulk`/`ExitBulk` are the
context manager with its saved `prev`; `RefreshCaches` is `refresh_address_caches`;
`NextDay` is the calendar, which runs no code. Whether the receiver exists at all is
`ReceiverAlive == Debug` (finding 1). `exposed` and `served` are history variables: the
types something out of the receiver's sight has touched, and the geoids that ever answered
for the day.

**AddressCacheSessions.** The same save, one statement per action, in one transaction per
session: `WriteRow` (waits for the row's unique key), `Compare` (reads what READ COMMITTED
shows the session), `UpdateAddress` (takes the address row's lock), `Notify` or
`SubscriberRaises` (rolls back, and leaves objects in memory as they were), `Finish`
(COMMIT), `Kill`. `Load` reads the `Address` object the caller goes on using; with
`FreshCallers` it does so before each save. `lone` records that nobody else has written
since.

**CurrentCache.** The abstract specification of the promise: a row is written, the touched
types become current and the subscriber knows, in one step. `Promise == INSTANCE
CurrentCache` in AddressCacheSessions, with the identity mapping on `abp`, `cache`, `mirror`.

**BoundaryHistory.** Rows are created and rewritten, days pass; `assigned_at` is
`auto_now_add`, so it is the place in `created`. The helpers are operators on the state,
named as in the code. NULL dates order as PostgreSQL orders them.

**BoundaryAssignment.** One address, any number of processes. A geocoder reads it
(`GeocoderReads`), waits for the service and writes back its field list (`Geocoded`, the
Census phase, with the FIPS types the Census answers; `GeocodedByNominatim`, the second
phase, for those the first did not find). An assigner selects (`Select`), reads the batch
(`ReadBatch`), joins, saves every field of the object it holds (`SaveAddress`, which with
`--populate-fks` is also `populate_foreign_keys`), then writes the row (`SaveRow`). `Die`
ends any of them between any two statements; running again is a new `Select` or
`GeocoderReads`. Spatial joins are the constant `Join`: what a Census year, or a plan, puts
around a location. A geoid the join does not find is None, the column refuses it and the
bare `except` counts the address as failed (`AssignFails`).

**AssignmentStaleness.** Composes the two: the rows `BoundaryAssignment` wrote, asked about
staleness by the operators of `BoundaryHistory`, with the plans of each chamber.

**VintageSeeding.** A run reads which entries exist and inserts the others in one
transaction (`atomic`), kind by kind and period by period (`Due` is the entry it has come
to); a second run waits for its unique keys. Entries are `<<series, n>>`; the catalog is
code and grows by deployments. A window that was created open stays open.

**GeographicIntersections.** Both layers. `ReadPlot` computes the overlaps of one unit from
the boundaries of the moment, `StoreOverlap` upserts one of them; nothing is deleted. Shares
are in tenths of a percent, so that the thresholds of the code (99.9, 50, `--min-overlap`)
are numbers of the model.

**CrosswalkApplication.** `SelectPeriods` opens the cursor over addresses without a row of
the target vintage, `ApplyPeriod` upserts one of them by the heaviest target, the first of
equals; `AssignTarget` and `AssignSource` are assign_boundaries beside it. `chosen` and
`assigned` are history variables.

**WarehouseLoad.** `load_warehouse` level by level: each boundary upserts the row of
`(geoid, vintage_year)` and looks its parent up by prefix. A fact needs its dimension row.
`provided` says which rows somebody has put into the database: without them a run stops, since
`DimTime` would lack `day_of_year` (`dimension_loader.py:125`) and `DimSurvey` and
`DimCensusVariable` are given a `name` they do not have (`census_loader.py:66`).

**DomainLoads.** A command fetches its parts, the first of which says which rows there are,
and upserts them in one transaction. Four commands keep their files and reuse whatever exists,
a cut one too; three fetch every time and keep to a catalog. A value is the release its part
came from. `load_qcew` selects by `area_fips` (`bls_qcew_files.py:109`), so its county rows
of the state are the ones `InState` lists. `load_nces` has three parts and is
left out of the run for its size (1.5 million states by itself, no violation); the two other
NCES commands take the same steps.

**SourceFetch.** `Check` compares the published editions with the state file; `--force` takes
a vintage whatever the file says, which moves the file back or forward; only the newest
vintage is fetched. TIGER skips a file that exists (`census_tiger.py:89`), so one cut short
stays; RDH writes a plan to the file of its name, which two plans may share, and records the
whole payload, filtered, without URL or given up (`rdh.py:173`). A load command that fails
leaves the edition unrecorded; a narrowed run records it. The files' directory is not passed
to `populate_boundaries`, which finds them where the checkout is.

**CensusTables.** A run downloads all types of a state, uploads those that came, each
replacing `<type>_<state>`, goes on past failures and chooses its exit code. The year is not
in a table's name (`swh/census.py:178`), so a run of another year replaces it too.

**VoterFileLoad.** Chunks go to `<table>_staging_<uuid>`; `SwapTables` is the one transaction
that renames. A chunk is uploaded, skipped (no coordinates), refused (`upload_spatial_data`
returns False, which is not looked at) or raises; a load may die before it drops its staging
table.

**VoterMedallion** (`swh/voters/`). One voter; stages treat voters independently. `Stages`
lists what each command of `swh` does; a stage is two steps, one that reads into the
driver's memory (`ReadPersons`, `ReadFacts`, `ReadDimPersons`, ...) and one that writes a
table (`MergePersons`, `MergeFacts`, `UpsertDim`, ...), because nothing else is atomic
there: a Delta commit and a PostgreSQL statement are. `backfill` reads the unlinked rows,
looks the address up (`Resolve`), and writes what it found to silver (`LinkSilver`) and then
to `DimPerson` (`LinkDim`). A killed command is `Die`, and so is one that fails for a
conflicting MERGE or a table that is not there; a rerun is a new `Begin`. Silver rows carry
what later stages read: the bronze record they are from, the address, the counts. Vote
counts are those of generals and of all elections; `NoCounts` stands for NULL in silver and
for zero in `DimPerson`. Rows of Delta come in any order, and the first one met is kept.
`alone` records that nobody else has written since the command began. `NamesSurvive` says
whether pandas keeps the name of the id column (finding 5).

**FecGraph.** A write removes the old dataset, reads the bulk files of the moment (Spark is
lazy) and adds its own; centrality loads edges and vertices when it begins and reads them
when it writes each party's table.

**PostgisPublication.** One pipeline from bronze to its PostGIS tables (`Pipeline` lists all
seven, with what their gold step does: nothing, a copy, or, for the addresses, an error). An
asset reads its frame, then appends it (`to_sql`) and records parity by counting what it read
and wrote. The one arrival sensor probes `bronze.addresses_raw` (`HasArrivalSensor`): it is
`Evaluate`, `Launch` and `StoreCursor`, a run_key launches once, `DaemonDies` loses what was not
stored. A commit of another bronze table launches nothing. Runs of the other pipelines come
from the nightly schedule, an operator, or an arrival of addresses, whose job `geo_refresh`
selects the assets of every pipeline; `StartRun` begins such a run at any moment, at most
`MaxStarts` of them.

**FecLoad** and **IdentityRegister.** Per table of the order `InsertAgents`, then
`UpsertTyped`, two statements that each commit; `Attest` is the canonical attestation.
`Correct` changes a gold table in between, `LinkAgent` is the abstract base's own save.
IdentityRegister is the abstract specification that `mixins.py` states: "Immutable once
assigned". `link_agent` accepts any hub; the model's caller brings the one of the row's identity.

**ObligationLedger.** `Get`, `Record` with `apply_event` in memory, `SaveObligation` of the
whole row. `sum` and `low` are history: the events that went into a balance and what the
floor at zero has forgiven. An event of any type may have an amount below zero, as nothing
in the code refuses one. The statuses `defaulted` and `written_off`, which no code sets, are
left out.

## 3. Runs

| run | instance | bounds | shows |
|---|---|---|---|
| `cache` | `AddressCache_sealed` | decade 2010 (closed) and the first day of 2020, an ACS vintage; 4 keys, 3 rows, 2 types; nesting 2 | cache and census year under every order of saves, fixture loads, blocks, refreshes and days |
| `cache_production` | `AddressCache_production` | the same, DEBUG off | finding 1 |
| `fair_components` | `MCFairComponents_pair` | 2 sessions, 2 keys, 2 rows, stale callers, kills, raising subscribers; or 2 runs of one of 3 pipelines, 2 commits, 1 death of the daemon, 3 runs that no commit of the pipeline's own asked for | what survives overlap, and that saves end and commits of the addresses are requested |
| `sessions_overlap` | `AddressCacheSessions_overlap` | 2 sessions, fresh callers | finding 2 |
| `components` | `MCComponents_each` | below | the properties of thirteen components |
| `history_undated` | `BoundaryHistory_undated_order` | undated rows too | finding 3 |
| `assignment` | `BoundaryAssignment_crashes` | 2 assigners, 1 geocoder, 2 places, 3 commands (today, a past date, a year with no vintage), foreign keys for one of 2 states | interleaved, repeated and killed runs |
| `assignment_chambers` | `BoundaryAssignment_chambers` | 1 assigner, 1 geocoder, one command | finding 4 |
| `voters` | `VoterMedallion_overlap` | 2 commands at a time of the 3 longest; 2 bronze rows from 2 records, 2 elections, 1 score type, 1 address at the second record's place | overlapping, repeated and killed commands |
| `voters_names` | `VoterMedallion_names` | 1 worker, column names as pandas gives them | finding 5 |
| `warehouse_drillup` | `WarehouseLoad_drillup` | one run at a time, complete boundary tables | finding 6 |
| `voter_chunks` | `VoterFileLoad_chunks` | files of two chunks | finding 7 |

**One state space for several components.** The components of `components` share no state.
`focus` chooses one when the run begins; that one takes its own `Next`, the others stay as
they begin (where a component has several initial states, all but one are left out while
another is in focus). The behaviours are exactly those of the thirteen machines, side by side,
and a property of one is checked in all of its states. That every behaviour of the composition
is one of each component, and so inherits its theorems, is itself a theorem
(`ComponentsRunEach`, `FairComponentsRunEach`). `x1` and `x2` are the two processes of
whichever is in focus and are interchangeable; every property of the run is a safety property,
so the symmetry is sound. Deadlock is not checked here: commands end, and where a counter is at
its bound nothing may be left to do.

| focus | instance |
|---|---|
| history | 4 keys, dated rows, 4 days, a plan replaced on the last |
| session | 1 session, 3 keys, 3 rows: save by save, the statements implement `CurrentCache` |
| ledger | 2 callers, a draw, a repayment and an event larger than the rest, 3 events, balances to 3 |
| fec | 2 loads, 2 tables, one id in both, rows that normalise alike, 1 correction |
| loads | 2 runs of 6 commands, 2 units, 2 releases |
| overlaps | 2 runs, 2 units, 2 districts, 2 maps with halves, slivers and whole units |
| warehouse | 2 runs; a state, a county that comes late, its tract, a district with the county's geoid |
| crosswalk | 2 runs, 1 address, 2 source rows; a tract with two equal targets and one with none |
| seeding | 2 runs; series of consecutive periods and one that skips; a catalog that grows |
| graph | 2 builds, 1 analyst, 2 issues of the bulk files |
| voters | 2 loads of one table; files with every kind of chunk |
| census | 2 commands, 2 states, 2 types |
| fetch | 2 runs; 2 vintages or 2 plans of one name in different states, narrowed and forced |

Why the bounds are enough. A cached geoid depends on the two best rows of a type and the
save under way, so four keys hold every relation: tied, older, newer, undated, of another
vintage. Two decades and a day after the change suffice for a window to close. Two blocks
are the first nesting in which an inner exit can differ from an outer one. Two processes are
the first overlap, and everywhere here they meet in one row, table, file or directory: a third
sees one of the two written. Two releases, maps, issues or commits are the first in which one
can be older than another; a third is as old as either. All counters are capped by constants
with `Max` in their names, everything else is finite. In `voters` the shorter commands need
no checking of their own: death cuts the three longest ones off after any stage. `assignment`
and `voters` are symmetric in their processes and check safety only. Where a bound is
what TLC could reach rather than what the argument asks, the theorems of section 5 cover
the machine for every value.

Properties, by module.

* AddressCache: `CoherentUnlessExposed` (the only ways to go stale are a save out of the
  receiver's sight, one that empties a geoid and a date that arrives), `CachedOnceServed`
  (a stale cache is only late), `YearFollowsGeoids`.
* AddressCacheSessions: `PromiseKept` for one session; `NoForeignGeoid`,
  `SubscriberSharesFate`, `LoneSaveIsCurrent` and `SavesEnd` for two;
  `CurrentByConstruction`, which two sessions break.
* BoundaryHistory: `TimelineSound` (no gaps, and true: the geoid of each interval is what
  `geoid_on` gives in it), `AssigningClearsStaleness`.
* BoundaryAssignment: `GeocodedHasGeom`, `RowIsOneAssignment` (a row never mixes two
  assignments), `LoneRunSettles` (a run nobody disturbs repairs cache and foreign keys).
* VoterMedallion: `VendorSaidSo`, `CountsTrailHistory` and `FactsFollowSilver` across the
  three stores; `LinkSurvives` across every rebuild of silver; `MaterializeMirrors` and
  `IngestCounts` for a command nobody disturbed.
* PostgisPublication: `ParityMeansMirror`, `LoneRunPublishesBronze`, `CommitsAreRequested`.
* ObligationLedger: `BooksBalance` (a balance follows from its events alone),
  `ReopensOnlyByStaleSave`.
* FecLoad: `LinksSound`, `LoadSettles`, and `ImmutableIdentity`, the refinement of
  IdentityRegister.
* DomainLoads: `RowsGoForward`, `ClearedCacheCatchesUp`.
* GeographicIntersections: `OneDominantUnlessReloaded`. CrosswalkApplication:
  `EstimatesYield`. WarehouseLoad: `FullLoadLinks`. VintageSeeding: `SeededSeriesTile`.
  FecGraph: `ReportsOneGraph`. VoterFileLoad: `LoadIsAllOrNothing`. CensusTables:
  `ExitZeroMeansLoaded`. SourceFetch: `RecordedIsHere`.

The runs check one type invariant for each machine, in `FairTypeOK` and `ComponentsTypeOK`
for the one in focus. All of them are also theorems (section 5).

**Fairness.** Only `fair_components` has any. Of AddressCacheSessions it assumes strong
fairness of `Advance(s)`, one session's next statement: a save runs straight through unless
its process dies (`Kill`, for which nothing is assumed), and PostgreSQL queues the waiters for
a row lock, so a waiter that is enabled again and again gets its turn. Beginning a save is not
fair. `SavesEnd` then says that the locks of the row key and of the address are never waited
for in a circle. Of PostgisPublication it assumes weak fairness of `Sense`, the three steps of
the sensor: the daemon evaluates it every interval, is restarted when it dies (`DaemonDies` is
bounded and not fair), and its probe of Delta's history succeeds some day. Runs are not fair:
`CommitsAreRequested` is about the request, and about the addresses, whose table alone is
probed. While the sessions are in focus there is no commit
and `Sense` is disabled, while the publication is no session is busy, so neither assumption
constrains the other component.

## 4. Findings

1. **The receiver does not outlive `_connect` in production** (`signals.py:197`; run
   `cache_production`). It is a local function, `@receiver` connects it weakly. With DEBUG on,
   Django's keyword check of the receiver leaves a strong reference in an `lru_cache`; with
   DEBUG off nothing does, and no save refreshes the cache. The head of `signals.py` promises
   "current-by-construction".
2. **Overlapping transactions** (`signals.py:234`; run `sessions_overlap`). Each resolves by
   the rows it can see; the later commit overwrites the newer geoid with the older one. What
   the promise does hold for is proved in `CurrentWhenAlone`.
3. **Undated rows come first** (`address.py:485`; run `history_undated`). The docstring says
   they sort last, "Postgres default for NULLS LAST"; under DESC the default is NULLS FIRST.
4. **Other chambers look stale at once** (`assign_boundaries.py:391`; run
   `assignment_chambers`). One row carries the districts of three chambers under the
   congressional plan; `is_redistricting_assignment_stale("sldl")` compares that plan with the
   state house's.
5. **No row of a vendor's file is ever appended** (`swh/voters/ts/bronze.py:117`; run
   `voters_names`). `itertuples()` builds a namedtuple that renames columns whose names are no
   Python identifiers, so `row_dict.get("vb.voterbase_id", "")` is empty and each row is
   skipped. `test_ts_importer.py:195` expects ten rows; it runs only where Spark is. The
   `voters` run has `NamesSurvive = TRUE`: it is the pipeline with that line mended, and shows
   nothing about the code as it stands beyond that. With the names gone, no command ever
   brings anything of a voter into any of the three stores (`NamelessLoadsNothing`).
6. **Drill-up lands on a legislative district**
   (`socialwarehouse/warehouse/services/dimension_loader.py:83`; run `warehouse_drillup`). The
   dimension is keyed by geoid and year whatever the level, and a state legislative district
   has as many digits as a county: it takes the county's row, and the county's tracts then
   hang off it. The model says "supports drill-up via the parent FK (tract → county → state)".
7. **A refused chunk is dropped in silence** (`swh/voters/_legacy_raw.py:274`; run
   `voter_chunks`). `upload_spatial_data` reports failure by its return value, which is not
   looked at: the staging table without the chunk replaces the target. The docstring says
   "if any chunk fails, the target table is left untouched".

Met on the way, without a run of their own. Paths here are under `src/socialwarehouse/` or
as written.

* Rows and history: `boundary_timeline` reads `vintage.effective_start`, which no vintage has,
  once a row is undated (`geo/models/address.py:694`); nothing closes the window of a
  superseded vintage (`seal_superseded_vintages`, named in `geo/models/vintages.py:86`, does
  not exist); `seed_known_vintages.py:35` closes the one-year ACS of 2019 although 2020 has
  none; a `--year` that is no decade assigns geoids and writes no row
  (`assign_boundaries.py:244`); `geo/tasks.py:99` chains a task whose None becomes the next
  one's argument.
* Cache: a save that empties a geoid leaves it cached, since the receiver looks only at the types
  the new row carries (`signals.py:214`), even where another row has the answer now.
* Addresses: a forced geocode leaves an address "assigned" at its old place; a worker that
  dies between `save()` and `update_or_create` leaves an address that later runs skip.
* Voters: `MERGE ... UPDATE SET *` (`swh/voters/ts/silver.py:190`) empties the address link
  and the vote counts on every rebuild, and the next materialisation copies the empty counts
  (`voter-file-ingest.md:51` calls the pipeline idempotent end to end); silver is built from
  the first bronze row collected, not the last; a backfill that dies between its two writes,
  or precedes materialisation, leaves `DimPerson.address` NULL for good.
* Warehouse: `load_warehouse` cannot get past the dates and surveys on an empty database
  (section 2); federal fiscal years are one too low (`dimension_loader.py:123`);
  the loader's reliability (20 and 40) is overwritten by the one `FactACSEstimate.save()`
  computes (12 and 40); `DimGeography.is_current` is never cleared; the names of the
  relationships at `compute_geographic_intersections.py:139` are exchanged.
* Publication: the gold step of the addresses is given the name of a view and always raises
  (`orchestration/assets/geo.py:111`); a second publication appends, so its parity fails, while
  `docs/production-operations.md:445` sets parity at 100%; the cursor moves when a run is
  requested, so a failed run is not requested again (`orchestration/sensors.py:71`);
  `is_hot_vintage` has no caller outside its test.
* Fetching and loading: a file cut short stays (`economic/services/bls_qcew_files.py:62`,
  `census_tiger.py:89`), and so does a year's file fetched before its later quarters;
  `scripts/sources/base.py:62` says "successfully loaded" of what `rdh.py` records
  unconditionally; a Census table of one year replaces that of another.

## 5. Proofs

Each row is proved for every value of the constants the module's assumptions admit. Where a
property is not inductive, the argument names the invariant that is.

| theorem | statement | argument |
|---|---|---|
| *AddressCache* | | |
| `TypeCorrect` | `Spec => []TypeOK` | one step per action |
| `CoherenceHolds` | with `Debug`, `Spec => []CoherentUnlessExposed` | a row outside today's vintages is a bystander (`BystanderRow`); a day on which no vintage changes and no context date arrives changes no answer (`UneventfulDay`); a touched type is re-resolved to one of its answers (`FirstAnswers`) |
| `CachedWasServed` | `Spec => []CachedOnceServed` | strengthened with "every answer of today is in `served`" |
| `BulkBlocksNest` | `Spec => []DisabledExactlyInside` | strengthened to the whole stack: the bottom `prev` is FALSE and all others TRUE |
| `YearIsGeoidsDecade` | with `Sealed` windows, `Spec => YearFollowsGeoids` | a current decadal vintage of a closed window is the one that serves (`CurrentServes`) |
| *AddressCacheSessions* | | |
| `SessionsTypeCorrect` | `Spec => []TypeOK` | every session has a job, or none between saves |
| `NoForeignGeoidEver` | `Spec => []NoForeignGeoid` | `Provenance`: a geoid on its way to the cache is in a committed row, or in the one its own transaction commits with it |
| `SubscriberAlwaysSharesFate` | with `InTransactions`, `Spec => []SubscriberSharesFate` | a transaction commits the cache and the copy in one step, so the two are equal in every state |
| `LoneSavesAreCurrent` | `Spec => LoneSaveIsCurrent` | `Undisturbed`: an undisturbed caller holds what is cached until its handler has run, and afterwards an answer of the rows it sees for each type it moves |
| `LocksNeverWedge` | `Spec => [](NeverWedged /\ CommitsAlone)`, the safety half of `SavesEnd` | `LocksHeld`: a transaction owns the address from its UPDATE to its end, and no two open ones have the same row; so whoever waits, waits for one that needs no lock any more |
| `PromiseIsKept` | with `InTransactions`, `FreshCallers` and `OneSession`, `Spec => PromiseKept` | the refinement of CurrentCache: `Finish` is the step of the promise, every other statement stutters, since what a transaction has not committed is in no abstract variable. `AloneInv` is the invariant |
| `CurrentWhenAlone` | under the same hypotheses, `Spec /\ RowsKeepTypes => []CurrentByConstruction`: no violation of it has a cause but overlap, stale callers, saves outside a transaction and emptied geoids | through CurrentCache: a write makes the types it carries current, and the row it replaces carried no others, so for every other type it is a bystander (`SameAnswers`) |
| *BoundaryHistory* | | |
| `HistoryTypeCorrect` | `Spec => []TypeOK` | `HistoryInd`: `created` names each row once and no other has geoids |
| `TimelineAlwaysSound` | `Spec => []TimelineSound` | the places of a history are 1 to its length, each taken once, and agree with the order of dates; so a period ends the day before the next begins, and the row in force on a day is the latest of it |
| `AssigningAlwaysClears` | `Spec => AssigningClearsStaleness` | the row just written precedes all others of its types and heads their history (`HeadIsFirst`) |
| *BoundaryAssignment* | | |
| `GeocodedAlwaysHasGeom` | `Spec => []GeocodedHasGeom` | not inductive: a full-row save writes back an old object. `Ind` says it of every object in memory, that objects are typed and that a run past `Select` carries one of `Commands` |
| `AssignmentTypeCorrect` | `Spec => []TypeOK` | the order of creation names each row once: `created` grows by a listing of the new keys (`SetToSeqLists`, `AppendsKeys`) |
| `RowsAreOneAssignment` | `Spec => []RowIsOneAssignment` | `RowInd`: between its two writes a run holds geoids of one location under its own date and year (`SavedIsResolved`), whatever others do to the address in between |
| `LoneRunsSettle` | `Spec => LoneRunSettles` | `LoneInd`: between its two writes a run holds an address assigned as its command says, and while nobody else writes the stored address is the one it holds; keys that were looked up are found again (`KeysFoundAgain`), and a row dated today answers for its types |
| *VintageSeeding* | | |
| `SeedTypeCorrect` | `SeedSpec => []SeedTypeOK` | one step per action |
| `SeriesAlwaysTile` | `SeedSpec => SeededSeriesTile` | `SeedInd`: an entry of a run's catalog is still before it, among its own rows, or committed by somebody; a committed row ends where the next begins or is the open latest one of its catalog (`RowSound`) |
| *VoterMedallion* | | |
| `MedallionTypeCorrect`, `VendorAlwaysSaidSo`, `CountsAlwaysTrail`, `FactsAlwaysFollow` | `Spec =>` `[]TypeOK`, `[]VendorSaidSo`, `[]CountsTrailHistory`, `[]FactsFollowSilver` | one invariant, `IInv`: the properties hold of the tables (`TablesSound`) and of what each stage holds in memory until it writes (`HeldSound`), which stays true under the steps of others because bronze, facts and the presence of a person only grow (`Grown`) |
| `LinksSurvive` | `Spec => LinkSurvives` | no writer of `DimPerson` clears an address, and a backfill holds only addresses |
| `MirrorsUndisturbed`, `CountsUndisturbed` | `Spec => MaterializeMirrors`, `IngestCounts` | `Mirroring` and `Countable`: what an undisturbed command has copied, or has in memory, is still what the source table says; which stages are left says what has been done |
| `NamelessLoadsNothing` | without `NamesSurvive`, `Spec => []NothingLoaded` | `bronze = <<>>` is inductive, and `VendorSaidSo` leaves nothing to the tables of a voter without a record |
| *Bulk loads and fetches* | | |
| `FetchTypeCorrect` | `FetchSpec => []FetchTypeOK` | one step per action |
| `RecordedAlwaysHere` | `FetchSpec => []RecordedIsHere` | `FetchInd`: what a run has neither left out nor still to do is here (`FetchRunSound`); a file nobody has spoilt is whole, missing, or being written by the one run it names (`FileSound`) |
| `LoadTypeCorrect` | `LoadSpec => []LoadTypeOK` | one step per action |
| `RowsOnlyGoForward` | `LoadSpec => RowsGoForward` | `Covered` and `Ahead`: until runs cross, what a run holds is between the table and the files |
| `ClearingCatchesUp` | `LoadSpec => ClearedCacheCatchesUp` | `CatchingUp`: from an emptied cache, a run alone finds only whole files as new as its goal |
| `ExitCodesAreTrue` | with `StatesOnce`, `CensusSpec => []ExitZeroMeansLoaded` | `CensusRunSound`: what was replaced and what remains are disjoint, and together all that was asked exactly while nothing has failed |
| `CensusTypeCorrect` | `CensusSpec => []CensusTypeOK` | `CountInd`: failures and what is still in the two lists are at most the types of the states begun; without `StatesOnce`, since it counts places |
| `LoadsAreAllOrNothing` | `VoterSpec => []LoadIsAllOrNothing` | `VoterInd`: a staging table holds the chunks its load has uploaded before the place it reads at |
| `VoterTypeCorrect` | `VoterSpec => []VoterTypeOK` | the same invariant |
| *Derived tables* | | |
| `WarehouseTypeCorrect` | `WarehouseSpec => []WarehouseTypeOK` | one step per action |
| `FullLoadsLink` | `WarehouseSpec => FullLoadLinks` | `WorkSound`: each boundary a run has seen and is no longer holding is linked; a parent's level is done before its children's |
| `DrillUpUnlessShared` | with `PrefixesTellLevels`, `WarehouseSpec => []DrillUpFollowsLevels` | `RowsOfShapes`: a row is that of a boundary with its geoid and hangs off where that boundary does. The property finding 6 refutes, under the condition that it is not a district's geoid the parent is looked up by |
| `OverlapTypeCorrect`, `OneDominantDistrict` | `OverlapSpec => []OverlapTypeOK`, `[]OneDominantUnlessReloaded` | `Computed`: each stored row is what its map gives its pair; two districts of one map cannot both hold more than half of a unit (`PartitionAssumption`) |
| `CrosswalkTypeCorrect` | `CrosswalkSpec => []CrosswalkTypeOK` | among the records of a tract there is a heaviest one scanned before the others (`MappedIsNew`, twice `FiniteMaximum`), so the choice made of them is a record |
| `EstimatesAlwaysYield` | `CrosswalkSpec => EstimatesYield` | `Selection`: whoever has been assigned among the addresses a run still has to translate was assigned after the selection |
| `AssignmentsStay` | no crosswalk step takes an assignment back | one step per action, from `Shaped` |
| *PostgisPublication* | | |
| `PublicationTypeCorrect` | `PubSpec => []PubTypeOK` | one step per action |
| `ParityAlwaysMirrors` | `PubSpec => ParityMeansMirror` | `PubRunSound`: what a run has appended is in its table; the table is finite, so as many rows as the frame of the run mean the frame itself (`FramesAssumption`) |
| `LoneRunsPublish` | `PubSpec => LoneRunPublishesBronze` | `PubInd`: while a run is undisturbed it is the only one, and each table before the one it reads is a copy of bronze |
| *FecGraph* | | |
| `GraphTypeCorrect` | `GraphSpec => []GraphTypeOK` | one step per action |
| `ReportsAlwaysOneGraph` | `GraphSpec => ReportsOneGraph` | `DirectoryWhole`: while nobody builds and the last build ran alone, both datasets are those of one issue; `QuietAnalyses`: an analysis nobody disturbed holds them |
| *Registers and balances* | | |
| `ObTypeCorrect`, `BooksAlwaysBalance` | `ObSpec => []ObTypeOK`, `[]BooksBalance` | `ObInd`: every object that is not out of date differs from the row by what its holder has recorded and not saved |
| `ReopeningIsStale` | `ObSpec => ReopensOnlyByStaleSave` | the same: an up-to-date object of a closed obligation stays closed (`AppliedReflects`) |
| `LinksAlwaysSound` | `FecSpec => [](FecTypeOK /\ LinksSound)` | inductive together with the types |
| `IdentityIsImmutable` | `FecSpec => ImmutableIdentity` | each action maps to a step of IdentityRegister or a stutter, given `LinksSound` |
| `LoadsAlwaysSettle` | `FecSpec => LoadSettles` | `WholeJobs`: an undisturbed full job has come to a place of its order and everything before it is loaded, each id under the name of the last table so far that has it (`LoadedBefore`) |
| *Compositions* | | |
| `ComponentsRunEach`, `FairComponentsRunEach` | `ComponentsSpec =>` the specification of each of the thirteen components; `FairComponents => FairSpec /\ PubSpec` | a step of the one in focus is a step of its `Next` and a stutter of the others; the initial states are among those of each |
| `ComponentTypesCorrect`, `FairTypesCorrect` | `ComponentsSpec => []ComponentsTypeOK`, `FairComponents => []FairTypeOK` | from the two above and the type theorem of each component |
| `SessionKeepsPromise` | `ComponentsSpec => PromiseKept` | the constants of that session meet what AddressCacheSessions assumes (`SessionConstants`); its lemmas are then used through a second instance of it that has the proofs, which is the same machine (`SameMachine`, `SamePromise`) |

**Assumptions.** Those the modules declare: types of the constants, that the stand-ins for NULL
(`NoEntry`, `NoDim`, `NoUnit`, `NoHub`, ...) are none of the values they stand beside, and what the
database or the published data give: geoids have the length of their level, the districts of a
map do not overlap, the periods of a series begin one after the other, a request of
`load-census` names no type twice, a frame published to PostGIS is finite. TLC evaluates all of them in the runs.

**Hypotheses**, stated in the theorem they restrict, because the code leaves the other case open:

* `Debug`: without it the receiver is gone (finding 1).
* `Sealed`: nothing in the repository closes a window once a later decade is added.
* `InTransactions`: `objects.create` outside a transaction commits the row before the receiver
  runs. `fair_components` checks `SubscriberSharesFate` under the same condition.
* `FreshCallers` and `OneSession`: two sessions break the promise (finding 2), and so does a caller
  who goes on with the `Address` it read before somebody else's save. `components` checks
  `PromiseKept` in the same instance; the theorem adds any keys, rows, vintages and number of saves.
* `RowsKeepTypes`, a condition on behaviours: no save empties a geoid its row carried. The receiver
  does not look at the types only the old row carried, so without it one session by itself leaves
  the cache behind.
* `PrefixesTellLevels`: legislative districts have geoids as long as a county's (finding 6). It
  holds of any load of states, counties and tracts.
* `StatesOnce`: a state listed twice is loaded twice, and what failed the first time may be replaced
  the second.

The lemmas about `Latest`, scan orders and days are in BoundaryPeriodsProofs: a finite
non-empty set of rows has a latest one (`LatestExists`), proved through `FiniteMaximum`.

**Only model-checked.** `SavesEnd` and `CommitsAreRequested`: liveness under fairness, out of the
prover's reach. (Of `SavesEnd`, `LocksNeverWedge` proves that among the saves in progress, if there
are any, one does not wait; that it goes on, and that the waiters get their turn, is the fairness.)
Every other property of a passing run is a theorem.

## 6. Not modelled

* Geometry, distances and scores: joins, areas and centralities are constants or left out.
* Wording, logging, progress, `--dry-run`, `--check-only`, `--limit`; batching over many
  addresses.
* Two calendars around midnight (`date.today()` in the gate, `timezone.localdate()` in the
  query); `objects.create` outside a transaction, which commits the row before the receiver
  runs; the cache after a run of `assign_boundaries` with a past `--date`, beyond what
  `LoneRunSettles` says of the next run for today.
* The Celery chain `geocode_and_assign`: what Celery makes of its argument is the library's
  doing. A task by itself is a run of its command.
* The mapping of vendor columns; the overwrite that creates a Delta table, when two first runs
  meet; the values of warehouse facts.
* The replication-lag sensor and the Django export assets of Dagster, which append rows nobody
  reads back.
* Delta schema registry, events, political reference data, agent facets: declarations whose
  only operations are Django's own. REST views only read. Operator tools, probes and reports
  of `swh` do input and output. Deployment is configuration.

## 7. Plan

1. Composition: `apply_crosswalks` and `assign_boundaries` over one set of rows, with
   `CrosswalkApplication` read through BoundaryPeriods; the voter pipeline over an address that
   is being assigned.
2. `load_nces` in a run of its own; the Celery chain; the replication-lag sensor.
