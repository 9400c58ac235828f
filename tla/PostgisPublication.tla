-------------------------- MODULE PostgisPublication --------------------------
(***************************************************************************)
(* The asset graphs of socialwarehouse/orchestration: a run of geo_refresh *)
(* takes a bronze table through silver and, most of them, gold into        *)
(* PostGIS tables.  The nightly schedule, operators and the one arrival    *)
(* sensor, bronze_addresses_sensor, start runs, which can overlap, fail    *)
(* and be killed.                                                          *)
(*                                                                         *)
(* One pipeline at a time, from one bronze table to its PostGIS assets,    *)
(* since pipelines share no table.  The typing steps and, but for that of  *)
(* the addresses, the enrichments are placeholders that copy their input.  *)
(***************************************************************************)
EXTENDS Naturals, Sequences, FiniteSets, SequencesExt, FiniteSetsExt

CONSTANTS
    Runs,
    Pipelines,    \* the ones that run, of DOMAIN Pipeline
    KeysOf,       \* KeysOf[t][row]: the keys of the rows that asset t makes of a source row
    BronzeInputs, \* contents upstream lands in bronze
    MaxCommits, MaxDeaths,  \* bounds: bronze commits, deaths of the daemon
    MaxStarts     \* bound: runs started otherwise than by a commit of the pipeline's bronze

\* What the enrichment to gold does, "none" if PostGIS reads silver, and the
\* PostGIS assets.  The enrichment of the addresses is given the name of a view,
\* which is neither a registered table nor a path, and raises.
addresses == [gold |-> "raises", targets |-> {"Address"}]
nces_districts == [gold |-> "none", targets |-> {"NCESDistrictAggregate"}]
nces_schools == [gold |-> "none", targets |-> {"NCESSchoolAggregate"}]
nces_edge == [gold |-> "none", targets |-> {"NCESDistrictEDGEDemographics"}]
demographics == [gold |-> "copied", targets |-> {"FactACSEstimate", "FactDecennialCount"}]
qcew == [gold |-> "copied", targets |-> {"BLSQCEWAggregate"}]
soi == [gold |-> "copied", targets |-> {"IRSSOIAggregate", "IRSSOIIncomeBucket"}]

Pipeline ==
    [addresses |-> addresses, nces_districts |-> nces_districts, nces_schools |-> nces_schools,
     nces_edge |-> nces_edge, demographics |-> demographics, qcew |-> qcew, soi |-> soi]

ASSUME PipelinesAssumption ==
    /\ Pipelines \subseteq DOMAIN Pipeline
    /\ MaxCommits \in Nat /\ MaxDeaths \in Nat /\ MaxStarts \in Nat

VARIABLES
    pipeline,
    bronze, commits,  \* the bronze table and its number of commits
    silver, enriched, \* the Delta tables
    published,        \* published[t]: the key sets appended to table t, in order
    runs,             \* runs[r]: what run r is doing
    queued, started,  \* runs launched for a commit of bronze and not begun; the others begun
    cursor,           \* the commit the sensor has stored
    requested,        \* commits whose run_key has been used
    tick,             \* a sensor result under way: its commit, 0 if none
    deaths

pubVars == <<pipeline, bronze, commits, silver, enriched, published, runs,
             queued, started, cursor, requested, tick, deaths>>

Ended == [stage |-> "idle", todo |-> {}, target |-> "", frame |-> {}, quiet |-> FALSE]

Targets == Pipeline[pipeline].targets
Gold == Pipeline[pipeline].gold

KeysMade(t, rows) == UNION {KeysOf[t][row] : row \in rows}

\* a frame is finite
ASSUME FramesAssumption ==
    \A p \in Pipelines, rows \in BronzeInputs :
        \A t \in Pipeline[p].targets : IsFiniteSet(KeysMade(t, rows))

PubInit ==
    /\ pipeline \in Pipelines
    /\ bronze = {} /\ silver = {} /\ enriched = {}
    /\ commits = 0 /\ cursor = 0 /\ requested = {} /\ tick = 0 /\ deaths = 0
    /\ queued = 0 /\ started = 0
    /\ published = [t \in Targets |-> <<>>]
    /\ runs = [r \in Runs |-> Ended]

pubTables == <<bronze, commits, silver, enriched, published>>
pubSensor == <<cursor, requested, tick, deaths>>

Busy == {r \in Runs : runs[r].stage # "idle"}

\* upstream overwrites bronze
Land(rows) ==
    /\ commits < MaxCommits
    /\ bronze' = rows /\ commits' = commits + 1
    /\ runs' = [r \in Runs |-> [runs[r] EXCEPT !.quiet = FALSE]]
    /\ UNCHANGED <<pipeline, silver, enriched, published, queued, started, pubSensor>>

-----------------------------------------------------------------------------
(* bronze_addresses_sensor and the daemon: the only arrival sensor there is *)

\* bronze.addresses_raw is the one table it probes
HasArrivalSensor == pipeline = "addresses"

\* mutant: the cursor is stored with the evaluation
EvaluateStores ==
    /\ HasArrivalSensor /\ tick = 0 /\ commits > 0 /\ cursor # commits
    /\ tick' = commits /\ cursor' = commits
    /\ UNCHANGED <<pipeline, pubTables, runs, queued, started, requested, deaths>>

\* a probe that fails skips, and so do an empty history and a known commit
Evaluate ==
    /\ HasArrivalSensor /\ tick = 0 /\ commits > 0 /\ cursor # commits
    /\ tick' = commits
    /\ UNCHANGED <<pipeline, pubTables, runs, queued, started, cursor, requested, deaths>>

\* a run_key that was used launches nothing
Launch ==
    /\ tick # 0 /\ tick \notin requested
    /\ requested' = requested \cup {tick} /\ queued' = queued + 1
    /\ UNCHANGED <<pipeline, pubTables, runs, started, cursor, tick, deaths>>

StoreCursor ==
    /\ tick # 0 /\ tick \in requested
    /\ cursor' = tick /\ tick' = 0
    /\ UNCHANGED <<pipeline, pubTables, runs, queued, started, requested, deaths>>

DaemonDies ==
    /\ tick # 0 /\ deaths < MaxDeaths
    /\ tick' = 0 /\ deaths' = deaths + 1
    /\ UNCHANGED <<pipeline, pubTables, runs, queued, started, cursor, requested>>

Sense == Evaluate \/ Launch \/ StoreCursor

-----------------------------------------------------------------------------
(* A run of geo_refresh *)

\* A launched run begins, or one that no commit of this bronze asked for: the
\* schedule's, an operator's or, since geo_refresh selects the assets of every
\* pipeline, one that an arrival of addresses launched.
StartRun(r) ==
    /\ r \notin Busy
    /\ \/ queued > 0 /\ queued' = queued - 1 /\ started' = started
       \/ started < MaxStarts /\ started' = started + 1 /\ queued' = queued
    /\ runs' = [s \in Runs |->
          IF s = r THEN [Ended EXCEPT !.stage = "silver", !.todo = Targets, !.quiet = Busy = {}]
          ELSE [runs[s] EXCEPT !.quiet = FALSE]]
    /\ UNCHANGED <<pipeline, pubTables, pubSensor>>

\* the run reaches a stage, or ends
At(r, stage) == runs' = [runs EXCEPT ![r].stage = stage]
EndRun(r) == runs' = [runs EXCEPT ![r] = Ended]
NextTarget(r) == runs' = [runs EXCEPT ![r].stage = "targets", ![r].target = "", ![r].frame = {}]

\* _compute_..._typed: a bronze table without a commit raises
WriteSilver(r) ==
    /\ runs[r].stage = "silver"
    /\ IF commits = 0 THEN EndRun(r) /\ silver' = silver
       ELSE /\ silver' = bronze
            /\ At(r, IF Gold = "none" THEN "targets" ELSE "gold")
    /\ UNCHANGED <<pipeline, bronze, commits, enriched, published, queued, started, pubSensor>>

\* mutant: mode("append")
AppendGold(r) ==
    /\ runs[r].stage = "gold"
    /\ IF Gold = "raises" THEN EndRun(r) /\ enriched' = enriched
       ELSE enriched' = enriched \cup silver /\ At(r, "targets")
    /\ UNCHANGED <<pipeline, bronze, commits, silver, published, queued, started, pubSensor>>

\* _compute_..._enriched: what depends on a step that raised does not run
WriteGold(r) ==
    /\ runs[r].stage = "gold"
    /\ IF Gold = "raises" THEN EndRun(r) /\ enriched' = enriched
       ELSE enriched' = silver /\ At(r, "targets")
    /\ UNCHANGED <<pipeline, bronze, commits, silver, published, queued, started, pubSensor>>

Source == IF Gold = "none" THEN silver ELSE enriched

\* compute_sql and toPandas of one PostGIS asset
ReadSource(r, t) ==
    /\ runs[r].stage = "targets" /\ t \in runs[r].todo
    /\ runs' = [runs EXCEPT ![r].stage = "write", ![r].target = t, ![r].todo = @ \ {t},
                            ![r].frame = KeysMade(t, Source)]
    /\ UNCHANGED <<pipeline, pubTables, queued, started, pubSensor>>

Held(t) == UNION ToSet(published[t])

\* to_sql(if_exists="append") or COPY, one transaction: a key the table has
\* already raises, and the assets that do not depend on this one still run
AppendRows(r) ==
    LET t == runs[r].target IN
    /\ runs[r].stage = "write"
    /\ IF runs[r].frame \cap Held(t) = {}
       THEN published' = [published EXCEPT ![t] = Append(@, runs[r].frame)] /\ At(r, "count")
       ELSE published' = published /\ NextTarget(r)
    /\ UNCHANGED <<pipeline, bronze, commits, silver, enriched, queued, started, pubSensor>>

\* mutant: counts the rows of the newest publication
RowsOfNewest(t) == Cardinality(Last(published[t]))

\* SELECT count( * ) of the whole table
CountOf(t) == Cardinality(Held(t))

Materialization(r) ==
    [target |-> runs[r].target, source |-> Cardinality(runs[r].frame), held |-> CountOf(runs[r].target)]

Parity(record) == record.source = record.held

\* _count_postgis_rows and _record_materialization, which swallows its errors;
\* nothing reads the MaterializationRecord back
CountRows(r) ==
    /\ runs[r].stage = "count"
    /\ NextTarget(r)
    /\ UNCHANGED <<pipeline, pubTables, queued, started, pubSensor>>

FinishRun(r) ==
    /\ runs[r].stage = "targets" /\ runs[r].todo = {}
    /\ EndRun(r)
    /\ UNCHANGED <<pipeline, pubTables, queued, started, pubSensor>>

KillRun(r) ==
    /\ r \in Busy
    /\ EndRun(r)
    /\ UNCHANGED <<pipeline, pubTables, queued, started, pubSensor>>

PubNext ==
    \/ \E rows \in BronzeInputs : Land(rows)
    \/ Sense \/ DaemonDies
    \/ \E r \in Runs :
        \/ StartRun(r) \/ WriteSilver(r) \/ WriteGold(r)
        \/ \E t \in Targets : ReadSource(r, t)
        \/ AppendRows(r) \/ CountRows(r) \/ FinishRun(r) \/ KillRun(r)

\* the daemon evaluates the sensor every five minutes
PubFairness == WF_pubVars(Sense)

PubSpec == PubInit /\ [][PubNext]_pubVars /\ PubFairness

-----------------------------------------------------------------------------
(* Properties *)

PubTypeOK ==
    /\ pipeline \in Pipelines /\ commits \in 0..MaxCommits /\ deaths \in 0..MaxDeaths
    /\ cursor \in 0..commits /\ tick \in 0..commits /\ requested \subseteq 1..commits
    /\ queued \in 0..MaxCommits /\ started \in 0..MaxStarts
    /\ \A r \in Runs : runs[r].stage \in {"idle", "silver", "gold", "targets", "write", "count"}

\* A publication that is recorded at parity mirrors its source: the table holds
\* what this run read and nothing an earlier or overlapping run has appended.
ParityMeansMirror ==
    [][\A r \in Runs : CountRows(r) /\ Parity(Materialization(r)) =>
         Held(runs[r].target) = runs[r].frame]_pubVars

\* What a run appends, if no other run and no ingest came between, is made of
\* the rows bronze holds; what it could not append collides with earlier rows.
LoneRunPublishesBronze ==
    [][\A r \in Runs, t \in Targets :
         AppendRows(r) /\ runs[r].quiet /\ runs[r].target = t =>
           /\ runs[r].frame = KeysMade(t, bronze)
           /\ Held(t)' # Held(t) \cup KeysMade(t, bronze) => Held(t) \cap KeysMade(t, bronze) # {}]_pubVars

\* The newest commit of bronze.addresses_raw is requested in the end, even if the
\* daemon dies between launching the run and storing the cursor, or another commit
\* comes.  Commits of the other bronze tables are requested by nobody.
CommitsAreRequested == HasArrivalSensor /\ commits # 0 ~> commits \in requested
=============================================================================
