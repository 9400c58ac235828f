----------------------------- MODULE DomainLoads -----------------------------
(***************************************************************************)
(* The load commands of the civic, economic and demographic domains, one   *)
(* at a time: each fetches one or more published tables (its parts), the   *)
(* first of which says which rows there are, and upserts them in one       *)
(* transaction.  The files of load_nces, load_nces_schools, load_nces_edge *)
(* and load_qcew stay on disk and are not fetched again; load_irs_soi,     *)
(* load_acs and load_decennial fetch every time and keep to a catalog.     *)
(*                                                                         *)
(* A value is known by the release of the part it came from; 0 is NULL.    *)
(* The arguments of a command, its vintage among them, are fixed.          *)
(***************************************************************************)
EXTENDS Naturals, Sequences, FiniteSets

CONSTANTS
    LoadProcs,   \* processes that run the command
    Commands,    \* the ones that are run, of DOMAIN Loader
    Units,       \* unique keys of rows
    InState,     \* the units that pass the state filter
    Listed,      \* Listed[p][n]: the units that release n of part p lists
    MaxRelease,  \* bound: releases of a part
    MaxNews      \* bound: parts that get a new release

PartNames == {"directory", "nonfiscal", "finance", "main"}

\* the parts of a command, the driving one first; does it keep its files on disk?
\* does it skip what a catalog table does not have?
load_nces == [parts |-> <<"directory", "nonfiscal", "finance">>, onDisk |-> TRUE, catalogued |-> FALSE]
load_nces_schools == [parts |-> <<"directory", "nonfiscal">>, onDisk |-> TRUE, catalogued |-> FALSE]
load_nces_edge == [parts |-> <<"main">>, onDisk |-> TRUE, catalogued |-> FALSE]
load_qcew == [parts |-> <<"main">>, onDisk |-> TRUE, catalogued |-> FALSE]
load_irs_soi == [parts |-> <<"main">>, onDisk |-> FALSE, catalogued |-> TRUE]
load_acs == [parts |-> <<"main">>, onDisk |-> FALSE, catalogued |-> TRUE]
load_decennial == [parts |-> <<"main">>, onDisk |-> FALSE, catalogued |-> TRUE]

Loader ==
    [load_nces |-> load_nces, load_nces_schools |-> load_nces_schools,
     load_nces_edge |-> load_nces_edge, load_qcew |-> load_qcew,
     load_irs_soi |-> load_irs_soi, load_acs |-> load_acs, load_decennial |-> load_decennial]

ASSUME LoadAssumption ==
    /\ MaxRelease \in Nat \ {0} /\ MaxNews \in Nat /\ InState \subseteq Units
    /\ Commands \subseteq DOMAIN Loader
    /\ Listed \in [PartNames -> [1..MaxRelease -> SUBSET Units]]

VARIABLES
    command,   \* the command that is run
    newest,    \* newest[p]: what the publisher serves
    disk,      \* disk[p]: the file in the cache directory
    catalog,   \* units whose variable or bucket has been seeded
    table,     \* table[u][p]: the release of the values of p in the row of u
    loads,     \* loads[l]: the run of process l
    crossed    \* has a run that was not alone written a file since the cache was last cleared?

loadVars == <<command, newest, disk, catalog, table, loads, crossed>>

NoFile == [release |-> 0, units |-> {}]
Nothing == [p \in PartNames |-> 0]
NoLoad == [stage |-> "idle", codes |-> {}, got |-> <<>>, file |-> NoFile, alone |-> FALSE, goal |-> Nothing]

FileOf(p, n) == [release |-> n, units |-> Listed[p][n]]

LoadInit ==
    /\ command \in Commands
    /\ newest = [p \in PartNames |-> 1]
    /\ disk = [p \in PartNames |-> NoFile]
    /\ catalog = {} /\ crossed = FALSE
    /\ table = [u \in Units |-> Nothing]
    /\ loads = [l \in LoadProcs |-> NoLoad]

Parts == Loader[command].parts
OnDisk == Loader[command].onDisk
Catalogued == Loader[command].catalogued
Loading == {l \in LoadProcs : loads[l].stage # "idle"}
Fetched(l) == Len(loads[l].got) = Len(Parts)
NextPart(l) == Parts[Len(loads[l].got) + 1]

\* the publisher puts out a new release
Publish(p) ==
    /\ \E i \in DOMAIN Parts : Parts[i] = p
    /\ newest[p] < MaxRelease /\ Cardinality({q \in PartNames \ {p} : newest[q] > 1}) < MaxNews
    /\ newest' = [newest EXCEPT ![p] = @ + 1]
    /\ UNCHANGED <<command, disk, catalog, table, loads, crossed>>

\* an operator empties the cache directory, between two writes
ClearCache ==
    /\ \A l \in LoadProcs : loads[l].stage # "write"
    /\ disk' = [p \in PartNames |-> NoFile] /\ crossed' = FALSE
    /\ loads' = [l \in LoadProcs |-> [loads[l] EXCEPT !.alone = FALSE]]
    /\ UNCHANGED <<command, newest, catalog, table>>

\* what is there is kept, and all that is missing is created in one transaction
SeedCatalog(units) ==
    /\ catalog' = catalog \cup units
    /\ UNCHANGED <<command, newest, disk, table, loads, crossed>>

seed_acs_variables(units) == command = "load_acs" /\ SeedCatalog(units)
seed_decennial_variables(units) == command = "load_decennial" /\ SeedCatalog(units)
seed_irs_soi_buckets(units) == command = "load_irs_soi" /\ SeedCatalog(units)

\* The codes are those of the catalog, read before anything is fetched; an empty
\* catalog ends the command.  The goal is the releases that are out when a run
\* begins on an empty cache.
BeginLoad(l) ==
    /\ l \notin Loading
    /\ Catalogued => catalog # {}
    /\ loads' = [m \in LoadProcs |->
          IF m # l THEN [loads[m] EXCEPT !.alone = FALSE]
          ELSE [NoLoad EXCEPT !.stage = "fetch", !.alone = Loading = {},
                  !.codes = IF Catalogued THEN catalog ELSE Units,
                  !.goal = IF \A p \in PartNames : disk[p] = NoFile THEN newest ELSE Nothing]]
    /\ UNCHANGED <<command, newest, disk, catalog, table, crossed>>

\* requests.get of a file that is not on disk
Download(l) ==
    /\ loads[l].stage = "fetch" /\ ~Fetched(l)
    /\ OnDisk /\ disk[NextPart(l)] = NoFile
    /\ loads' = [loads EXCEPT ![l].stage = "open", ![l].file = FileOf(NextPart(l), newest[NextPart(l)])]
    /\ UNCHANGED <<command, newest, disk, catalog, table, crossed>>

\* open(csv_path, "wb") empties what another run may have put there
OpenFile(l) ==
    /\ loads[l].stage = "open"
    /\ disk' = [disk EXCEPT ![NextPart(l)] = [loads[l].file EXCEPT !.units = {}]]
    /\ crossed' = (crossed \/ ~loads[l].alone)
    /\ loads' = [loads EXCEPT ![l].stage = "write"]
    /\ UNCHANGED <<command, newest, catalog, table>>

WriteFile(l) ==
    /\ loads[l].stage = "write"
    /\ disk' = [disk EXCEPT ![NextPart(l)] = loads[l].file]
    /\ loads' = [loads EXCEPT ![l].stage = "read", ![l].file = NoFile]
    /\ UNCHANGED <<command, newest, catalog, table, crossed>>

Take(l, file) == [loads EXCEPT ![l].stage = "fetch", ![l].got = Append(@, file)]

\* pd.read_csv of a file that exists, which another run may be writing or may
\* have left half written: a row is whole or is not there
ReadFile(l) ==
    /\ loads[l].stage \in {"fetch", "read"} /\ ~Fetched(l)
    /\ OnDisk /\ disk[NextPart(l)] # NoFile
    /\ loads' = Take(l, disk[NextPart(l)])
    /\ UNCHANGED <<command, newest, disk, catalog, table, crossed>>

\* IRSSOIFiles.load, CensusAPI.fetch_data
FetchPart(l) ==
    /\ loads[l].stage = "fetch" /\ ~Fetched(l)
    /\ ~OnDisk
    /\ loads' = Take(l, FileOf(NextPart(l), newest[NextPart(l)]))
    /\ UNCHANGED <<command, newest, disk, catalog, table, crossed>>

\* mutant: an inner join of the parts
SelectedByAll(l) ==
    {u \in InState \cap loads[l].codes : \A i \in DOMAIN loads[l].got : u \in loads[l].got[i].units}

\* the rows of the driving part that the filter and the catalog let through
Selected(l) == loads[l].got[1].units \cap InState \cap loads[l].codes

\* mutant: a part that does not list the unit sets its columns to NULL
MergedWithNull(old, u, got) ==
    [p \in PartNames |->
        IF \E i \in DOMAIN got : Parts[i] = p
        THEN LET file == got[CHOOSE i \in DOMAIN got : Parts[i] = p] IN
             IF u \in file.units THEN file.release ELSE 0
        ELSE old[p]]

\* update_or_create: a part that does not list the unit adds no defaults
Merged(old, u, got) ==
    [p \in PartNames |->
        IF \E i \in DOMAIN got : Parts[i] = p /\ u \in got[i].units
        THEN got[CHOOSE i \in DOMAIN got : Parts[i] = p].release ELSE old[p]]

\* transaction.atomic() around the upserts; rows are never deleted
CommitLoad(l) ==
    /\ loads[l].stage = "fetch" /\ Fetched(l)
    /\ table' = [u \in Units |-> IF u \in Selected(l) THEN Merged(table[u], u, loads[l].got) ELSE table[u]]
    /\ loads' = [loads EXCEPT ![l] = NoLoad]
    /\ UNCHANGED <<command, newest, disk, catalog, crossed>>

\* a failed fetch, an unreadable file, --dry-run, an error in the transaction,
\* a death: what has been written to disk stays
StopLoad(l) ==
    /\ l \in Loading
    /\ loads' = [loads EXCEPT ![l] = NoLoad]
    /\ UNCHANGED <<command, newest, disk, catalog, table, crossed>>

LoadNext ==
    \/ ClearCache
    \/ \E p \in PartNames : Publish(p)
    \/ \E units \in SUBSET Units :
          seed_acs_variables(units) \/ seed_decennial_variables(units) \/ seed_irs_soi_buckets(units)
    \/ \E l \in LoadProcs :
        \/ BeginLoad(l) \/ Download(l) \/ OpenFile(l) \/ WriteFile(l) \/ ReadFile(l)
        \/ FetchPart(l) \/ CommitLoad(l) \/ StopLoad(l)

LoadSpec == LoadInit /\ [][LoadNext]_loadVars

-----------------------------------------------------------------------------
(* Properties *)

LoadTypeOK ==
    /\ command \in Commands /\ newest \in [PartNames -> 1..MaxRelease]
    /\ \A p \in PartNames : disk[p].release \in 0..newest[p]
    /\ catalog \subseteq Units /\ crossed \in BOOLEAN
    /\ table \in [Units -> [PartNames -> 0..MaxRelease]]
    /\ \A l \in LoadProcs : loads[l].stage \in {"idle", "fetch", "open", "write", "read"}

\* A row goes back to an older release, or loses a part, only where runs overlap:
\* one of them commits what it had fetched before the other began, or leaves the
\* older file on disk for later runs.
RowsGoForward ==
    [][\A u \in Units, p \in PartNames : table'[u][p] < table[u][p] =>
         crossed \/ \E l \in LoadProcs : ~loads[l].alone /\ CommitLoad(l)]_loadVars

\* part i lists the unit in every release from the goal of l on
LongListed(l, u, i) ==
    \A m \in 1..MaxRelease : m >= loads[l].goal[Parts[i]] => u \in Listed[Parts[i]][m]

\* Emptying the cache is enough to catch up: a run that starts from no files and
\* overlaps no other leaves each unit of the state that the driving part lists
\* with every part that lists it, in the release that was out when it began.
ClearedCacheCatchesUp ==
    [][\A l \in LoadProcs : CommitLoad(l) /\ loads[l].alone =>
         \A u \in InState \cap loads[l].codes, i \in DOMAIN Parts :
            loads[l].goal[Parts[i]] > 0 /\ LongListed(l, u, 1) /\ LongListed(l, u, i) =>
                table'[u][Parts[i]] >= loads[l].goal[Parts[i]]]_loadVars
=============================================================================
