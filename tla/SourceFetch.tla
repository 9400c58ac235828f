------------------------------ MODULE SourceFetch ------------------------------
(***************************************************************************)
(* scripts/fetch.py: check a source, fetch what is new, load it and record *)
(* it in the state file of the source, run by cron or by hand, also twice  *)
(* at a time.  The sources are the ACS (loaded from an API), TIGER (files, *)
(* then a load) and the plans of the Redistricting Data Hub (files only).  *)
(*                                                                         *)
(* An edition is a vintage or a plan; a unit is one part of an edition: a  *)
(* state of the ACS, a type of TIGER, a plan itself.                       *)
(***************************************************************************)
EXTENDS Naturals, FiniteSets, FiniteSetsExt

CONSTANTS
    Fetchers,   \* processes that run the script
    Sources,    \* the ones it is run for
    Editions,   \* vintages or plans, in the order they are published
    PortionsOf, \* of each source: states, TIGER types, the states plans belong to
    PlanPortion, PlanName, \* of each plan
    Narrowed,   \* sets of portions that a command line narrows a run to
    Forced,     \* the years somebody passes to --force-vintage
    NoUnit

ASSUME FetchAssumption ==
    /\ Sources \subseteq {"acs", "census-tiger", "rdh"}
    /\ Editions \subseteq Nat /\ IsFiniteSet(Editions)
    /\ Sources \subseteq DOMAIN PortionsOf
    /\ "rdh" \in Sources =>
          PlanPortion \in [Editions -> PortionsOf["rdh"]] /\ DOMAIN PlanName = Editions
    /\ Forced \subseteq Editions
    /\ \A s \in Sources : NoUnit \notin Editions \X PortionsOf[s]

VARIABLES
    source,      \* the source of this state file and this directory
    offered,     \* the editions it has published
    reachable,   \* the units whose directory is there, or that have a URL
    downloads,   \* the file of each name: its unit, and whether it is whole
    populated,   \* the units the manage.py command has loaded
    record,      \* what the state file says; an unreadable one says nothing
    fetching,    \* the runs
    passed,      \* history: the units that the run which recorded them left out
    spoilt       \* history: files left unfinished, or opened over another run's

fetchVars == <<source, offered, reachable, downloads, populated, record, fetching, passed, spoilt>>

Portions == PortionsOf[source]
Scopes == ({Portions} \cup {Portions \cap narrow : narrow \in Narrowed}) \ {{}}

CatalogBased == source = "rdh"
UnitsOf(editions) ==
    IF CatalogBased THEN {<<e, PlanPortion[e]>> : e \in editions} ELSE editions \X Portions

\* type_dir / filename; for plans {name}.zip, whatever their id
LocalPath(u) == IF CatalogBased THEN PlanName[u[1]] ELSE u

FileNames == {LocalPath(u) : u \in UnitsOf(Editions)}
Missing == [unit |-> NoUnit, whole |-> FALSE]

NoRun == [step |-> "idle", payload |-> {}, todo |-> {}, commands |-> {}, at |-> NoUnit,
          seen |-> {}, left |-> {}]

FetchInit ==
    /\ source \in Sources
    /\ offered = {} /\ reachable = {} /\ populated = {} /\ record = {}
    /\ downloads = [f \in FileNames |-> Missing]
    /\ fetching = [p \in Fetchers |-> NoRun]
    /\ passed = {} /\ spoilt = {}

-----------------------------------------------------------------------------
(* The publishers *)

PublishEdition(e, units) ==
    /\ e \notin offered /\ \A d \in Editions : d < e => d \in offered
    /\ offered' = offered \cup {e}
    /\ reachable' = reachable \cup (IF source = "acs" THEN UnitsOf({e}) ELSE units)
    /\ UNCHANGED <<source, downloads, populated, record, fetching, passed, spoilt>>

\* a directory of a vintage that came out before
PublishDirectory(u) ==
    /\ source = "census-tiger" /\ u[1] \in offered /\ u \notin reachable
    /\ reachable' = reachable \cup {u}
    /\ UNCHANGED <<source, offered, downloads, populated, record, fetching, passed, spoilt>>

-----------------------------------------------------------------------------
(* One run *)

\* only the latest vintage, and only if the state file names an older one
NewVintage == {e \in offered : e = Max(offered) /\ \A last \in record : last < e}
NewPlans == offered \ record

\* the units the command line asks for: --tiger-types; --rdh-states
ScopedTypes(payload, scope) == payload \X scope
ScopedPlans(payload, scope) == {u \in UnitsOf(payload) : u[2] \in scope}

ToFetch(payload, scope) ==
    CASE source = "acs" -> {}
      [] source = "census-tiger" -> ScopedTypes(payload, scope)
      [] source = "rdh" -> ScopedPlans(payload, scope)

\* populate_demographics, for each of --states or for all of them at once
StateCommands(payload, scope) ==
    IF scope = Portions THEN {payload \X scope} ELSE {payload \X {state} : state \in scope}

\* populate_boundaries --type all, whatever was fetched
BoundaryCommands(payload) == {UnitsOf(payload)}

ToLoad(payload, scope) ==
    CASE source = "acs" -> StateCommands(payload, scope)
      [] source = "census-tiger" -> BoundaryCommands(payload)
      [] source = "rdh" -> {}

Move(p, run) == fetching' = [fetching EXCEPT ![p] = run]

BeginRun(p, payload, scope) ==
    /\ fetching[p].step = "idle"
    /\ Move(p, [NoRun EXCEPT !.step = "fetch", !.payload = payload,
                             !.todo = ToFetch(payload, scope),
                             !.commands = ToLoad(payload, scope),
                             !.left = {u \in UnitsOf(payload) : u[2] \notin scope}])
    /\ UNCHANGED <<source, offered, reachable, downloads, populated, record, passed, spoilt>>

\* check(); without news the run ends
Check(p, scope) ==
    LET news == IF CatalogBased THEN NewPlans ELSE NewVintage IN
    news # {} /\ BeginRun(p, news, scope)

\* --force-vintage, of any year; a year is no list of plans
ForceVintage(p, e, scope) == ~CatalogBased /\ BeginRun(p, {e}, scope)

\* A file that exists is not fetched again; a directory that is not there, or a
\* plan without a URL, is passed over with a warning.
PassOver(p, u) ==
    LET exists == downloads[LocalPath(u)] # Missing
        others == exists /\ downloads[LocalPath(u)].unit # u IN
    /\ fetching[p].step = "fetch" /\ u \in fetching[p].todo
    /\ exists \/ u \notin reachable
    /\ Move(p, [fetching[p] EXCEPT !.todo = @ \ {u},
                                   !.left = IF u \notin reachable \/ others THEN @ \cup {u} ELSE @])
    /\ UNCHANGED <<source, offered, reachable, downloads, populated, record, passed, spoilt>>

Request(p, u) ==
    /\ fetching[p].step = "fetch" /\ u \in fetching[p].todo
    /\ downloads[LocalPath(u)] = Missing /\ u \in reachable
    /\ Move(p, [fetching[p] EXCEPT !.step = "request", !.at = u])
    /\ UNCHANGED <<source, offered, reachable, downloads, populated, record, passed, spoilt>>

\* open(local_path, "wb")
OpenLocal(p) ==
    LET f == LocalPath(fetching[p].at) IN
    /\ fetching[p].step = "request"
    /\ downloads' = [downloads EXCEPT ![f] = [unit |-> fetching[p].at, whole |-> FALSE]]
    /\ spoilt' = IF downloads[f] = Missing THEN spoilt ELSE spoilt \cup {f}
    /\ Move(p, [fetching[p] EXCEPT !.step = "write"])
    /\ UNCHANGED <<source, offered, reachable, populated, record, passed>>

FinishFile(p) ==
    LET u == fetching[p].at IN
    /\ fetching[p].step = "write"
    /\ downloads' = [downloads EXCEPT ![LocalPath(u)] = [unit |-> u, whole |-> TRUE]]
    /\ Move(p, [fetching[p] EXCEPT !.step = "fetch", !.todo = @ \ {u}, !.at = NoUnit])
    /\ UNCHANGED <<source, offered, reachable, populated, record, passed, spoilt>>

\* download_file_with_retry gives up on a plan, which is only logged
GiveUp(p) ==
    LET u == fetching[p].at IN
    /\ CatalogBased /\ fetching[p].step \in {"request", "write"}
    /\ Move(p, [fetching[p] EXCEPT !.step = "fetch", !.todo = @ \ {u}, !.at = NoUnit,
                                   !.left = @ \cup {u}])
    /\ spoilt' = IF fetching[p].step = "write" THEN spoilt \cup {LocalPath(u)} ELSE spoilt
    /\ UNCHANGED <<source, offered, reachable, downloads, populated, record, passed>>

\* mutant: the payload is recorded before it is loaded
LifecycleRecordFirst == [fetch |-> "read_record", load |-> "idle"]

\* fetch, load, update_state
Lifecycle == [fetch |-> "load", load |-> "read_record"]

EndStage(p) ==
    LET run == fetching[p] IN
    /\ \/ run.step = "fetch" /\ run.todo = {}
       \/ run.step = "load" /\ run.commands = {}
    /\ Move(p, [run EXCEPT !.step = Lifecycle[run.step]])
    /\ UNCHANGED <<source, offered, reachable, downloads, populated, record, passed, spoilt>>

\* subprocess.run(check=True) of a command, which finds published vintages; one
\* that fails stops the run and counts as having loaded nothing
Load(p, units) ==
    /\ fetching[p].step = "load" /\ units \in fetching[p].commands
    /\ fetching[p].payload \subseteq offered
    /\ populated' = populated \cup units
    /\ Move(p, [fetching[p] EXCEPT !.commands = @ \ {units}])
    /\ UNCHANGED <<source, offered, reachable, downloads, record, passed, spoilt>>

\* update_state(): the plans known so far are kept, an older vintage is not
ReadRecord(p) ==
    /\ fetching[p].step = "read_record"
    /\ Move(p, [fetching[p] EXCEPT !.step = "truncate", !.seen = IF CatalogBased THEN record ELSE {}])
    /\ UNCHANGED <<source, offered, reachable, downloads, populated, record, passed, spoilt>>

\* write_text() empties the file first
TruncateRecord(p) ==
    /\ fetching[p].step = "truncate"
    /\ record' = {}
    /\ Move(p, [fetching[p] EXCEPT !.step = "write_record"])
    /\ UNCHANGED <<source, offered, reachable, downloads, populated, passed, spoilt>>

WriteRecord(p) ==
    LET run == fetching[p] IN
    /\ run.step = "write_record"
    /\ record' = run.seen \cup run.payload
    /\ passed' = (passed \ UnitsOf(run.payload)) \cup run.left
    /\ Move(p, NoRun)
    /\ UNCHANGED <<source, offered, reachable, downloads, populated, spoilt>>

\* an error ends the run with exit code 2, or its process is killed
StopRun(p) ==
    /\ fetching[p].step # "idle"
    /\ spoilt' = IF fetching[p].step = "write" THEN spoilt \cup {LocalPath(fetching[p].at)} ELSE spoilt
    /\ Move(p, NoRun)
    /\ UNCHANGED <<source, offered, reachable, downloads, populated, record, passed>>

FetchNext ==
    \/ \E e \in Editions : \E units \in SUBSET UnitsOf({e}) : PublishEdition(e, units)
    \/ \E u \in UnitsOf(Editions) : PublishDirectory(u)
    \/ \E p \in Fetchers :
        \/ \E scope \in Scopes :
              \/ Check(p, scope)
              \/ \E e \in Forced : ForceVintage(p, e, scope)
        \/ \E u \in fetching[p].todo : PassOver(p, u) \/ Request(p, u)
        \/ \E units \in fetching[p].commands : Load(p, units)
        \/ OpenLocal(p) \/ FinishFile(p) \/ GiveUp(p) \/ EndStage(p)
        \/ ReadRecord(p) \/ TruncateRecord(p) \/ WriteRecord(p) \/ StopRun(p)

FetchSpec == FetchInit /\ [][FetchNext]_fetchVars

-----------------------------------------------------------------------------
(* Properties *)

FetchTypeOK ==
    /\ source \in Sources
    /\ offered \cup record \subseteq Editions
    /\ reachable \cup populated \cup passed \subseteq UnitsOf(Editions)
    /\ spoilt \subseteq FileNames
    /\ \A f \in FileNames : downloads[f].unit \in UnitsOf(Editions) \cup {NoUnit}
    /\ \A p \in Fetchers : fetching[p].left \subseteq UnitsOf(fetching[p].payload)

BeingWritten(f) == \E p \in Fetchers : fetching[p].step = "write" /\ LocalPath(fetching[p].at) = f

\* base.py: "Record that payload was successfully loaded."  A unit of an edition
\* the state file names, which no later check comes back to, has its file, whole
\* unless its download was interrupted or met another one, and has been loaded;
\* but for the units that the run which recorded the edition left out.
RecordedIsHere ==
    \A u \in UnitsOf(record) \ passed :
        /\ source # "acs" =>
              \/ downloads[LocalPath(u)] = [unit |-> u, whole |-> TRUE]
              \/ LocalPath(u) \in spoilt \/ BeingWritten(LocalPath(u))
        /\ source # "rdh" => u \in populated
================================================================================
