----------------------------- MODULE CensusTables -----------------------------
(***************************************************************************)
(* load-census and download-census (swh/census.py, swh/cli.py): for each   *)
(* state, all boundary types are downloaded, and those that came are       *)
(* uploaded, each replacing the table <type>_<state>.  A type that fails   *)
(* is recorded and the others go on; the exit code says whether any did.   *)
(*                                                                         *)
(* The table name has no year, so a run of another year replaces it too.   *)
(* Runs can overlap; each CensusRun here is one command.                   *)
(***************************************************************************)
EXTENDS Naturals, Sequences, FiniteSets, SequencesExt

CONSTANTS
    CensusRuns,
    States,        \* the states of a command, in order
    Requests,      \* the boundary types of a command, in order
    CensusCommands,
    NoLayer

BoundaryTypes == UNION {ToSet(request) : request \in Requests}

ASSUME CensusAssumption ==
    /\ CensusCommands \subseteq {"load-census", "download-census"}
    /\ States \in Seq(ToSet(States)) /\ States # <<>>   \* with none the command exits 1
    /\ \A request \in Requests : request \in Seq(ToSet(request)) /\ IsInjective(request)

VARIABLES
    layers,   \* layers[<<type, state>>]: the run whose download a table holds
    fetches   \* fetches[c]: what a run does

censusVars == <<layers, fetches>>

TableNames == BoundaryTypes \X ToSet(States)
NotFetched == [step |-> "ready", name |-> "", states |-> <<>>, types |-> <<>>, todo |-> <<>>,
               got |-> <<>>, failed |-> 0, replaced |-> {}]

CensusInit ==
    /\ layers = [k \in TableNames |-> NoLayer]
    /\ fetches = [c \in CensusRuns |-> NotFetched]

\* download_census_boundaries of the first of the states
Downloading(f, states) == [f EXCEPT !.step = "download", !.states = states, !.todo = f.types, !.got = <<>>]

BeginFetch(c, name, types) ==
    /\ fetches[c].step = "ready"
    /\ fetches' = [fetches EXCEPT ![c] = Downloading([@ EXCEPT !.name = name, !.types = types], States)]
    /\ UNCHANGED layers

\* get_geographic_boundaries of the next type
DownloadType(c) ==
    LET f == fetches[c] IN
    /\ f.step = "download" /\ f.todo # <<>>
    /\ fetches' = [fetches EXCEPT ![c].todo = Tail(f.todo),
          ![c].got = IF f.name = "load-census" THEN Append(f.got, Head(f.todo)) ELSE f.got]
    /\ UNCHANGED layers

FailDownload(c) ==
    /\ fetches[c].step = "download" /\ fetches[c].todo # <<>>
    /\ fetches' = [fetches EXCEPT ![c].todo = Tail(@), ![c].failed = @ + 1]
    /\ UNCHANGED layers

BeginUploads(c) ==
    /\ fetches[c].step = "download" /\ fetches[c].todo = <<>>
    /\ fetches' = [fetches EXCEPT ![c].step = "upload"]
    /\ UNCHANGED layers

\* if_exists="replace"
UploadType(c) ==
    LET f == fetches[c] name == <<Head(f.got), Head(f.states)>> IN
    /\ f.step = "upload" /\ f.got # <<>>
    /\ layers' = [layers EXCEPT ![name] = c]
    /\ fetches' = [fetches EXCEPT ![c].got = Tail(@), ![c].replaced = @ \cup {name}]

\* mutant: the value upload_spatial_data returns is not looked at
IgnoreRefusal(c) ==
    /\ fetches[c].step = "upload" /\ fetches[c].got # <<>>
    /\ fetches' = [fetches EXCEPT ![c].got = Tail(@)]
    /\ UNCHANGED layers

\* upload_spatial_data raises or returns False
FailUpload(c) ==
    /\ fetches[c].step = "upload" /\ fetches[c].got # <<>>
    /\ fetches' = [fetches EXCEPT ![c].got = Tail(@), ![c].failed = @ + 1]
    /\ UNCHANGED layers

NextState(c) ==
    /\ fetches[c].step = "upload" /\ fetches[c].got = <<>> /\ Len(fetches[c].states) > 1
    /\ fetches' = [fetches EXCEPT ![c] = Downloading(@, Tail(@.states))]
    /\ UNCHANGED layers

ExitCode(c) == IF fetches[c].failed > 0 THEN 2 ELSE 0

ExitFetch(c) ==
    /\ fetches[c].step = "upload" /\ fetches[c].got = <<>> /\ Len(fetches[c].states) = 1
    /\ fetches' = [fetches EXCEPT ![c].step = IF ExitCode(c) = 0 THEN "exit 0" ELSE "exit 2"]
    /\ UNCHANGED layers

\* the process dies
DieFetching(c) ==
    /\ fetches[c].step \in {"download", "upload"}
    /\ fetches' = [fetches EXCEPT ![c].step = "dead"]
    /\ UNCHANGED layers

CensusNext == \E c \in CensusRuns :
    \/ \E name \in CensusCommands, types \in Requests : BeginFetch(c, name, types)
    \/ DownloadType(c) \/ FailDownload(c) \/ BeginUploads(c) \/ UploadType(c) \/ FailUpload(c)
    \/ NextState(c) \/ ExitFetch(c) \/ DieFetching(c)

CensusSpec == CensusInit /\ [][CensusNext]_censusVars

-----------------------------------------------------------------------------
(* Properties *)

CensusTypeOK ==
    /\ layers \in [TableNames -> CensusRuns \cup {NoLayer}]
    /\ \A c \in CensusRuns : fetches[c].replaced \subseteq TableNames
    /\ \A c \in CensusRuns : fetches[c].failed \in 0..(Len(fetches[c].types) * Len(States))

\* A load that exits 0 has replaced the table of every type and state it was
\* asked for, and one that exits 2 missed some; a table it replaced holds
\* its download or, later, that of another run which replaced the table too.
ExitZeroMeansLoaded ==
    \A c \in CensusRuns :
        LET asked == ToSet(fetches[c].types) \X ToSet(States)
            replaced(d) == fetches[d].replaced
        IN /\ fetches[c].name = "load-census" /\ fetches[c].step = "exit 0" => replaced(c) = asked
           /\ fetches[c].name = "load-census" /\ fetches[c].step = "exit 2" => replaced(c) # asked
           /\ \A k \in replaced(c) : layers[k] = c \/ k \in replaced(layers[k])
=============================================================================
