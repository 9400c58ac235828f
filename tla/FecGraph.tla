------------------------------- MODULE FecGraph -------------------------------
(***************************************************************************)
(* fec-build-graph and fec-centrality (swh/analysis/fec): a build writes   *)
(* the edges and then the vertices of a cycle to one directory; centrality *)
(* loads both and writes one table per party.  Spark is lazy: a write reads*)
(* the bulk files itself, and an overwrite removes the old dataset before  *)
(* it adds its own, so that two of them can end in the same directory.     *)
(*                                                                         *)
(* A dataset is the set of the bulk files, <<cycle, issue>>, that went     *)
(* into it; the empty set is a directory without a dataset.                *)
(***************************************************************************)
EXTENDS Naturals, FiniteSets, Sequences, SequencesExt

CONSTANTS
    Builders, Analysts,  \* processes
    Cycles,
    MaxIssue,            \* bound: how often the FEC reissues the bulk files
    Parties              \* --party, in order

ASSUME GraphAssumption == MaxIssue \in Nat \ {0} /\ Parties \in Seq(ToSet(Parties))

VARIABLES
    issue,          \* number of the bulk files on disk
    edges, vertices,
    builders,       \* builders[b]: its cycle and step; alone with unchanged bulk files?
    analysts,       \* analysts[a]: what it loaded and has still to report
    reports,        \* reports[party]: the edges and vertices a table was made from
    suspect         \* a build that was not alone, or stopped, has had the directory last

graphVars == <<issue, edges, vertices, builders, analysts, reports, suspect>>

BulkFiles == Cycles \X (1..MaxIssue)
NoBuild == [step |-> "idle", cycle |-> "none", alone |-> FALSE]
NoAnalysis == [step |-> "idle", edges |-> {}, vertices |-> {}, todo |-> <<>>, there |-> FALSE, quiet |-> FALSE]
NoReport == <<{}, {}>>

GraphInit ==
    /\ issue = 1
    /\ edges = {} /\ vertices = {}
    /\ builders = [b \in Builders |-> NoBuild]
    /\ analysts = [a \in Analysts |-> NoAnalysis]
    /\ reports = [party \in ToSet(Parties) |-> NoReport]
    /\ suspect = FALSE

Building == {b \in Builders : builders[b].step # "idle"}

ReissueBulk ==
    /\ issue < MaxIssue
    /\ issue' = issue + 1
    /\ builders' = [b \in Builders |-> [builders[b] EXCEPT !.alone = FALSE]]
    /\ UNCHANGED <<edges, vertices, analysts, reports, suspect>>

\* the tables are loaded, joined and counted; a missing file or an empty header
\* ends the build here
BeginBuild(b, cycle) ==
    /\ b \notin Building
    /\ builders' = [c \in Builders |->
          IF c = b THEN [step |-> "drop edges", cycle |-> cycle, alone |-> Building = {}]
          ELSE [builders[c] EXCEPT !.alone = FALSE]]
    /\ analysts' = [a \in Analysts |-> [analysts[a] EXCEPT !.quiet = FALSE]]
    /\ UNCHANGED <<issue, edges, vertices, reports, suspect>>

Goes(b, step) == builders' = [builders EXCEPT ![b].step = step]

\* the files an analyst has listed are removed
Removed == [a \in Analysts |-> [analysts[a] EXCEPT !.there = FALSE]]

DropEdges(b) ==
    /\ builders[b].step = "drop edges" /\ Goes(b, "edges")
    /\ edges' = {} /\ analysts' = Removed
    /\ UNCHANGED <<issue, vertices, reports, suspect>>

WriteEdges(b) ==
    /\ builders[b].step = "edges" /\ Goes(b, "drop vertices")
    /\ edges' = edges \cup {<<builders[b].cycle, issue>>}
    /\ UNCHANGED <<issue, vertices, analysts, reports, suspect>>

\* mutant: mode("append")
KeepVertices(b) ==
    /\ builders[b].step = "drop vertices" /\ Goes(b, "vertices")
    /\ UNCHANGED <<issue, edges, vertices, analysts, reports, suspect>>

DropVertices(b) ==
    /\ builders[b].step = "drop vertices" /\ Goes(b, "vertices")
    /\ vertices' = {} /\ analysts' = Removed
    /\ UNCHANGED <<issue, edges, reports, suspect>>

WriteVertices(b) ==
    /\ builders[b].step = "vertices"
    /\ vertices' = vertices \cup {<<builders[b].cycle, issue>>}
    /\ suspect' = ~builders[b].alone
    /\ builders' = [builders EXCEPT ![b] = NoBuild]
    /\ UNCHANGED <<issue, edges, analysts, reports>>

\* an error or a death
StopBuild(b) ==
    /\ b \in Building
    /\ builders' = [builders EXCEPT ![b] = NoBuild]
    /\ suspect' = TRUE
    /\ UNCHANGED <<issue, edges, vertices, analysts, reports>>

\* spark.read lists the files of the vertices, then those of the edges
LoadVertices(a) ==
    /\ analysts[a].step = "idle" /\ vertices # {}
    /\ analysts' = [analysts EXCEPT ![a] = [step |-> "edges", edges |-> {}, vertices |-> vertices,
          todo |-> Parties, there |-> TRUE, quiet |-> Building = {}]]
    /\ UNCHANGED <<issue, edges, vertices, builders, reports, suspect>>

LoadEdges(a) ==
    /\ analysts[a].step = "edges" /\ edges # {}
    /\ analysts' = [analysts EXCEPT ![a].step = "report", ![a].edges = edges]
    /\ UNCHANGED <<issue, edges, vertices, builders, reports, suspect>>

\* compute_party_centrality reads the files again for every party
Centrality(a) == <<analysts[a].edges, analysts[a].vertices>>

WriteReport(a) ==
    /\ analysts[a].step = "report" /\ analysts[a].todo # <<>> /\ analysts[a].there
    /\ reports' = [reports EXCEPT ![Head(analysts[a].todo)] = Centrality(a)]
    /\ analysts' = [analysts EXCEPT ![a].todo = Tail(@)]
    /\ UNCHANGED <<issue, edges, vertices, builders, suspect>>

\* it is done, misses a file, or dies; the overwrite of a table may have emptied it
EndAnalysis(a) ==
    /\ analysts[a].step # "idle"
    /\ \/ reports' = reports
       \/ analysts[a].todo # <<>> /\ reports' = [reports EXCEPT ![Head(analysts[a].todo)] = NoReport]
    /\ analysts' = [analysts EXCEPT ![a] = NoAnalysis]
    /\ UNCHANGED <<issue, edges, vertices, builders, suspect>>

GraphNext ==
    \/ ReissueBulk
    \/ \E b \in Builders :
        \/ \E cycle \in Cycles : BeginBuild(b, cycle)
        \/ DropEdges(b) \/ WriteEdges(b) \/ DropVertices(b) \/ WriteVertices(b) \/ StopBuild(b)
    \/ \E a \in Analysts : LoadVertices(a) \/ LoadEdges(a) \/ WriteReport(a) \/ EndAnalysis(a)

GraphSpec == GraphInit /\ [][GraphNext]_graphVars

-----------------------------------------------------------------------------
(* Properties *)

GraphTypeOK ==
    /\ issue \in 1..MaxIssue /\ suspect \in BOOLEAN
    /\ edges \subseteq BulkFiles /\ vertices \subseteq BulkFiles
    /\ reports \in [ToSet(Parties) -> (SUBSET BulkFiles) \X (SUBSET BulkFiles)]
    /\ \A a \in Analysts : analysts[a].step \in {"idle", "edges", "report"}

\* Centrality that runs while nothing is built reports on one graph, the edges and
\* the vertices of one cycle from the same bulk files, whatever deaths and overlaps
\* there have been, if the last build to end ran alone to its end.
ReportsOneGraph ==
    [][\A a \in Analysts : WriteReport(a) /\ analysts[a].quiet /\ ~suspect =>
         analysts[a].edges = analysts[a].vertices /\ Cardinality(analysts[a].edges) = 1]_graphVars
=============================================================================
