--------------------------- MODULE VoterMedallion ---------------------------
(***************************************************************************)
(* The voter-file pipeline (swh/voters), seen from one voter: vendor       *)
(* records appended to bronze, the silver tables built from them by Delta  *)
(* MERGEs, their projection into PostgreSQL and the link to a canonical    *)
(* address, which is kept in both stores.                                  *)
(*                                                                         *)
(* A command of the swh command line is a list of stages.  A stage reads   *)
(* what it needs into the driver's memory and then writes one table; no    *)
(* transaction spans two writes.  Commands overlap, are repeated and die.  *)
(* The stages of a command treat voters independently of each other.       *)
(***************************************************************************)
EXTENDS Integers, FiniteSets, Sequences

CONSTANTS
    Workers,         \* processes that run commands
    Commands,        \* the ones they run, a subset of DOMAIN Stages
    Places, NoPlace, \* what latitude and longitude of a record say
    Elections, Generals, ScoreTypes,
    Values, Absent,  \* of a score or a voted_method; not in the record
    Records, NoRecord, \* payloads of the vendor; a file that lacks the voter
    PlaceOf,         \* PlaceOf[a]: where the canonical address a is; ids are numbers
    NoAddress, NoPerson,
    NamesSurvive,    \* whether DataFrame.itertuples keeps the name vb.voterbase_id
    MaxBronze        \* bound: records of the voter that are ever ingested

FactKeys == Elections \cup ScoreTypes
FactTable == [FactKeys -> Values \cup {Absent}]
Record == [place : Places \cup {NoPlace}, facts : FactTable]
Addresses == DOMAIN PlaceOf
CountsRecord == [general : Nat, total : Nat, category : {"", "non", "occasional", "regular", "super_voter"}]
Person == [src : Records, address : Addresses \cup {NoAddress}, counts : CountsRecord]

ASSUME RecordsAssumption ==
    /\ Records \subseteq Record /\ NoRecord \notin Records
    /\ Absent \notin Values /\ NoPlace \notin Places
    /\ Generals \subseteq Elections /\ Elections \cap ScoreTypes = {}
    /\ IsFiniteSet(Elections)
ASSUME AddressesAssumption ==
    /\ Addresses \subseteq Nat /\ NoAddress \notin Addresses
    /\ PlaceOf \in [Addresses -> Places]
ASSUME PersonAssumption == NoPerson \notin Person
ASSUME NamesAssumption == NamesSurvive \in BOOLEAN
ASSUME BoundAssumption == MaxBronze \in Nat

VARIABLES
    bronze,   \* the voter's rows of bronze.voter_file_ts
    silver,   \* the silver.persons row
    facts,    \* silver.vote_history and silver.person_scores
    dim,      \* the DimPerson row
    dimFacts, \* FactVoteHistory and FactPersonScore
    located,  \* the sw_geo addresses that have coordinates
    command,  \* the command each worker runs
    left,     \* its stages that are left
    buf,      \* what the current stage has read
    alone     \* history: nobody else has written since the command began

tables == <<bronze, silver, facts, dim, dimFacts>>
vars == <<tables, located, command, left, buf, alone>>

-----------------------------------------------------------------------------
(* Derived columns *)

\* vote_frequency_category
Category(generals) ==
    CASE generals >= 4 -> "super_voter"
      [] generals \in {2, 3} -> "regular"
      [] generals = 1 -> "occasional"
      [] OTHER -> "non"

\* NULL counts in silver, zeros and "" in DimPerson
NoCounts == [general |-> 0, total |-> 0, category |-> ""]

Voted(table, elections) == {e \in elections : table[e] # Absent}

\* mutant: primaries count, too
CountsAll(table) ==
    LET g == Cardinality(Voted(table, Generals))
        t == Cardinality(Voted(table, Elections)) IN
    [general |-> g, total |-> t, category |-> Category(t)]

\* compute_aggregates, for a voter with any vote history
Counts(table) ==
    LET g == Cardinality(Voted(table, Generals))
        t == Cardinality(Voted(table, Elections)) IN
    [general |-> g, total |-> t, category |-> Category(g)]

Overlay(old, new) ==
    [f \in FactKeys |-> IF f \in DOMAIN new /\ new[f] # Absent THEN new[f] ELSE old[f]]

-----------------------------------------------------------------------------
(* Commands *)

\* mutant: facts before the persons they refer to
FactsFirst == <<"dimScores", "dimVotes", "dimPersons">>

MaterializeAll == <<"dimPersons", "dimScores", "dimVotes">>

\* mutant: counts before the history they count
CountsFirst == <<"aggregates", "votes">>

VoteHistory == <<"votes", "aggregates">>

\* ingest-voter-file with its flags, and the materialize-electoral group
Stages ==
    [ingestBronze |-> <<"append">>,
     ingest       |-> <<"append", "persons">>,
     ingestVotes  |-> <<"append", "persons">> \o VoteHistory,
     ingestAll    |-> <<"append", "persons", "scores">> \o VoteHistory,
     persons      |-> <<"dimPersons">>,
     scores       |-> <<"dimScores">>,
     voteHistory  |-> <<"dimVotes">>,
     all          |-> MaterializeAll,
     backfill     |-> <<"resolve", "linkSilver", "linkDim">>]

ASSUME CommandsAssumption == Commands \subseteq DOMAIN Stages

Idle(w) == left[w] = <<>>
At(w, stage) == left[w] # <<>> /\ Head(left[w]) = stage
HasRead(w) == buf[w] # <<>>

Init ==
    /\ bronze = <<>>
    /\ silver = NoPerson
    /\ facts = [f \in FactKeys |-> Absent]
    /\ dim = NoPerson
    /\ dimFacts = [f \in FactKeys |-> Absent]
    /\ located = {}
    /\ command = [w \in Workers |-> "none"]
    /\ left = [w \in Workers |-> <<>>]
    /\ buf = [w \in Workers |-> <<>>]
    /\ alone = [w \in Workers |-> FALSE]

Ingests(name) == Head(Stages[name]) = "append"
Pending == {w \in Workers : At(w, "append") /\ buf[w] # <<NoRecord>>}

\* the file to ingest may lack the voter
Begin(w, name, record) ==
    /\ Idle(w)
    /\ record # NoRecord => Ingests(name) /\ Len(bronze) + Cardinality(Pending) < MaxBronze
    /\ command' = [command EXCEPT ![w] = name]
    /\ left' = [left EXCEPT ![w] = Stages[name]]
    /\ buf' = [buf EXCEPT ![w] = IF Ingests(name) THEN <<record>> ELSE <<>>]
    /\ alone' = [alone EXCEPT ![w] = TRUE]
    /\ UNCHANGED <<tables, located>>

\* the rest of the command is stages
Continue(w, stages) ==
    /\ left' = [left EXCEPT ![w] = stages]
    /\ command' = [command EXCEPT ![w] = IF stages = <<>> THEN "none" ELSE @]

\* the stage has written: the next one reads for itself
Proceed(w) ==
    /\ Continue(w, Tail(left[w]))
    /\ buf' = [buf EXCEPT ![w] = <<>>]

Disturb(w) == alone' = [v \in Workers |-> v = w /\ alone[v] /\ left'[v] # <<>>]
Undisturbing(w) == alone' = [alone EXCEPT ![w] = @ /\ left'[w] # <<>>]

Read(w, stage, value) ==
    /\ At(w, stage) /\ ~HasRead(w)
    /\ buf' = [buf EXCEPT ![w] = <<value>>]
    /\ UNCHANGED <<tables, located, command, left, alone>>

Write(w, stage) ==
    /\ At(w, stage) /\ HasRead(w)
    /\ Proceed(w)
    /\ Disturb(w)
    /\ UNCHANGED located

\* there is nothing of this voter to write ...
Skip(w, stage) ==
    /\ At(w, stage) /\ ~HasRead(w)
    /\ Proceed(w)
    /\ Undisturbing(w)
    /\ UNCHANGED <<tables, located>>

\* ... in this stage and the later ones
Abandon(w, stage) ==
    /\ At(w, stage) /\ ~HasRead(w)
    /\ Continue(w, <<>>)
    /\ Undisturbing(w)
    /\ UNCHANGED <<tables, located, buf>>

-----------------------------------------------------------------------------
(* Bronze and silver *)

\* A row whose dictionary has no vb.voterbase_id is skipped.  itertuples gives a
\* column whose name is no Python identifier a positional name instead.
Identified(record) == record # NoRecord /\ NamesSurvive

\* mutant: an append that is retried without a check
AppendBronzeRetried(w) ==
    /\ Write(w, "append")
    /\ bronze' = IF ~Identified(buf[w][1]) THEN bronze ELSE bronze \o buf[w] \o buf[w]
    /\ UNCHANGED <<silver, facts, dim, dimFacts>>

\* ingest_bronze
AppendBronze(w) ==
    /\ Write(w, "append")
    /\ bronze' = IF ~Identified(buf[w][1]) THEN bronze ELSE Append(bronze, buf[w][1])
    /\ UNCHANGED <<silver, facts, dim, dimFacts>>

\* Nothing orders the rows of a Delta table that is collected; a job keeps the
\* first one it meets.
ReadOrders ==
    {o \in [DOMAIN bronze -> DOMAIN bronze] :
        \A i, j \in DOMAIN bronze : o[i] = o[j] => i = j}

FirstOf(S, order) == CHOOSE i \in S : \A j \in S : order[i] <= order[j]

\* build_silver_persons: collect
ReadPersons(w) ==
    \/ bronze = <<>> /\ Skip(w, "persons")
    \/ \E i \in DOMAIN bronze : Read(w, "persons", bronze[i])

\* build_silver_persons: MERGE ... UPDATE SET *.  The record built from bronze
\* has no address_id and no counts.
MergePersons(w) ==
    /\ Write(w, "persons")
    /\ silver' = [src |-> buf[w][1], address |-> NoAddress, counts |-> NoCounts]
    /\ UNCHANGED <<bronze, facts, dim, dimFacts>>

\* for every key, the value of the first row that has one
Extracted(keys, order) ==
    [f \in keys |->
        LET having == {i \in DOMAIN bronze : bronze[i].facts[f] # Absent} IN
        IF having = {} THEN Absent ELSE bronze[FirstOf(having, order)].facts[f]]

\* extract_scores and extract_vote_history: collect
ReadFacts(w, stage, keys) ==
    \E order \in ReadOrders : Read(w, stage, Extracted(keys, order))

\* mutant: the table is overwritten with what was collected
ReplaceFacts(w, stage) ==
    /\ Write(w, stage)
    /\ facts' = [f \in FactKeys |-> IF f \in DOMAIN buf[w][1] THEN buf[w][1][f] ELSE facts[f]]
    /\ UNCHANGED <<bronze, silver, dim, dimFacts>>

\* extract_scores and extract_vote_history: MERGE
MergeFacts(w, stage) ==
    /\ Write(w, stage)
    /\ facts' = Overlay(facts, buf[w][1])
    /\ UNCHANGED <<bronze, silver, dim, dimFacts>>

ReadScores(w) == ReadFacts(w, "scores", ScoreTypes)
MergeScores(w) == MergeFacts(w, "scores")

ReadVotes(w) == ReadFacts(w, "votes", Elections)
MergeVotes(w) == MergeFacts(w, "votes")

\* compute_aggregates: GROUP BY person_key yields no group without history
ReadAggregates(w) ==
    \/ Voted(facts, Elections) = {} /\ Skip(w, "aggregates")
    \/ Voted(facts, Elections) # {} /\ Read(w, "aggregates", Counts(facts))

\* compute_aggregates: MERGE, matched rows only
MergeAggregates(w) ==
    /\ Write(w, "aggregates")
    /\ silver' = IF silver = NoPerson THEN silver ELSE [silver EXCEPT !.counts = buf[w][1]]
    /\ UNCHANGED <<bronze, facts, dim, dimFacts>>

-----------------------------------------------------------------------------
(* PostgreSQL *)

\* materialize_persons: read
ReadDimPersons(w) ==
    \/ silver = NoPerson /\ Skip(w, "dimPersons")
    \/ silver # NoPerson /\ Read(w, "dimPersons", silver)

\* mutant: address is among the update fields
UpsertDimWhole(w) ==
    /\ Write(w, "dimPersons")
    /\ dim' = buf[w][1]
    /\ UNCHANGED <<bronze, silver, facts, dimFacts>>

\* materialize_persons: bulk_create with update_conflicts; address is none of
\* the update fields
UpsertDim(w) ==
    /\ Write(w, "dimPersons")
    /\ dim' = [buf[w][1] EXCEPT !.address = IF dim = NoPerson THEN NoAddress ELSE dim.address]
    /\ UNCHANGED <<bronze, silver, facts, dimFacts>>

\* materialize_scores and materialize_vote_history: read
ReadDimFacts(w, stage, keys) == Read(w, stage, [f \in keys |-> facts[f]])

\* materialize_scores and materialize_vote_history: upsert, skipped without
\* the person they refer to
UpsertDimFacts(w, stage) ==
    /\ Write(w, stage)
    /\ dimFacts' = IF dim = NoPerson THEN dimFacts ELSE Overlay(dimFacts, buf[w][1])
    /\ UNCHANGED <<bronze, silver, facts, dim>>

ReadDimScores(w) == ReadDimFacts(w, "dimScores", ScoreTypes)
UpsertDimScores(w) == UpsertDimFacts(w, "dimScores")

ReadDimVotes(w) == ReadDimFacts(w, "dimVotes", Elections)
UpsertDimVotes(w) == UpsertDimFacts(w, "dimVotes")

-----------------------------------------------------------------------------
(* Addresses *)

\* geocoding gives a canonical address its coordinates
LocateAddress(a) ==
    /\ located' = located \cup {a}
    /\ UNCHANGED <<tables, command, left, buf, alone>>

\* mutant: no tolerance around the place
AnyCandidate(place) == located

Candidates(place) == {a \in located : PlaceOf[a] = place}

\* _find_address_id: the lowest id wins
Lowest(S) == CHOOSE a \in S : \A b \in S : a <= b

Unlinked == silver # NoPerson /\ silver.address = NoAddress /\ silver.src.place # NoPlace

\* backfill_addresses: the filtered rows
ReadUnlinked(w) ==
    \/ Unlinked /\ Read(w, "resolve", silver.src.place)
    \/ ~Unlinked /\ Abandon(w, "resolve")

\* _resolve_addresses: what it finds is in memory for both of the writes
Resolve(w) ==
    /\ At(w, "resolve") /\ HasRead(w)
    /\ LET found == Candidates(buf[w][1]) IN
       /\ Continue(w, IF found = {} THEN <<>> ELSE Tail(left[w]))
       /\ buf' = [buf EXCEPT ![w] = IF found = {} THEN <<>> ELSE <<Lowest(found)>>]
    /\ Undisturbing(w)
    /\ UNCHANGED <<tables, located>>

\* backfill_addresses: MERGE, matched rows only
LinkSilver(w) ==
    /\ At(w, "linkSilver")
    /\ silver' = [silver EXCEPT !.address = buf[w][1]]
    /\ Continue(w, Tail(left[w]))
    /\ Disturb(w)
    /\ UNCHANGED <<bronze, facts, dim, dimFacts, located, buf>>

\* backfill_addresses: bulk_update of the DimPerson, if there is one
LinkDim(w) ==
    /\ Write(w, "linkDim")
    /\ dim' = IF dim = NoPerson THEN dim ELSE [dim EXCEPT !.address = buf[w][1]]
    /\ UNCHANGED <<bronze, silver, facts, dimFacts>>

\* the command is killed or fails, for a conflicting MERGE or a table that is
\* not there yet; it may be run again
Die(w) ==
    /\ ~Idle(w)
    /\ Continue(w, <<>>)
    /\ buf' = [buf EXCEPT ![w] = <<>>]
    /\ Undisturbing(w)
    /\ UNCHANGED <<tables, located>>

Next ==
    \/ \E a \in Addresses : LocateAddress(a)
    \/ \E w \in Workers :
          \/ \E name \in Commands, record \in Records \cup {NoRecord} : Begin(w, name, record)
          \/ AppendBronze(w)
          \/ ReadPersons(w) \/ MergePersons(w)
          \/ ReadScores(w) \/ MergeScores(w)
          \/ ReadVotes(w) \/ MergeVotes(w)
          \/ ReadAggregates(w) \/ MergeAggregates(w)
          \/ ReadDimPersons(w) \/ UpsertDim(w)
          \/ ReadDimScores(w) \/ UpsertDimScores(w)
          \/ ReadDimVotes(w) \/ UpsertDimVotes(w)
          \/ ReadUnlinked(w) \/ Resolve(w) \/ LinkSilver(w) \/ LinkDim(w)
          \/ Die(w)

Spec == Init /\ [][Next]_vars

-----------------------------------------------------------------------------
(* Properties *)

TypeOK ==
    /\ bronze \in Seq(Records) /\ Len(bronze) <= MaxBronze
    /\ silver = NoPerson \/ silver \in Person
    /\ dim = NoPerson \/ dim \in Person
    /\ facts \in FactTable /\ dimFacts \in FactTable
    /\ located \subseteq Addresses
    /\ command \in [Workers -> {"none"} \cup Commands]
    /\ \A w \in Workers : left[w] \in Seq(UNION {{Stages[c][i] : i \in DOMAIN Stages[c]} : c \in Commands})
    /\ \A w \in Workers : Len(buf[w]) <= 1

Sources == {bronze[i] : i \in DOMAIN bronze}

\* Whatever overlaps, dies or is run again, everything kept of the voter goes
\* back to a record the vendor sent: the person, each score and vote, and the
\* address, whose place one of the records names.
VendorSaidSo ==
    /\ \A person \in {silver, dim} \ {NoPerson} :
          /\ person.src \in Sources
          /\ person.address # NoAddress => \E r \in Sources : r.place = PlaceOf[person.address]
    /\ \A table \in {facts, dimFacts}, f \in FactKeys :
          table[f] # Absent => \E r \in Sources : r.facts[f] = table[f]

\* "Derived from total counts": wherever they are kept, and however many
\* writers have been at them, the counts never run ahead of the vote history
\* and the category is the one of the general count beside it.
CountsTrailHistory ==
    \A person \in {silver, dim} \ {NoPerson} :
        /\ person.counts.general <= Cardinality(Voted(facts, Generals))
        /\ person.counts.total <= Cardinality(Voted(facts, Elections))
        /\ person.counts # NoCounts => person.counts.category = Category(person.counts.general)

\* The facts in PostgreSQL refer to a person there and never show an election
\* or score type that silver does not have.
FactsFollowSilver ==
    \A f \in FactKeys : dimFacts[f] # Absent => dim # NoPerson /\ facts[f] # Absent

\* "DimPerson.address: the persons materializer does NOT populate it", nor
\* clear it: a link once made in PostgreSQL outlives every rebuild of silver.
LinkSurvives ==
    [][dim # NoPerson /\ dim.address # NoAddress => dim'.address # NoAddress]_vars

\* "Re-running on identical silver yields identical PostGIS state": a run of
\* materialize_all that nobody disturbed leaves PostgreSQL the image of silver.
MaterializeMirrors ==
    [][\A w \in Workers :
          UpsertDimVotes(w) /\ command[w] = "all" /\ alone[w] /\ silver # NoPerson =>
              /\ dim' # NoPerson /\ dim'.src = silver.src /\ dim'.counts = silver.counts
              /\ dimFacts' = facts]_vars

\* An undisturbed ingest with --include-vote-history leaves the counts those
\* of the whole vote history, also where earlier runs died half way.
IngestCounts ==
    [][\A w \in Workers :
          left[w] # <<>> /\ left'[w] = <<>> /\ ~Die(w)
          /\ command[w] \in {"ingestVotes", "ingestAll"} /\ alone[w]
          /\ Voted(facts', Elections) # {} =>
              silver'.counts = Counts(facts')]_vars

\* "10 more appended": a file that has the voter adds a row, read again or not.
AppendsOnReload ==
    [][\A w \in Workers :
          AppendBronze(w) /\ buf[w] # <<NoRecord>> => Len(bronze') = Len(bronze) + 1]_vars
=============================================================================
