------------------------------- MODULE FecLoad -------------------------------
(***************************************************************************)
(* load_fec_agents and load_fec_attestations (socialwarehouse/agents/      *)
(* management/commands): resolved FEC entities of the gold tables become   *)
(* Agent hubs, typed rows linked to them, and canonical attestations.      *)
(* Every statement commits by itself; between two of them the gold tables  *)
(* can be corrected, another load can run and the process can die.         *)
(*                                                                         *)
(* An entity_uuid is a hash of its components, so it stands here for them: *)
(* an identity is <<space, id>>, where the space is the subtype and data   *)
(* source of the gold table and the id is trimmed and in lower case.       *)
(***************************************************************************)
EXTENDS Naturals, Sequences, SequencesExt

CONSTANTS
    Loaders,
    ORDER,          \* gold tables, in the order a full load takes them
    ATT_ORDER,      \* and those a full load of the attestations takes
    Ids, Names,
    GoldInputs,     \* contents a gold table can have
    MaxCorrections, \* bound: how often gold changes
    NoHub, NoRow

\* subtype and data source of the entities of a gold table
SPECS ==
    [committee |-> <<"committee", "fec">>, candidate |-> <<"person", "fec">>,
     officeholder |-> <<"person", "congress">>, individual |-> <<"person", "fec">>,
     vendor |-> <<"organization", "fec">>, employer |-> <<"organization", "fec">>]

\* officeholders are no filers
ATT_SPECS == DOMAIN SPECS \ {"officeholder"}

Tables == ToSet(ORDER)
AttestedTables == ToSet(ATT_ORDER)
GoldRow == [id : Ids, name : Names]
Identities == {SPECS[t] : t \in Tables} \X Ids

ASSUME FecAssumption ==
    /\ ORDER \in Seq(Tables) /\ ATT_ORDER \in Seq(Tables)
    /\ Tables \subseteq DOMAIN SPECS /\ AttestedTables \subseteq ATT_SPECS
    /\ GoldInputs \subseteq SUBSET GoldRow
    /\ MaxCorrections \in Nat
    /\ NoHub \notin Identities /\ NoRow \notin [name : Names, hub : Identities \cup {NoHub}]

VARIABLES
    gold,        \* gold[t]: the rows of a gold table
    corrections, \* how often gold has changed
    agents,      \* rows of sw_agent, by identity
    typed,       \* typed[i]: the row of sw_person, sw_committee or sw_organization
    attested,    \* entities with a canonical 'fec' attestation of the loader
    foreign,     \* entities whose canonical 'fec' attestation is somebody else's
    jobs,        \* jobs[w]: the command loader w runs
    torn         \* identities that a load entered and may have left half done

fecVars == <<gold, corrections, agents, typed, attested, foreign, jobs, torn>>

NoJob == [command |-> "none", todo |-> <<>>, stage |-> "agents", whole |-> FALSE, quiet |-> FALSE]

TypedRow == [name : Names, hub : Identities \cup {NoHub}]

IdentityOf(t, row) == <<SPECS[t], row.id>>
Entered(t) == {IdentityOf(t, row) : row \in gold[t]}

\* rows that were there before typed rows had a hub, and foreign attestations
FecInit ==
    /\ gold \in [Tables -> GoldInputs]
    /\ corrections = 0
    /\ agents = {} /\ attested = {} /\ torn = {}
    /\ \E legacy \in SUBSET Identities, n \in Names :
        typed = [i \in Identities |-> IF i \in legacy THEN [name |-> n, hub |-> NoHub] ELSE NoRow]
    /\ foreign \in SUBSET Identities
    /\ jobs = [w \in Loaders |-> NoJob]

Running(w) == jobs[w].todo # <<>>
Table(w) == Head(jobs[w].todo)

\* every other job has company from now on
Disturb(w) == [v \in Loaders |-> IF v = w THEN jobs[v] ELSE [jobs[v] EXCEPT !.quiet = FALSE]]

\* the tables of a command: all of them in order, or the one of --entity
Begin(w, command, todo) ==
    /\ ~Running(w)
    /\ jobs' = [jobs EXCEPT ![w] =
          [command |-> command, todo |-> todo, stage |-> "agents", whole |-> Len(todo) > 1,
           quiet |-> \A v \in Loaders \ {w} : ~Running(v)]]
    /\ UNCHANGED <<gold, corrections, agents, typed, attested, foreign, torn>>

BeginAgents(w) ==
    \E todo \in {ORDER} \cup {<<t>> : t \in Tables} : Begin(w, "agents", todo)

BeginAttestations(w) ==
    \E todo \in {ATT_ORDER} \cup {<<t>> : t \in AttestedTables} : Begin(w, "attestations", todo)

\* mutant: the load rebuilds the hubs from what gold has now
RebuildAgents(w) ==
    /\ Running(w) /\ jobs[w].command = "agents" /\ jobs[w].stage = "agents"
    /\ agents' = Entered(Table(w))
    /\ torn' = torn \cup (Entered(Table(w)) \ agents)
    /\ jobs' = [Disturb(w) EXCEPT ![w].stage = "typed"]
    /\ UNCHANGED <<gold, corrections, typed, attested, foreign>>

\* INSERT INTO sw_agent ... ON CONFLICT (entity_uuid) DO NOTHING
InsertAgents(w) ==
    /\ Running(w) /\ jobs[w].command = "agents" /\ jobs[w].stage = "agents"
    /\ agents' = agents \cup Entered(Table(w))
    /\ torn' = torn \cup (Entered(Table(w)) \ agents)
    /\ jobs' = [Disturb(w) EXCEPT ![w].stage = "typed"]
    /\ UNCHANGED <<gold, corrections, typed, attested, foreign>>

\* mutant: the typed insert, too, does nothing on a conflict
KeptRow(old, i, name) == IF old = NoRow THEN [name |-> name, hub |-> i] ELSE old

\* ON CONFLICT (entity_uuid) DO UPDATE sets the descriptive columns only
UpsertedRow(old, i, name) == IF old = NoRow THEN [name |-> name, hub |-> i] ELSE [old EXCEPT !.name = name]

\* ON CONFLICT DO UPDATE refuses to touch one row twice: two gold rows whose
\* ids normalise alike
Alike(t) == \E r, s \in gold[t] : r # s /\ r.id = s.id

NameIn(t, i) == (CHOOSE row \in gold[t] : IdentityOf(t, row) = i).name

\* mutant: the LEFT JOIN of an earlier draft, which takes rows without a hub
AllEntered(t) == Entered(t)

\* JOIN sw_agent: gold rows that have arrived since the first statement have no
\* hub yet and are left out
Joined(t) == Entered(t) \cap agents

NextTable(w) == [jobs[w] EXCEPT !.todo = Tail(@), !.stage = "agents"]

\* INSERT INTO sw_committee, sw_person or sw_organization
UpsertTyped(w) ==
    /\ Running(w) /\ jobs[w].command = "agents" /\ jobs[w].stage = "typed"
    /\ ~Alike(Table(w))
    /\ typed' = [i \in Identities |->
          IF i \in Joined(Table(w)) THEN UpsertedRow(typed[i], i, NameIn(Table(w), i)) ELSE typed[i]]
    /\ torn' = torn \ Joined(Table(w))
    /\ jobs' = [Disturb(w) EXCEPT ![w] = NextTable(w)]
    /\ UNCHANGED <<gold, corrections, agents, attested, foreign>>

\* is_canonical is unique per entity and kind: a foreign row stands in the way
CanonicalFree(entities) == entities \cap foreign = {}

\* INSERT INTO sw_attestation; the conflict clause names entity_uuid alone, so
\* that a foreign canonical row is an error
Attest(w) ==
    /\ Running(w) /\ jobs[w].command = "attestations"
    /\ ~Alike(Table(w)) /\ CanonicalFree(Entered(Table(w)))
    /\ attested' = attested \cup Entered(Table(w))
    /\ jobs' = [Disturb(w) EXCEPT ![w] = NextTable(w)]
    /\ UNCHANGED <<gold, corrections, agents, typed, foreign, torn>>

\* a statement that fails ends the command, and so does a death
Stop(w) ==
    /\ Running(w)
    /\ jobs' = [jobs EXCEPT ![w] = NoJob]
    /\ UNCHANGED <<gold, corrections, agents, typed, attested, foreign, torn>>

\* corrected gold lands
Correct(t, rows) ==
    /\ corrections < MaxCorrections /\ gold[t] # rows
    /\ gold' = [gold EXCEPT ![t] = rows]
    /\ corrections' = corrections + 1
    /\ jobs' = [w \in Loaders |-> [jobs[w] EXCEPT !.quiet = FALSE]]
    /\ UNCHANGED <<agents, typed, attested, foreign, torn>>

\* AgentSubtype.link_agent, for a row that was there before.  link_agent takes any
\* hub; a caller brings the one whose identity is the row's.
LinkAgent(i) ==
    /\ i \in agents /\ typed[i] # NoRow /\ typed[i].hub = NoHub
    /\ typed' = [typed EXCEPT ![i].hub = i]
    /\ UNCHANGED <<gold, corrections, agents, attested, foreign, jobs, torn>>

FecNext ==
    \/ \E w \in Loaders :
        \/ BeginAgents(w) \/ BeginAttestations(w)
        \/ InsertAgents(w) \/ UpsertTyped(w) \/ Attest(w) \/ Stop(w)
    \/ \E t \in Tables, rows \in GoldInputs : Correct(t, rows)
    \/ \E i \in Identities : LinkAgent(i)

FecSpec == FecInit /\ [][FecNext]_fecVars

-----------------------------------------------------------------------------
(* Properties *)

Job == [command : {"none", "agents", "attestations"}, todo : Seq(Tables),
        stage : {"agents", "typed"}, whole : BOOLEAN, quiet : BOOLEAN]

FecTypeOK ==
    /\ gold \in [Tables -> SUBSET GoldRow] /\ corrections \in 0..MaxCorrections
    /\ agents \subseteq Identities /\ torn \subseteq agents
    /\ typed \in [Identities -> TypedRow \cup {NoRow}]
    /\ attested \subseteq Identities /\ foreign \subseteq Identities
    /\ jobs \in [Loaders -> Job]

\* A typed row hangs off the hub of its own identity, and a hub without its
\* typed row is one that a load entered and has not got round to, for a death, a
\* failed statement or a correction between its two statements.  Nor are there
\* two canonical attestations of one entity.
LinksSound ==
    /\ \A i \in Identities : typed[i] # NoRow => (typed[i].hub = NoHub \/ (typed[i].hub = i /\ i \in agents))
    /\ \A i \in agents \ torn : typed[i] # NoRow
    /\ attested \cap foreign = {}

\* the last table of the order that has the id
Lasts(i) == SelectLastInSeq(ORDER, LAMBDA t : i \in Entered(t))

\* A full load that nothing interferes with leaves every id of gold with a hub
\* and a typed row named as in the last table of the order that has it; a full
\* run of the attestations leaves each of them attested.
LoadSettles ==
    [][\A w \in Loaders :
         Running(w) /\ jobs'[w].todo = <<>> /\ jobs'[w].quiet /\ jobs'[w].whole =>
           IF jobs[w].command = "agents"
           THEN \A i \in UNION {Entered(t) : t \in Tables} :
                  i \in agents' /\ typed'[i] # NoRow /\ typed'[i].name = NameIn(ORDER[Lasts(i)], i)
           ELSE \A t \in AttestedTables : Entered(t) \subseteq attested']_fecVars

\* Loads, corrections and links by hand only ever add to the register of identities.
HubOf(i) == IF typed[i] = NoRow THEN NoHub ELSE typed[i].hub
Register == INSTANCE IdentityRegister WITH known <- agents, hubOf <- [i \in Identities |-> HubOf(i)]
ImmutableIdentity == Register!RegisterSpec
=============================================================================
