---------------------------- MODULE VintageSeeding ----------------------------
(***************************************************************************)
(* seed_known_vintages (socialwarehouse/geo/management/commands): one      *)
(* transaction that creates the vintages of the catalog which the database *)
(* does not have yet.  The catalog is code: it grows when a new version is *)
(* deployed, and the command is run again.  Runs can overlap.              *)
(*                                                                         *)
(* An entry is <<series, n>>, the n-th published period of a series.       *)
(* Periods last one unit of their series: ten years, a year, a quarter.    *)
(***************************************************************************)
EXTENDS Naturals, Sequences, SequencesExt

CONSTANTS
    Seeders,     \* processes that run the command
    VintageKinds, \* the ones that are seeded, of ALL_KINDS
    Starts,      \* Starts[s]: where the published periods of a series begin
    Shipped,     \* Shipped[s]: how many of them the first catalog knows
    Unreplaced,  \* effective_to of a vintage that nothing has replaced
    NoEntry

\* the series of a kind, in the order they are seeded
seed_census_decadal == <<"decades">>
seed_acs == <<"five_year", "one_year">>
seed_bls_qcew == <<"quarters">>
seed_bea_regional == <<"years">>
seed_nces_school_year == <<"school_years">>

ALL_KINDS == <<"census-decadal", "acs", "bls-qcew", "bea-regional", "nces-school-year">>

SeriesOf ==
    [kind \in ToSet(ALL_KINDS) |->
        CASE kind = "census-decadal" -> seed_census_decadal
          [] kind = "acs" -> seed_acs
          [] kind = "bls-qcew" -> seed_bls_qcew
          [] kind = "bea-regional" -> seed_bea_regional
          [] kind = "nces-school-year" -> seed_nces_school_year]

Series == UNION {ToSet(SeriesOf[k]) : k \in VintageKinds}
Entries == UNION {{s} \X DOMAIN Starts[s] : s \in Series}

ASSUME SeedingAssumption ==
    /\ VintageKinds \subseteq ToSet(ALL_KINDS)
    /\ Series \subseteq DOMAIN Shipped
    /\ \A s \in Series : Starts[s] \in Seq(Nat) /\ Shipped[s] \in DOMAIN Starts[s]
    /\ \A s \in Series : \A m, n \in DOMAIN Starts[s] : m < n => Starts[s][m] < Starts[s][n]
    /\ Unreplaced \notin Nat
    /\ NoEntry \notin [from : Nat, latestOf : Nat, to : Nat \cup {Unreplaced}]

VARIABLES
    known,     \* known[s]: how many periods the catalog of the deployed code has
    vintages,  \* the committed rows, by their unique key
    seeding    \* seeding[p]: a transaction, its catalog, what it has to do and its own rows

seedVars == <<known, vintages, seeding>>

NoSeeding == [step |-> "idle", knows |-> Shipped, todo |-> {}, kinds |-> {}, own |-> {}]

SeedInit ==
    /\ known = Shipped
    /\ vintages = [e \in Entries |-> NoEntry]
    /\ seeding = [p \in Seeders |-> NoSeeding]

\* mutant: a period ends with the next one of the catalog but one
SeededWindowLate(knows, e) ==
    LET s == e[1] n == e[2] IN
    [from |-> Starts[s][n], latestOf |-> knows[s],
     to |-> IF n = knows[s] THEN Unreplaced ELSE Starts[s][n] + 2]

\* the period of an entry; the latest one of the catalog stays open
SeededWindow(knows, e) ==
    LET s == e[1] n == e[2] IN
    [from |-> Starts[s][n], latestOf |-> knows[s],
     to |-> IF n = knows[s] THEN Unreplaced ELSE Starts[s][n] + 1]

Published(s) == {s} \X (1..known[s])
Chosen(kinds) == UNION {ToSet(SeriesOf[k]) : k \in kinds}

\* kind by kind, series by series, period by period
SeedingOrder == FlattenSeq([i \in DOMAIN ALL_KINDS |-> SeriesOf[ALL_KINDS[i]]])
PlaceOf(s) == CHOOSE i \in DOMAIN SeedingOrder : SeedingOrder[i] = s
Earlier(d, e) == PlaceOf(d[1]) < PlaceOf(e[1]) \/ (d[1] = e[1] /\ d[2] < e[2])

\* the entry a run has come to
Due(p) == {e \in seeding[p].todo : \A d \in seeding[p].todo \ {e} : Earlier(e, d)}

\* a deployment with a longer catalog
ExtendCatalog(s) ==
    /\ known[s] < Len(Starts[s])
    /\ known' = [known EXCEPT ![s] = @ + 1]
    /\ UNCHANGED <<vintages, seeding>>

\* --kinds; an unknown one ends the command, and a dry run creates nothing
BeginSeeding(p, kinds) ==
    /\ seeding[p].step = "idle"
    /\ seeding' = [seeding EXCEPT ![p] =
          [step |-> "check", knows |-> known, kinds |-> kinds, own |-> {},
           todo |-> UNION {Published(s) : s \in Chosen(kinds)}]]
    /\ UNCHANGED <<known, vintages>>

\* filter(...).exists(): rows of others count once they are committed
CheckEntry(p) ==
    /\ seeding[p].step = "check"
    /\ \E e \in Due(p) :
          seeding' = IF vintages[e] # NoEntry
                     THEN [seeding EXCEPT ![p].todo = @ \ {e}]
                     ELSE [seeding EXCEPT ![p].step = "create"]
    /\ UNCHANGED <<known, vintages>>

\* objects.create(): waits while another transaction has created the row, and
\* fails, with everything the transaction did, if that one commits
CreateEntry(p) ==
    /\ seeding[p].step = "create"
    /\ \E e \in Due(p) :
          /\ \A q \in Seeders : e \notin seeding[q].own
          /\ seeding' = [seeding EXCEPT ![p] =
                IF vintages[e] # NoEntry THEN NoSeeding
                ELSE [seeding[p] EXCEPT !.step = "check", !.todo = @ \ {e}, !.own = @ \cup {e}]]
    /\ UNCHANGED <<known, vintages>>

CommitSeeding(p) ==
    /\ seeding[p].step = "check" /\ seeding[p].todo = {}
    /\ vintages' = [e \in Entries |->
          IF e \in seeding[p].own THEN SeededWindow(seeding[p].knows, e) ELSE vintages[e]]
    /\ seeding' = [seeding EXCEPT ![p] = NoSeeding]
    /\ UNCHANGED known

\* an error or a death rolls the transaction back
RollBackSeeding(p) ==
    /\ seeding[p].step # "idle"
    /\ seeding' = [seeding EXCEPT ![p] = NoSeeding]
    /\ UNCHANGED <<known, vintages>>

SeedNext ==
    \/ \E s \in Series : ExtendCatalog(s)
    \/ \E p \in Seeders :
        \/ \E kinds \in SUBSET VintageKinds : BeginSeeding(p, kinds)
        \/ CheckEntry(p) \/ CreateEntry(p) \/ CommitSeeding(p) \/ RollBackSeeding(p)

SeedSpec == SeedInit /\ [][SeedNext]_seedVars

-----------------------------------------------------------------------------
(* Properties *)

SeedTypeOK ==
    /\ \A s \in Series : known[s] \in Shipped[s]..Len(Starts[s])
    /\ \A e \in Entries : vintages[e] # NoEntry => vintages[e].from = Starts[e[1]][e[2]]
    /\ \A p \in Seeders : seeding[p].step \in {"idle", "check", "create"} /\ seeding[p].own \subseteq Entries

\* Vintage.is_current
InForce(e, day) ==
    /\ vintages[e] # NoEntry /\ vintages[e].from <= day
    /\ vintages[e].to = Unreplaced \/ day < vintages[e].to

\* After a run that commits, however many others ran before it or beside it,
\* every period its catalog knows has a row, each row is in force at its start,
\* and a later one shares a day only with a row that an older catalog left open.
SeededSeriesTile ==
    [][\A p \in Seeders : CommitSeeding(p) =>
         \A k \in seeding[p].kinds : \A s \in ToSet(SeriesOf[k]) :
         \A n \in 1..seeding[p].knows[s] :
            /\ InForce(<<s, n>>, Starts[s][n])'
            /\ \A m \in 1..(n - 1) :
                 InForce(<<s, m>>, Starts[s][n])' => vintages'[<<s, m>>].latestOf = m]_seedVars
=============================================================================
