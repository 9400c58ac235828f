------------------------- MODULE BoundaryAssignment -------------------------
(***************************************************************************)
(* The batch writers of an address: geocode_addresses and                  *)
(* assign_boundaries (socialwarehouse/geo/management/commands), run by     *)
(* hand or as Celery tasks, several at a time, seen from one address.      *)
(*                                                                         *)
(* Both read the Address into memory and write it back later:              *)
(* geocode_addresses with a bulk_update of its field list, after the       *)
(* geocoder answered; assign_boundaries with a save() of every field,      *)
(* after its spatial joins, and then with an update_or_create of the       *)
(* boundary row while the cache handler is disabled.                       *)
(*                                                                         *)
(* A spatial join is the constant Join: what contains a location according *)
(* to a Census year or a redistricting plan.                               *)
(***************************************************************************)
EXTENDS BoundaryPeriods, SequencesExt

CONSTANTS
    Geocoders, Assigners,  \* processes that run the two commands
    Locations, NoLocation, \* points, and the NULL geom
    Plans, NoPlan,
    PlanOf,      \* PlanOf[t][d]: the plan in effect on day d for the chamber of t in the
                 \* state of the address, or NoPlan
    Join,        \* Join[l][y or p][t]: the geoid found for t, or Blank
    StateType,   \* the type `state`
    Congress,    \* the type `cd`
    CensusPlaces, NominatimPlaces, \* where the two geocoders may find the address
    FipsTypes,   \* types whose geoids the Census geocoder returns
    FipsAnswers, \* what it returns for them, Blank for what it lacks
    KeyTypes,    \* types for which the address has a foreign key to a boundary table
    Mapped,      \* (geoid, vintage year) of the rows of those tables
    NoKey,
    Commands,    \* how assign_boundaries is called
    DefaultYear, \* DEFAULT_CENSUS_YEAR, as a decade number
    Today        \* the commands run on one day

(* date is NoDate in legacy mode, which is not plan-aware *)
Command == [year : Nat, date : ContextDate, force : BOOLEAN, populate : BOOLEAN]

Chambers == DOMAIN PlanOf

ASSUME AssignmentAssumption ==
    /\ Commands \subseteq Command
    /\ \A c \in Commands : c.date # NoDate => c.year = c.date \div DecadeDays
    /\ Chambers \cup FipsTypes \cup KeyTypes \cup {StateType, Congress} \subseteq Types
    /\ Today \in Nat /\ DefaultYear \in Nat
    /\ NoLocation \notin Locations
    /\ CensusPlaces \cup NominatimPlaces \subseteq Locations
    /\ \A l \in Locations, x \in Plans \cup {c.year : c \in Commands} :
          x \in DOMAIN Join[l] /\ Join[l][x] \in [Types -> GeoidOrBlank]
    /\ \A t \in Chambers, c \in Commands :
          c.date # NoDate => PlanOf[t][c.date] \in Plans \cup {NoPlan}
    /\ \A fips \in FipsAnswers : fips \in [FipsTypes -> GeoidOrBlank]

VARIABLES
    addr,    \* the Address row
    abp,     \* its boundary rows
    created, \* their keys, in the order they were created
    pc,      \* the last statement of each process
    inst,    \* the Address object in its memory
    cmd,     \* the arguments of each assigner
    alone    \* history: nobody else has written since the assigner read its object

vars == <<addr, abp, created, pc, inst, cmd, alone>>

Processes == Geocoders \cup Assigners

AddressRow ==
    [geocoded : BOOLEAN, geom : Locations \cup {NoLocation},
     geoid : [Types -> GeoidOrBlank], censusYear : Nat,
     unitsAssigned : BOOLEAN,   \* census_units_assigned_at is set
     keys : [KeyTypes -> (GeoidOrBlank \X Nat) \cup {NoKey}]]

NewAddress ==
    [geocoded |-> FALSE, geom |-> NoLocation, geoid |-> [t \in Types |-> Blank],
     censusYear |-> DefaultYear, unitsAssigned |-> FALSE, keys |-> [t \in KeyTypes |-> NoKey]]

NoCommand == [year |-> 0, date |-> NoDate, force |-> FALSE, populate |-> FALSE]

Init ==
    /\ addr = NewAddress
    /\ abp = [k \in Keys |-> EmptyRow]
    /\ created = <<>>
    /\ pc = [p \in Processes |-> "idle"]
    /\ inst = [p \in Processes |-> NewAddress]
    /\ cmd = [a \in Assigners |-> NoCommand]
    /\ alone = [a \in Assigners |-> FALSE]

Goto(p, step) == pc' = [pc EXCEPT ![p] = step]

\* the command ends with this address, and its objects are gone
Return(p) ==
    /\ Goto(p, "idle")
    /\ inst' = [inst EXCEPT ![p] = NewAddress]
    /\ cmd' = [a \in Assigners |-> IF a = p THEN NoCommand ELSE cmd[a]]

Disturb(p) == alone' = [a \in Assigners |-> a = p /\ alone[a]]

-----------------------------------------------------------------------------
(* geocode_addresses *)

\* force: geocode_addresses --force
GeocoderReads(g, force) ==
    /\ pc[g] = "idle"
    /\ addr.geocoded => force
    /\ inst' = [inst EXCEPT ![g] = addr]
    /\ Goto(g, "asked")
    /\ UNCHANGED <<addr, abp, created, cmd, alone>>

\* what both phases write: geom, geocoded and the geoids of FipsTypes.  The
\* Census geocoder fills them in, Nominatim leaves those of the object.
Located(old, l, fips) ==
    [old EXCEPT !.geocoded = TRUE, !.geom = l,
                !.geoid = [t \in Types |-> IF t \in FipsTypes /\ fips[t] # Blank
                                           THEN fips[t] ELSE old.geoid[t]]]

\* mutant: a match without coordinates is a match (before SW#150)
GeocodedUnchecked(g, l, fips) ==
    /\ pc[g] = "asked"
    /\ addr' = [addr EXCEPT !.geocoded = TRUE, !.geom = l]
    /\ Return(g)
    /\ Disturb(g)
    /\ UNCHANGED <<abp, created>>

\* A match without coordinates is no match.
Geocoded(g, l, fips) ==
    /\ pc[g] = "asked"
    /\ l # NoLocation
    /\ LET new == Located(inst[g], l, fips) IN
       addr' = [addr EXCEPT !.geocoded = new.geocoded, !.geom = new.geom,
                            !.geoid = [t \in Types |-> IF t \in FipsTypes THEN new.geoid[t]
                                                                          ELSE @[t]]]
    /\ Return(g)
    /\ Disturb(g)
    /\ UNCHANGED <<abp, created>>

\* phase 2: Nominatim finds the place and knows no geoid
GeocodedByNominatim(g, l) == Geocoded(g, l, [t \in FipsTypes |-> Blank])

NotGeocoded(g) ==
    /\ pc[g] = "asked"
    /\ Return(g)
    /\ UNCHANGED <<addr, abp, created, alone>>

-----------------------------------------------------------------------------
(* assign_boundaries *)

\* the list of primary keys is taken before the first batch
Select(a, c) ==
    /\ pc[a] = "idle"
    /\ addr.geocoded /\ addr.geom # NoLocation
    /\ addr.unitsAssigned => c.force
    /\ cmd' = [cmd EXCEPT ![a] = c]
    /\ Goto(a, "selected")
    /\ UNCHANGED <<addr, abp, created, inst, alone>>

ReadBatch(a) ==
    /\ pc[a] = "selected"
    /\ inst' = [inst EXCEPT ![a] = addr]
    /\ Goto(a, "read")
    /\ alone' = [alone EXCEPT ![a] = TRUE]
    /\ UNCHANGED <<addr, abp, created, cmd>>

\* the plan of t's chamber, in plan-aware mode
PlanFor(t, c) ==
    IF c.date # NoDate /\ t \in Chambers THEN PlanOf[t][c.date] ELSE NoPlan

\* the plan's district, or the Census one when there is no plan or no district
Resolve(l, c) ==
    [t \in Types |-> IF PlanFor(t, c) # NoPlan /\ Join[l][PlanFor(t, c)][t] # Blank
                     THEN Join[l][PlanFor(t, c)][t] ELSE Join[l][c.year][t]]

FoundBy(a) == Resolve(inst[a].geom, cmd[a])

\* The point was lost, or no state contains it, or some geoid stayed None,
\* which the NOT NULL columns of the address refuse: it counts as failed.
Fails(a) == inst[a].geom # NoLocation => \E t \in Types : FoundBy(a)[t] = Blank

AssignFails(a) ==
    /\ pc[a] = "read"
    /\ Fails(a)
    /\ Return(a)
    /\ UNCHANGED <<addr, abp, created, alone>>

\* mutant: the plans' districts are forgotten
SaveAddressFromCensus(a) ==
    /\ pc[a] = "read"
    /\ ~Fails(a)
    /\ addr' = [inst[a] EXCEPT !.geoid = Join[inst[a].geom][cmd[a].year],
                               !.censusYear = cmd[a].year, !.unitsAssigned = TRUE]
    /\ inst' = [inst EXCEPT ![a] = addr']
    /\ Goto(a, "saved")
    /\ Disturb(a)
    /\ UNCHANGED <<abp, created, cmd>>

\* a foreign key becomes the row of its geoid in the census year, or NULL
populate_foreign_keys(row) ==
    [row EXCEPT !.keys = [t \in KeyTypes |->
        LET k == <<row.geoid[t], row.censusYear>> IN
        IF row.geoid[t] = Blank THEN row.keys[t] ELSE IF k \in Mapped THEN k ELSE NoKey]]

\* addr.save(): every field of the object, and with --populate-fks its keys
SaveAddress(a) ==
    /\ pc[a] = "read"
    /\ ~Fails(a)
    /\ LET new == [inst[a] EXCEPT !.geoid = FoundBy(a), !.censusYear = cmd[a].year,
                                  !.unitsAssigned = TRUE] IN
       addr' = IF cmd[a].populate THEN populate_foreign_keys(new) ELSE new
    /\ inst' = [inst EXCEPT ![a] = addr']
    /\ Goto(a, "saved")
    /\ Disturb(a)
    /\ UNCHANGED <<abp, created, cmd>>

\* the row is kept under the congressional plan, whatever the other chambers have
KeyOf(c) ==
    {k \in Keys : Window[k[1]].decade = c.year /\ k[2] = PlanFor(Congress, c)}

\* mutant: the row copies the address as it is by now
SaveRowRereads(a) ==
    /\ pc[a] = "saved"
    /\ LET row == [ctx |-> cmd[a].date, geoid |-> addr.geoid] IN
       abp' = [k \in Keys |-> IF k \in KeyOf(cmd[a]) THEN row ELSE abp[k]]
    /\ created' = created \o SetToSeq(KeyOf(cmd[a]) \ ToSet(created))
    /\ Return(a)
    /\ Disturb(a)
    /\ UNCHANGED addr

\* update_or_create with the values joined above; skipped if the year has no vintage
SaveRow(a) ==
    /\ pc[a] = "saved"
    /\ LET row == [ctx |-> cmd[a].date, geoid |-> inst[a].geoid] IN
       abp' = [k \in Keys |-> IF k \in KeyOf(cmd[a]) THEN row ELSE abp[k]]
    /\ created' = created \o SetToSeq(KeyOf(cmd[a]) \ ToSet(created))
    /\ Return(a)
    /\ Disturb(a)
    /\ UNCHANGED addr

-----------------------------------------------------------------------------
(* A worker is killed, or its command is interrupted; Celery or the operator *)
(* runs it again                                                             *)

Die(p) ==
    /\ pc[p] # "idle"
    /\ Return(p)
    /\ UNCHANGED <<addr, abp, created, alone>>

Next ==
    \/ \E g \in Geocoders :
          \/ \E force \in BOOLEAN : GeocoderReads(g, force)
          \/ \E l \in CensusPlaces \cup {NoLocation}, fips \in FipsAnswers : Geocoded(g, l, fips)
          \/ \E l \in NominatimPlaces : GeocodedByNominatim(g, l)
          \/ NotGeocoded(g)
    \/ \E a \in Assigners :
          \/ \E c \in Commands : Select(a, c)
          \/ ReadBatch(a)
          \/ AssignFails(a)
          \/ SaveAddress(a)
          \/ SaveRow(a)
    \/ \E p \in Processes : Die(p)

Spec == Init /\ [][Next]_vars

-----------------------------------------------------------------------------
(* Properties *)

TypeOK ==
    /\ addr \in AddressRow
    /\ abp \in [Keys -> Row]
    /\ created \in Seq(Keys) /\ IsInjective(created)
    /\ pc \in [Processes -> {"idle", "asked", "selected", "read", "saved"}]
    /\ inst \in [Processes -> AddressRow]
    /\ cmd \in [Assigners -> Command]
    /\ alone \in [Assigners -> BOOLEAN]

\* "geocoded=True implies geom IS NOT NULL" (docs/entities/address.md), through
\* every interleaving of bulk_updates and full-row saves of old objects.
GeocodedHasGeom == addr.geocoded => addr.geom # NoLocation

\* A row never mixes two assignments: its geoids are what one location has
\* under the date and the vintage the row itself names, even when the address
\* was geocoded anew, or assigned by another run, between the two writes.
RowIsOneAssignment ==
    \A k \in ToSet(created) : \E l \in Locations, c \in Commands :
        /\ abp[k] = [ctx |-> c.date, geoid |-> Resolve(l, c)]
        /\ k \in KeyOf(c)

\* "the per-row addr.save() keeps the cache coherent without it", the handler:
\* a run for today that nobody disturbed since it read the address leaves it
\* assigned at its own location, with every cached geoid the one
\* current_boundaries() gives, and with --populate-fks every foreign key that of
\* its geoid, whatever dates, deaths and overlaps came before.
LoneRunSettles ==
    [][\A a \in Assigners :
          SaveRow(a) /\ alone[a] /\ cmd[a].date = Today /\ KeyOf(cmd[a]) # {} =>
              /\ addr'.unitsAssigned /\ addr'.censusYear = cmd[a].year
              /\ addr'.geoid = Resolve(addr'.geom, cmd[a])
              /\ \A t \in Types :
                    addr'.geoid[t] \in {abp'[k].geoid[t] : k \in Latest(abp', t, Today)}
              /\ cmd[a].populate => populate_foreign_keys(addr') = addr']_vars
=============================================================================
