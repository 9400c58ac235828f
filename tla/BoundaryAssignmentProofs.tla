----------------------- MODULE BoundaryAssignmentProofs -----------------------
(***************************************************************************)
(* Proofs about BoundaryAssignment, for any number of processes, locations *)
(* and commands.                                                           *)
(*                                                                         *)
(* That a geocoded address has a geom is not inductive by itself: a run of *)
(* assign_boundaries writes back the whole object it read earlier, and     *)
(* geocode_addresses the fields of the object it read before it asked.     *)
(* The same must hold of every object in memory.                           *)
(***************************************************************************)
EXTENDS BoundaryAssignment, FiniteSetTheorems, TLAPS

HasGeom(row) == row.geocoded => row.geom # NoLocation

Steps == {"idle", "asked", "selected", "read", "saved"}

ObjectsTyped ==
    /\ addr \in AddressRow
    /\ pc \in [Processes -> Steps]
    /\ inst \in [Processes -> AddressRow]
    /\ cmd \in [Assigners -> Command]

\* past its Select, a run has arguments somebody gave it
RunsAreCommands ==
    \A a \in Assigners : pc[a] \in {"selected", "read", "saved"} => cmd[a] \in Commands

AllHaveGeom == HasGeom(addr) /\ \A p \in Processes : HasGeom(inst[p])

Ind == ObjectsTyped /\ RunsAreCommands /\ AllHaveGeom

-----------------------------------------------------------------------------

LEMMA NewAddressTyped == NewAddress \in AddressRow /\ HasGeom(NewAddress)
<1>1. DefaultYear \in Nat
  BY AssignmentAssumption
<1> QED
  BY <1>1 DEF NewAddress, AddressRow, HasGeom, GeoidOrBlank

LEMMA NoCommandTyped == NoCommand \in Command
BY DEF NoCommand, Command, ContextDate, Date, NoDate

\* What the joins resolve to are geoids, whichever plans are in effect.
LEMMA ResolveTyped ==
    ASSUME NEW l \in Locations, NEW c \in Commands
    PROVE  Resolve(l, c) \in [Types -> GeoidOrBlank]
<1> SUFFICES ASSUME NEW t \in Types
             PROVE  Resolve(l, c)[t] \in GeoidOrBlank
  BY DEF Resolve
<1>1. c \in Command /\ Join[l][c.year][t] \in GeoidOrBlank
  BY AssignmentAssumption
<1>2. PlanFor(t, c) # NoPlan => PlanFor(t, c) \in Plans
  BY AssignmentAssumption DEF PlanFor
<1>3. PlanFor(t, c) # NoPlan => Join[l][PlanFor(t, c)][t] \in GeoidOrBlank
  BY <1>2, AssignmentAssumption
<1> QED
  BY <1>1, <1>3 DEF Resolve

\* A command that returns leaves nothing untyped behind.
LEMMA ReturnKeeps ==
    ASSUME Ind, NEW p \in Processes, Return(p)
    PROVE  /\ pc' \in [Processes -> Steps]
           /\ inst' \in [Processes -> AddressRow]
           /\ cmd' \in [Assigners -> Command]
           /\ RunsAreCommands'
           /\ \A q \in Processes : HasGeom(inst'[q])
<1> USE DEF Ind, ObjectsTyped
<1>1. pc' = [pc EXCEPT ![p] = "idle"] /\ pc' \in [Processes -> Steps]
  BY DEF Return, Goto, Steps
<1>2. inst' = [inst EXCEPT ![p] = NewAddress] /\ inst' \in [Processes -> AddressRow]
  BY NewAddressTyped DEF Return
<1>3. cmd' \in [Assigners -> Command]
  BY NoCommandTyped DEF Return
<1>4. RunsAreCommands'
  BY <1>1 DEF Return, RunsAreCommands, Processes
<1>5. \A q \in Processes : HasGeom(inst'[q])
  <2>1. ASSUME NEW q \in Processes PROVE HasGeom(inst'[q])
    <3>1. inst'[q] = NewAddress \/ inst'[q] = inst[q]
      BY <1>2
    <3> QED
      BY <3>1, NewAddressTyped DEF AllHaveGeom
  <2> QED
    BY <2>1
<1> QED
  BY <1>1, <1>2, <1>3, <1>4, <1>5

-----------------------------------------------------------------------------

LEMMA InitInd == Init => Ind
<1> SUFFICES ASSUME Init PROVE Ind
  OBVIOUS
<1>1. ObjectsTyped
  BY NewAddressTyped, NoCommandTyped DEF Init, ObjectsTyped, Steps
<1>2. RunsAreCommands
  BY DEF Init, RunsAreCommands, Processes
<1>3. AllHaveGeom
  BY NewAddressTyped DEF Init, AllHaveGeom
<1> QED
  BY <1>1, <1>2, <1>3 DEF Ind

\* What geocode_addresses writes, it writes to a typed row, together with a geom.
LEMMA GeocodedKeeps ==
    ASSUME Ind, NEW g \in Geocoders, NEW l \in Locations \cup {NoLocation},
           NEW fips \in [FipsTypes -> GeoidOrBlank], Geocoded(g, l, fips)
    PROVE  addr' \in AddressRow /\ HasGeom(addr')
<1> DEFINE new == Located(inst[g], l, fips)
<1> DEFINE geoid == [t \in Types |-> IF t \in FipsTypes THEN new.geoid[t] ELSE addr.geoid[t]]
<1>1. inst[g] \in AddressRow /\ addr \in AddressRow
  BY DEF Ind, ObjectsTyped, Processes
<1>2. /\ new.geocoded = TRUE /\ new.geom = l
      /\ new.geoid \in [Types -> GeoidOrBlank]
  <2>1. \A t \in FipsTypes : fips[t] \in GeoidOrBlank
    OBVIOUS
  <2>2. inst[g].geoid \in [Types -> GeoidOrBlank]
    BY <1>1 DEF AddressRow
  <2> QED
    BY <1>1, <2>1, <2>2 DEF Located, AddressRow
<1>3. geoid \in [Types -> GeoidOrBlank]
  BY <1>1, <1>2 DEF AddressRow
<1>4. addr' = [addr EXCEPT !.geocoded = new.geocoded, !.geom = new.geom, !.geoid = geoid]
  BY DEF Geocoded
<1>5. l # NoLocation
  BY DEF Geocoded
<1> HIDE DEF new, geoid
<1> QED
  BY <1>1, <1>2, <1>3, <1>4, <1>5 DEF AddressRow, HasGeom

\* Looking the foreign keys up leaves the rest of the row as it is.
LEMMA KeysTyped ==
    ASSUME NEW row \in AddressRow, HasGeom(row)
    PROVE  populate_foreign_keys(row) \in AddressRow /\ HasGeom(populate_foreign_keys(row))
<1> DEFINE keys == populate_foreign_keys(row).keys
<1>1. row.geoid \in [Types -> GeoidOrBlank] /\ row.censusYear \in Nat
      /\ row.keys \in [KeyTypes -> (GeoidOrBlank \X Nat) \cup {NoKey}]
  BY DEF AddressRow
<1>2. KeyTypes \subseteq Types
  BY AssignmentAssumption
<1>3. keys \in [KeyTypes -> (GeoidOrBlank \X Nat) \cup {NoKey}]
  BY <1>1, <1>2 DEF populate_foreign_keys, AddressRow
<1>4. populate_foreign_keys(row) = [row EXCEPT !.keys = keys]
  BY DEF populate_foreign_keys, AddressRow
<1> HIDE DEF keys
<1> QED
  BY <1>3, <1>4 DEF AddressRow, HasGeom

\* assign_boundaries saves an object that was typed and had a geom when read.
LEMMA SaveAddressKeeps ==
    ASSUME Ind, NEW a \in Assigners, SaveAddress(a)
    PROVE  addr' \in AddressRow /\ HasGeom(addr')
<1>1. inst[a] \in AddressRow /\ a \in Processes
  BY DEF Ind, ObjectsTyped, Processes
<1>2. cmd[a] \in Commands /\ cmd[a] \in Command
  BY AssignmentAssumption DEF SaveAddress, Ind, RunsAreCommands
<1>3. inst[a].geom \in Locations
  BY <1>1 DEF SaveAddress, Fails, AddressRow
<1>4. FoundBy(a) \in [Types -> GeoidOrBlank]
  BY <1>2, <1>3, ResolveTyped DEF FoundBy
<1> DEFINE new == [inst[a] EXCEPT !.geoid = FoundBy(a), !.censusYear = cmd[a].year,
                                  !.unitsAssigned = TRUE]
<1>5. addr' = populate_foreign_keys(new) \/ addr' = new
  BY DEF SaveAddress
<1>6. inst[a].geom # NoLocation
  BY <1>3, AssignmentAssumption
<1>7. new \in AddressRow /\ HasGeom(new)
  BY <1>1, <1>2, <1>4, <1>6 DEF AddressRow, HasGeom, Command
<1> HIDE DEF new
<1> QED
  BY <1>5, <1>7, KeysTyped

\* A process that reads the address holds a typed object with a geom.
LEMMA ObjectsKeep ==
    ASSUME Ind, NEW p \in Processes, NEW row \in AddressRow, HasGeom(row),
           inst' = [inst EXCEPT ![p] = row]
    PROVE  inst' \in [Processes -> AddressRow] /\ \A q \in Processes : HasGeom(inst'[q])
BY DEF Ind, ObjectsTyped, AllHaveGeom

LEMMA NextInd == Ind /\ [Next]_vars => Ind'
<1> SUFFICES ASSUME Ind, [Next]_vars PROVE Ind'
  OBVIOUS
<1> USE DEF Processes
<1>1. ASSUME NEW g \in Geocoders, NEW force \in BOOLEAN, GeocoderReads(g, force)
      PROVE  Ind'
  <2>1. inst' = [inst EXCEPT ![g] = addr] /\ addr \in AddressRow /\ HasGeom(addr)
    BY <1>1 DEF GeocoderReads, Ind, ObjectsTyped, AllHaveGeom
  <2>2. inst' \in [Processes -> AddressRow] /\ \A q \in Processes : HasGeom(inst'[q])
    BY <2>1, ObjectsKeep
  <2>3. pc' = [pc EXCEPT ![g] = "asked"] /\ UNCHANGED <<addr, cmd>>
    BY <1>1 DEF GeocoderReads, Goto
  <2> QED
    BY <2>1, <2>2, <2>3 DEF Ind, ObjectsTyped, RunsAreCommands, AllHaveGeom, Steps
<1>2. ASSUME NEW g \in Geocoders, NEW l \in Locations \cup {NoLocation},
             NEW fips \in [FipsTypes -> GeoidOrBlank], Geocoded(g, l, fips)
      PROVE  Ind'
  <2>1. addr' \in AddressRow /\ HasGeom(addr')
    BY <1>2, GeocodedKeeps
  <2>2. Return(g)
    BY <1>2 DEF Geocoded
  <2> QED
    BY <2>1, <2>2, ReturnKeeps DEF Ind, ObjectsTyped, AllHaveGeom
<1>3. ASSUME NEW p \in Processes, Return(p), UNCHANGED addr PROVE Ind'
  <2>1. addr' \in AddressRow /\ HasGeom(addr')
    BY <1>3 DEF Ind, ObjectsTyped, AllHaveGeom
  <2> QED
    BY <1>3, <2>1, ReturnKeeps DEF Ind, ObjectsTyped, AllHaveGeom
<1>4. ASSUME NEW a \in Assigners, NEW c \in Commands, Select(a, c) PROVE Ind'
  <2>1. c \in Command
    BY AssignmentAssumption
  <2>2. /\ pc' = [pc EXCEPT ![a] = "selected"] /\ cmd' = [cmd EXCEPT ![a] = c]
        /\ UNCHANGED <<addr, inst>>
    BY <1>4 DEF Select, Goto
  <2> QED
    BY <2>1, <2>2 DEF Ind, ObjectsTyped, RunsAreCommands, AllHaveGeom, Steps
<1>5. ASSUME NEW a \in Assigners, ReadBatch(a) PROVE Ind'
  <2>1. inst' = [inst EXCEPT ![a] = addr] /\ addr \in AddressRow /\ HasGeom(addr)
    BY <1>5 DEF ReadBatch, Ind, ObjectsTyped, AllHaveGeom
  <2>2. inst' \in [Processes -> AddressRow] /\ \A q \in Processes : HasGeom(inst'[q])
    BY <2>1, ObjectsKeep
  <2>3. pc[a] = "selected" /\ pc' = [pc EXCEPT ![a] = "read"] /\ UNCHANGED <<addr, cmd>>
    BY <1>5 DEF ReadBatch, Goto
  <2> QED
    BY <2>1, <2>2, <2>3 DEF Ind, ObjectsTyped, RunsAreCommands, AllHaveGeom, Steps
<1>6. ASSUME NEW a \in Assigners, SaveAddress(a) PROVE Ind'
  <2>1. addr' \in AddressRow /\ HasGeom(addr')
    BY <1>6, SaveAddressKeeps
  <2>2. inst' \in [Processes -> AddressRow] /\ \A q \in Processes : HasGeom(inst'[q])
    BY <1>6, <2>1, ObjectsKeep DEF SaveAddress
  <2>3. pc[a] = "read" /\ pc' = [pc EXCEPT ![a] = "saved"] /\ UNCHANGED cmd
    BY <1>6 DEF SaveAddress, Goto
  <2> QED
    BY <2>1, <2>2, <2>3 DEF Ind, ObjectsTyped, RunsAreCommands, AllHaveGeom, Steps
<1>7. CASE UNCHANGED vars
  BY <1>7 DEF Ind, ObjectsTyped, RunsAreCommands, AllHaveGeom, vars
<1>8. ASSUME NEW g \in Geocoders, NotGeocoded(g) PROVE Ind'
  BY <1>3, <1>8 DEF NotGeocoded
<1>9. ASSUME NEW a \in Assigners, AssignFails(a) PROVE Ind'
  BY <1>3, <1>9 DEF AssignFails
<1>10. ASSUME NEW a \in Assigners, SaveRow(a) PROVE Ind'
  BY <1>3, <1>10 DEF SaveRow
<1>11. ASSUME NEW p \in Processes, Die(p) PROVE Ind'
  BY <1>3, <1>11 DEF Die
<1>12. ASSUME NEW g \in Geocoders, NEW l \in NominatimPlaces, GeocodedByNominatim(g, l)
       PROVE  Ind'
  <2>1. [t \in FipsTypes |-> Blank] \in [FipsTypes -> GeoidOrBlank]
    BY DEF GeoidOrBlank
  <2> QED
    BY <1>2, <1>12, <2>1, AssignmentAssumption DEF GeocodedByNominatim
<1>13. /\ \A fips \in FipsAnswers : fips \in [FipsTypes -> GeoidOrBlank]
       /\ CensusPlaces \subseteq Locations
  BY AssignmentAssumption
<1> QED
  BY <1>1, <1>2, <1>4, <1>5, <1>6, <1>7, <1>8, <1>9, <1>10, <1>11, <1>12, <1>13 DEF Next

\* docs/entities/address.md: "geocoded=True implies geom IS NOT NULL", for any
\* number of overlapping, repeated and interrupted geocode_addresses and
\* assign_boundaries runs, each of which writes back what it read earlier.
THEOREM GeocodedAlwaysHasGeom == Spec => []GeocodedHasGeom
<1>1. Ind => GeocodedHasGeom
  BY DEF Ind, AllHaveGeom, HasGeom, GeocodedHasGeom
<1> QED
  BY <1>1, InitInd, NextInd, PTL DEF Spec

-----------------------------------------------------------------------------
(* The rows.  A row is written from an object that was saved before, so the  *)
(* invariant says of such an object what the property says of a row.         *)

RowsTyped ==
    /\ abp \in [Keys -> Row]
    /\ created \in Seq(Keys) /\ IsInjective(created)
    /\ alone \in [Assigners -> BOOLEAN]

\* between the two writes, the object has the geoids of one location
SavedIsResolved ==
    \A a \in Assigners : pc[a] = "saved" =>
        \E l \in Locations : inst[a].geoid = Resolve(l, cmd[a])

RowInd == Ind /\ RowsTyped /\ SavedIsResolved /\ RowIsOneAssignment

\* A finite set can be listed without repetition, which is what SetToSeq does.
LEMMA SetToSeqLists ==
    ASSUME NEW S, IsFiniteSet(S)
    PROVE  SetToSeq(S) \in Seq(S) /\ IsInjective(SetToSeq(S))
<1> DEFINE n == Cardinality(S)
<1>1. n \in Nat /\ ExistsBijection(1..n, S)
  BY FS_CardinalityType
<1>2. PICK f \in [1..n -> S] : IsInjective(f)
  BY <1>1 DEF ExistsBijection, Bijection, Injection
<1>3. SetToSeq(S) \in [1..n -> S] /\ IsInjective(SetToSeq(S))
  BY <1>2 DEF SetToSeq
<1> HIDE DEF n
<1> QED
  BY <1>1, <1>3

\* Keys that are not there yet are appended without repetition.
LEMMA AppendsKeys ==
    ASSUME NEW s \in Seq(Keys), IsInjective(s),
           NEW t \in Seq(Keys), IsInjective(t), ToSet(s) \cap ToSet(t) = {}
    PROVE  /\ s \o t \in Seq(Keys) /\ IsInjective(s \o t)
           /\ ToSet(s \o t) \subseteq ToSet(s) \cup ToSet(t)
<1>1. s \o t \in Seq(Keys) /\ Len(s \o t) = Len(s) + Len(t)
  OBVIOUS
<1>2. \A i \in 1..Len(s) : (s \o t)[i] = s[i] /\ s[i] \in ToSet(s)
  BY DEF ToSet
<1>3. \A i \in 1..(Len(s) + Len(t)) : i \notin 1..Len(s) =>
          /\ i - Len(s) \in 1..Len(t)
          /\ (s \o t)[i] = t[i - Len(s)] /\ t[i - Len(s)] \in ToSet(t)
  BY DEF ToSet
<1>4. \A i, j \in 1..Len(s) : s[i] = s[j] => i = j
  BY DEF IsInjective
<1>5. \A i, j \in 1..Len(t) : t[i] = t[j] => i = j
  BY DEF IsInjective
<1>6. DOMAIN (s \o t) = 1..(Len(s) + Len(t))
  BY <1>1
<1>7. ASSUME NEW i \in DOMAIN (s \o t), NEW j \in DOMAIN (s \o t), (s \o t)[i] = (s \o t)[j]
      PROVE  i = j
  <2>1. CASE i \in 1..Len(s) /\ j \in 1..Len(s)
    BY <1>2, <1>4, <1>7, <2>1
  <2>2. CASE i \notin 1..Len(s) /\ j \notin 1..Len(s)
    <3>1. i - Len(s) = j - Len(s)
      BY <1>3, <1>5, <1>6, <1>7, <2>2
    <3> QED
      BY <1>6, <3>1
  <2>3. CASE i \in 1..Len(s) /\ j \notin 1..Len(s)
    BY <1>2, <1>3, <1>6, <1>7, <2>3
  <2>4. CASE i \notin 1..Len(s) /\ j \in 1..Len(s)
    BY <1>2, <1>3, <1>6, <1>7, <2>4
  <2> QED
    BY <2>1, <2>2, <2>3, <2>4
<1>8. ToSet(s \o t) \subseteq ToSet(s) \cup ToSet(t)
  BY <1>2, <1>3, <1>6 DEF ToSet
<1> QED
  BY <1>1, <1>7, <1>8 DEF IsInjective

LEMMA InitRowInd == Init => RowInd
<1> SUFFICES ASSUME Init PROVE RowInd
  OBVIOUS
<1>1. RowsTyped
  BY DEF Init, RowsTyped, Row, EmptyRow, ContextDate, GeoidOrBlank, IsInjective
<1>2. SavedIsResolved
  BY DEF Init, SavedIsResolved, Processes
<1>3. RowIsOneAssignment
  BY DEF Init, RowIsOneAssignment, ToSet
<1> QED
  BY <1>1, <1>2, <1>3, InitInd DEF RowInd

\* Steps that write no boundary row leave what the rows say.
LEMMA RowsStay ==
    ASSUME RowInd, UNCHANGED <<abp, created>>, alone' \in [Assigners -> BOOLEAN]
    PROVE  RowsTyped' /\ RowIsOneAssignment'
BY DEF RowInd, RowsTyped, RowIsOneAssignment

LEMMA DisturbTyped ==
    ASSUME RowsTyped, NEW p, Disturb(p)
    PROVE  alone' \in [Assigners -> BOOLEAN]
BY DEF RowsTyped, Disturb

\* A command that returns holds no saved object.
LEMMA ReturnResolved ==
    ASSUME RowInd, NEW p \in Processes, Return(p)
    PROVE  SavedIsResolved'
<1> SUFFICES ASSUME NEW a \in Assigners, pc'[a] = "saved"
             PROVE  \E l \in Locations : inst'[a].geoid = Resolve(l, cmd'[a])
  BY DEF SavedIsResolved
<1>1. a # p /\ pc[a] = "saved"
  BY DEF Return, Goto, RowInd, Ind, ObjectsTyped, Processes
<1>2. inst'[a] = inst[a] /\ cmd'[a] = cmd[a]
  BY <1>1 DEF Return, RowInd, Ind, ObjectsTyped, Processes
<1> QED
  BY <1>1, <1>2 DEF RowInd, SavedIsResolved

\* A process that goes to another step than "saved" leaves the saved objects.
LEMMA OthersResolved ==
    ASSUME RowInd, NEW p \in Processes, NEW step, Goto(p, step), step # "saved",
           \A q \in Processes : q # p => inst'[q] = inst[q],
           \A a \in Assigners : a # p => cmd'[a] = cmd[a]
    PROVE  SavedIsResolved'
<1> SUFFICES ASSUME NEW a \in Assigners, pc'[a] = "saved"
             PROVE  \E l \in Locations : inst'[a].geoid = Resolve(l, cmd'[a])
  BY DEF SavedIsResolved
<1>1. a # p /\ pc[a] = "saved"
  BY DEF Goto, RowInd, Ind, ObjectsTyped, Processes
<1>2. inst'[a] = inst[a] /\ cmd'[a] = cmd[a]
  BY <1>1 DEF Processes
<1> QED
  BY <1>1, <1>2 DEF RowInd, SavedIsResolved

\* addr.save() puts into the object what the joins found at one location.
LEMMA SaveAddressResolves ==
    ASSUME RowInd, NEW a \in Assigners, SaveAddress(a)
    PROVE  SavedIsResolved'
<1> SUFFICES ASSUME NEW b \in Assigners, pc'[b] = "saved"
             PROVE  \E l \in Locations : inst'[b].geoid = Resolve(l, cmd'[b])
  BY DEF SavedIsResolved
<1>1. cmd' = cmd /\ inst' = [inst EXCEPT ![a] = addr']
  BY DEF SaveAddress
<1>2. CASE b = a
  <2>1. inst[a] \in AddressRow /\ a \in Processes
    BY DEF RowInd, Ind, ObjectsTyped, Processes
  <2>2. inst[a].geom \in Locations
    BY <2>1 DEF SaveAddress, Fails, AddressRow
  <2>3. addr'.geoid = FoundBy(a)
    BY <2>1 DEF SaveAddress, populate_foreign_keys, AddressRow
  <2>4. inst'[a] = addr'
    BY <1>1, <2>1 DEF RowInd, Ind, ObjectsTyped
  <2> QED
    BY <1>1, <1>2, <2>2, <2>3, <2>4 DEF FoundBy
<1>3. CASE b # a
  <2>1. pc[b] = "saved" /\ inst'[b] = inst[b]
    BY <1>1, <1>3 DEF SaveAddress, Goto, RowInd, Ind, ObjectsTyped, Processes
  <2> QED
    BY <1>1, <2>1 DEF RowInd, SavedIsResolved
<1> QED
  BY <1>2, <1>3

\* update_or_create writes the object's geoids under the key of its command.
LEMMA SaveRowKeeps ==
    ASSUME RowInd, NEW a \in Assigners, SaveRow(a)
    PROVE  RowsTyped' /\ RowIsOneAssignment'
<1> DEFINE row == [ctx |-> cmd[a].date, geoid |-> inst[a].geoid]
<1> DEFINE S == KeyOf(cmd[a]) \ ToSet(created)
<1>1. /\ inst[a] \in AddressRow /\ cmd[a] \in Commands /\ cmd[a] \in Command
      /\ abp \in [Keys -> Row] /\ created \in Seq(Keys) /\ IsInjective(created)
  BY AssignmentAssumption DEF SaveRow, RowInd, Ind, ObjectsTyped, RunsAreCommands, RowsTyped, Processes
<1>2. row \in Row
  BY <1>1 DEF Row, AddressRow, Command
<1>3. /\ abp' = [k \in Keys |-> IF k \in KeyOf(cmd[a]) THEN row ELSE abp[k]]
      /\ created' = created \o SetToSeq(S)
  BY DEF SaveRow
<1>4. abp' \in [Keys -> Row]
  BY <1>1, <1>2, <1>3
<1>5. S \subseteq Keys /\ S \subseteq KeyOf(cmd[a]) /\ IsFiniteSet(S)
  BY KeysAssumption, FS_Subset DEF KeyOf
<1>6. SetToSeq(S) \in Seq(S) /\ IsInjective(SetToSeq(S))
  BY <1>5, SetToSeqLists
<1>7. SetToSeq(S) \in Seq(Keys) /\ ToSet(SetToSeq(S)) \subseteq S
  <2> HIDE DEF S
  <2> QED
    BY <1>5, <1>6 DEF ToSet
<1>8. ToSet(created) \cap ToSet(SetToSeq(S)) = {}
  BY <1>7
<1>9. /\ created' \in Seq(Keys) /\ IsInjective(created')
      /\ ToSet(created') \subseteq ToSet(created) \cup S
  <2> HIDE DEF S
  <2> QED
    BY <1>1, <1>3, <1>6, <1>7, <1>8, AppendsKeys
<1>10. alone' \in [Assigners -> BOOLEAN]
  BY DisturbTyped DEF SaveRow, RowInd
<1>11. PICK l \in Locations : inst[a].geoid = Resolve(l, cmd[a])
  BY DEF SaveRow, RowInd, SavedIsResolved
<1>12. ASSUME NEW k \in ToSet(created')
       PROVE  \E m \in Locations, c \in Commands :
                 abp'[k] = [ctx |-> c.date, geoid |-> Resolve(m, c)] /\ k \in KeyOf(c)
  <2>1. k \in Keys
    BY <1>9 DEF ToSet
  <2>2. CASE k \in KeyOf(cmd[a])
    <3>1. abp'[k] = [ctx |-> cmd[a].date, geoid |-> Resolve(l, cmd[a])]
      BY <1>3, <1>11, <2>1, <2>2
    <3> QED
      BY <1>1, <2>2, <3>1
  <2>3. CASE k \notin KeyOf(cmd[a])
    <3>1. k \in ToSet(created) /\ abp'[k] = abp[k]
      BY <1>3, <1>5, <1>9, <2>1, <2>3
    <3> QED
      BY <3>1 DEF RowInd, RowIsOneAssignment
  <2> QED
    BY <2>2, <2>3
<1> HIDE DEF row, S
<1> QED
  BY <1>4, <1>9, <1>10, <1>12 DEF RowsTyped, RowIsOneAssignment

LEMMA NextRowInd == RowInd /\ [Next]_vars => RowInd'
<1> SUFFICES ASSUME RowInd, [Next]_vars PROVE RowInd'
  OBVIOUS
<1>0. Ind'
  BY NextInd DEF RowInd
<1> USE DEF Processes
<1>1. ASSUME NEW g \in Geocoders, NEW force \in BOOLEAN, GeocoderReads(g, force) PROVE RowInd'
  <2>1. SavedIsResolved'
    BY <1>1, OthersResolved DEF GeocoderReads, RowInd, Ind, ObjectsTyped
  <2>2. RowsTyped' /\ RowIsOneAssignment'
    BY <1>1, RowsStay DEF GeocoderReads, RowInd, RowsTyped
  <2> QED
    BY <1>0, <2>1, <2>2 DEF RowInd
<1>2. ASSUME NEW p \in Processes, Return(p), UNCHANGED <<abp, created>>,
             alone' \in [Assigners -> BOOLEAN]
      PROVE  RowInd'
  BY <1>0, <1>2, ReturnResolved, RowsStay DEF RowInd
<1>3. ASSUME NEW g \in Geocoders, NEW l, NEW fips, Geocoded(g, l, fips) PROVE RowInd'
  <2>1. alone' \in [Assigners -> BOOLEAN]
    BY <1>3, DisturbTyped DEF Geocoded, RowInd
  <2> QED
    BY <1>2, <1>3, <2>1 DEF Geocoded
<1>4. ASSUME NEW g \in Geocoders, NEW l, GeocodedByNominatim(g, l) PROVE RowInd'
  BY <1>3, <1>4 DEF GeocodedByNominatim
<1>5. ASSUME NEW p \in Processes, Return(p), UNCHANGED <<abp, created, alone>> PROVE RowInd'
  BY <1>2, <1>5 DEF RowInd, RowsTyped
<1>6. ASSUME NEW g \in Geocoders, NotGeocoded(g) PROVE RowInd'
  BY <1>5, <1>6 DEF NotGeocoded
<1>7. ASSUME NEW a \in Assigners, NEW c \in Commands, Select(a, c) PROVE RowInd'
  <2>1. SavedIsResolved'
    BY <1>7, OthersResolved DEF Select, RowInd, Ind, ObjectsTyped
  <2>2. RowsTyped' /\ RowIsOneAssignment'
    BY <1>7, RowsStay DEF Select, RowInd, RowsTyped
  <2> QED
    BY <1>0, <2>1, <2>2 DEF RowInd
<1>8. ASSUME NEW a \in Assigners, ReadBatch(a) PROVE RowInd'
  <2>1. SavedIsResolved'
    BY <1>8, OthersResolved DEF ReadBatch, RowInd, Ind, ObjectsTyped
  <2>2. alone' \in [Assigners -> BOOLEAN]
    BY <1>8 DEF ReadBatch, RowInd, RowsTyped
  <2>3. RowsTyped' /\ RowIsOneAssignment'
    BY <1>8, <2>2, RowsStay DEF ReadBatch
  <2> QED
    BY <1>0, <2>1, <2>3 DEF RowInd
<1>9. ASSUME NEW a \in Assigners, AssignFails(a) PROVE RowInd'
  BY <1>5, <1>9 DEF AssignFails
<1>10. ASSUME NEW a \in Assigners, SaveAddress(a) PROVE RowInd'
  <2>1. alone' \in [Assigners -> BOOLEAN]
    BY <1>10, DisturbTyped DEF SaveAddress, RowInd
  <2>2. RowsTyped' /\ RowIsOneAssignment'
    BY <1>10, <2>1, RowsStay DEF SaveAddress
  <2> QED
    BY <1>0, <1>10, <2>2, SaveAddressResolves DEF RowInd
<1>11. ASSUME NEW a \in Assigners, SaveRow(a) PROVE RowInd'
  <2>1. Return(a)
    BY <1>11 DEF SaveRow
  <2> QED
    BY <1>0, <1>11, <2>1, ReturnResolved, SaveRowKeeps DEF RowInd
<1>12. ASSUME NEW p \in Processes, Die(p) PROVE RowInd'
  BY <1>5, <1>12 DEF Die
<1>13. CASE UNCHANGED vars
  BY <1>0, <1>13 DEF RowInd, RowsTyped, SavedIsResolved, RowIsOneAssignment, vars
<1> QED
  BY <1>1, <1>3, <1>4, <1>6, <1>7, <1>8, <1>9, <1>10, <1>11, <1>12, <1>13 DEF Next

\* The address, its rows, each created once, and every object in memory stay
\* well formed, whichever commands overlap, repeat and die.
THEOREM AssignmentTypeCorrect == Spec => []TypeOK
<1>1. RowInd => TypeOK
  BY DEF RowInd, Ind, ObjectsTyped, RowsTyped, TypeOK, Steps
<1> QED
  BY <1>1, InitRowInd, NextRowInd, PTL DEF Spec

\* assign_boundaries.py writes the row from the values it joined, not from the
\* address: no row ever mixes two assignments, for any number of overlapping
\* geocoders and assigners that are killed anywhere.
THEOREM RowsAreOneAssignment == Spec => []RowIsOneAssignment
<1>1. RowInd => RowIsOneAssignment
  BY DEF RowInd
<1> QED
  BY <1>1, InitRowInd, NextRowInd, PTL DEF Spec

-----------------------------------------------------------------------------
(* A run by itself.  Between its two writes the object it saved is assigned  *)
(* as its command says, and it is the address while nobody else has written. *)

SettledBy(row, c) ==
    /\ row.unitsAssigned /\ row.censusYear = c.year
    /\ row.geoid = Resolve(row.geom, c) /\ \A t \in Types : row.geoid[t] # Blank
    /\ c.populate => populate_foreign_keys(row) = row

SavedIsSettled ==
    \A a \in Assigners : pc[a] = "saved" =>
        /\ \E row, c : row = inst[a] /\ c = cmd[a] /\ SettledBy(row, c)
        /\ alone[a] => addr = inst[a]

LoneInd == RowInd /\ SavedIsSettled

\* Foreign keys that have been looked up are found again.
LEMMA KeysFoundAgain ==
    ASSUME NEW row \in AddressRow
    PROVE  LET found == populate_foreign_keys(row) IN
           /\ populate_foreign_keys(found) = found
           /\ found.geoid = row.geoid /\ found.geom = row.geom
           /\ found.censusYear = row.censusYear /\ found.unitsAssigned = row.unitsAssigned
<1>1. PICK found : found = populate_foreign_keys(row)
  OBVIOUS
<1>2. PICK keys : keys = [t \in KeyTypes |->
          LET k == <<row.geoid[t], row.censusYear>> IN
          IF row.geoid[t] = Blank THEN row.keys[t] ELSE IF k \in Mapped THEN k ELSE NoKey]
  OBVIOUS
<1>3. found = [row EXCEPT !.keys = keys]
  BY <1>1, <1>2 DEF populate_foreign_keys
<1>4. /\ found.geoid = row.geoid /\ found.geom = row.geom /\ found.keys = keys
      /\ found.censusYear = row.censusYear /\ found.unitsAssigned = row.unitsAssigned
  BY <1>3 DEF AddressRow
<1>5. PICK again : again = [t \in KeyTypes |->
          LET k == <<found.geoid[t], found.censusYear>> IN
          IF found.geoid[t] = Blank THEN found.keys[t] ELSE IF k \in Mapped THEN k ELSE NoKey]
  OBVIOUS
<1>6. again = keys
  BY <1>2, <1>4, <1>5
<1>7. populate_foreign_keys(found) = [found EXCEPT !.keys = again]
  BY <1>5 DEF populate_foreign_keys
<1>8. [found EXCEPT !.keys = keys] = found
  BY <1>3 DEF AddressRow
<1> QED
  BY <1>1, <1>4, <1>6, <1>7, <1>8

\* What addr.save() writes is assigned as the command says.
LEMMA SaveAddressSettles ==
    ASSUME RowInd, NEW a \in Assigners, SaveAddress(a)
    PROVE  SettledBy(addr', cmd[a])
<1>1. inst[a] \in AddressRow /\ cmd[a] \in Commands /\ cmd[a] \in Command
  BY AssignmentAssumption DEF SaveAddress, RowInd, Ind, ObjectsTyped, RunsAreCommands, Processes
<1>2. inst[a].geom \in Locations /\ \A t \in Types : FoundBy(a)[t] # Blank
  BY <1>1 DEF SaveAddress, Fails, AddressRow
<1>3. PICK geoid, year : geoid = FoundBy(a) /\ year = cmd[a].year
  OBVIOUS
<1>4. geoid \in [Types -> GeoidOrBlank] /\ year \in Nat
  BY <1>1, <1>2, <1>3, ResolveTyped DEF FoundBy, Command
<1>5. PICK new : new = [inst[a] EXCEPT !.geoid = geoid, !.censusYear = year, !.unitsAssigned = TRUE]
  OBVIOUS
<1>6. /\ new \in AddressRow /\ new.geoid = geoid /\ new.censusYear = year /\ new.unitsAssigned = TRUE
      /\ new.geom = inst[a].geom
  BY <1>1, <1>4, <1>5 DEF AddressRow
<1>7. addr' = IF cmd[a].populate THEN populate_foreign_keys(new) ELSE new
  BY <1>3, <1>5 DEF SaveAddress
<1>8. /\ addr'.geoid = geoid /\ addr'.censusYear = year /\ addr'.unitsAssigned = TRUE
      /\ addr'.geom = inst[a].geom
      /\ cmd[a].populate => populate_foreign_keys(addr') = addr'
  BY <1>6, <1>7, KeysFoundAgain
<1>9. geoid = Resolve(addr'.geom, cmd[a])
  BY <1>3, <1>8 DEF FoundBy
<1> QED
  BY <1>2, <1>3, <1>8, <1>9 DEF SettledBy

\* A process that goes to another step than "saved" leaves the saved objects,
\* and whoever it disturbs is no longer by itself.
LEMMA OthersSettled ==
    ASSUME LoneInd, NEW p \in Processes, NEW step, Goto(p, step), step # "saved",
           \A q \in Processes : q # p => inst'[q] = inst[q],
           \A a \in Assigners : a # p => cmd'[a] = cmd[a],
           \A a \in Assigners : a # p /\ alone'[a] => alone[a] /\ addr' = addr
    PROVE  SavedIsSettled'
<1> SUFFICES ASSUME NEW a \in Assigners, pc'[a] = "saved"
             PROVE  /\ \E row, c : row = inst'[a] /\ c = cmd'[a] /\ SettledBy(row, c)
                    /\ alone'[a] => addr' = inst'[a]
  BY DEF SavedIsSettled
<1>1. a # p /\ pc[a] = "saved"
  BY DEF Goto, LoneInd, RowInd, Ind, ObjectsTyped, Processes
<1>2. inst'[a] = inst[a] /\ cmd'[a] = cmd[a] /\ (alone'[a] => alone[a] /\ addr' = addr)
  BY <1>1 DEF Processes
<1>3. SettledBy(inst[a], cmd[a]) /\ (alone[a] => addr = inst[a])
  BY <1>1 DEF LoneInd, SavedIsSettled
<1> QED
  BY <1>2, <1>3

LEMMA ReturnSettles ==
    ASSUME LoneInd, NEW p \in Processes, Return(p),
           (addr' = addr /\ alone' = alone) \/ Disturb(p)
    PROVE  SavedIsSettled'
<1>1. /\ Goto(p, "idle") /\ \A q \in Processes : q # p => inst'[q] = inst[q]
      /\ \A a \in Assigners : a # p => cmd'[a] = cmd[a]
  BY DEF Return, LoneInd, RowInd, Ind, ObjectsTyped
<1>2. \A a \in Assigners : a # p /\ alone'[a] => alone[a] /\ addr' = addr
  BY DEF Disturb
<1> QED
  BY <1>1, <1>2, OthersSettled

LEMMA InitLoneInd == Init => LoneInd
BY InitRowInd DEF Init, LoneInd, SavedIsSettled, Processes

LEMMA NextLoneInd == LoneInd /\ [Next]_vars => LoneInd'
<1> SUFFICES ASSUME LoneInd, [Next]_vars PROVE LoneInd'
  OBVIOUS
<1>0. RowInd'
  BY NextRowInd DEF LoneInd
<1> USE DEF Processes
<1>1. ASSUME NEW g \in Geocoders, NEW force \in BOOLEAN, GeocoderReads(g, force) PROVE SavedIsSettled'
  BY <1>1, OthersSettled DEF GeocoderReads, LoneInd, RowInd, Ind, ObjectsTyped
<1>2. ASSUME NEW g \in Geocoders, NEW l, NEW fips, Geocoded(g, l, fips) PROVE SavedIsSettled'
  BY <1>2, ReturnSettles DEF Geocoded
<1>3. ASSUME NEW g \in Geocoders, NEW l, GeocodedByNominatim(g, l) PROVE SavedIsSettled'
  BY <1>2, <1>3 DEF GeocodedByNominatim
<1>4. ASSUME NEW p \in Processes, NotGeocoded(p) \/ AssignFails(p) \/ Die(p) PROVE SavedIsSettled'
  BY <1>4, ReturnSettles DEF NotGeocoded, AssignFails, Die
<1>5. ASSUME NEW a \in Assigners, NEW c \in Commands, Select(a, c) PROVE SavedIsSettled'
  BY <1>5, OthersSettled DEF Select, LoneInd, RowInd, Ind, ObjectsTyped
<1>6. ASSUME NEW a \in Assigners, ReadBatch(a) PROVE SavedIsSettled'
  BY <1>6, OthersSettled DEF ReadBatch, LoneInd, RowInd, RowsTyped, Ind, ObjectsTyped
<1>7. ASSUME NEW a \in Assigners, SaveRow(a) PROVE SavedIsSettled'
  BY <1>7, ReturnSettles DEF SaveRow
<1>8. ASSUME NEW a \in Assigners, SaveAddress(a) PROVE SavedIsSettled'
  <2>1. /\ inst' = [inst EXCEPT ![a] = addr'] /\ cmd' = cmd /\ pc' = [pc EXCEPT ![a] = "saved"]
        /\ Disturb(a)
    BY <1>8 DEF SaveAddress, Goto
  <2> SUFFICES ASSUME NEW b \in Assigners, pc'[b] = "saved"
               PROVE  /\ \E row, c : row = inst'[b] /\ c = cmd'[b] /\ SettledBy(row, c)
                      /\ alone'[b] => addr' = inst'[b]
    BY DEF SavedIsSettled
  <2>2. CASE b = a
    <3>1. inst'[b] = addr' /\ cmd'[b] = cmd[a]
      BY <2>1, <2>2 DEF LoneInd, RowInd, Ind, ObjectsTyped
    <3>2. SettledBy(addr', cmd[a])
      BY <1>8, SaveAddressSettles DEF LoneInd
    <3> QED
      BY <3>1, <3>2
  <2>3. CASE b # a
    <3>1. pc[b] = "saved" /\ inst'[b] = inst[b] /\ cmd'[b] = cmd[b] /\ ~alone'[b]
      BY <2>1, <2>3 DEF Disturb, LoneInd, RowInd, Ind, ObjectsTyped
    <3>2. SettledBy(inst[b], cmd[b])
      BY <3>1 DEF LoneInd, SavedIsSettled
    <3> QED
      BY <3>1, <3>2
  <2> QED
    BY <2>2, <2>3
<1>9. ASSUME UNCHANGED vars PROVE SavedIsSettled'
  BY <1>9 DEF vars, LoneInd, SavedIsSettled
<1> QED
  BY <1>0, <1>1, <1>2, <1>3, <1>4, <1>5, <1>6, <1>7, <1>8, <1>9 DEF Next, LoneInd

\* A row of today that has a geoid for a type answers for it today.
LEMMA TodayAnswers ==
    ASSUME NEW c \in Commands, c.date = Today, NEW k \in KeyOf(c), NEW rows,
           rows[k].ctx = Today, NEW t \in Types, rows[k].geoid[t] # Blank
    PROVE  k \in Latest(rows, t, Today)
<1>1. c.year = Today \div DecadeDays /\ c.year \in Nat
  BY AssignmentAssumption DEF NoDate, Command
<1>2. k \in Keys /\ k[1] \in Vintages /\ Window[k[1]].decade = c.year
  BY KeysAssumption DEF KeyOf
<1>3. Window[k[1]].kind = "census-decadal"
  BY <1>1, <1>2, VintageAssumption DEF NoDecade
<1>4. k \in Eligible(rows, t, Today)
  BY <1>1, <1>2, <1>3, AssignmentAssumption DEF Eligible, ForYear
<1>5. \A j \in Eligible(rows, t, Today) : rows[j].ctx <= Today
  BY DEF Eligible
<1> QED
  BY <1>4, <1>5 DEF Latest

\* "the per-row addr.save() keeps the cache coherent without it": a run for today
\* that nobody disturbed leaves every cached geoid and foreign key as its own
\* row and location have them, for any commands, plans and other processes.
THEOREM LoneRunsSettle == Spec => LoneRunSettles
<1>1. LoneInd /\ [Next]_vars =>
        [\A a \in Assigners :
          SaveRow(a) /\ alone[a] /\ cmd[a].date = Today /\ KeyOf(cmd[a]) # {} =>
              /\ addr'.unitsAssigned /\ addr'.censusYear = cmd[a].year
              /\ addr'.geoid = Resolve(addr'.geom, cmd[a])
              /\ \A t \in Types :
                    addr'.geoid[t] \in {abp'[k].geoid[t] : k \in Latest(abp', t, Today)}
              /\ cmd[a].populate => populate_foreign_keys(addr') = addr']_vars
  <2> SUFFICES ASSUME LoneInd, NEW a \in Assigners, SaveRow(a), alone[a], cmd[a].date = Today,
                      KeyOf(cmd[a]) # {}
               PROVE  /\ addr'.unitsAssigned /\ addr'.censusYear = cmd[a].year
                      /\ addr'.geoid = Resolve(addr'.geom, cmd[a])
                      /\ \A t \in Types :
                            addr'.geoid[t] \in {abp'[k].geoid[t] : k \in Latest(abp', t, Today)}
                      /\ cmd[a].populate => populate_foreign_keys(addr') = addr'
    OBVIOUS
  <2>1. pc[a] = "saved" /\ addr' = addr /\ cmd[a] \in Commands
    BY DEF SaveRow, LoneInd, RowInd, Ind, RunsAreCommands
  <2>2. addr' = inst[a] /\ SettledBy(addr', cmd[a])
    BY <2>1 DEF LoneInd, SavedIsSettled
  <2>3. PICK k : k \in KeyOf(cmd[a])
    OBVIOUS
  <2>4. PICK row : row = [ctx |-> cmd[a].date, geoid |-> inst[a].geoid]
    OBVIOUS
  <2>5. PICK rows : rows = abp'
    OBVIOUS
  <2>6. rows[k] = row
    BY <2>3, <2>4, <2>5 DEF SaveRow, KeyOf
  <2>7. rows[k].ctx = Today /\ rows[k].geoid = addr'.geoid
    BY <2>2, <2>4, <2>6
  <2>8. ASSUME NEW t \in Types PROVE k \in Latest(rows, t, Today)
    BY <2>1, <2>2, <2>3, <2>7, TodayAnswers DEF SettledBy
  <2>9. \A t \in Types : addr'.geoid[t] \in {abp'[j].geoid[t] : j \in Latest(abp', t, Today)}
    BY <2>5, <2>7, <2>8
  <2> QED
    BY <2>2, <2>9 DEF SettledBy
<1>2. []LoneInd /\ [][Next]_vars => LoneRunSettles
  BY <1>1, PTL DEF LoneRunSettles
<1> QED
  BY <1>2, InitLoneInd, NextLoneInd, PTL DEF Spec
=============================================================================
