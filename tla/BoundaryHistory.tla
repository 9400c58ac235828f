-------------------------- MODULE BoundaryHistory --------------------------
(***************************************************************************)
(* The history of one address: boundary_history,                           *)
(* boundary_timeline and is_redistricting_assignment_stale                 *)
(* (socialwarehouse/geo/models/address.py), after any sequence of saves,   *)
(* next to the point-in-time query boundaries_on.                          *)
(*                                                                         *)
(* A key is <<vintage, plan>>.  assigned_at is set when a row is created   *)
(* and kept by later saves, so it is the row's place in the order of       *)
(* creation.                                                               *)
(***************************************************************************)
EXTENDS BoundaryPeriods, SequencesExt

CONSTANTS
    RowInputs,   \* the rows callers write
    NoPlan,      \* the plan of the Census-default rows
    PlanOn,      \* PlanOn[d]: the plan for_date finds in effect on day d, or NoPlan
    MaxDay       \* bound: the clock stops here

Days == 0..MaxDay

ASSUME HistoryAssumption ==
    /\ MaxDay \in Nat /\ DOMAIN PlanOn = Days
    /\ RowInputs \subseteq Row

VARIABLES
    today,    \* timezone.localdate()
    abp,      \* the rows of the address
    created   \* their keys, in the order they were created

vars == <<today, abp, created>>

Init ==
    /\ today = 0
    /\ abp = [k \in Keys |-> EmptyRow]
    /\ created = <<>>

\* AddressBoundaryPeriod.objects.create() or update_or_create()
Save(k, row) ==
    /\ abp' = [abp EXCEPT ![k] = row]
    /\ created' = IF k \in ToSet(created) THEN created ELSE Append(created, k)
    /\ UNCHANGED today

NextDay ==
    /\ today < MaxDay
    /\ today' = today + 1
    /\ UNCHANGED <<abp, created>>

Next == (\E k \in Keys, row \in RowInputs : Save(k, row)) \/ NextDay

Spec == Init /\ [][Next]_vars

-----------------------------------------------------------------------------
(* The helpers *)

AssignedAt(k) == CHOOSE i \in DOMAIN created : created[i] = k

\* the rows that carry a geoid of the type
RowsOf(t) == {k \in ToSet(created) : abp[k].geoid[t] # Blank}

Undated(k) == abp[k].ctx = NoDate

\* mutant: the newest assignment first, whatever its date
PrecedesByCreation(j, k) == AssignedAt(j) > AssignedAt(k)

\* ORDER BY context_date DESC, assigned_at DESC: PostgreSQL takes NULL for the
\* largest value, so undated rows come first
Precedes(j, k) ==
    \/ abp[j].ctx = abp[k].ctx /\ AssignedAt(j) > AssignedAt(k)
    \/ Undated(j) /\ ~Undated(k)
    \/ ~Undated(j) /\ ~Undated(k) /\ abp[j].ctx > abp[k].ctx

\* the row in place i is the one that i - 1 others precede
boundary_history(t) ==
    LET rows == RowsOf(t)
        place == [k \in rows |-> Cardinality({j \in rows : Precedes(j, k)}) + 1]
    IN [i \in 1..Cardinality(rows) |-> CHOOSE k \in rows : place[k] = i]

\* The fallback for an undated row reads vintage.effective_start, which the
\* polymorphic Vintage no longer has.
TimelineRaises(t) == \E k \in RowsOf(t) : Undated(k)

\* the end of a period that is still active; -1 is the day before day 0
NoEnd == -2

\* oldest first
boundary_timeline(t) ==
    LET rows == Reverse(boundary_history(t)) IN
    [i \in DOMAIN rows |->
        [geoid |-> abp[rows[i]].geoid[t],
         key   |-> rows[i],
         from  |-> abp[rows[i]].ctx,
         to    |-> IF i < Len(rows) THEN abp[rows[i + 1]].ctx - 1 ELSE NoEnd]]

Covers(entry, d) == entry.from <= d /\ (entry.to # NoEnd => d <= entry.to)

\* mutant: the oldest row decides
StaleByOldest(t) ==
    /\ PlanOn[today] # NoPlan
    /\ RowsOf(t) # {}
    /\ Last(boundary_history(t))[2] # PlanOn[today]

Stale(t) ==
    /\ PlanOn[today] # NoPlan
    /\ RowsOf(t) # {}
    /\ Head(boundary_history(t))[2] # PlanOn[today]

-----------------------------------------------------------------------------
(* Properties *)

TypeOK ==
    /\ today \in Days
    /\ abp \in [Keys -> Row]
    /\ created \in Seq(Keys) /\ IsInjective(created)

\* The timeline runs oldest first and leaves no gap: each period ends the day
\* before the next begins, and only the newest one is open.
TimelineTiles ==
    \A t \in Types : ~TimelineRaises(t) =>
        LET line == boundary_timeline(t) IN
        \A i \in DOMAIN line :
            IF i = Len(line) THEN line[i].to = NoEnd
            ELSE /\ line[i].from <= line[i + 1].from
                 /\ line[i].to + 1 = line[i + 1].from

\* The two ways of asking for the past agree: on a day inside a period of the
\* timeline that the period's vintage serves, geoid_on gives its geoid.
TimelineAgreesWithGeoidOn ==
    \A t \in Types : ~TimelineRaises(t) =>
        LET line == boundary_timeline(t) IN
        \A i \in DOMAIN line, d \in Days :
            Covers(line[i], d) /\ line[i].key[1] \in ForYear(d) =>
                line[i].geoid \in {abp[k].geoid[t] : k \in Latest(abp, t, d)}

\* The timeline is the history of each type: without gaps, and true.
TimelineSound == TimelineTiles /\ TimelineAgreesWithGeoidOn

\* Assigning the address under the plan in effect, as of today, clears the
\* staleness of the types assigned, if nothing is dated as late as that.
AssigningClearsStaleness ==
    [][\A k \in Keys, t \in Types :
          /\ abp'[k] # abp[k] /\ t \in Touched(abp'[k])
          /\ k[2] = PlanOn[today] /\ abp'[k].ctx = today
          /\ \A j \in Keys \ {k} : abp[j].ctx < today /\ ~(Undated(j) /\ t \in Touched(abp[j]))
          => ~Stale(t)']_vars

\* "Rows with NULL context_date sort last under DESC (Postgres default for
\* NULLS LAST)."
UndatedSortLast ==
    \A t \in Types :
        LET rows == boundary_history(t) IN
        \A i \in 1..Len(rows) - 1 : Undated(rows[i]) => Undated(rows[i + 1])
=============================================================================
