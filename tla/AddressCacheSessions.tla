------------------------ MODULE AddressCacheSessions ------------------------
(***************************************************************************)
(* AddressCache seen from the database: sessions that save boundary rows   *)
(* of one address, one statement at a time, under READ COMMITTED.          *)
(*                                                                         *)
(* A save is: write the row; in the handler, read boundaries_on(today),    *)
(* compare with the Address object in memory, UPDATE the fields that       *)
(* differ and send address_boundary_cache_changed.  `update_or_create`     *)
(* opens a transaction around all of it.  `create` outside a transaction   *)
(* commits every statement by itself: Django sends post_save after the     *)
(* row's own statement is over, and the project sets no ATOMIC_REQUESTS.   *)
(*                                                                         *)
(* All saves happen on one day, with the receiver connected and alive.     *)
(* census_year, which the handler compares too, is AddressCache's.         *)
(***************************************************************************)
EXTENDS BoundaryPeriods

CONSTANTS
    Sessions,
    RowInputs,     \* the rows callers write
    Today,         \* the day
    Modes,         \* how callers save
    FreshCallers,  \* TRUE: callers read the Address just before each save
    NoSession      \* nobody holds the row lock of the address

ModeRecord ==
    [atomic : BOOLEAN,  \* the save runs inside a transaction
     upsert : BOOLEAN]  \* update_or_create, not create

ASSUME SessionsAssumption == NoSession \notin Sessions
ASSUME ModesAssumption == Modes \subseteq ModeRecord
ASSUME InputsAssumption == RowInputs \subseteq Row /\ Today \in Date

VARIABLES
    abp,     \* committed rows of the address
    cache,   \* committed Address.{type}_geoid
    mirror,  \* committed copy a subscriber keeps
    owner,   \* the session whose transaction has updated the address row
    pc,      \* the last statement of each session
    job,     \* the save in progress
    inst,    \* geoids of the Address object the caller holds
    lone,    \* history: every commit since the caller read inst went through it
    stored   \* history: every <<type, geoid>> a committed row has carried

vars == <<abp, cache, mirror, owner, pc, job, inst, lone, stored>>

Steps == {"idle", "rowWritten", "compared", "addressUpdated", "done"}
GeoidMap == [Types -> GeoidOrBlank]
BlankGeoids == [t \in Types |-> Blank]

Job ==
    [mode : Modes, key : Keys, row : RowInputs,
     fetched : BOOLEAN,       \* the row existed and was read from the database
     target : GeoidMap,       \* geoids of the handler's Address object
     dirty : SUBSET Types]    \* the fields it found different

GeoidsOf(row) == {<<t, row.geoid[t]>> : t \in Touched(row)}
Answers(rows, t, d) == {rows[k].geoid[t] : k \in Latest(rows, t, d)}

Init ==
    /\ abp = [k \in Keys |-> EmptyRow]
    /\ cache = BlankGeoids
    /\ mirror = BlankGeoids
    /\ owner = NoSession
    /\ pc = [s \in Sessions |-> "idle"]
    /\ job = [s \in Sessions |-> <<>>]
    /\ inst = [s \in Sessions |-> BlankGeoids]
    /\ lone = [s \in Sessions |-> TRUE]
    /\ stored = {}

-----------------------------------------------------------------------------
(* Transactions *)

Atomic(s) == job[s].mode.atomic
Uncommitted(s) == pc[s] # "idle" /\ Atomic(s)

\* what s reads: the committed rows, under its own uncommitted one
Visible(s) ==
    IF Uncommitted(s) THEN [abp EXCEPT ![job[s].key] = job[s].row] ELSE abp

\* UPDATE of the dirty fields, from the handler's object
Overlay(geoids, s) ==
    [t \in Types |-> IF t \in job[s].dirty THEN job[s].target[t] ELSE geoids[t]]

CommitRow(k, row) ==
    /\ abp' = [abp EXCEPT ![k] = row]
    /\ stored' = stored \cup GeoidsOf(row)

\* what s commits, only its own Address object has seen, and not even that one
\* when the row was fetched and brought another
Disturb(s, fetched) == lone' = [r \in Sessions |-> lone[r] /\ r = s /\ ~fetched]

End(s) ==
    /\ pc' = [pc EXCEPT ![s] = "idle"]
    /\ job' = [job EXCEPT ![s] = <<>>]
    /\ owner' = IF owner = s THEN NoSession ELSE owner

-----------------------------------------------------------------------------
(* The statements of a save *)

\* the caller reads the Address
Load(s) ==
    /\ pc[s] = "idle"
    /\ inst' = [inst EXCEPT ![s] = cache]
    /\ lone' = [lone EXCEPT ![s] = TRUE]
    /\ UNCHANGED <<abp, cache, mirror, owner, pc, job, stored>>

\* INSERT or UPDATE of the row.  It waits for another transaction's write of
\* the same (address, vintage, plan); a create of a row that exists fails on
\* the unique constraint and changes nothing.
WriteRow(s, mode, k, row) ==
    /\ pc[s] = "idle"
    /\ FreshCallers => inst[s] = cache /\ lone[s]
    /\ \A r \in Sessions : Uncommitted(r) => job[r].key # k
    /\ mode.upsert \/ abp[k] = EmptyRow
    /\ IF mode.atomic THEN UNCHANGED <<abp, stored, lone>>
                      ELSE CommitRow(k, row) /\ Disturb(s, FALSE)
    /\ pc' = [pc EXCEPT ![s] = "rowWritten"]
    /\ job' = [job EXCEPT ![s] =
          [mode |-> mode, key |-> k, row |-> row, fetched |-> abp[k] # EmptyRow,
           target |-> inst[s], dirty |-> {}]]
    /\ UNCHANGED <<cache, mirror, owner, inst>>

\* mutant: the geoids of the saved row are taken without resolving them
CompareWithRow(s) ==
    LET old == IF job[s].fetched THEN cache ELSE inst[s]
        copied == {t \in Touched(job[s].row) : IsCurrentVintage(job[s].key[1], Today)}
        new == [t \in Types |-> IF t \in copied THEN job[s].row.geoid[t] ELSE old[t]]
        dirty == {t \in Types : new[t] # old[t]}
    IN
    /\ pc[s] = "rowWritten"
    /\ job' = [job EXCEPT ![s].target = new, ![s].dirty = dirty]
    /\ inst' = IF job[s].fetched THEN inst ELSE [inst EXCEPT ![s] = new]
    /\ pc' = [pc EXCEPT ![s] = IF dirty = {} THEN "done" ELSE "compared"]
    /\ UNCHANGED <<abp, cache, mirror, owner, lone, stored>>

\* The handler up to its comparison.  A fetched row brings its address anew;
\* a created one brings the caller's object, which takes the new values.
Compare(s) ==
    LET old == IF job[s].fetched THEN cache ELSE inst[s]
        resolved ==
          {t \in Touched(job[s].row) : /\ IsCurrentVintage(job[s].key[1], Today)
                                       /\ Eligible(Visible(s), t, Today) # {}}
    IN
    /\ pc[s] = "rowWritten"
    /\ \E scan \in ScanOrders :
          LET new == [t \in Types |-> IF t \in resolved
                                      THEN GeoidOn(Visible(s), t, Today, scan)
                                      ELSE old[t]]
          IN
          /\ job' = [job EXCEPT ![s].target = new,
                                ![s].dirty = {t \in Types : new[t] # old[t]}]
          /\ inst' = IF job[s].fetched THEN inst ELSE [inst EXCEPT ![s] = new]
    /\ pc' = [pc EXCEPT ![s] = IF job'[s].dirty = {} THEN "done" ELSE "compared"]
    /\ UNCHANGED <<abp, cache, mirror, owner, lone, stored>>

\* mutant: the address is updated outside the transaction
UpdateAddressOutside(s) ==
    /\ pc[s] = "compared"
    /\ owner = NoSession
    /\ cache' = Overlay(cache, s)
    /\ Disturb(s, job[s].fetched)
    /\ pc' = [pc EXCEPT ![s] = "addressUpdated"]
    /\ UNCHANGED <<abp, mirror, owner, job, inst, stored>>

\* addr.save(update_fields=...) waits for the row lock of the address and, in
\* a transaction, keeps it
UpdateAddress(s) ==
    /\ pc[s] = "compared"
    /\ owner = NoSession
    /\ IF Atomic(s) THEN owner' = s /\ UNCHANGED <<cache, lone>>
                    ELSE cache' = Overlay(cache, s) /\ Disturb(s, job[s].fetched) /\ UNCHANGED owner
    /\ pc' = [pc EXCEPT ![s] = "addressUpdated"]
    /\ UNCHANGED <<abp, mirror, job, inst, stored>>

\* mutant: the subscriber writes outside the transaction
NotifyOutside(s) ==
    /\ pc[s] = "addressUpdated"
    /\ mirror' = Overlay(mirror, s)
    /\ pc' = [pc EXCEPT ![s] = "done"]
    /\ UNCHANGED <<abp, cache, owner, job, inst, lone, stored>>

\* the subscriber copies the dirty fields and returns
Notify(s) ==
    /\ pc[s] = "addressUpdated"
    /\ mirror' = IF Atomic(s) THEN mirror ELSE Overlay(mirror, s)
    /\ pc' = [pc EXCEPT ![s] = "done"]
    /\ UNCHANGED <<abp, cache, owner, job, inst, lone, stored>>

\* mutant: the exception is swallowed and the transaction left open
SubscriberRaisesUnended(s) ==
    /\ pc[s] = "addressUpdated"
    /\ pc' = [pc EXCEPT ![s] = "idle"]
    /\ lone' = [lone EXCEPT ![s] = FALSE]
    /\ UNCHANGED <<abp, cache, mirror, inst, stored, job, owner>>

\* the subscriber raises: the transaction, if there is one, rolls back; the
\* objects in memory stay as the handler left them
SubscriberRaises(s) ==
    /\ pc[s] = "addressUpdated"
    /\ End(s)
    /\ lone' = [lone EXCEPT ![s] = FALSE]
    /\ UNCHANGED <<abp, cache, mirror, inst, stored>>

\* the save returns, after the COMMIT of its transaction
Finish(s) ==
    /\ pc[s] = "done"
    /\ IF Atomic(s)
       THEN /\ CommitRow(job[s].key, job[s].row)
            /\ cache' = Overlay(cache, s)
            /\ mirror' = Overlay(mirror, s)
            /\ Disturb(s, job[s].fetched)
       ELSE UNCHANGED <<abp, cache, mirror, lone, stored>>
    /\ End(s)
    /\ UNCHANGED inst

\* the process dies; the one that takes over reads the Address
Kill(s) ==
    /\ pc[s] # "idle"
    /\ End(s)
    /\ inst' = [inst EXCEPT ![s] = cache]
    /\ lone' = [lone EXCEPT ![s] = TRUE]
    /\ UNCHANGED <<abp, cache, mirror, stored>>

Advance(s) == Compare(s) \/ UpdateAddress(s) \/ Notify(s) \/ SubscriberRaises(s) \/ Finish(s)

Next ==
    \E s \in Sessions :
        \/ Load(s)
        \/ \E mode \in Modes, k \in Keys, row \in RowInputs : WriteRow(s, mode, k, row)
        \/ Advance(s)
        \/ Kill(s)

Spec == Init /\ [][Next]_vars

\* A session that has begun a save goes on with it.  The database queues the
\* waiters for a row lock, so one that waits is served in the end.
Fairness == \A s \in Sessions : SF_vars(Advance(s))

FairSpec == Spec /\ Fairness

-----------------------------------------------------------------------------
(* Properties *)

TypeOK ==
    /\ abp \in [Keys -> Row]
    /\ cache \in GeoidMap /\ mirror \in GeoidMap
    /\ owner \in Sessions \cup {NoSession}
    /\ pc \in [Sessions -> Steps]
    /\ \A s \in Sessions : IF pc[s] = "idle" THEN job[s] = <<>> ELSE job[s] \in Job
    /\ inst \in [Sessions -> GeoidMap]
    /\ lone \in [Sessions -> BOOLEAN]
    /\ stored \subseteq Types \X Geoids

AllIdle == \A s \in Sessions : pc[s] = "idle"

\* No overlapping, stale or rolled-back save puts a geoid into the cache that
\* no committed row of the address ever carried.
NoForeignGeoid ==
    \A t \in Types : cache[t] # Blank => <<t, cache[t]>> \in stored

\* "Subscribers run in the same DB transaction as the originating ABP write":
\* what the subscriber keeps is the cache, whoever raises, dies or overlaps.
SubscriberSharesFate == AllIdle => mirror = cache

\* At the commit of a save that had the address to itself since its caller
\* read it, the types it touched are current.
LoneSaveIsCurrent ==
    [][\A s \in Sessions :
          Finish(s) /\ lone[s] /\ IsCurrentVintage(job[s].key[1], Today) =>
              \A t \in Touched(job[s].row) :
                  Answers(abp', t, Today) # {} => cache'[t] \in Answers(abp', t, Today)]_vars

\* Waiting for the row and address locks never becomes waiting for each other.
SavesEnd == \A s \in Sessions : pc[s] # "idle" ~> pc[s] = "idle"

\* "The cache becomes formally current-by-construction": with no save in
\* progress, the cached geoids are the ones current_boundaries() gives.
CurrentByConstruction ==
    AllIdle => \A t \in Types :
        Answers(abp, t, Today) # {} => cache[t] \in Answers(abp, t, Today)

\* The statements of a save amount to the indivisible step of CurrentCache.
Promise == INSTANCE CurrentCache
PromiseKept == Promise!Spec
=============================================================================
