--------------------- MODULE AddressCacheSessionsProofs ---------------------
(***************************************************************************)
(* Proofs about AddressCacheSessions, for any number of sessions, rows and *)
(* vintages and for saves in and out of transactions: what may get into    *)
(* the cache, and what a save that nobody disturbs leaves there.           *)
(***************************************************************************)
EXTENDS AddressCacheSessions, BoundaryPeriodsProofs

USE DEF NoDate, Date, ContextDate

-----------------------------------------------------------------------------
(* Invariants *)

\* every session has a job, which is empty between saves
JobsTyped == job \in [Sessions -> Job \cup {<<>>}]

\* what committed rows carry has been recorded
RowsStored == \A k \in Keys : GeoidsOf(abp[k]) \subseteq stored

\* a geoid on its way to the cache comes from a committed row or from the one
\* its own transaction will commit with it
JobsKnown ==
    \A s \in Sessions : pc[s] # "idle" =>
        \A t \in job[s].dirty :
            \/ <<t, job[s].target[t]>> \in stored
            \/ Atomic(s) /\ <<t, job[s].target[t]>> \in GeoidsOf(job[s].row)

Provenance == RowsStored /\ NoForeignGeoid /\ JobsKnown

Compared(s) == pc[s] \in {"compared", "addressUpdated", "done"}

\* the types a save may move: those it touches and some row answers for
Moved(s) ==
    {t \in Touched(job[s].row) : /\ IsCurrentVintage(job[s].key[1], Today)
                                 /\ Eligible(Visible(s), t, Today) # {}}

\* before the handler has run, a caller nobody disturbed holds what is cached
LoneIsFresh(s) == pc[s] \in {"idle", "rowWritten"} => inst[s] = cache

\* after it has, its object is up to date in memory, answered by the rows it
\* sees and equal to the cache wherever it found no difference
LoneIsResolved(s) ==
    Compared(s) =>
        /\ inst[s] = IF job[s].fetched THEN cache ELSE job[s].target
        /\ \A t \in Types \ job[s].dirty : job[s].target[t] = cache[t]
        /\ \A t \in Moved(s) : job[s].target[t] \in Answers(Visible(s), t, Today)
        /\ job[s].dirty \subseteq Moved(s)

\* outside a transaction the update is committed at once
LoneIsWritten(s) ==
    pc[s] \in {"addressUpdated", "done"} /\ ~Atomic(s) =>
        \A t \in job[s].dirty : cache[t] = job[s].target[t]

Undisturbed ==
    \A s \in Sessions : lone[s] => LoneIsFresh(s) /\ LoneIsResolved(s) /\ LoneIsWritten(s)

-----------------------------------------------------------------------------
(* Type correctness *)

IInv == TypeOK /\ JobsTyped

LEMMA VisibleRows ==
    ASSUME IInv, NEW s \in Sessions
    PROVE  Visible(s) \in [Keys -> Row]
<1>1. CASE Uncommitted(s)
  <2>1. job[s] \in Job
    BY <1>1 DEF IInv, TypeOK, Uncommitted
  <2>2. job[s].row \in Row
    BY <2>1, InputsAssumption DEF Job
  <2> QED
    BY <1>1, <2>2 DEF Visible, IInv, TypeOK
<1>2. CASE ~Uncommitted(s)
  BY <1>2 DEF Visible, IInv, TypeOK
<1> QED
  BY <1>1, <1>2

LEMMA OverlayType ==
    ASSUME IInv, NEW s \in Sessions, pc[s] # "idle", NEW geoids \in GeoidMap
    PROVE  Overlay(geoids, s) \in GeoidMap
<1>1. job[s] \in Job
  BY DEF IInv, TypeOK
<1> QED
  BY <1>1 DEF Overlay, Job, GeoidMap

\* A row that is committed leaves rows and records typed.
LEMMA CommitType ==
    ASSUME IInv, NEW k \in Keys, NEW row \in RowInputs, CommitRow(k, row)
    PROVE  abp' \in [Keys -> Row] /\ stored' \subseteq Types \X Geoids
<1>1. row \in Row
  BY InputsAssumption
<1>2. GeoidsOf(row) \subseteq Types \X Geoids
  BY <1>1 DEF GeoidsOf, Touched, Row, GeoidOrBlank
<1> QED
  BY <1>1, <1>2 DEF CommitRow, IInv, TypeOK

\* A save that ends leaves its session without a job and others as they were.
LEMMA EndType ==
    ASSUME IInv, NEW s \in Sessions, End(s)
    PROVE  /\ owner' \in Sessions \cup {NoSession}
           /\ pc' \in [Sessions -> Steps]
           /\ \A r \in Sessions : IF pc'[r] = "idle" THEN job'[r] = <<>> ELSE job'[r] \in Job
           /\ JobsTyped'
<1>1. /\ pc' = [pc EXCEPT ![s] = "idle"]
      /\ job' = [job EXCEPT ![s] = <<>>]
      /\ owner' \in {owner, NoSession}
  BY DEF End
<1>2. pc'[s] = "idle" /\ job'[s] = <<>>
  BY <1>1 DEF IInv, TypeOK, JobsTyped
<1>3. \A r \in Sessions \ {s} : pc'[r] = pc[r] /\ job'[r] = job[r]
  BY <1>1 DEF IInv, TypeOK, JobsTyped
<1> QED
  BY <1>1, <1>2, <1>3 DEF IInv, TypeOK, JobsTyped, Steps

\* A statement that moves a session on and keeps its job one.
LEMMA MoveType ==
    ASSUME IInv, NEW s \in Sessions, NEW step \in Steps \ {"idle"}, NEW j \in Job,
           pc' = [pc EXCEPT ![s] = step], job' = [job EXCEPT ![s] = j]
    PROVE  /\ pc' \in [Sessions -> Steps]
           /\ \A r \in Sessions : IF pc'[r] = "idle" THEN job'[r] = <<>> ELSE job'[r] \in Job
           /\ JobsTyped'
<1>1. pc'[s] = step /\ job'[s] = j
  BY DEF IInv, TypeOK, JobsTyped
<1>2. \A r \in Sessions \ {s} : pc'[r] = pc[r] /\ job'[r] = job[r]
  BY DEF IInv, TypeOK, JobsTyped
<1> QED
  BY <1>1, <1>2 DEF IInv, TypeOK, JobsTyped

LEMMA TypesInit == Init => IInv
<1> SUFFICES ASSUME Init PROVE IInv
  OBVIOUS
<1>1. EmptyRow \in Row /\ BlankGeoids \in GeoidMap
  BY DEF EmptyRow, Row, BlankGeoids, GeoidMap, GeoidOrBlank
<1> QED
  BY <1>1 DEF Init, IInv, TypeOK, JobsTyped, Steps

LEMMA TypesStep == IInv /\ [Next]_vars => IInv'
<1> SUFFICES ASSUME IInv, [Next]_vars PROVE IInv'
  OBVIOUS
<1> USE DEF IInv
<1>1. ASSUME NEW s \in Sessions, Load(s)
      PROVE  IInv'
  BY <1>1 DEF Load, TypeOK, JobsTyped
<1>2. ASSUME NEW s \in Sessions, NEW mode \in Modes, NEW k \in Keys, NEW row \in RowInputs,
             WriteRow(s, mode, k, row)
      PROVE  IInv'
  <2> DEFINE j == [mode |-> mode, key |-> k, row |-> row, fetched |-> abp[k] # EmptyRow,
                   target |-> inst[s], dirty |-> {}]
  <2>1. inst[s] \in GeoidMap
    BY DEF TypeOK
  <2>2. j \in Job
    BY <2>1 DEF Job
  <2>3. /\ pc' = [pc EXCEPT ![s] = "rowWritten"] /\ job' = [job EXCEPT ![s] = j]
        /\ UNCHANGED <<cache, mirror, owner, inst>>
    BY <1>2 DEF WriteRow
  <2> HIDE DEF j
  <2>4. /\ pc' \in [Sessions -> Steps]
        /\ \A r \in Sessions : IF pc'[r] = "idle" THEN job'[r] = <<>> ELSE job'[r] \in Job
        /\ JobsTyped'
    BY <2>2, <2>3, MoveType DEF Steps
  <2>5. abp' \in [Keys -> Row] /\ stored' \subseteq Types \X Geoids /\ lone' \in [Sessions -> BOOLEAN]
    <3>1. CASE mode.atomic
      BY <1>2, <3>1 DEF WriteRow, TypeOK
    <3>2. CASE ~mode.atomic
      <4>1. CommitRow(k, row) /\ Disturb(s, FALSE)
        BY <1>2, <3>2 DEF WriteRow
      <4> QED
        BY <4>1, CommitType DEF Disturb, TypeOK
    <3> QED
      BY <3>1, <3>2
  <2> QED
    BY <2>3, <2>4, <2>5 DEF TypeOK
<1>3. ASSUME NEW s \in Sessions, Compare(s)
      PROVE  IInv'
  <2>1. job[s] \in Job /\ pc[s] = "rowWritten"
    BY <1>3 DEF Compare, TypeOK
  <2> DEFINE old == IF job[s].fetched THEN cache ELSE inst[s]
             resolved ==
               {t \in Touched(job[s].row) : /\ IsCurrentVintage(job[s].key[1], Today)
                                            /\ Eligible(Visible(s), t, Today) # {}}
             new(scan) == [t \in Types |-> IF t \in resolved
                                           THEN GeoidOn(Visible(s), t, Today, scan)
                                           ELSE old[t]]
  <2>2. PICK scan \in ScanOrders :
           /\ job' = [job EXCEPT ![s].target = new(scan),
                                 ![s].dirty = {t \in Types : new(scan)[t] # old[t]}]
           /\ inst' = IF job[s].fetched THEN inst ELSE [inst EXCEPT ![s] = new(scan)]
    BY <1>3 DEF Compare
  <2>3. new(scan) \in GeoidMap
    <3>1. old \in GeoidMap
      BY DEF TypeOK
    <3>2. \A t \in Types : GeoidOn(Visible(s), t, Today, scan) \in GeoidOrBlank
      BY VisibleRows, GeoidOnIsGeoid, InputsAssumption
    <3> HIDE DEF old, resolved
    <3> QED
      BY <3>1, <3>2 DEF GeoidMap
  <2> DEFINE dirty == {t \in Types : new(scan)[t] # old[t]}
             j == [job[s] EXCEPT !.target = new(scan), !.dirty = dirty]
  <2>4. job' = [job EXCEPT ![s] = j]
    BY <2>2 DEF JobsTyped
  <2>5. j \in Job
    <3>1. dirty \in SUBSET Types
      OBVIOUS
    <3> HIDE DEF dirty, new
    <3> QED
      BY <2>1, <2>3, <3>1 DEF Job
  <2>6. inst' \in [Sessions -> GeoidMap]
    <3> HIDE DEF new
    <3> QED
      BY <2>2, <2>3 DEF TypeOK
  <2> HIDE DEF j, new, old, resolved, dirty
  <2>7. \E step \in {"done", "compared"} : pc' = [pc EXCEPT ![s] = step]
    BY <1>3 DEF Compare
  <2>8. /\ pc' \in [Sessions -> Steps]
        /\ \A r \in Sessions : IF pc'[r] = "idle" THEN job'[r] = <<>> ELSE job'[r] \in Job
        /\ JobsTyped'
    BY <2>4, <2>5, <2>7, MoveType DEF Steps
  <2> QED
    BY <1>3, <2>6, <2>8 DEF Compare, TypeOK
<1>4. ASSUME NEW s \in Sessions, UpdateAddress(s)
      PROVE  IInv'
  <2>1. job[s] \in Job /\ pc[s] # "idle" /\ job' = [job EXCEPT ![s] = job[s]]
    BY <1>4 DEF UpdateAddress, TypeOK, JobsTyped
  <2>2. /\ pc' \in [Sessions -> Steps]
        /\ \A r \in Sessions : IF pc'[r] = "idle" THEN job'[r] = <<>> ELSE job'[r] \in Job
        /\ JobsTyped'
    BY <1>4, <2>1, MoveType DEF UpdateAddress, Steps
  <2>3. cache' \in GeoidMap
    BY <1>4, <2>1, OverlayType DEF UpdateAddress, TypeOK
  <2>4. owner' \in Sessions \cup {NoSession} /\ lone' \in [Sessions -> BOOLEAN]
    BY <1>4 DEF UpdateAddress, Disturb, TypeOK
  <2> QED
    BY <1>4, <2>2, <2>3, <2>4 DEF UpdateAddress, TypeOK
<1>5. ASSUME NEW s \in Sessions, Notify(s)
      PROVE  IInv'
  <2>1. job[s] \in Job /\ pc[s] # "idle" /\ job' = [job EXCEPT ![s] = job[s]]
    BY <1>5 DEF Notify, TypeOK, JobsTyped
  <2>2. /\ pc' \in [Sessions -> Steps]
        /\ \A r \in Sessions : IF pc'[r] = "idle" THEN job'[r] = <<>> ELSE job'[r] \in Job
        /\ JobsTyped'
    BY <1>5, <2>1, MoveType DEF Notify, Steps
  <2>3. mirror' \in GeoidMap
    BY <1>5, <2>1, OverlayType DEF Notify, TypeOK
  <2> QED
    BY <1>5, <2>2, <2>3 DEF Notify, TypeOK
<1>6. ASSUME NEW s \in Sessions, SubscriberRaises(s)
      PROVE  IInv'
  BY <1>6, EndType DEF SubscriberRaises, TypeOK
<1>7. ASSUME NEW s \in Sessions, Finish(s)
      PROVE  IInv'
  <2>1. job[s] \in Job /\ pc[s] # "idle"
    BY <1>7 DEF Finish, TypeOK
  <2>2. CASE Atomic(s)
    <3>1. /\ CommitRow(job[s].key, job[s].row) /\ Disturb(s, job[s].fetched)
          /\ cache' = Overlay(cache, s) /\ mirror' = Overlay(mirror, s)
          /\ End(s) /\ UNCHANGED inst
      BY <1>7, <2>2 DEF Finish
    <3>2. job[s].key \in Keys /\ job[s].row \in RowInputs
      BY <2>1 DEF Job
    <3>3. abp' \in [Keys -> Row] /\ stored' \subseteq Types \X Geoids
      BY <3>1, <3>2, CommitType
    <3>4. cache' \in GeoidMap /\ mirror' \in GeoidMap
      BY <2>1, <3>1, OverlayType DEF TypeOK
    <3>5. lone' \in [Sessions -> BOOLEAN]
      BY <3>1 DEF Disturb, TypeOK
    <3> QED
      BY <3>1, <3>3, <3>4, <3>5, EndType DEF TypeOK
  <2>3. CASE ~Atomic(s)
    BY <1>7, <2>3, EndType DEF Finish, TypeOK
  <2> QED
    BY <2>2, <2>3
<1>8. ASSUME NEW s \in Sessions, Kill(s)
      PROVE  IInv'
  BY <1>8, EndType DEF Kill, TypeOK
<1>9. CASE UNCHANGED vars
  BY <1>9 DEF vars, TypeOK, JobsTyped
<1> QED
  BY <1>1, <1>2, <1>3, <1>4, <1>5, <1>6, <1>7, <1>8, <1>9 DEF Next, Advance

\* Every reachable state of the sessions has the types of the models' fields.
THEOREM SessionsTypeCorrect == Spec => []TypeOK
<1>1. Spec => []IInv
  BY TypesInit, TypesStep, PTL DEF Spec
<1>2. IInv => TypeOK
  BY DEF IInv
<1> QED
  BY <1>1, <1>2, PTL

-----------------------------------------------------------------------------
(* Lemmas about the statements *)

\* What the handler of a save computes.
HandlerMoves(s, new) ==
    LET old == IF job[s].fetched THEN cache ELSE inst[s] IN
    /\ new \in GeoidMap
    /\ job'[s].target = new
    /\ job'[s].dirty = {t \in Types : new[t] # old[t]}
    /\ \A t \in Moved(s) : new[t] \in Answers(Visible(s), t, Today)
    /\ \A t \in Types \ Moved(s) : new[t] = old[t]
    /\ inst'[s] = IF job[s].fetched THEN inst[s] ELSE new

LEMMA HandlerResolves ==
    ASSUME IInv, NEW s \in Sessions, Compare(s)
    PROVE  /\ job'[s].mode = job[s].mode /\ job'[s].key = job[s].key
           /\ job'[s].row = job[s].row /\ job'[s].fetched = job[s].fetched
           /\ \E new \in GeoidMap : HandlerMoves(s, new)
<1>1. job[s] \in Job /\ pc[s] = "rowWritten" /\ Moved(s) \subseteq Types
  BY DEF Compare, TypeOK, IInv, Moved, Touched
<1> DEFINE old == IF job[s].fetched THEN cache ELSE inst[s]
           new(scan) == [t \in Types |-> IF t \in Moved(s)
                                         THEN GeoidOn(Visible(s), t, Today, scan)
                                         ELSE old[t]]
<1>2. PICK scan \in ScanOrders :
         /\ job' = [job EXCEPT ![s].target = new(scan),
                               ![s].dirty = {t \in Types : new(scan)[t] # old[t]}]
         /\ inst' = IF job[s].fetched THEN inst ELSE [inst EXCEPT ![s] = new(scan)]
  BY DEF Compare, Moved
<1>3. \A t \in Moved(s) : GeoidOn(Visible(s), t, Today, scan) \in Answers(Visible(s), t, Today)
  BY <1>1, VisibleRows, EligibleIsAnswered, InputsAssumption DEF Answers, Moved
<1>4. new(scan) \in GeoidMap
  <2>1. old \in GeoidMap
    BY DEF IInv, TypeOK
  <2>2. \A t \in Types : GeoidOn(Visible(s), t, Today, scan) \in GeoidOrBlank
    BY VisibleRows, GeoidOnIsGeoid, InputsAssumption
  <2> HIDE DEF old
  <2> QED
    BY <2>1, <2>2 DEF GeoidMap
<1>5. /\ \A t \in Moved(s) : new(scan)[t] = GeoidOn(Visible(s), t, Today, scan)
      /\ \A t \in Types \ Moved(s) : new(scan)[t] = old[t]
  BY <1>1
<1> DEFINE dirty == {t \in Types : new(scan)[t] # old[t]}
           j == [job[s] EXCEPT !.target = new(scan), !.dirty = dirty]
<1>6. job'[s] = j
  BY <1>2 DEF IInv, JobsTyped
<1>7. inst'[s] = IF job[s].fetched THEN inst[s] ELSE new(scan)
  <2> HIDE DEF new
  <2> QED
    BY <1>2 DEF IInv, TypeOK
<1>8. /\ j.target = new(scan) /\ j.dirty = dirty /\ j.mode = job[s].mode
      /\ j.key = job[s].key /\ j.row = job[s].row /\ j.fetched = job[s].fetched
  <2> HIDE DEF dirty, new
  <2> QED
    BY <1>1 DEF Job
<1>9. HandlerMoves(s, new(scan))
  BY <1>3, <1>4, <1>5, <1>6, <1>7, <1>8 DEF HandlerMoves
<1> QED
  BY <1>4, <1>6, <1>8, <1>9

\* What a session does is seen in no other's place, object or job.
LEMMA OnlyOwnJob ==
    ASSUME IInv, NEW s \in Sessions, NEW r \in Sessions \ {s},
           \/ Load(s)
           \/ \E mode \in Modes, k \in Keys, row \in RowInputs : WriteRow(s, mode, k, row)
           \/ Advance(s)
           \/ Kill(s)
    PROVE  job'[r] = job[r] /\ pc'[r] = pc[r] /\ inst'[r] = inst[r]
<1> USE DEF IInv, TypeOK, JobsTyped
<1>1. CASE Load(s)
  BY <1>1 DEF Load
<1>2. CASE \E mode \in Modes, k \in Keys, row \in RowInputs : WriteRow(s, mode, k, row)
  BY <1>2 DEF WriteRow
<1>3. CASE Compare(s)
  <2>1. \E new, dirty : job' = [job EXCEPT ![s].target = new, ![s].dirty = dirty]
    BY <1>3 DEF Compare
  <2>2. \E new : inst' = IF job[s].fetched THEN inst ELSE [inst EXCEPT ![s] = new]
    BY <1>3 DEF Compare
  <2>3. \E step : pc' = [pc EXCEPT ![s] = step]
    BY <1>3 DEF Compare
  <2> QED
    BY <2>1, <2>2, <2>3
<1>4. CASE UpdateAddress(s)
  BY <1>4 DEF UpdateAddress
<1>5. CASE Notify(s)
  BY <1>5 DEF Notify
<1>6. CASE SubscriberRaises(s)
  BY <1>6 DEF SubscriberRaises, End
<1>7. CASE Finish(s)
  BY <1>7 DEF Finish, End
<1>8. CASE Kill(s)
  BY <1>8 DEF Kill, End
<1> QED
  BY <1>1, <1>2, <1>3, <1>4, <1>5, <1>6, <1>7, <1>8 DEF Advance

-----------------------------------------------------------------------------
(* Where the cached geoids come from *)

LEMMA ProvenanceStep ==
    ASSUME IInv, IInv', Provenance, [Next]_vars
    PROVE  Provenance'
<1> USE DEF Provenance
<1>1. ASSUME UNCHANGED <<abp, cache, stored>>,
             NEW s \in Sessions,
             \A r \in Sessions \ {s} : job'[r] = job[r] /\ pc'[r] = pc[r],
             pc'[s] = "idle" \/ (pc[s] # "idle" /\ job'[s] = job[s])
      PROVE  Provenance'
  BY <1>1 DEF RowsStored, NoForeignGeoid, JobsKnown, Atomic
<1>2. ASSUME NEW s \in Sessions, NEW k \in Keys, NEW row \in RowInputs, CommitRow(k, row)
      PROVE  RowsStored' /\ stored \subseteq stored' /\ GeoidsOf(row) \subseteq stored'
  <2>1. abp' = [abp EXCEPT ![k] = row] /\ stored' = stored \cup GeoidsOf(row)
    BY <1>2 DEF CommitRow
  <2>2. \A j \in Keys : GeoidsOf(abp'[j]) \subseteq stored'
    <3>1. abp'[k] = row /\ \A j \in Keys \ {k} : abp'[j] = abp[j]
      BY <2>1 DEF IInv, TypeOK
    <3> QED
      BY <2>1, <3>1 DEF RowsStored
  <2> QED
    BY <2>1, <2>2 DEF RowsStored
<1>3. ASSUME NEW s \in Sessions, NEW mode \in Modes, NEW k \in Keys, NEW row \in RowInputs,
             WriteRow(s, mode, k, row)
      PROVE  Provenance'
  <2>1. job'[s].dirty = {} /\ \A r \in Sessions \ {s} : job'[r] = job[r] /\ pc'[r] = pc[r]
    <3>1. \E fetched, target : job'[s] =
              [mode |-> mode, key |-> k, row |-> row, fetched |-> fetched,
               target |-> target, dirty |-> {}]
      BY <1>3 DEF WriteRow, IInv, JobsTyped
    <3> QED
      BY <1>3, <3>1, OnlyOwnJob
  <2>2. RowsStored' /\ stored \subseteq stored' /\ cache' = cache
    BY <1>2, <1>3 DEF WriteRow, RowsStored
  <2> QED
    BY <2>1, <2>2 DEF NoForeignGeoid, JobsKnown, Atomic
<1>4. ASSUME NEW s \in Sessions, Compare(s)
      PROVE  Provenance'
  <2>1. UNCHANGED <<abp, cache, stored>> /\ pc[s] = "rowWritten" /\ job[s] \in Job
    BY <1>4 DEF Compare, IInv, TypeOK
  <2>2. PICK new \in GeoidMap : HandlerMoves(s, new)
    BY <1>4, HandlerResolves
  <2>3. ASSUME NEW t \in job'[s].dirty
        PROVE  \/ <<t, job'[s].target[t]>> \in stored
               \/ Atomic(s) /\ <<t, job'[s].target[t]>> \in GeoidsOf(job[s].row)
    <3>1. t \in Types /\ t \in Moved(s) /\ job'[s].target[t] \in Answers(Visible(s), t, Today)
      BY <2>2, <2>3 DEF HandlerMoves
    <3>2. PICK k \in Latest(Visible(s), t, Today) : job'[s].target[t] = Visible(s)[k].geoid[t]
      BY <3>1 DEF Answers
    <3>3. k \in Keys /\ Visible(s)[k].geoid[t] # Blank
      BY <3>2 DEF Latest, Eligible
    <3>4. <<t, job'[s].target[t]>> \in GeoidsOf(Visible(s)[k])
      BY <3>1, <3>2, <3>3 DEF GeoidsOf, Touched
    <3>5. CASE Uncommitted(s) /\ k = job[s].key
      <4>1. Visible(s)[k] = job[s].row
        BY <3>3, <3>5 DEF Visible, IInv, TypeOK
      <4> QED
        BY <3>4, <3>5, <4>1 DEF Uncommitted
    <3>6. CASE ~(Uncommitted(s) /\ k = job[s].key)
      <4>1. Visible(s)[k] = abp[k]
        BY <3>3, <3>6 DEF Visible, IInv, TypeOK
      <4> QED
        BY <3>3, <3>4, <4>1 DEF RowsStored
    <3> QED
      BY <3>5, <3>6
  <2>4. \A r \in Sessions \ {s} : job'[r] = job[r] /\ pc'[r] = pc[r]
    BY <1>4, OnlyOwnJob DEF Advance
  <2>5. job'[s].mode = job[s].mode /\ job'[s].row = job[s].row
    BY <1>4, HandlerResolves
  <2> QED
    BY <2>1, <2>3, <2>4, <2>5 DEF RowsStored, NoForeignGeoid, JobsKnown, Atomic
<1>5. ASSUME NEW s \in Sessions, UpdateAddress(s)
      PROVE  Provenance'
  <2>1. UNCHANGED <<abp, job, stored>> /\ pc[s] = "compared" /\ pc' = [pc EXCEPT ![s] = "addressUpdated"]
    BY <1>5 DEF UpdateAddress
  <2>2. \A r \in Sessions : pc'[r] # "idle" => pc[r] # "idle"
    BY <2>1 DEF IInv, TypeOK
  <2>3. RowsStored' /\ JobsKnown'
    BY <2>1, <2>2 DEF RowsStored, JobsKnown, Atomic
  <2>4. CASE Atomic(s)
    BY <1>5, <2>1, <2>3, <2>4 DEF UpdateAddress, NoForeignGeoid
  <2>5. CASE ~Atomic(s)
    <3>1. cache' = Overlay(cache, s)
      BY <1>5, <2>5 DEF UpdateAddress
    <3> QED
      BY <2>1, <2>3, <2>5, <3>1 DEF Overlay, NoForeignGeoid, JobsKnown
  <2> QED
    BY <2>4, <2>5
<1>6. ASSUME NEW s \in Sessions, Finish(s)
      PROVE  Provenance'
  <2>1. pc'[s] = "idle" /\ pc[s] = "done" /\ job[s] \in Job
    BY <1>6 DEF Finish, End, IInv, TypeOK
  <2>2. \A r \in Sessions \ {s} : job'[r] = job[r] /\ pc'[r] = pc[r]
    BY <1>6, OnlyOwnJob DEF Advance
  <2>3. CASE Atomic(s)
    <3>1. CommitRow(job[s].key, job[s].row) /\ cache' = Overlay(cache, s)
      BY <1>6, <2>3 DEF Finish
    <3>2. RowsStored' /\ stored \subseteq stored' /\ GeoidsOf(job[s].row) \subseteq stored'
      BY <1>2, <2>1, <3>1 DEF Job
    <3>3. NoForeignGeoid'
      BY <2>1, <3>1, <3>2 DEF Overlay, NoForeignGeoid, JobsKnown
    <3> QED
      BY <2>1, <2>2, <3>2, <3>3 DEF JobsKnown, Atomic
  <2>4. CASE ~Atomic(s)
    BY <1>1, <1>6, <2>1, <2>2, <2>4 DEF Finish
  <2> QED
    BY <2>3, <2>4
<1>7. ASSUME NEW s \in Sessions, Load(s)
      PROVE  Provenance'
  BY <1>7 DEF Load, RowsStored, NoForeignGeoid, JobsKnown, Atomic
<1>8. ASSUME NEW s \in Sessions, Notify(s)
      PROVE  Provenance'
  <2>1. UNCHANGED <<abp, cache, stored, job>> /\ pc[s] # "idle"
    BY <1>8 DEF Notify
  <2>2. \A r \in Sessions \ {s} : job'[r] = job[r] /\ pc'[r] = pc[r]
    BY <1>8, OnlyOwnJob DEF Advance
  <2> QED
    BY <1>1, <2>1, <2>2
<1>9. ASSUME NEW s \in Sessions, SubscriberRaises(s) \/ Kill(s)
      PROVE  Provenance'
  <2>1. UNCHANGED <<abp, cache, stored>> /\ pc'[s] = "idle"
    BY <1>9 DEF SubscriberRaises, Kill, End, IInv, TypeOK
  <2>2. \A r \in Sessions \ {s} : job'[r] = job[r] /\ pc'[r] = pc[r]
    BY <1>9, OnlyOwnJob DEF Advance
  <2> QED
    BY <1>1, <2>1, <2>2
<1>10. CASE UNCHANGED vars
  BY <1>10 DEF vars, RowsStored, NoForeignGeoid, JobsKnown, Atomic
<1> QED
  BY <1>3, <1>4, <1>5, <1>6, <1>7, <1>8, <1>9, <1>10 DEF Next, Advance

\* Saves of any number of sessions, in or out of transactions, overlapping,
\* raising and dying, put no geoid into the cache that no committed row of the
\* address has carried.
THEOREM NoForeignGeoidEver == Spec => []NoForeignGeoid
<1>1. Init => Provenance
  <2> SUFFICES ASSUME Init PROVE Provenance
    OBVIOUS
  <2>1. \A k \in Keys : GeoidsOf(abp[k]) = {}
    BY DEF Init, EmptyRow, GeoidsOf, Touched
  <2> QED
    BY <2>1 DEF Init, Provenance, RowsStored, NoForeignGeoid, JobsKnown, BlankGeoids
<1>2. IInv /\ IInv' /\ Provenance /\ [Next]_vars => Provenance'
  BY ProvenanceStep
<1>3. Spec => []IInv
  BY TypesInit, TypesStep, PTL DEF Spec
<1>4. Provenance => NoForeignGeoid
  BY DEF Provenance
<1> QED
  BY <1>1, <1>2, <1>3, <1>4, PTL DEF Spec

-----------------------------------------------------------------------------
(* The subscriber *)

InTransactions == \A mode \in Modes : mode.atomic

\* the subscriber holds what the cache holds
Same == mirror = cache

LEMMA SameStep ==
    ASSUME InTransactions, IInv, Same, [Next]_vars
    PROVE  Same'
<1> USE DEF Same
<1>1. \A s \in Sessions : pc[s] # "idle" => Atomic(s)
  BY DEF IInv, TypeOK, Job, Atomic, InTransactions
<1>2. ASSUME NEW s \in Sessions, UpdateAddress(s) \/ Notify(s) \/ Finish(s)
      PROVE  Same'
  <2>1. Atomic(s)
    BY <1>1, <1>2 DEF UpdateAddress, Notify, Finish
  <2> QED
    BY <1>2, <2>1 DEF UpdateAddress, Notify, Finish
<1>3. ASSUME NEW s \in Sessions,
             Load(s) \/ Compare(s) \/ SubscriberRaises(s) \/ Kill(s)
               \/ \E mode \in Modes, k \in Keys, row \in RowInputs : WriteRow(s, mode, k, row)
      PROVE  Same'
  BY <1>3 DEF Load, WriteRow, Compare, SubscriberRaises, Kill
<1>4. CASE UNCHANGED vars
  BY <1>4 DEF vars
<1> QED
  BY <1>2, <1>3, <1>4 DEF Next, Advance

\* When callers save inside transactions, as update_or_create does, what the
\* subscriber keeps is what the cache holds, whoever raises, dies or overlaps;
\* hence the property of the subscriber that the code's comment states.
THEOREM SubscriberAlwaysSharesFate ==
    ASSUME InTransactions
    PROVE  Spec => []SubscriberSharesFate
<1>1. Init => Same
  BY DEF Init, Same
<1>2. IInv /\ Same /\ [Next]_vars => Same'
  BY SameStep
<1>3. Spec => []IInv
  BY TypesInit, TypesStep, PTL DEF Spec
<1>4. Same => SubscriberSharesFate
  BY DEF Same, SubscriberSharesFate
<1> QED
  BY <1>1, <1>2, <1>3, <1>4, PTL DEF Spec

-----------------------------------------------------------------------------
(* A save nobody disturbs *)

Lone(s) == LoneIsFresh(s) /\ LoneIsResolved(s) /\ LoneIsWritten(s)

\* What is said of a session depends on its own place, object and job and on
\* the committed rows and cache.
LEMMA LoneKeeps ==
    ASSUME NEW r \in Sessions, Lone(r), UNCHANGED <<abp, cache>>,
           job'[r] = job[r], pc'[r] = pc[r], inst'[r] = inst[r]
    PROVE  Lone(r)'
<1>1. Visible(r)' = Visible(r)
  BY DEF Visible, Uncommitted, Atomic
<1>2. Moved(r)' = Moved(r)
  BY <1>1 DEF Moved
<1> QED
  BY <1>1, <1>2 DEF Lone, LoneIsFresh, LoneIsResolved, LoneIsWritten, Compared, Atomic, Answers

\* A session that ends or begins with the cached geoids in its object is fresh.
LEMMA LoneBegins ==
    ASSUME NEW r \in Sessions, pc'[r] = "idle", inst'[r] = cache'
    PROVE  Lone(r)'
BY DEF Lone, LoneIsFresh, LoneIsResolved, LoneIsWritten, Compared

\* A commit leaves nobody alone but the one who made it.
LEMMA OnlyCommitterLone ==
    ASSUME IInv, NEW s \in Sessions, NEW r \in Sessions, NEW fetched \in BOOLEAN,
           Disturb(s, fetched), lone'[r]
    PROVE  r = s /\ lone[r] /\ ~fetched
BY DEF Disturb

LEMMA UndisturbedStep ==
    ASSUME IInv, IInv', Undisturbed, [Next]_vars
    PROVE  Undisturbed'
<1> SUFFICES ASSUME NEW r \in Sessions, lone'[r]
             PROVE  Lone(r)'
  BY DEF Undisturbed, Lone
<1>a. lone[r] => Lone(r)
  BY DEF Undisturbed, Lone
<1>b. \A s \in Sessions : pc[s] # "idle" => job[s] \in Job
  BY DEF IInv, TypeOK
<1>1. ASSUME NEW s \in Sessions, Load(s)
      PROVE  Lone(r)'
  <2>1. CASE r = s
    <3>1. pc'[r] = "idle" /\ inst'[r] = cache'
      BY <1>1, <2>1 DEF Load, IInv, TypeOK
    <3> QED
      BY <3>1, LoneBegins
  <2>2. CASE r # s
    BY <1>1, <1>a, <2>2, OnlyOwnJob, LoneKeeps DEF Load, IInv, TypeOK
  <2> QED
    BY <2>1, <2>2
<1>2. ASSUME NEW s \in Sessions, NEW mode \in Modes, NEW k \in Keys, NEW row \in RowInputs,
             WriteRow(s, mode, k, row)
      PROVE  Lone(r)'
  <2>1. CASE r = s
    <3>1. lone[r]
      BY <1>2, <2>1, OnlyCommitterLone DEF WriteRow
    <3>2. pc[r] = "idle" /\ pc'[r] = "rowWritten" /\ inst'[r] = inst[r] /\ cache' = cache
      BY <1>2, <2>1 DEF WriteRow, IInv, TypeOK
    <3> QED
      BY <1>a, <3>1, <3>2 DEF Lone, LoneIsFresh, LoneIsResolved, LoneIsWritten, Compared
  <2>2. CASE r # s
    <3>1. mode.atomic
      BY <1>2, <2>2, OnlyCommitterLone DEF WriteRow
    <3> QED
      BY <1>2, <1>a, <2>2, <3>1, OnlyOwnJob, LoneKeeps DEF WriteRow
  <2> QED
    BY <2>1, <2>2
<1>3. ASSUME NEW s \in Sessions, Compare(s)
      PROVE  Lone(r)'
  <2>1. UNCHANGED <<abp, cache, lone>> /\ pc[s] = "rowWritten"
    BY <1>3 DEF Compare
  <2>2. CASE r = s
    <3>1. lone[r] /\ Lone(r)
      BY <1>a, <2>1
    <3>2. pc'[r] \in {"compared", "done"} /\ (pc'[r] = "done" => job'[r].dirty = {})
      <4>1. pc' = [pc EXCEPT ![s] = IF job'[s].dirty = {} THEN "done" ELSE "compared"]
        BY <1>3 DEF Compare
      <4> QED
        BY <2>2, <4>1 DEF IInv, TypeOK
    <3>3. PICK new \in GeoidMap : HandlerMoves(r, new)
      BY <1>3, <2>2, HandlerResolves
    <3>4. /\ job'[r].mode = job[r].mode /\ job'[r].key = job[r].key
          /\ job'[r].row = job[r].row /\ job'[r].fetched = job[r].fetched
      BY <1>3, <2>2, HandlerResolves
    <3>5. inst[r] = cache
      BY <2>1, <2>2, <3>1 DEF Lone, LoneIsFresh
    <3>6. Visible(r)' = Visible(r)
      BY <2>1, <2>2, <3>2, <3>4 DEF Visible, Uncommitted, Atomic
    <3>7. Moved(r)' = Moved(r)
      BY <3>4, <3>6 DEF Moved
    <3>8. LoneIsResolved(r)'
      BY <2>1, <3>3, <3>4, <3>5, <3>6, <3>7 DEF LoneIsResolved, HandlerMoves, Answers
    <3> QED
      BY <3>2, <3>8 DEF Lone, LoneIsFresh, LoneIsWritten
  <2>3. CASE r # s
    BY <1>3, <1>a, <2>1, <2>3, OnlyOwnJob, LoneKeeps DEF Advance
  <2> QED
    BY <2>2, <2>3
<1>4. ASSUME NEW s \in Sessions, UpdateAddress(s)
      PROVE  Lone(r)'
  <2>1. UNCHANGED <<abp, job, inst>> /\ pc[s] = "compared"
        /\ pc' = [pc EXCEPT ![s] = "addressUpdated"]
    BY <1>4 DEF UpdateAddress
  <2>2. job[s].fetched \in BOOLEAN
    BY <1>b, <2>1 DEF Job
  <2>3. CASE r = s
    <3>1. lone[r] /\ Lone(r)
      BY <1>4, <1>a, <2>2, <2>3, OnlyCommitterLone DEF UpdateAddress
    <3>2. pc'[r] = "addressUpdated"
      BY <2>1, <2>3 DEF IInv, TypeOK
    <3>3. Visible(r)' = Visible(r)
      BY <2>1, <2>3, <3>2 DEF Visible, Uncommitted, Atomic
    <3>4. Moved(r)' = Moved(r)
      BY <2>1, <3>3 DEF Moved
    <3>5. LoneIsResolved(r)
      BY <3>1 DEF Lone
    <3>6. CASE Atomic(r)
      <4>1. cache' = cache
        BY <1>4, <2>3, <3>6 DEF UpdateAddress
      <4> QED
        BY <2>1, <2>3, <3>2, <3>3, <3>4, <3>5, <3>6, <4>1
           DEF Lone, LoneIsFresh, LoneIsResolved, LoneIsWritten, Compared, Atomic, Answers
    <3>7. CASE ~Atomic(r)
      <4>1. cache' = Overlay(cache, r) /\ ~job[r].fetched
        BY <1>4, <2>2, <2>3, <3>7, OnlyCommitterLone DEF UpdateAddress
      <4>2. \A t \in Types : t \in job[r].dirty => cache'[t] = job[r].target[t]
        BY <4>1 DEF Overlay
      <4>3. \A t \in Types : t \notin job[r].dirty => cache'[t] = cache[t]
        BY <4>1 DEF Overlay
      <4>4. job[r].dirty \subseteq Types
        BY <1>b, <2>1, <2>3 DEF Job
      <4> QED
        BY <2>1, <2>3, <3>2, <3>3, <3>4, <3>5, <4>1, <4>2, <4>3, <4>4
           DEF Lone, LoneIsFresh, LoneIsResolved, LoneIsWritten, Compared, Answers
    <3> QED
      BY <3>6, <3>7
  <2>4. CASE r # s
    <3>1. Atomic(s)
      BY <1>4, <2>2, <2>4, OnlyCommitterLone DEF UpdateAddress
    <3> QED
      BY <1>4, <1>a, <2>4, <3>1, OnlyOwnJob, LoneKeeps DEF UpdateAddress, Advance
  <2> QED
    BY <2>3, <2>4
<1>5. ASSUME NEW s \in Sessions, Notify(s)
      PROVE  Lone(r)'
  <2>1. UNCHANGED <<abp, cache, job, inst, lone>> /\ pc[s] = "addressUpdated"
        /\ pc' = [pc EXCEPT ![s] = "done"]
    BY <1>5 DEF Notify
  <2>2. CASE r = s
    <3>1. pc'[r] = "done" /\ pc[r] = "addressUpdated" /\ Lone(r)
      BY <1>a, <2>1, <2>2 DEF IInv, TypeOK
    <3>2. Visible(r)' = Visible(r)
      BY <2>1, <3>1 DEF Visible, Uncommitted, Atomic
    <3>3. Moved(r)' = Moved(r)
      BY <2>1, <3>2 DEF Moved
    <3> QED
      BY <2>1, <3>1, <3>2, <3>3
         DEF Lone, LoneIsFresh, LoneIsResolved, LoneIsWritten, Compared, Atomic, Answers
  <2>3. CASE r # s
    BY <1>5, <1>a, <2>1, <2>3, OnlyOwnJob, LoneKeeps DEF Advance
  <2> QED
    BY <2>2, <2>3
<1>6. ASSUME NEW s \in Sessions, SubscriberRaises(s)
      PROVE  Lone(r)'
  <2>1. r # s /\ lone[r] /\ UNCHANGED <<abp, cache>>
    BY <1>6 DEF SubscriberRaises, IInv, TypeOK
  <2> QED
    BY <1>6, <1>a, <2>1, OnlyOwnJob, LoneKeeps DEF Advance
<1>7. ASSUME NEW s \in Sessions, Finish(s)
      PROVE  Lone(r)'
  <2>1. pc[s] = "done" /\ End(s) /\ UNCHANGED inst /\ job[s] \in Job
    BY <1>7, <1>b DEF Finish
  <2>2. job[s].fetched \in BOOLEAN /\ job[s].dirty \subseteq Types /\ job[s].target \in GeoidMap
    BY <2>1 DEF Job
  <2>3. CASE r = s
    <3>1. lone[r] /\ Lone(r) /\ LoneIsResolved(r) /\ LoneIsWritten(r)
      BY <1>7, <1>a, <2>2, <2>3, OnlyCommitterLone DEF Finish, Lone
    <3>2. pc'[r] = "idle" /\ inst'[r] = inst[r]
      BY <2>1, <2>3 DEF End, IInv, TypeOK
    <3>3. \A t \in Types \ job[r].dirty : job[r].target[t] = cache[t]
      BY <2>1, <2>3, <3>1 DEF LoneIsResolved, Compared
    <3>4. cache \in GeoidMap
      BY DEF IInv, TypeOK
    <3>5. CASE Atomic(r)
      <4>1. cache' = Overlay(cache, r) /\ ~job[r].fetched
        BY <1>7, <2>2, <2>3, <3>5, OnlyCommitterLone DEF Finish
      <4>2. \A t \in Types : cache'[t] = job[r].target[t]
        BY <3>3, <4>1 DEF Overlay
      <4>3. cache' = job[r].target
        BY <2>2, <2>3, <4>1, <4>2 DEF Overlay, GeoidMap
      <4>4. inst[r] = job[r].target
        BY <2>1, <2>3, <3>1, <4>1 DEF LoneIsResolved, Compared
      <4> QED
        BY <3>2, <4>3, <4>4, LoneBegins
    <3>6. CASE ~Atomic(r)
      <4>1. cache' = cache
        BY <1>7, <2>3, <3>6 DEF Finish
      <4>2. \A t \in Types : cache[t] = job[r].target[t]
        BY <2>1, <2>3, <3>1, <3>3, <3>6 DEF LoneIsWritten
      <4>3. cache = job[r].target
        BY <2>2, <2>3, <3>4, <4>2 DEF GeoidMap
      <4>4. inst[r] = cache
        BY <2>1, <2>3, <3>1, <4>3 DEF LoneIsResolved, Compared
      <4> QED
        BY <3>2, <4>1, <4>4, LoneBegins
    <3> QED
      BY <3>5, <3>6
  <2>4. CASE r # s
    <3>1. ~Atomic(s)
      BY <1>7, <2>2, <2>4, OnlyCommitterLone DEF Finish
    <3> QED
      BY <1>7, <1>a, <2>4, <3>1, OnlyOwnJob, LoneKeeps DEF Finish, Advance
  <2> QED
    BY <2>3, <2>4
<1>8. ASSUME NEW s \in Sessions, Kill(s)
      PROVE  Lone(r)'
  <2>1. CASE r = s
    <3>1. pc'[r] = "idle" /\ inst'[r] = cache'
      BY <1>8, <2>1 DEF Kill, End, IInv, TypeOK
    <3> QED
      BY <3>1, LoneBegins
  <2>2. CASE r # s
    BY <1>8, <1>a, <2>2, OnlyOwnJob, LoneKeeps DEF Kill, IInv, TypeOK
  <2> QED
    BY <2>1, <2>2
<1>9. CASE UNCHANGED vars
  BY <1>9, <1>a, LoneKeeps DEF vars
<1> QED
  BY <1>1, <1>2, <1>3, <1>4, <1>5, <1>6, <1>7, <1>8, <1>9 DEF Next, Advance

LEMMA UndisturbedInit == Init => Undisturbed
BY DEF Init, Undisturbed, LoneIsFresh, LoneIsResolved, LoneIsWritten, Compared

LEMMA UndisturbedAlways == Spec => [](IInv /\ Undisturbed)
<1>1. Init => Undisturbed
  BY UndisturbedInit
<1>2. IInv /\ IInv' /\ Undisturbed /\ [Next]_vars => Undisturbed'
  BY UndisturbedStep
<1>3. Spec => []IInv
  BY TypesInit, TypesStep, PTL DEF Spec
<1> QED
  BY <1>1, <1>2, <1>3, PTL DEF Spec

\* At its end, an undisturbed save has brought about what the abstract cache
\* allows a write to do.
LEMMA LoneFinish ==
    ASSUME IInv, Undisturbed, NEW s \in Sessions, Finish(s), lone[s]
    PROVE  /\ abp' = Visible(s)
           /\ \A t \in Moved(s) : cache'[t] \in Answers(abp', t, Today)
           /\ \A t \in Types \ Moved(s) : cache'[t] = cache[t]
<1>1. /\ pc[s] = "done" /\ job[s] \in Job /\ LoneIsResolved(s) /\ LoneIsWritten(s)
      /\ job[s].dirty \subseteq Types /\ Moved(s) \subseteq Types
  BY DEF Finish, IInv, TypeOK, Undisturbed, Job, Moved, Touched
<1>2. /\ \A t \in Types \ job[s].dirty : job[s].target[t] = cache[t]
      /\ \A t \in Moved(s) : job[s].target[t] \in Answers(Visible(s), t, Today)
      /\ job[s].dirty \subseteq Moved(s)
  BY <1>1 DEF LoneIsResolved, Compared
<1>3. CASE Atomic(s)
  <2>1. abp' = Visible(s) /\ cache' = Overlay(cache, s)
    BY <1>1, <1>3 DEF Finish, CommitRow, Visible, Uncommitted
  <2>2. \A t \in Types : cache'[t] = job[s].target[t]
    BY <1>2, <2>1 DEF Overlay
  <2> QED
    BY <1>1, <1>2, <2>1, <2>2
<1>4. CASE ~Atomic(s)
  <2>1. abp' = abp /\ cache' = cache /\ Visible(s) = abp
    BY <1>4 DEF Finish, Visible, Uncommitted
  <2>2. \A t \in job[s].dirty : cache[t] = job[s].target[t]
    BY <1>1, <1>4 DEF LoneIsWritten
  <2> QED
    BY <1>1, <1>2, <1>4, <2>1, <2>2
<1> QED
  BY <1>3, <1>4

\* A save that had the address to itself since its caller read it commits with
\* the types it touched current, whatever other sessions did before.
THEOREM LoneSavesAreCurrent == Spec => LoneSaveIsCurrent
<1>1. IInv /\ Undisturbed /\ [Next]_vars =>
         \A s \in Sessions :
            Finish(s) /\ lone[s] /\ IsCurrentVintage(job[s].key[1], Today) =>
              \A t \in Touched(job[s].row) :
                  Answers(abp', t, Today) # {} => cache'[t] \in Answers(abp', t, Today)
  <2> SUFFICES ASSUME IInv, Undisturbed, NEW s \in Sessions, Finish(s), lone[s],
                      IsCurrentVintage(job[s].key[1], Today),
                      NEW t \in Touched(job[s].row), Answers(abp', t, Today) # {}
               PROVE  cache'[t] \in Answers(abp', t, Today)
    OBVIOUS
  <2>1. Eligible(Visible(s), t, Today) # {}
    BY LoneFinish DEF Answers, Latest
  <2>2. t \in Moved(s)
    BY <2>1 DEF Moved
  <2> QED
    BY <2>2, LoneFinish
<1> QED
  BY <1>1, UndisturbedAlways, PTL DEF Spec, LoneSaveIsCurrent

-----------------------------------------------------------------------------
(* Locks *)

\* The lock of the address row is held from the UPDATE of a transaction to its
\* end, and by one transaction at a time.
AddressLocked ==
    /\ owner # NoSession => Uncommitted(owner) /\ pc[owner] \in {"addressUpdated", "done"}
    /\ \A s \in Sessions :
          Uncommitted(s) /\ (pc[s] = "addressUpdated" \/ (pc[s] = "done" /\ job[s].dirty # {}))
              => owner = s

\* Two open transactions have not written the same row.
RowsLocked ==
    \A r, s \in Sessions : Uncommitted(r) /\ Uncommitted(s) /\ job[r].key = job[s].key => r = s

\* what the locks are taken over: a comparison that goes on found a difference
ComparedDiffers == \A s \in Sessions : pc[s] \in {"compared", "addressUpdated"} => job[s].dirty # {}

LocksHeld == AddressLocked /\ RowsLocked /\ ComparedDiffers

\* A save in progress waits for the address row only: its own row it has.
Waits(s) == pc[s] = "compared" /\ owner # NoSession

\* Whoever waits, a transaction that has the address, and will end without
\* another lock, is what it waits for.
NeverWedged ==
    AllIdle \/ \E s \in Sessions : pc[s] # "idle" /\ ~Waits(s)

\* While one transaction waits or works, no other has the row or the address
\* updates it is about to commit in hand.
CommitsAlone ==
    \A r, s \in Sessions :
        /\ Uncommitted(r) /\ Uncommitted(s) /\ r # s
        /\ pc[r] = "done" /\ pc[s] \in {"addressUpdated", "done"}
        => job[r].key # job[s].key /\ (job[r].dirty = {} \/ job[s].dirty = {})

\* What holding the locks means depends on the place and job of each session.
LEMMA LocksKeep ==
    ASSUME LocksHeld, UNCHANGED <<pc, job, owner>>
    PROVE  LocksHeld'
BY DEF LocksHeld, AddressLocked, RowsLocked, ComparedDiffers, Uncommitted, Atomic

\* The end of a save gives up what it holds.
LEMMA LocksEnd ==
    ASSUME IInv, LocksHeld, NEW s \in Sessions, End(s)
    PROVE  LocksHeld'
<1>1. /\ pc'[s] = "idle"
      /\ owner' = IF owner = s THEN NoSession ELSE owner
      /\ \A r \in Sessions \ {s} : pc'[r] = pc[r] /\ job'[r] = job[r]
  BY DEF End, IInv, TypeOK, JobsTyped
<1>2. owner \in Sessions \cup {NoSession}
  BY DEF IInv, TypeOK
<1> QED
  BY <1>1, <1>2, SessionsAssumption
     DEF LocksHeld, AddressLocked, RowsLocked, ComparedDiffers, Uncommitted, Atomic

LEMMA LocksStep ==
    ASSUME IInv, IInv', LocksHeld, [Next]_vars
    PROVE  LocksHeld'
<1> USE SessionsAssumption DEF LocksHeld, AddressLocked, RowsLocked, ComparedDiffers,
        Uncommitted, Atomic
<1>a. owner \in Sessions \cup {NoSession}
  BY DEF IInv, TypeOK
<1>1. ASSUME NEW s \in Sessions, Load(s)
      PROVE  LocksHeld'
  BY <1>1, LocksKeep DEF Load
<1>2. ASSUME NEW s \in Sessions, NEW mode \in Modes, NEW k \in Keys, NEW row \in RowInputs,
             WriteRow(s, mode, k, row)
      PROVE  LocksHeld'
  <2>1. /\ pc[s] = "idle" /\ pc'[s] = "rowWritten" /\ job'[s].key = k /\ owner' = owner
        /\ \A r \in Sessions : Uncommitted(r) => job[r].key # k
    BY <1>2 DEF WriteRow, IInv, TypeOK, JobsTyped
  <2>2. \A r \in Sessions \ {s} : pc'[r] = pc[r] /\ job'[r] = job[r]
    BY <1>2, OnlyOwnJob
  <2> QED
    BY <1>a, <2>1, <2>2
<1>3. ASSUME NEW s \in Sessions, Compare(s)
      PROVE  LocksHeld'
  <2>1. /\ pc[s] = "rowWritten" /\ owner' = owner
        /\ pc'[s] = IF job'[s].dirty = {} THEN "done" ELSE "compared"
    BY <1>3 DEF Compare, IInv, TypeOK
  <2>2. job'[s].mode = job[s].mode /\ job'[s].key = job[s].key
    BY <1>3, HandlerResolves
  <2>3. \A r \in Sessions \ {s} : pc'[r] = pc[r] /\ job'[r] = job[r]
    BY <1>3, OnlyOwnJob DEF Advance
  <2> QED
    BY <1>a, <2>1, <2>2, <2>3
<1>4. ASSUME NEW s \in Sessions, UpdateAddress(s)
      PROVE  LocksHeld'
  <2>1. /\ pc[s] = "compared" /\ pc' = [pc EXCEPT ![s] = "addressUpdated"] /\ job' = job
        /\ owner = NoSession /\ owner' = IF Atomic(s) THEN s ELSE owner
    BY <1>4 DEF UpdateAddress
  <2>2. pc'[s] = "addressUpdated" /\ \A r \in Sessions \ {s} : pc'[r] = pc[r]
    BY <2>1 DEF IInv, TypeOK
  <2> QED
    BY <2>1, <2>2
<1>5. ASSUME NEW s \in Sessions, Notify(s)
      PROVE  LocksHeld'
  <2>1. /\ pc[s] = "addressUpdated" /\ pc' = [pc EXCEPT ![s] = "done"]
        /\ job' = job /\ owner' = owner
    BY <1>5 DEF Notify
  <2>2. pc'[s] = "done" /\ \A r \in Sessions \ {s} : pc'[r] = pc[r]
    BY <2>1 DEF IInv, TypeOK
  <2> QED
    BY <1>a, <2>1, <2>2
<1>6. ASSUME NEW s \in Sessions, SubscriberRaises(s) \/ Finish(s) \/ Kill(s)
      PROVE  LocksHeld'
  BY <1>6, LocksEnd DEF SubscriberRaises, Finish, Kill
<1>7. CASE UNCHANGED vars
  BY <1>7, LocksKeep DEF vars
<1> QED
  BY <1>1, <1>2, <1>3, <1>4, <1>5, <1>6, <1>7 DEF Next, Advance

\* The locks of the database never make all saves wait: a save in progress that
\* waits for the address waits for one that does not wait.  This is the safety
\* half of SavesEnd.  Nor do two transactions ever commit over each other.
THEOREM LocksNeverWedge == Spec => [](NeverWedged /\ CommitsAlone)
<1>1. Init => LocksHeld
  BY SessionsAssumption
     DEF Init, LocksHeld, AddressLocked, RowsLocked, ComparedDiffers, Uncommitted
<1>2. IInv /\ IInv' /\ LocksHeld /\ [Next]_vars => LocksHeld'
  BY LocksStep
<1>3. IInv /\ LocksHeld => NeverWedged /\ CommitsAlone
  <2> SUFFICES ASSUME IInv, LocksHeld PROVE NeverWedged /\ CommitsAlone
    OBVIOUS
  <2>1. owner \in Sessions \cup {NoSession}
    BY DEF IInv, TypeOK
  <2>2. NeverWedged
    <3>1. CASE owner = NoSession
      BY <3>1 DEF NeverWedged, AllIdle, Waits
    <3>2. CASE owner \in Sessions
      BY <3>2, SessionsAssumption DEF LocksHeld, AddressLocked, NeverWedged, Waits
    <3> QED
      BY <2>1, <3>1, <3>2
  <2>3. CommitsAlone
    BY DEF LocksHeld, AddressLocked, RowsLocked, ComparedDiffers, CommitsAlone
  <2> QED
    BY <2>2, <2>3
<1>4. Spec => []IInv
  BY TypesInit, TypesStep, PTL DEF Spec
<1> QED
  BY <1>1, <1>2, <1>3, <1>4, PTL DEF Spec

-----------------------------------------------------------------------------
(* The promise of signals.py *)

\* CurrentCache reads rows and vintages as this module does.
LEMMA SameQueries ==
    /\ \A rows, t, d : Promise!Answers(rows, t, d) = Answers(rows, t, d)
    /\ \A v, d : Promise!IsCurrentVintage(v, d) = IsCurrentVintage(v, d)
    /\ \A row : Promise!Touched(row) = Touched(row)
    /\ Promise!EmptyRow = EmptyRow
    /\ Promise!GeoidOrBlank = GeoidOrBlank
BY DEF Promise!Answers, Answers, Promise!Latest, Latest, Promise!Eligible, Eligible,
       Promise!ForYear, ForYear, Promise!IsCurrentVintage, IsCurrentVintage,
       Promise!Touched, Touched, Promise!EmptyRow, EmptyRow,
       Promise!GeoidOrBlank, GeoidOrBlank, Promise!NoDate, NoDate

\* A session by itself, whose caller reads the Address before each save, is
\* undisturbed, and nothing moves cache and copy apart.
BusyIsLone == \A s \in Sessions : pc[s] # "idle" => lone[s]

OneSession == \A r, s \in Sessions : r = s

LEMMA AloneStep ==
    ASSUME InTransactions, FreshCallers, OneSession,
           IInv, IInv', BusyIsLone, [Next]_vars
    PROVE  BusyIsLone'
<1>1. \A s \in Sessions : pc[s] # "idle" => Atomic(s)
  BY DEF IInv, TypeOK, Job, Atomic, InTransactions
<1>2. ASSUME NEW s \in Sessions, NEW mode \in Modes, NEW k \in Keys, NEW row \in RowInputs,
             WriteRow(s, mode, k, row)
      PROVE  BusyIsLone'
  BY <1>2 DEF InTransactions, OneSession, WriteRow, BusyIsLone
<1>3. ASSUME NEW s \in Sessions, Load(s) \/ SubscriberRaises(s) \/ Finish(s) \/ Kill(s)
      PROVE  BusyIsLone'
  <2>1. pc'[s] = "idle"
    BY <1>3 DEF Load, SubscriberRaises, Finish, Kill, End, IInv, TypeOK
  <2> QED
    BY <2>1 DEF OneSession, BusyIsLone
<1>4. ASSUME NEW s \in Sessions, Compare(s) \/ UpdateAddress(s) \/ Notify(s)
      PROVE  BusyIsLone'
  <2>1. pc[s] # "idle" /\ lone' = lone
    BY <1>1, <1>4 DEF Compare, UpdateAddress, Notify
  <2> QED
    BY <2>1 DEF OneSession, BusyIsLone
<1>5. CASE UNCHANGED vars
  BY <1>5 DEF vars, BusyIsLone
<1> QED
  BY <1>2, <1>3, <1>4, <1>5 DEF Next, Advance

\* Its save commits as one write of the abstract cache, every other statement
\* changes nothing anybody else can see.
LEMMA PromiseStep ==
    ASSUME InTransactions, IInv, IInv', Undisturbed, BusyIsLone, Same, [Next]_vars
    PROVE  [Promise!Next]_(Promise!vars)
<1>1. \A s \in Sessions : pc[s] # "idle" => Atomic(s) /\ lone[s] /\ job[s] \in Job
  BY DEF IInv, TypeOK, Job, Atomic, InTransactions, BusyIsLone
<1>2. ASSUME NEW s \in Sessions, Finish(s)
      PROVE  Promise!Next
  <2>1. /\ pc[s] # "idle" /\ Atomic(s) /\ lone[s]
        /\ job[s].key \in Keys /\ job[s].row \in RowInputs
    BY <1>1, <1>2 DEF Finish, Job
  <2>2. /\ abp' = [abp EXCEPT ![job[s].key] = job[s].row]
        /\ mirror' = cache'
    BY <1>2, <2>1 DEF Finish, CommitRow, Same
  <2>3. /\ abp' = Visible(s)
        /\ \A t \in Moved(s) : cache'[t] \in Answers(abp', t, Today)
        /\ \A t \in Types \ Moved(s) : cache'[t] = cache[t]
    BY <1>2, <2>1, LoneFinish
  <2>4. \A t \in Types : Eligible(abp', t, Today) # {} <=> Answers(abp', t, Today) # {}
    <3>1. abp' \in [Keys -> Row]
      BY DEF IInv, TypeOK
    <3>2. \A t \in Types : Eligible(abp', t, Today) # {} => Latest(abp', t, Today) # {}
      BY <3>1, LatestExists, InputsAssumption
    <3> QED
      BY <3>2 DEF Answers, Latest
  <2>5. cache' \in [Types -> GeoidOrBlank]
    BY DEF IInv, TypeOK, GeoidMap
  <2>6. ASSUME NEW t \in Types
        PROVE  cache'[t] \in IF IsCurrentVintage(job[s].key[1], Today)
                             THEN IF t \in Touched(job[s].row) /\ Answers(abp', t, Today) # {}
                                  THEN Answers(abp', t, Today)
                                  ELSE {cache[t]}
                             ELSE {cache[t]}
    <3>1. t \in Moved(s) <=> /\ t \in Touched(job[s].row)
                             /\ IsCurrentVintage(job[s].key[1], Today)
                             /\ Answers(abp', t, Today) # {}
      BY <2>3, <2>4 DEF Moved
    <3> QED
      BY <2>3, <3>1
  <2>7. Promise!Write(job[s].key, job[s].row)
    BY <2>2, <2>5, <2>6, SameQueries DEF Promise!Write, Promise!Current
  <2> QED
    BY <2>1, <2>7 DEF Promise!Next
<1>3. ASSUME NEW s \in Sessions,
             \/ Load(s)
             \/ \E mode \in Modes, k \in Keys, row \in RowInputs : WriteRow(s, mode, k, row)
             \/ Compare(s) \/ UpdateAddress(s) \/ Notify(s) \/ SubscriberRaises(s) \/ Kill(s)
      PROVE  UNCHANGED Promise!vars
  <2>1. \A mode \in Modes : mode.atomic
    BY DEF InTransactions
  <2> QED
    BY <1>1, <1>3, <2>1 DEF Promise!vars, Load, WriteRow, Compare, UpdateAddress, Notify,
                            SubscriberRaises, Kill
<1>4. CASE UNCHANGED vars
  BY <1>4 DEF vars, Promise!vars
<1> QED
  BY <1>2, <1>3, <1>4 DEF Next, Advance

\* what holds of one session by itself
AloneInv == IInv /\ Undisturbed /\ BusyIsLone /\ Same

LEMMA AloneInit == Init => AloneInv /\ Promise!Init
<1>1. Init => BusyIsLone /\ Same /\ Promise!Init
  BY SameQueries DEF Init, BusyIsLone, Same, Promise!Init, BlankGeoids
<1> QED
  BY <1>1, TypesInit, UndisturbedInit DEF AloneInv

LEMMA AloneNext ==
    ASSUME InTransactions, FreshCallers, OneSession, AloneInv, [Next]_vars
    PROVE  AloneInv' /\ [Promise!Next]_(Promise!vars)
<1>1. IInv'
  BY TypesStep DEF AloneInv
<1> QED
  BY <1>1, UndisturbedStep, AloneStep, SameStep, PromiseStep DEF AloneInv

\* With one session, in transactions, whose caller reads the Address before each
\* save, the statements of a save amount to the one indivisible step that
\* signals.py promises.
THEOREM PromiseIsKept ==
    ASSUME InTransactions, FreshCallers, OneSession
    PROVE  Spec => PromiseKept
<1>1. Init => AloneInv /\ Promise!Init
  BY AloneInit
<1>2. AloneInv /\ [Next]_vars => AloneInv' /\ [Promise!Next]_(Promise!vars)
  BY AloneNext
<1> QED
  BY <1>1, <1>2, PTL DEF Spec, PromiseKept, Promise!Spec

-----------------------------------------------------------------------------
(* Current by construction *)

\* no save empties a geoid its row carried
RowsKeepTypes == [][\A k \in Keys : Touched(abp[k]) \subseteq Touched(abp'[k])]_vars

Current == \A t \in Types : Answers(abp, t, Today) # {} => cache[t] \in Answers(abp, t, Today)

\* A row that does not carry a type, before or after it is written, leaves the
\* type's answers alone, and so does one of a vintage that does not serve today.
LEMMA SameAnswers ==
    ASSUME IInv, IInv', NEW k \in Keys, NEW row \in Row,
           abp' = [abp EXCEPT ![k] = row], NEW t \in Types,
           \/ k[1] \notin ForYear(Today)
           \/ t \notin Touched(abp[k]) /\ t \notin Touched(row)
    PROVE  Answers(abp', t, Today) = Answers(abp, t, Today)
<1> DEFINE after == abp'
           L == Latest(abp, t, Today)
<1>1. abp \in [Keys -> Row] /\ after \in [Keys -> Row] /\ Today \in Date
  BY InputsAssumption DEF IInv, TypeOK
<1>2. after[k] = row /\ \A j \in Keys \ {k} : after[j] = abp[j]
  BY <1>1
<1>3. \/ k[1] \notin ForYear(Today)
      \/ abp[k].geoid[t] = Blank /\ after[k].geoid[t] = Blank
  BY <1>2 DEF Touched
<1> HIDE DEF after
<1>4. Latest(after, t, Today) = L /\ \A j \in L : after[j].geoid[t] = abp[j].geoid[t]
  BY <1>1, <1>2, <1>3, BystanderRow
<1> HIDE DEF L
<1>5. {after[j].geoid[t] : j \in L} = {abp[j].geoid[t] : j \in L}
  BY <1>4
<1> QED
  BY <1>4, <1>5 DEF Answers, after, L

\* A write of the abstract cache keeps it current if the row keeps its types.
LEMMA CurrentStep ==
    ASSUME IInv, IInv', Current, [Promise!Next]_(Promise!vars),
           [\A k \in Keys : Touched(abp[k]) \subseteq Touched(abp'[k])]_vars
    PROVE  Current'
<1>1. ASSUME NEW k \in Keys, NEW row \in RowInputs, Promise!Write(k, row), NEW t \in Types,
             Answers(abp', t, Today) # {}
      PROVE  cache'[t] \in Answers(abp', t, Today)
  <2>1. /\ abp' = [abp EXCEPT ![k] = row]
        /\ row \in Row
        /\ cache'[t] \in IF IsCurrentVintage(k[1], Today)
                         THEN IF t \in Touched(row) THEN Answers(abp', t, Today) ELSE {cache[t]}
                         ELSE {cache[t]}
    BY <1>1, SameQueries, InputsAssumption DEF Promise!Write, Promise!Current
  <2>2. CASE t \in Touched(row) /\ IsCurrentVintage(k[1], Today)
    BY <2>1, <2>2
  <2>3. CASE ~(t \in Touched(row) /\ IsCurrentVintage(k[1], Today))
    <3>1. abp'[k] = row
      BY <2>1 DEF IInv, TypeOK
    <3>2. Touched(abp[k]) \subseteq Touched(row)
      BY <3>1 DEF vars
    <3>3. \/ k[1] \notin ForYear(Today)
          \/ t \notin Touched(abp[k]) /\ t \notin Touched(row)
      BY <2>3, <3>2, ServingIsCurrent, InputsAssumption
    <3>4. Answers(abp', t, Today) = Answers(abp, t, Today)
      BY <2>1, <3>3, SameAnswers
    <3> QED
      BY <1>1, <2>1, <2>3, <3>4 DEF Current
  <2> QED
    BY <2>2, <2>3
<1>2. CASE UNCHANGED Promise!vars
  BY <1>2 DEF Promise!vars, Current, Answers, Latest, Eligible
<1> QED
  BY <1>1, <1>2 DEF Promise!Next, Current

\* "The cache becomes formally current-by-construction": it does, even in the
\* midst of a save, when one session at a time saves in transactions on an
\* Address it has just read and no save empties a geoid its row carried.
THEOREM CurrentWhenAlone ==
    ASSUME InTransactions, FreshCallers, OneSession
    PROVE  Spec /\ RowsKeepTypes => []CurrentByConstruction
<1>1. Init => AloneInv /\ Current
  BY AloneInit DEF Init, Current, Answers, Latest, Eligible, EmptyRow
<1>2. AloneInv /\ [Next]_vars => AloneInv'
  BY AloneNext
<1>3. /\ AloneInv /\ AloneInv' /\ [Next]_vars
      /\ Current /\ [\A k \in Keys : Touched(abp[k]) \subseteq Touched(abp'[k])]_vars
      => Current'
  BY AloneNext, CurrentStep DEF AloneInv
<1>4. Current => CurrentByConstruction
  BY DEF Current, CurrentByConstruction
<1> QED
  BY <1>1, <1>2, <1>3, <1>4, PTL DEF Spec, RowsKeepTypes
=============================================================================
