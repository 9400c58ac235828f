--------------------------- MODULE BulkLoadProofs ----------------------------
(***************************************************************************)
(* Proofs about the loads from files: the fetches of source files          *)
(* (SourceFetch), the domain loaders (DomainLoads), the Census tables      *)
(* (CensusTables) and the voter file (VoterFileLoad).                      *)
(***************************************************************************)
EXTENDS SourceFetch, DomainLoads, CensusTables, VoterFileLoad, Integers,
        SequenceTheorems, TLAPS

-----------------------------------------------------------------------------
(***************************************************************************)
(* SourceFetch: what is recorded as fetched is there, for any sources, units, *)
(* processes that fetch them and files that are spoilt between.            *)
(***************************************************************************)

\* A unit has its file, unless the file of that name has been spoilt, and is in
\* the tables.
KeptFile(u) == LocalPath(u) \in spoilt \/ downloads[LocalPath(u)].unit = u
Here(u) == (source # "acs" => KeptFile(u)) /\ (source # "rdh" => u \in populated)

FetchUnits == UnitsOf(Editions)
FetchSteps ==
    {"idle", "fetch", "request", "write", "load", "read_record", "truncate", "write_record"}
FetchRunType ==
    [step : FetchSteps, payload : SUBSET Editions, todo : SUBSET FetchUnits,
     commands : SUBSET SUBSET FetchUnits, at : FetchUnits \cup {NoUnit}, seen : SUBSET Editions,
     left : SUBSET FetchUnits]

FetchedTyped ==
    /\ downloads \in [FileNames -> [unit : FetchUnits \cup {NoUnit}, whole : BOOLEAN]]
    /\ spoilt \subseteq FileNames
FetchTyped ==
    /\ source \in Sources
    /\ offered \subseteq Editions /\ record \subseteq Editions
    /\ reachable \subseteq FetchUnits /\ populated \subseteq FetchUnits /\ passed \subseteq FetchUnits
    /\ FetchedTyped
    /\ fetching \in [Fetchers -> FetchRunType]

\* A file nobody has spoilt is being written by one run, which it names, or is
\* whole or not there.
Writing(p, f) == fetching[p].step = "write" /\ LocalPath(fetching[p].at) = f
FileSound(f) ==
    f \notin spoilt =>
        /\ \A p \in Fetchers : Writing(p, f) =>
              /\ downloads[f] = [unit |-> fetching[p].at, whole |-> FALSE]
              /\ \A q \in Fetchers : Writing(q, f) => q = p
        /\ (\E p \in Fetchers : Writing(p, f)) \/ downloads[f] = Missing \/ downloads[f].whole

\* What a run has neither left out nor still to do is here.
FetchRunSound(run) ==
    /\ run.todo \subseteq UnitsOf(run.payload) /\ run.left \subseteq UnitsOf(run.payload)
    /\ run.step \in {"request", "write"} => run.at \in run.todo
    /\ run.step \notin {"fetch", "request", "write"} => run.todo = {}
    /\ run.step \notin {"fetch", "request", "write", "load"} => run.commands = {}
    /\ source # "acs" => \A u \in UnitsOf(run.payload) \ (run.left \cup run.todo) : KeptFile(u)
    /\ source # "rdh" => \A u \in UnitsOf(run.payload) \ run.left :
                            u \in populated \/ \E units \in run.commands : u \in units
    /\ \A u \in UnitsOf(run.seen) \ passed : Here(u)

FetchInd ==
    /\ FetchTyped
    /\ \A f \in FileNames : FileSound(f)
    /\ \A p \in Fetchers : FetchRunSound(fetching[p])
    /\ \A u \in UnitsOf(record) \ passed : Here(u)

-----------------------------------------------------------------------------
LEMMA UnitsSplit ==
    ASSUME source \in Sources
    PROVE  /\ \A E \in SUBSET Editions : UnitsOf(E) \subseteq FetchUnits
           /\ \A E, F : UnitsOf(E \cup F) = UnitsOf(E) \cup UnitsOf(F)
           /\ UnitsOf({}) = {}
           /\ NoUnit \notin FetchUnits
           /\ \A u \in FetchUnits : LocalPath(u) \in FileNames
<1>1. /\ \A E \in SUBSET Editions : UnitsOf(E) \subseteq FetchUnits
      /\ \A E, F : UnitsOf(E \cup F) = UnitsOf(E) \cup UnitsOf(F)
      /\ UnitsOf({}) = {}
  BY DEF UnitsOf, FetchUnits
<1>2. FetchUnits \subseteq Editions \X Portions
  <2>1. CASE source = "rdh"
    BY <2>1, FetchAssumption DEF FetchUnits, UnitsOf, CatalogBased, Portions
  <2>2. CASE source # "rdh"
    BY <2>2 DEF FetchUnits, UnitsOf, CatalogBased
  <2> QED
    BY <2>1, <2>2
<1>3. NoUnit \notin Editions \X Portions
  BY FetchAssumption DEF Portions
<1>4. \A u \in FetchUnits : LocalPath(u) \in FileNames
  BY DEF FileNames, FetchUnits
<1> QED
  BY <1>1, <1>2, <1>3, <1>4

\* The source of a state file stays, and what is here stays here.
Persists ==
    /\ source' = source
    /\ \A u \in FetchUnits : KeptFile(u) => KeptFile(u)'
    /\ populated \subseteq populated'

LEMMA SameSource ==
    ASSUME source' = source
    PROVE  /\ FetchUnits' = FetchUnits /\ FileNames' = FileNames /\ FetchRunType' = FetchRunType
           /\ \A E : UnitsOf(E)' = UnitsOf(E)
           /\ \A u : LocalPath(u)' = LocalPath(u)
<1>1. /\ \A E : UnitsOf(E)' = UnitsOf(E)
      /\ \A u : LocalPath(u)' = LocalPath(u)
  BY DEF UnitsOf, Portions, CatalogBased, LocalPath
<1>2. FetchUnits' = FetchUnits
  BY <1>1 DEF FetchUnits
<1>3. FileNames' = FileNames
  BY <1>1 DEF FileNames
<1>4. FetchRunType' = FetchRunType
  BY <1>2 DEF FetchRunType
<1> QED
  BY <1>1, <1>2, <1>3, <1>4

LEMMA FetchRunPersists ==
    ASSUME source \in Sources, Persists, passed' = passed, NEW run \in FetchRunType, FetchRunSound(run)
    PROVE  FetchRunSound(run)'
<1>1. UnitsOf(run.payload) \subseteq FetchUnits /\ UnitsOf(run.seen) \subseteq FetchUnits
  BY UnitsSplit DEF FetchRunType
<1>2. /\ UnitsOf(run.payload)' = UnitsOf(run.payload) /\ UnitsOf(run.seen)' = UnitsOf(run.seen)
      /\ source' = source
  BY SameSource DEF Persists
<1>3. source # "acs" => \A u \in UnitsOf(run.payload) \ (run.left \cup run.todo) : KeptFile(u)'
  BY <1>1 DEF FetchRunSound, Persists
<1>4. \A u \in UnitsOf(run.seen) \ passed : Here(u)'
  BY <1>1, <1>2 DEF FetchRunSound, Persists, Here
<1> HIDE DEF KeptFile, Here
<1> QED
  BY <1>2, <1>3, <1>4 DEF FetchRunSound, Persists

\* The step of a run, from what it makes of itself and of the files.
LEMMA FetchRunStep ==
    ASSUME FetchInd, NEW p \in Fetchers, NEW run \in FetchRunType, Move(p, run), Persists, FetchRunSound(run)',
           offered' = offered, reachable' = reachable, passed' = passed, record' \subseteq record,
           populated' \subseteq FetchUnits, FetchedTyped', \A f \in FileNames : FileSound(f)'
    PROVE  FetchInd'
<1>1. /\ source \in Sources /\ source' = source /\ FetchUnits' = FetchUnits /\ FileNames' = FileNames
      /\ FetchRunType' = FetchRunType /\ \A E : UnitsOf(E)' = UnitsOf(E)
  BY SameSource DEF FetchInd, FetchTyped, Persists
<1>2. /\ fetching'[p] = run /\ fetching' \in [Fetchers -> FetchRunType]
      /\ \A q \in Fetchers \ {p} : fetching'[q] = fetching[q]
  BY DEF Move, FetchInd, FetchTyped
<1>3. FetchTyped'
  BY <1>1, <1>2 DEF FetchInd, FetchTyped
<1>4. ASSUME NEW q \in Fetchers PROVE FetchRunSound(fetching[q])'
  <2>1. PICK old : old = fetching'[q]
    OBVIOUS
  <2>2. FetchRunSound(old)'
    <3>1. CASE q = p
      BY <1>2, <2>1, <3>1
    <3>2. CASE q # p
      <4>1. old = fetching[q] /\ old \in FetchRunType /\ FetchRunSound(old)
        BY <1>2, <2>1, <3>2 DEF FetchInd, FetchTyped
      <4> QED
        BY <1>1, <4>1, FetchRunPersists
    <3> QED
      BY <3>1, <3>2
  <2> QED
    BY <2>1, <2>2 DEF FetchRunSound
<1>5. ASSUME NEW u \in UnitsOf(record)' \ passed' PROVE Here(u)'
  <2>1. record = record' \cup (record \ record')
    OBVIOUS
  <2>2. UnitsOf(record') \subseteq UnitsOf(record)
    BY <1>1, <2>1, UnitsSplit
  <2>3. UnitsOf(record)' = UnitsOf(record')
    BY <1>1 DEF UnitsOf, Portions, CatalogBased
  <2>4. u \in UnitsOf(record) \ passed /\ u \in FetchUnits
    BY <1>1, <2>2, <2>3, UnitsSplit DEF FetchInd, FetchTyped
  <2> QED
    BY <1>1, <2>4 DEF FetchInd, Persists, Here
<1> QED
  BY <1>1, <1>3, <1>4, <1>5 DEF FetchInd

\* ... of a run that is at no file, before and after.
\* A file is what it was if it was not touched, nor who writes it.
LEMMA FileSoundStays ==
    ASSUME NEW f, FileSound(f), UNCHANGED <<downloads, spoilt>>,
           \A q \in Fetchers : Writing(q, f)' <=> Writing(q, f),
           \A q \in Fetchers : Writing(q, f) => fetching'[q] = fetching[q]
    PROVE  FileSound(f)'
<1>1. f \in spoilt \/
        /\ \A q \in Fetchers : Writing(q, f) =>
              /\ downloads[f] = [unit |-> fetching[q].at, whole |-> FALSE]
              /\ \A r \in Fetchers : Writing(r, f) => r = q
        /\ (\E q \in Fetchers : Writing(q, f)) \/ downloads[f] = Missing \/ downloads[f].whole
  BY DEF FileSound
<1>2. f \in spoilt' \/
        /\ \A q \in Fetchers : Writing(q, f)' =>
              /\ downloads'[f] = [unit |-> fetching'[q].at, whole |-> FALSE]
              /\ \A r \in Fetchers : Writing(r, f)' => r = q
        /\ (\E q \in Fetchers : Writing(q, f)') \/ downloads'[f] = Missing \/ downloads'[f].whole
  BY <1>1
<1> QED
  BY <1>2 DEF FileSound, Missing

LEMMA FilelessStep ==
    ASSUME FetchInd, NEW p \in Fetchers, NEW run \in FetchRunType, Move(p, run), FetchRunSound(run),
           fetching[p].step # "write", run.step # "write",
           UNCHANGED <<source, offered, reachable, downloads, passed, spoilt>>,
           record' \subseteq record, populated \subseteq populated', populated' \subseteq FetchUnits
    PROVE  FetchInd'
<1>1. source \in Sources /\ FileNames' = FileNames /\ \A u : LocalPath(u)' = LocalPath(u)
      /\ FetchUnits' = FetchUnits
  BY SameSource DEF FetchInd, FetchTyped
<1>2. Persists
  BY <1>1 DEF Persists, KeptFile
<1>3. FetchRunSound(run)'
  BY <1>1, <1>2, FetchRunPersists
<1>4. /\ fetching'[p] = run
      /\ \A q \in Fetchers \ {p} : fetching'[q] = fetching[q]
  BY DEF Move, FetchInd, FetchTyped
<1>5. ASSUME NEW f \in FileNames PROVE FileSound(f)'
  <2>1. \A q \in Fetchers : Writing(q, f)' <=> Writing(q, f)
    BY <1>1, <1>4 DEF Writing, LocalPath, CatalogBased
  <2>2. \A q \in Fetchers : Writing(q, f) => fetching'[q] = fetching[q]
    BY <1>4 DEF Writing
  <2> QED
    BY <2>1, <2>2, FileSoundStays DEF FetchInd
<1>6. FetchedTyped'
  BY <1>1 DEF FetchInd, FetchTyped, FetchedTyped
<1> QED
  BY <1>2, <1>3, <1>5, <1>6, FetchRunStep

-----------------------------------------------------------------------------
(* The steps *)

LEMMA NoRunIsSound ==
    ASSUME source \in Sources
    PROVE  NoRun \in FetchRunType /\ FetchRunSound(NoRun)
BY UnitsSplit DEF NoRun, FetchRunType, FetchRunSound, FetchSteps

LEMMA BeginKeepsFetch ==
    ASSUME FetchInd, NEW p \in Fetchers, NEW payload \in SUBSET Editions, NEW scope \in Scopes,
           BeginRun(p, payload, scope)
    PROVE  FetchInd'
<1> DEFINE todo == ToFetch(payload, scope)
           commands == ToLoad(payload, scope)
           left == {u \in UnitsOf(payload) : u[2] \notin scope}
           run == [NoRun EXCEPT !.step = "fetch", !.payload = payload, !.todo = todo,
                                !.commands = commands, !.left = left]
<1>1. source \in Sources /\ scope \subseteq Portions
  BY DEF FetchInd, FetchTyped, Scopes
<1>2. UnitsOf(payload) \subseteq FetchUnits /\ UnitsOf({}) = {}
  BY <1>1, UnitsSplit
<1>3. /\ todo \subseteq UnitsOf(payload) /\ left \subseteq UnitsOf(payload)
      /\ source # "acs" => UnitsOf(payload) \ left \subseteq todo
  BY <1>1, FetchAssumption DEF ToFetch, ScopedTypes, ScopedPlans, UnitsOf, CatalogBased
<1>4. /\ commands \in SUBSET SUBSET FetchUnits
      /\ source # "rdh" => \A u \in UnitsOf(payload) \ left : \E units \in commands : u \in units
  <2>1. CASE source = "acs"
    <3>1. UnitsOf(payload) = payload \X Portions /\ commands = StateCommands(payload, scope)
      BY <2>1 DEF UnitsOf, CatalogBased, ToLoad
    <3>2. CASE scope = Portions
      BY <1>2, <3>1, <3>2 DEF StateCommands
    <3>3. CASE scope # Portions
      <4>1. commands = {payload \X {state} : state \in scope}
        BY <3>1, <3>3 DEF StateCommands
      <4>2. \A state \in scope : payload \X {state} \subseteq UnitsOf(payload)
        BY <1>1, <3>1
      <4>3. ASSUME NEW u \in UnitsOf(payload) \ left PROVE \E units \in commands : u \in units
        <5>1. u[2] \in scope /\ u \in payload \X {u[2]}
          BY <3>1, <4>3
        <5> QED
          BY <4>1, <5>1
      <4> HIDE DEF commands, left
      <4> QED
        BY <1>2, <4>1, <4>2, <4>3
    <3> QED
      BY <3>2, <3>3
  <2>2. CASE source = "census-tiger"
    BY <1>2, <2>2 DEF ToLoad, BoundaryCommands
  <2>3. CASE source = "rdh"
    BY <2>3 DEF ToLoad
  <2> QED
    BY <1>1, <2>1, <2>2, <2>3, FetchAssumption
<1> HIDE DEF todo, commands, left
<1>5. /\ run.step = "fetch" /\ run.payload = payload /\ run.todo = todo /\ run.commands = commands
      /\ run.at = NoUnit /\ run.seen = {} /\ run.left = left
  BY DEF NoRun
<1>6. run \in FetchRunType
  <2>1. NoRun \in FetchRunType /\ todo \subseteq FetchUnits /\ left \subseteq FetchUnits
    BY <1>1, <1>2, <1>3, NoRunIsSound
  <2> QED
    BY <1>4, <2>1 DEF FetchRunType, FetchSteps
<1> HIDE DEF run
<1>7. FetchRunSound(run)
  BY <1>2, <1>3, <1>4, <1>5 DEF FetchRunSound
<1>8. /\ Move(p, run) /\ fetching[p].step = "idle"
      /\ UNCHANGED <<source, offered, reachable, downloads, populated, record, passed, spoilt>>
  BY DEF BeginRun, run, todo, commands, left
<1> QED
  BY <1>5, <1>6, <1>7, <1>8, FilelessStep DEF FetchInd, FetchTyped

LEMMA WaitingKeepsFetch ==
    ASSUME FetchInd, NEW p \in Fetchers,
           \/ \E u \in fetching[p].todo : PassOver(p, u) \/ Request(p, u)
           \/ \E units \in fetching[p].commands : Load(p, units)
           \/ EndStage(p) \/ ReadRecord(p) \/ TruncateRecord(p)
    PROVE  FetchInd'
<1>1. /\ source \in Sources /\ record \subseteq Editions /\ populated \subseteq FetchUnits
      /\ fetching[p] \in FetchRunType /\ FetchRunSound(fetching[p])
      /\ \A u \in UnitsOf(record) \ passed : Here(u)
  BY DEF FetchInd, FetchTyped
<1>2. PICK run0 : run0 = fetching[p]
  OBVIOUS
<1>3. ASSUME NEW u \in run0.todo, PassOver(p, u) PROVE FetchInd'
  <2> DEFINE others == downloads[LocalPath(u)] # Missing /\ downloads[LocalPath(u)].unit # u
             left == IF u \notin reachable \/ others THEN run0.left \cup {u} ELSE run0.left
             run == [run0 EXCEPT !.todo = @ \ {u}, !.left = left]
  <2>1. /\ Move(p, run) /\ run0.step = "fetch"
        /\ downloads[LocalPath(u)] # Missing \/ u \notin reachable
        /\ UNCHANGED <<source, offered, reachable, downloads, populated, record, passed, spoilt>>
    BY <1>2, <1>3 DEF PassOver
  <2>2. u \notin left => KeptFile(u)
    BY <2>1 DEF KeptFile
  <2>3. run0.left \subseteq left /\ left \subseteq run0.left \cup {u}
    OBVIOUS
  <2> HIDE DEF left
  <2>4. /\ run.step = "fetch" /\ run.payload = run0.payload /\ run.todo = run0.todo \ {u}
        /\ run.commands = run0.commands /\ run.seen = run0.seen /\ run.left = left
    BY <1>1, <1>2, <2>1 DEF FetchRunType
  <2>5. run \in FetchRunType
    <3>1. left \subseteq FetchUnits /\ run0.todo \ {u} \subseteq FetchUnits
      BY <1>1, <1>2, <2>3 DEF FetchRunType
    <3> QED
      BY <1>1, <1>2, <3>1 DEF FetchRunType
  <2> HIDE DEF run
  <2>6. FetchRunSound(run)
    BY <1>1, <1>2, <2>2, <2>3, <2>4 DEF FetchRunSound
  <2> QED
    BY <1>1, <1>2, <2>1, <2>4, <2>5, <2>6, FilelessStep
<1>4. ASSUME NEW u \in run0.todo, Request(p, u) PROVE FetchInd'
  <2> DEFINE run == [run0 EXCEPT !.step = "request", !.at = u]
  <2>1. /\ Move(p, run) /\ run0.step = "fetch"
        /\ UNCHANGED <<source, offered, reachable, downloads, populated, record, passed, spoilt>>
    BY <1>2, <1>4 DEF Request
  <2>2. /\ run.step = "request" /\ run.payload = run0.payload /\ run.todo = run0.todo /\ run.at = u
        /\ run.commands = run0.commands /\ run.seen = run0.seen /\ run.left = run0.left
    BY <1>1, <1>2 DEF FetchRunType
  <2>3. run \in FetchRunType
    BY <1>1, <1>2 DEF FetchRunType, FetchSteps
  <2> HIDE DEF run
  <2>4. FetchRunSound(run)
    BY <1>1, <1>2, <2>2 DEF FetchRunSound
  <2> QED
    BY <1>1, <1>2, <2>1, <2>2, <2>3, <2>4, FilelessStep
<1>5. ASSUME NEW units \in run0.commands, Load(p, units) PROVE FetchInd'
  <2> DEFINE run == [run0 EXCEPT !.commands = @ \ {units}]
  <2>1. /\ Move(p, run) /\ run0.step = "load" /\ populated' = populated \cup units
        /\ UNCHANGED <<source, offered, reachable, downloads, record, passed, spoilt>>
    BY <1>2, <1>5 DEF Load
  <2>2. /\ run.step = "load" /\ run.payload = run0.payload /\ run.todo = run0.todo
        /\ run.commands = run0.commands \ {units} /\ run.seen = run0.seen /\ run.left = run0.left
    BY <1>1, <1>2, <2>1 DEF FetchRunType
  <2>3. run \in FetchRunType /\ units \subseteq FetchUnits
    BY <1>1, <1>2 DEF FetchRunType
  <2> HIDE DEF run
  <2>4. Persists
    BY <2>1 DEF Persists, KeptFile, LocalPath, CatalogBased
  <2>5. FetchRunSound(run)'
    <3>1. FetchRunSound(run0)'
      BY <1>1, <1>2, <2>1, <2>4, FetchRunPersists
    <3> QED
      BY <2>1, <2>2, <3>1 DEF FetchRunSound
  <2>6. populated' \subseteq FetchUnits
    BY <1>1, <2>1, <2>3
  <2>7. \A f \in FileNames : FileSound(f)'
    <3>1. /\ fetching'[p] = run /\ \A q \in Fetchers \ {p} : fetching'[q] = fetching[q]
      BY <2>1 DEF Move, FetchInd, FetchTyped
    <3>2. \A f : \A q \in Fetchers : Writing(q, f)' <=> Writing(q, f)
      BY <1>2, <2>1, <2>2, <3>1 DEF Writing, LocalPath, CatalogBased
    <3>3. \A f : \A q \in Fetchers : Writing(q, f) => fetching'[q] = fetching[q]
      BY <1>2, <2>1, <3>1 DEF Writing
    <3>4. ASSUME NEW f \in FileNames PROVE FileSound(f)'
      BY <2>1, <3>2, <3>3, FileSoundStays DEF FetchInd
    <3> QED
      BY <3>4
  <2>8. FetchedTyped'
    BY <2>1, SameSource DEF FetchInd, FetchTyped, FetchedTyped
  <2> QED
    BY <2>1, <2>3, <2>4, <2>5, <2>6, <2>7, <2>8, FetchRunStep
<1>6. CASE EndStage(p)
  <2> DEFINE run == [run0 EXCEPT !.step = Lifecycle[run0.step]]
  <2>1. /\ Move(p, run)
        /\ \/ run0.step = "fetch" /\ run0.todo = {}
           \/ run0.step = "load" /\ run0.commands = {}
        /\ UNCHANGED <<source, offered, reachable, downloads, populated, record, passed, spoilt>>
    BY <1>2, <1>6 DEF EndStage
  <2>2. /\ run.step = Lifecycle[run0.step] /\ run.payload = run0.payload /\ run.todo = run0.todo
        /\ run.commands = run0.commands /\ run.seen = run0.seen /\ run.left = run0.left
    BY <1>1, <1>2 DEF FetchRunType
  <2>3. /\ run0.step = "fetch" => run.step = "load"
        /\ run0.step = "load" => run.step = "read_record"
    BY <2>2 DEF Lifecycle
  <2>4. run \in FetchRunType
    BY <1>1, <1>2, <2>1, <2>2, <2>3 DEF FetchRunType, FetchSteps
  <2> HIDE DEF run
  <2>5. FetchRunSound(run)
    BY <1>1, <1>2, <2>1, <2>2, <2>3 DEF FetchRunSound
  <2> QED
    BY <1>1, <1>2, <2>1, <2>3, <2>4, <2>5, FilelessStep
<1>7. CASE ReadRecord(p)
  <2> DEFINE seen == IF CatalogBased THEN record ELSE {}
             run == [run0 EXCEPT !.step = "truncate", !.seen = seen]
  <2>1. /\ Move(p, run) /\ run0.step = "read_record"
        /\ UNCHANGED <<source, offered, reachable, downloads, populated, record, passed, spoilt>>
    BY <1>2, <1>7 DEF ReadRecord
  <2>2. seen \subseteq Editions /\ \A u \in UnitsOf(seen) \ passed : Here(u)
    BY <1>1, UnitsSplit
  <2> HIDE DEF seen
  <2>3. /\ run.step = "truncate" /\ run.payload = run0.payload /\ run.todo = run0.todo
        /\ run.commands = run0.commands /\ run.seen = seen /\ run.left = run0.left
    BY <1>1, <1>2 DEF FetchRunType
  <2>4. run \in FetchRunType
    BY <1>1, <1>2, <2>2 DEF FetchRunType, FetchSteps
  <2> HIDE DEF run
  <2>5. FetchRunSound(run)
    BY <1>1, <1>2, <2>1, <2>2, <2>3 DEF FetchRunSound
  <2> QED
    BY <1>1, <1>2, <2>1, <2>3, <2>4, <2>5, FilelessStep
<1>8. CASE TruncateRecord(p)
  <2> DEFINE run == [run0 EXCEPT !.step = "write_record"]
  <2>1. /\ Move(p, run) /\ run0.step = "truncate" /\ record' = {}
        /\ UNCHANGED <<source, offered, reachable, downloads, populated, passed, spoilt>>
    BY <1>2, <1>8 DEF TruncateRecord
  <2>2. /\ run.step = "write_record" /\ run.payload = run0.payload /\ run.todo = run0.todo
        /\ run.commands = run0.commands /\ run.seen = run0.seen /\ run.left = run0.left
    BY <1>1, <1>2 DEF FetchRunType
  <2>3. run \in FetchRunType
    BY <1>1, <1>2 DEF FetchRunType, FetchSteps
  <2> HIDE DEF run
  <2>4. FetchRunSound(run)
    BY <1>1, <1>2, <2>1, <2>2 DEF FetchRunSound
  <2> QED
    BY <1>1, <1>2, <2>1, <2>2, <2>3, <2>4, FilelessStep
<1> QED
  BY <1>2, <1>3, <1>4, <1>5, <1>6, <1>7, <1>8

\* A run that opens or finishes a file, or leaves it unfinished.
LEMMA WritingKeepsFetch ==
    ASSUME FetchInd, NEW p \in Fetchers,
           OpenLocal(p) \/ FinishFile(p) \/ GiveUp(p) \/ StopRun(p)
    PROVE  FetchInd'
<1>1. /\ source \in Sources /\ FetchedTyped /\ source' = source
      /\ fetching[p] \in FetchRunType /\ FetchRunSound(fetching[p]) /\ populated \subseteq FetchUnits
      /\ UNCHANGED <<offered, reachable, populated, record, passed>>
  BY DEF FetchInd, FetchTyped, OpenLocal, FinishFile, GiveUp, StopRun
<1>2. PICK run0 : run0 = fetching[p]
  OBVIOUS
<1>3. PICK u : u = run0.at
  OBVIOUS
<1>4. /\ run0.step \in {"request", "write"} => u \in run0.todo
      /\ run0.todo \subseteq FetchUnits /\ run0.todo \subseteq UnitsOf(run0.payload)
      /\ run0.left \subseteq FetchUnits
  BY <1>1, <1>2, <1>3 DEF FetchRunSound, FetchRunType
<1> DEFINE f == LocalPath(u)
<1>5. run0.step \in {"request", "write"} => f \in FileNames /\ u # NoUnit /\ u \in FetchUnits
  BY <1>1, <1>4, UnitsSplit
<1>6. /\ FileNames' = FileNames /\ FetchUnits' = FetchUnits /\ \A v : LocalPath(v)' = LocalPath(v)
  BY <1>1, SameSource
<1>7. PICK file : file = f
  OBVIOUS
<1>8. \A v \in FetchUnits : LocalPath(v) \in FileNames
  BY <1>1, UnitsSplit
<1> HIDE DEF f
<1>9. ASSUME NEW run \in FetchRunType, Move(p, run), FetchRunSound(run)', Persists, FetchedTyped',
             run.step = "write" => LocalPath(run.at) = file,
             \A g \in FileNames \ {file} : downloads'[g] = downloads[g],
             \A g \in FileNames \ {file} : g \in spoilt' <=> g \in spoilt,
             run0.step = "write" \/ run.step = "write" => file \in FileNames /\ FileSound(file)',
             run0.step # "write" /\ run.step # "write" => downloads' = downloads /\ spoilt' = spoilt
      PROVE  FetchInd'
  <2>1. /\ fetching'[p] = run /\ \A q \in Fetchers \ {p} : fetching'[q] = fetching[q]
    BY <1>9 DEF Move, FetchInd, FetchTyped
  <2>2. ASSUME NEW g \in FileNames, g # file \/ (run0.step # "write" /\ run.step # "write")
        PROVE  FileSound(g)'
    <3>1. ~Writing(p, g) /\ ~Writing(p, g)'
      BY <1>2, <1>3, <1>6, <1>7, <1>9, <2>1, <2>2 DEF Writing, f, LocalPath, CatalogBased
    <3>2. \A q \in Fetchers : Writing(q, g)' <=> Writing(q, g)
      BY <1>6, <2>1, <3>1 DEF Writing, LocalPath, CatalogBased
    <3>3. \A q \in Fetchers : Writing(q, g) => fetching'[q] = fetching[q]
      BY <2>1, <3>1
    <3>4. downloads'[g] = downloads[g] /\ (g \in spoilt' <=> g \in spoilt)
      BY <1>9, <2>2
    <3> QED
      BY <3>2, <3>3, <3>4 DEF FileSound, FetchInd, Missing
  <2>3. \A g \in FileNames : FileSound(g)'
    BY <1>9, <2>2
  <2> QED
    BY <1>1, <1>9, <2>3, FetchRunStep
<1>10. CASE OpenLocal(p)
  <2> DEFINE run == [run0 EXCEPT !.step = "write"]
  <2>1. /\ run0.step = "request" /\ Move(p, run)
        /\ downloads' = [downloads EXCEPT ![file] = [unit |-> u, whole |-> FALSE]]
        /\ spoilt' = IF downloads[file] = Missing THEN spoilt ELSE spoilt \cup {file}
    BY <1>2, <1>3, <1>7, <1>10 DEF OpenLocal, f
  <2>2. /\ run.step = "write" /\ run.payload = run0.payload /\ run.todo = run0.todo /\ run.at = u
        /\ run.commands = run0.commands /\ run.seen = run0.seen /\ run.left = run0.left
    BY <1>1, <1>2, <1>3 DEF FetchRunType
  <2>3. run \in FetchRunType
    BY <1>1, <1>2 DEF FetchRunType, FetchSteps
  <2> HIDE DEF run
  <2>4. /\ downloads'[file] = [unit |-> u, whole |-> FALSE] /\ file \in FileNames
        /\ \A g \in FileNames \ {file} : downloads'[g] = downloads[g]
    BY <1>1, <1>5, <1>7, <2>1 DEF FetchedTyped
  <2>5. ASSUME NEW v \in FetchUnits, KeptFile(v) PROVE KeptFile(v)'
    <3>1. CASE LocalPath(v) \in spoilt
      BY <1>6, <2>1, <3>1 DEF KeptFile, LocalPath, CatalogBased
    <3>2. CASE downloads[LocalPath(v)].unit = v /\ LocalPath(v) = file
      <4>1. v # NoUnit
        BY <1>1, UnitsSplit
      <4>2. file \in spoilt'
        BY <2>1, <3>2, <4>1 DEF Missing
      <4> QED
        BY <1>6, <3>2, <4>2 DEF KeptFile, LocalPath, CatalogBased
    <3>3. CASE downloads[LocalPath(v)].unit = v /\ LocalPath(v) # file
      <4>1. downloads'[LocalPath(v)] = downloads[LocalPath(v)]
        BY <1>8, <2>4, <3>3
      <4> QED
        BY <1>1, <3>3, <4>1 DEF KeptFile, LocalPath, CatalogBased
    <3> QED
      BY <2>5, <3>1, <3>2, <3>3 DEF KeptFile
  <2>6. Persists
    BY <1>1, <2>5 DEF Persists
  <2>7. FetchRunSound(run)'
    <3>1. FetchRunSound(run)
      BY <1>1, <1>2, <1>3, <1>4, <2>1, <2>2 DEF FetchRunSound
    <3> QED
      BY <1>1, <2>3, <2>6, <3>1, FetchRunPersists
  <2>8. FetchedTyped'
    BY <1>1, <1>5, <1>6, <2>1, <2>4 DEF FetchedTyped
  <2>9. FileSound(file)'
    <3> SUFFICES ASSUME file \notin spoilt' PROVE FileSound(file)'
      BY DEF FileSound
    <3>1. downloads[file] = Missing
      BY <2>1
    <3>2. \A q \in Fetchers : ~Writing(q, file)
      <4>1. ASSUME NEW q \in Fetchers, Writing(q, file) PROVE FALSE
        <5>1. downloads[file] = [unit |-> fetching[q].at, whole |-> FALSE]
          BY <2>1, <2>4, <3>1, <4>1 DEF FileSound, FetchInd
        <5>2. fetching[q].at \in FetchUnits
          BY <4>1 DEF Writing, FetchInd, FetchTyped, FetchRunSound, FetchRunType
        <5>3. fetching[q].at # NoUnit
          BY <1>1, <5>2, UnitsSplit
        <5> QED
          BY <3>1, <5>1, <5>3 DEF Missing
      <4> QED
        BY <4>1
    <3>3. /\ fetching'[p] = run /\ \A q \in Fetchers \ {p} : fetching'[q] = fetching[q]
      BY <2>1 DEF Move, FetchInd, FetchTyped
    <3>4. \A q \in Fetchers : Writing(q, file)' => q = p
      BY <1>6, <3>2, <3>3 DEF Writing, LocalPath, CatalogBased
    <3>5. Writing(p, file)' /\ fetching'[p].at = u
      BY <1>1, <1>7, <2>2, <3>3 DEF Writing, f, LocalPath, CatalogBased
    <3> QED
      BY <2>4, <3>4, <3>5 DEF FileSound
  <2> QED
    BY <1>2, <1>7, <1>9, <2>1, <2>2, <2>3, <2>4, <2>6, <2>7, <2>8, <2>9 DEF f
<1>11. CASE FinishFile(p)
  <2> DEFINE run == [run0 EXCEPT !.step = "fetch", !.todo = @ \ {u}, !.at = NoUnit]
  <2>1. /\ run0.step = "write" /\ Move(p, run) /\ spoilt' = spoilt
        /\ downloads' = [downloads EXCEPT ![file] = [unit |-> u, whole |-> TRUE]]
    BY <1>2, <1>3, <1>7, <1>11 DEF FinishFile, f
  <2>2. /\ run.step = "fetch" /\ run.payload = run0.payload /\ run.todo = run0.todo \ {u}
        /\ run.commands = run0.commands /\ run.seen = run0.seen /\ run.left = run0.left
    BY <1>1, <1>2, <1>3 DEF FetchRunType
  <2>3. run \in FetchRunType
    BY <1>1, <1>2 DEF FetchRunType, FetchSteps
  <2> HIDE DEF run
  <2>4. /\ downloads'[file] = [unit |-> u, whole |-> TRUE] /\ file \in FileNames
        /\ \A g \in FileNames \ {file} : downloads'[g] = downloads[g]
    BY <1>1, <1>5, <1>7, <2>1 DEF FetchedTyped
  <2>a. Writing(p, file)
    BY <1>2, <1>3, <1>7, <2>1 DEF Writing, f
  <2>b. file \notin spoilt => downloads[file] = [unit |-> u, whole |-> FALSE]
    BY <1>2, <1>3, <2>4, <2>a DEF FetchInd, FileSound
  <2>5. ASSUME NEW v \in FetchUnits, KeptFile(v) PROVE KeptFile(v)'
    <3>1. CASE LocalPath(v) \in spoilt
      BY <1>1, <2>1, <3>1 DEF KeptFile, LocalPath, CatalogBased
    <3>2. CASE downloads[LocalPath(v)].unit = v /\ LocalPath(v) = file /\ file \notin spoilt
      <4>1. v = u
        BY <2>b, <3>2
      <4> QED
        BY <1>1, <2>4, <3>2, <4>1 DEF KeptFile, LocalPath, CatalogBased
    <3>3. CASE downloads[LocalPath(v)].unit = v /\ LocalPath(v) # file
      <4>1. downloads'[LocalPath(v)] = downloads[LocalPath(v)]
        BY <1>8, <2>4, <3>3
      <4> QED
        BY <1>1, <3>3, <4>1 DEF KeptFile, LocalPath, CatalogBased
    <3> QED
      BY <2>5, <3>1, <3>2, <3>3 DEF KeptFile
  <2>6. Persists
    BY <1>1, <2>5 DEF Persists
  <2>7. FetchRunSound(run)'
    <3>1. FetchRunSound(run0)'
      BY <1>1, <1>2, <2>6, FetchRunPersists
    <3>2. KeptFile(u)'
      BY <1>1, <1>7, <2>4 DEF KeptFile, f, LocalPath, CatalogBased
    <3> QED
      BY <2>1, <2>2, <3>1, <3>2 DEF FetchRunSound
  <2>8. FetchedTyped'
    BY <1>1, <1>5, <1>6, <2>1, <2>4 DEF FetchedTyped
  <2>9. FileSound(file)'
    <3> SUFFICES ASSUME file \notin spoilt' PROVE FileSound(file)'
      BY DEF FileSound
    <3>1. \A q \in Fetchers : Writing(q, file) => q = p
      BY <2>1, <2>4, <2>a DEF FetchInd, FileSound
    <3>2. /\ fetching'[p] = run /\ \A q \in Fetchers \ {p} : fetching'[q] = fetching[q]
      BY <2>1 DEF Move, FetchInd, FetchTyped
    <3>3. \A q \in Fetchers : ~Writing(q, file)'
      BY <1>6, <2>2, <3>1, <3>2 DEF Writing, LocalPath, CatalogBased
    <3> QED
      BY <2>4, <3>3 DEF FileSound
  <2> QED
    BY <1>2, <1>9, <2>1, <2>2, <2>3, <2>4, <2>6, <2>7, <2>8, <2>9
<1>12. ASSUME NEW run \in FetchRunType, Move(p, run), FetchRunSound(run), run.step # "write",
              downloads' = downloads,
              spoilt' = IF run0.step = "write" THEN spoilt \cup {file} ELSE spoilt
       PROVE  FetchInd'
  <2>1. run0.step = "write" => file \in FileNames
    BY <1>5, <1>7
  <2>2. Persists
    BY <1>1, <1>12 DEF Persists, KeptFile, LocalPath, CatalogBased
  <2>3. FetchRunSound(run)'
    BY <1>1, <1>12, <2>2, FetchRunPersists
  <2>4. FetchedTyped'
    BY <1>1, <1>6, <1>12, <2>1 DEF FetchedTyped
  <2>5. run0.step = "write" => FileSound(file)'
    BY <1>12 DEF FileSound
  <2> QED
    BY <1>9, <1>12, <2>1, <2>2, <2>3, <2>4, <2>5
<1>13. CASE GiveUp(p)
  <2> DEFINE run == [run0 EXCEPT !.step = "fetch", !.todo = @ \ {u}, !.at = NoUnit, !.left = @ \cup {u}]
  <2>1. /\ run0.step \in {"request", "write"} /\ Move(p, run) /\ downloads' = downloads
        /\ spoilt' = IF run0.step = "write" THEN spoilt \cup {file} ELSE spoilt
    BY <1>2, <1>3, <1>7, <1>13 DEF GiveUp, f
  <2>2. /\ run.step = "fetch" /\ run.payload = run0.payload /\ run.todo = run0.todo \ {u}
        /\ run.commands = run0.commands /\ run.seen = run0.seen /\ run.left = run0.left \cup {u}
    BY <1>1, <1>2, <1>3 DEF FetchRunType
  <2>3. run \in FetchRunType
    <3>1. run0.left \cup {u} \subseteq FetchUnits
      BY <1>4, <2>1
    <3> QED
      BY <1>1, <1>2, <3>1 DEF FetchRunType, FetchSteps
  <2> HIDE DEF run
  <2>4. FetchRunSound(run)
    BY <1>1, <1>2, <1>4, <2>1, <2>2 DEF FetchRunSound
  <2> QED
    BY <1>12, <2>1, <2>2, <2>3, <2>4
<1>14. CASE StopRun(p)
  <2>1. /\ Move(p, NoRun) /\ downloads' = downloads
        /\ spoilt' = IF run0.step = "write" THEN spoilt \cup {file} ELSE spoilt
    BY <1>2, <1>3, <1>7, <1>14 DEF StopRun, f
  <2>2. NoRun \in FetchRunType /\ FetchRunSound(NoRun) /\ NoRun.step # "write"
    BY <1>1, NoRunIsSound DEF NoRun
  <2> HIDE DEF NoRun
  <2> QED
    BY <1>12, <2>1, <2>2
<1> QED
  BY <1>10, <1>11, <1>13, <1>14

LEMMA RecordingKeepsFetch ==
    ASSUME FetchInd, NEW p \in Fetchers, WriteRecord(p)
    PROVE  FetchInd'
<1>1. PICK run : run = fetching[p]
  OBVIOUS
<1>2. /\ run.step = "write_record" /\ record' = run.seen \cup run.payload
      /\ passed' = (passed \ UnitsOf(run.payload)) \cup run.left
      /\ fetching' = [fetching EXCEPT ![p] = NoRun]
      /\ UNCHANGED <<source, offered, reachable, downloads, populated, spoilt>>
  BY <1>1 DEF WriteRecord, Move
<1>3. /\ source \in Sources /\ run \in FetchRunType /\ FetchRunSound(run)
      /\ run.payload \subseteq Editions /\ run.seen \subseteq Editions
  BY <1>1 DEF FetchInd, FetchTyped, FetchRunType
<1>4. /\ FetchUnits' = FetchUnits /\ FileNames' = FileNames /\ FetchRunType' = FetchRunType
      /\ \A E : UnitsOf(E)' = UnitsOf(E)
      /\ \A u : LocalPath(u)' = LocalPath(u)
  BY <1>2, SameSource
<1>5. \A u : Here(u)' <=> Here(u)
  BY <1>2 DEF Here, KeptFile, LocalPath, CatalogBased
<1>6. \A u \in UnitsOf(run.payload) \ run.left : Here(u)
  BY <1>2, <1>3 DEF FetchRunSound, Here
\* what was here of an edition and not passed over still is
<1>7. ASSUME NEW E, \A u \in UnitsOf(E) \ passed : Here(u)
      PROVE  \A u \in UnitsOf(E) \ passed' : Here(u)
  BY <1>2, <1>6, <1>7
<1>8. UnitsOf(record') = UnitsOf(run.seen) \cup UnitsOf(run.payload)
  BY <1>2, <1>3, UnitsSplit
<1>9. \A u \in UnitsOf(record') \ passed' : Here(u)
  <2>1. \A u \in UnitsOf(run.seen) \ passed : Here(u)
    BY <1>3 DEF FetchRunSound
  <2>2. \A u \in UnitsOf(run.seen) \ passed' : Here(u)
    BY <1>7, <2>1
  <2>3. \A u \in UnitsOf(run.payload) \ passed' : Here(u)
    BY <1>2, <1>6
  <2> QED
    BY <1>8, <2>2, <2>3
<1>10. \A u \in UnitsOf(record)' \ passed' : Here(u)'
  <2>1. UnitsOf(record)' = UnitsOf(record')
    BY <1>2 DEF UnitsOf, Portions, CatalogBased
  <2> QED
    BY <1>5, <1>9, <2>1
<1>11. NoRun \in FetchRunType /\ FetchRunSound(NoRun)
  BY <1>3, NoRunIsSound
<1>12. ASSUME NEW old \in FetchRunType, FetchRunSound(old) PROVE FetchRunSound(old)'
  <2>1. \A u \in UnitsOf(old.seen) \ passed : Here(u)
    BY <1>12 DEF FetchRunSound
  <2>2. \A u \in UnitsOf(old.seen) \ passed' : Here(u)
    BY <1>7, <2>1
  <2>3. \A u \in UnitsOf(old.payload) : KeptFile(u)' <=> KeptFile(u)
    BY <1>2 DEF KeptFile, LocalPath, CatalogBased
  <2>4. /\ UnitsOf(old.payload)' = UnitsOf(old.payload) /\ UnitsOf(old.seen)' = UnitsOf(old.seen)
    BY <1>4
  <2> HIDE DEF Here, KeptFile
  <2> QED
    BY <1>2, <1>5, <1>12, <2>2, <2>3, <2>4 DEF FetchRunSound
<1>13. \A q \in Fetchers : FetchRunSound(fetching[q])'
  <2> SUFFICES ASSUME NEW q \in Fetchers PROVE FetchRunSound(fetching[q])'
    OBVIOUS
  <2>1. PICK old : old = fetching'[q]
    OBVIOUS
  <2>2. old \in FetchRunType /\ FetchRunSound(old)
    BY <1>2, <1>11, <2>1 DEF FetchInd, FetchTyped
  <2>3. FetchRunSound(old)'
    BY <1>12, <2>2
  <2> QED
    BY <2>1, <2>3 DEF FetchRunSound
<1>14. \A f \in FileNames : FileSound(f)'
  <2> SUFFICES ASSUME NEW f \in FileNames PROVE FileSound(f)'
    OBVIOUS
  <2>1. /\ fetching'[p] = NoRun /\ \A q \in Fetchers \ {p} : fetching'[q] = fetching[q]
    BY <1>2 DEF FetchInd, FetchTyped
  <2>2. \A q \in Fetchers : Writing(q, f)' <=> Writing(q, f)
    BY <1>1, <1>2, <2>1 DEF Writing, LocalPath, CatalogBased, NoRun
  <2>3. \A q \in Fetchers : Writing(q, f) => fetching'[q] = fetching[q]
    BY <1>1, <1>2, <2>1 DEF Writing
  <2> QED
    BY <1>2, <2>2, <2>3 DEF FileSound, FetchInd, Missing
<1>15. FetchTyped'
  <2>1. passed' \subseteq FetchUnits
    BY <1>2, <1>3 DEF FetchInd, FetchTyped, FetchRunType
  <2>2. FetchedTyped'
    BY <1>2, <1>4 DEF FetchInd, FetchTyped, FetchedTyped
  <2>3. fetching' \in [Fetchers -> FetchRunType]
    BY <1>2, <1>11 DEF FetchInd, FetchTyped
  <2> QED
    BY <1>2, <1>3, <1>4, <2>1, <2>2, <2>3 DEF FetchInd, FetchTyped
<1> QED
  BY <1>4, <1>10, <1>13, <1>14, <1>15 DEF FetchInd

LEMMA FetchIndInit == FetchInit => FetchInd
<1> SUFFICES ASSUME FetchInit PROVE FetchInd
  OBVIOUS
<1> USE DEF FetchInit
<1>1. source \in Sources /\ NoRun \in FetchRunType /\ FetchRunSound(NoRun) /\ UnitsOf({}) = {}
  BY UnitsSplit, NoRunIsSound
<1>2. FetchTyped
  BY <1>1 DEF FetchTyped, FetchedTyped, Missing
<1>3. \A f \in FileNames : FileSound(f)
  BY DEF FileSound, Writing, NoRun
<1>4. \A p \in Fetchers : FetchRunSound(fetching[p])
  BY <1>1
<1> QED
  BY <1>1, <1>2, <1>3, <1>4 DEF FetchInd

\* A publication, and a step that changes nothing here.
LEMMA PublishingKeepsFetch ==
    ASSUME FetchInd, UNCHANGED <<source, downloads, populated, record, fetching, passed, spoilt>>,
           offered' \subseteq Editions, reachable' \subseteq FetchUnits
    PROVE  FetchInd'
<1>1. /\ FetchUnits' = FetchUnits /\ FileNames' = FileNames /\ FetchRunType' = FetchRunType
      /\ \A E : UnitsOf(E)' = UnitsOf(E)
      /\ \A u : LocalPath(u)' = LocalPath(u)
  BY SameSource
<1>2. FetchTyped'
  BY <1>1 DEF FetchInd, FetchTyped, FetchedTyped
<1>3. \A f \in FileNames : FileSound(f)'
  BY <1>1 DEF FetchInd, FileSound, Writing, Missing, LocalPath, CatalogBased
<1>4. ASSUME NEW p \in Fetchers PROVE FetchRunSound(fetching[p])'
  BY DEF FetchInd, FetchRunSound, Here, KeptFile, LocalPath, UnitsOf, Portions, CatalogBased
<1>5. \A u \in UnitsOf(record)' \ passed' : Here(u)'
  BY DEF FetchInd, Here, KeptFile, LocalPath, UnitsOf, Portions, CatalogBased
<1> QED
  BY <1>1, <1>2, <1>3, <1>4, <1>5 DEF FetchInd

LEMMA FetchIndNext == FetchInd /\ [FetchNext]_fetchVars => FetchInd'
<1> SUFFICES ASSUME FetchInd, [FetchNext]_fetchVars PROVE FetchInd'
  OBVIOUS
<1>1. /\ source \in Sources /\ offered \subseteq Editions /\ reachable \subseteq FetchUnits
      /\ \A E \in SUBSET Editions : UnitsOf(E) \subseteq FetchUnits
  BY UnitsSplit DEF FetchInd, FetchTyped
<1>2. CASE UNCHANGED fetchVars
  BY <1>1, <1>2, PublishingKeepsFetch DEF fetchVars
<1>3. ASSUME NEW e \in Editions, NEW units \in SUBSET UnitsOf({e}), PublishEdition(e, units)
      PROVE  FetchInd'
  <2>1. UnitsOf({e}) \subseteq FetchUnits
    BY <1>1
  <2>2. offered' \subseteq Editions /\ reachable' \subseteq FetchUnits
    BY <1>1, <1>3, <2>1 DEF PublishEdition
  <2> QED
    BY <1>3, <2>2, PublishingKeepsFetch DEF PublishEdition
<1>4. ASSUME NEW u \in UnitsOf(Editions), PublishDirectory(u) PROVE FetchInd'
  <2>1. reachable' \subseteq FetchUnits /\ offered' \subseteq Editions
    BY <1>1, <1>4 DEF PublishDirectory, FetchUnits
  <2> QED
    BY <1>4, <2>1, PublishingKeepsFetch DEF PublishDirectory
<1>5. ASSUME NEW p \in Fetchers, NEW scope \in Scopes, Check(p, scope) PROVE FetchInd'
  <2>1. NewPlans \in SUBSET Editions /\ NewVintage \in SUBSET Editions
    BY <1>1 DEF NewPlans, NewVintage
  <2> HIDE DEF NewPlans, NewVintage
  <2> QED
    BY <1>5, <2>1, BeginKeepsFetch DEF Check
<1>6. ASSUME NEW p \in Fetchers, NEW scope \in Scopes, NEW e \in Forced, ForceVintage(p, e, scope)
      PROVE  FetchInd'
  <2>1. {e} \in SUBSET Editions
    BY FetchAssumption
  <2> QED
    BY <1>6, <2>1, BeginKeepsFetch DEF ForceVintage
<1>7. ASSUME NEW p \in Fetchers,
             \/ \E u \in fetching[p].todo : PassOver(p, u) \/ Request(p, u)
             \/ \E units \in fetching[p].commands : Load(p, units)
             \/ EndStage(p) \/ ReadRecord(p) \/ TruncateRecord(p)
      PROVE  FetchInd'
  BY <1>7, WaitingKeepsFetch
<1>8. ASSUME NEW p \in Fetchers, OpenLocal(p) \/ FinishFile(p) \/ GiveUp(p) \/ StopRun(p)
      PROVE  FetchInd'
  BY <1>8, WritingKeepsFetch
<1>9. ASSUME NEW p \in Fetchers, WriteRecord(p) PROVE FetchInd'
  BY <1>9, RecordingKeepsFetch
<1> QED
  BY <1>2, <1>3, <1>4, <1>5, <1>6, <1>7, <1>8, <1>9 DEF FetchNext

LEMMA FetchInvariance == FetchSpec => []FetchInd
BY FetchIndInit, FetchIndNext, PTL DEF FetchSpec

\* The files, the tables, the state file and what a run remembers only ever
\* name units and editions the source has.
THEOREM FetchTypeCorrect == FetchSpec => []FetchTypeOK
<1>1. FetchInd => FetchTypeOK
  BY DEF FetchInd, FetchTyped, FetchedTyped, FetchTypeOK, FetchRunType, FetchRunSound, FetchUnits
<1> QED
  BY <1>1, FetchInvariance, PTL

\* Whatever runs overlap, fail or are narrowed, an edition the state file names
\* is here: no later check comes back to it.
THEOREM RecordedAlwaysHere == FetchSpec => []RecordedIsHere
<1>1. FetchInd => RecordedIsHere
  <2> SUFFICES ASSUME FetchInd, NEW u \in UnitsOf(record) \ passed
               PROVE  /\ source # "acs" =>
                            \/ downloads[LocalPath(u)] = [unit |-> u, whole |-> TRUE]
                            \/ LocalPath(u) \in spoilt \/ BeingWritten(LocalPath(u))
                      /\ source # "rdh" => u \in populated
    BY DEF RecordedIsHere
  <2>1. Here(u)
    BY DEF FetchInd
  <2>2. u \in FetchUnits /\ LocalPath(u) \in FileNames /\ u # NoUnit
    BY UnitsSplit DEF FetchInd, FetchTyped
  <2>3. ASSUME source # "acs", LocalPath(u) \notin spoilt, ~BeingWritten(LocalPath(u))
        PROVE  downloads[LocalPath(u)] = [unit |-> u, whole |-> TRUE]
    <3> DEFINE f == LocalPath(u)
    <3>1. downloads[f].unit = u
      BY <2>1, <2>3 DEF Here, KeptFile
    <3>2. downloads[f] = Missing \/ downloads[f].whole
      BY <2>2, <2>3 DEF FetchInd, FileSound, Writing, BeingWritten
    <3>3. downloads[f] \in [unit : FetchUnits \cup {NoUnit}, whole : BOOLEAN]
      BY <2>2 DEF FetchInd, FetchTyped, FetchedTyped
    <3> HIDE DEF f
    <3>4. downloads[f].whole = TRUE
      BY <2>2, <3>1, <3>2, <3>3 DEF Missing
    <3>5. downloads[f] = [unit |-> u, whole |-> TRUE]
      BY <3>1, <3>3, <3>4
    <3> QED
      BY <3>5 DEF f
  <2> QED
    BY <2>1, <2>3 DEF Here
<1> QED
  BY <1>1, FetchInvariance, PTL

-----------------------------------------------------------------------------
(***************************************************************************)
(* The domain loaders.  A run that is alone has every process to itself:   *)
(* so what it downloads is no older than what the table holds, and while   *)
(* no file was written by a run in company, neither is what is on disk.    *)
(***************************************************************************)
FileType == [release : Nat, units : SUBSET Units]
LoadRunType ==
    [stage : {"idle", "fetch", "open", "write", "read"}, codes : SUBSET Units,
     got : Seq(FileType), file : FileType, alone : BOOLEAN, goal : [PartNames -> Nat]]

LoadTyped ==
    /\ command \in Commands /\ catalog \subseteq Units /\ crossed \in BOOLEAN
    /\ newest \in [PartNames -> 1..MaxRelease]
    /\ disk \in [PartNames -> FileType]
    /\ table \in [Units -> [PartNames -> Nat]]
    /\ loads \in [LoadProcs -> LoadRunType]

NextOf(run) == Parts[Len(run.got) + 1]

\* Where a run is in its list of parts, and what it holds of them.
Placed(run) ==
    /\ run.stage = "idle" => run.got = <<>> /\ ~run.alone
    /\ Len(run.got) <= Len(Parts)
    /\ run.stage \in {"open", "write", "read"} => OnDisk /\ Len(run.got) < Len(Parts)
    /\ run.stage \in {"open", "write"} =>
          /\ run.file = FileOf(NextOf(run), run.file.release)
          /\ run.file.release \in 1..newest[NextOf(run)]
    /\ \A i \in 1..Len(run.got) : run.got[i].release <= newest[Parts[i]]

\* What it holds is no newer than the files it could have come from.
Covered(run) ==
    ~crossed =>
      /\ \A i \in 1..Len(run.got) :
            disk[Parts[i]] # NoFile => run.got[i].release <= disk[Parts[i]].release
      /\ run.stage = "write" => disk[NextOf(run)].release = run.file.release

\* What a run alone holds is no older than the table.
Ahead(run) ==
    run.alone /\ ~crossed => \A u \in Units :
      /\ \A i \in 1..Len(run.got) : table[u][Parts[i]] <= run.got[i].release
      /\ run.stage \in {"open", "write"} => table[u][NextOf(run)] <= run.file.release

\* A run alone that began on an empty cache holds whole files as new as its goal.
CatchingUp(run) ==
    run.alone /\ run.goal # Nothing =>
      /\ \A p \in PartNames : 1 <= run.goal[p] /\ run.goal[p] <= newest[p]
      /\ \A i \in 1..Len(run.got) :
            /\ run.got[i] = FileOf(Parts[i], run.got[i].release)
            /\ run.goal[Parts[i]] <= run.got[i].release
      /\ run.stage \in {"open", "write"} => run.goal[NextOf(run)] <= run.file.release
      /\ \A p \in PartNames : disk[p] # NoFile =>
            /\ run.goal[p] <= disk[p].release
            /\ ~(run.stage = "write" /\ p = NextOf(run)) => disk[p] = FileOf(p, disk[p].release)

LoadSound(run) == Placed(run) /\ Covered(run) /\ Ahead(run) /\ CatchingUp(run)

LoadInd ==
    /\ LoadTyped
    /\ \A l \in LoadProcs : LoadSound(loads[l])
    /\ \A l, m \in LoadProcs : loads[l].alone /\ loads[m].stage # "idle" => l = m
    /\ \A p \in PartNames : disk[p].release <= newest[p] /\ (~OnDisk => disk[p] = NoFile)
    /\ \A u \in Units, p \in PartNames : table[u][p] <= newest[p]
    /\ ~crossed => \A p \in PartNames, u \in Units :
          disk[p] # NoFile => table[u][p] <= disk[p].release

-----------------------------------------------------------------------------

\* The parts of a command are listed once each.
LEMMA PartsListed ==
    ASSUME command \in Commands
    PROVE  /\ Parts \in Seq(PartNames) /\ Len(Parts) \in Nat \ {0}
           /\ \A i \in 1..Len(Parts) : Parts[i] \in PartNames
           /\ \A i, j \in 1..Len(Parts) : Parts[i] = Parts[j] => i = j
<1>1. command \in DOMAIN Loader
  BY LoadAssumption
<1>2. Parts \in {<<"directory", "nonfiscal", "finance">>, <<"directory", "nonfiscal">>, <<"main">>}
  BY <1>1 DEF Parts, Loader, load_nces, load_nces_schools, load_nces_edge, load_qcew,
              load_irs_soi, load_acs, load_decennial
<1>3. CASE Parts = <<"directory", "nonfiscal", "finance">>
  BY <1>3 DEF PartNames
<1>4. CASE Parts = <<"directory", "nonfiscal">>
  BY <1>4 DEF PartNames
<1>5. CASE Parts = <<"main">>
  BY <1>5 DEF PartNames
<1> QED BY <1>2, <1>3, <1>4, <1>5

LEMMA FilesRead ==
    ASSUME NEW p \in PartNames, NEW n \in 1..MaxRelease
    PROVE  /\ FileOf(p, n) \in FileType /\ FileOf(p, n).release = n /\ FileOf(p, n).units = Listed[p][n]
           /\ FileOf(p, n) # NoFile
<1>1. Listed[p][n] \subseteq Units /\ n \in Nat \ {0}
  BY LoadAssumption
<1> QED BY <1>1 DEF FileOf, FileType, NoFile

LEMMA HeldTyped ==
    ASSUME LoadTyped, NEW run \in LoadRunType, Placed(run)
    PROVE  /\ Len(run.got) \in Nat /\ Len(run.got) <= Len(Parts)
           /\ \A i \in 1..Len(run.got) :
                 /\ i \in 1..Len(Parts) /\ Parts[i] \in PartNames
                 /\ run.got[i] \in FileType /\ run.got[i].release \in Nat
           /\ Len(run.got) < Len(Parts) =>
                 /\ NextOf(run) \in PartNames
                 /\ \A i \in 1..Len(run.got) : Parts[i] # NextOf(run)
<1>1. run.got \in Seq(FileType) /\ Len(run.got) \in Nat /\ Len(run.got) <= Len(Parts)
  BY DEF LoadRunType, Placed
<1>2. /\ Len(Parts) \in Nat
      /\ \A i \in 1..Len(Parts) : Parts[i] \in PartNames
      /\ \A i, j \in 1..Len(Parts) : Parts[i] = Parts[j] => i = j
  BY PartsListed DEF LoadTyped
<1>3. PICK n \in Nat, m \in Nat : n = Len(run.got) /\ m = Len(Parts) /\ n <= m
  BY <1>1, <1>2
<1>4. \A i \in 1..n : i \in 1..m /\ Parts[i] \in PartNames
  BY <1>2, <1>3
<1>5. \A i \in 1..n : run.got[i] \in FileType
  BY <1>1, <1>3
<1>6. \A i \in 1..n : run.got[i].release \in Nat
  BY <1>5 DEF FileType
<1>7. ASSUME n < m PROVE Parts[n + 1] \in PartNames /\ \A i \in 1..n : Parts[i] # Parts[n + 1]
  <2>1. n + 1 \in 1..m /\ \A i \in 1..n : i \in 1..m /\ i # n + 1
    BY <1>3, <1>7
  <2> QED BY <2>1, <1>2, <1>3
<1> QED BY <1>1, <1>3, <1>4, <1>5, <1>6, <1>7 DEF NextOf

LEMMA ReleasesTyped ==
    ASSUME LoadTyped
    PROVE  \A p \in PartNames :
             /\ newest[p] \in 1..MaxRelease /\ newest[p] \in Nat \ {0}
             /\ disk[p] \in FileType /\ disk[p].release \in Nat
             /\ \A u \in Units : table[u][p] \in Nat
<1>1. MaxRelease \in Nat
  BY LoadAssumption
<1> QED BY <1>1 DEF LoadTyped, FileType

\* A run stays as sound as it was while releases come out.
LEMMA SoundStays ==
    ASSUME LoadTyped, NEW run \in LoadRunType, LoadSound(run),
           newest' \in [PartNames -> 1..MaxRelease],
           \A p \in PartNames : newest[p] <= newest'[p],
           UNCHANGED <<command, disk, table, crossed>>
    PROVE  LoadSound(run)'
<1>1. \A p \in PartNames : newest[p] \in Nat /\ newest'[p] \in Nat
  BY ReleasesTyped, LoadAssumption
<1>2. PICK parts : parts = Parts /\ parts = Parts' /\ OnDisk' = OnDisk
  BY DEF Parts, OnDisk
<1>3. Placed(run) /\ Covered(run) /\ Ahead(run) /\ CatchingUp(run)
  BY DEF LoadSound
<1>4. /\ Len(run.got) \in Nat
      /\ \A i \in 1..Len(run.got) : parts[i] \in PartNames /\ run.got[i].release \in Nat
      /\ Len(run.got) < Len(parts) => parts[Len(run.got) + 1] \in PartNames
  BY <1>2, <1>3, HeldTyped DEF NextOf
<1>5. Placed(run)'
  <2>1. \A i \in 1..Len(run.got) : run.got[i].release <= newest'[parts[i]]
    BY <1>1, <1>2, <1>3, <1>4 DEF Placed
  <2>2. ASSUME run.stage \in {"open", "write"}
        PROVE  run.file.release \in 1..newest'[parts[Len(run.got) + 1]]
    <3>1. PICK p \in PartNames : p = parts[Len(run.got) + 1]
      BY <1>2, <1>3, <1>4, <2>2 DEF Placed
    <3>2. run.file.release \in 1..newest[p]
      BY <1>2, <1>3, <2>2, <3>1 DEF Placed, NextOf
    <3> QED BY <1>1, <3>1, <3>2
  <2> QED BY <1>2, <1>3, <2>1, <2>2 DEF Placed, NextOf
<1>6. Covered(run)' /\ Ahead(run)'
  BY <1>2, <1>3 DEF Covered, Ahead, NextOf
<1>7. CatchingUp(run)'
  <2>1. run.goal \in [PartNames -> Nat]
    BY DEF LoadRunType
  <2>2. \A p \in PartNames : run.goal[p] \in Nat /\ (run.goal[p] <= newest[p] => run.goal[p] <= newest'[p])
    BY <1>1, <2>1
  <2> QED BY <1>2, <1>3, <2>2 DEF CatchingUp, NextOf
<1> QED BY <1>5, <1>6, <1>7 DEF LoadSound

\* The table and the cache matter to a run in company only as far as the cache
\* holds what the run has.
LEMMA CompanyStays ==
    ASSUME LoadTyped, NEW run \in LoadRunType, LoadSound(run), ~run.alone,
           UNCHANGED <<command, newest>>,
           Covered(run)'
    PROVE  LoadSound(run)'
BY DEF LoadSound, Placed, Ahead, CatchingUp, NextOf, Parts, OnDisk

LEMMA CompanyComes ==
    ASSUME LoadTyped, NEW run \in LoadRunType, LoadSound(run)
    PROVE  [run EXCEPT !.alone = FALSE] \in LoadRunType /\ LoadSound([run EXCEPT !.alone = FALSE])
<1>1. PICK other : other = [run EXCEPT !.alone = FALSE]
  OBVIOUS
<1>2. /\ other.stage = run.stage /\ other.got = run.got /\ other.file = run.file
      /\ ~other.alone /\ other \in LoadRunType
  BY <1>1 DEF LoadRunType
<1> QED BY <1>1, <1>2 DEF LoadSound, Placed, Covered, Ahead, CatchingUp, NextOf

\* A step of one run that is under way, over the same tables.
LEMMA LoadStep ==
    ASSUME LoadInd, NEW l \in LoadProcs, NEW run \in LoadRunType,
           loads' = [loads EXCEPT ![l] = run], LoadSound(run),
           run.alone => loads[l].alone, loads[l].stage # "idle",
           UNCHANGED <<command, newest, disk, catalog, table, crossed>>
    PROVE  LoadInd'
<1>1. /\ loads' \in [LoadProcs -> LoadRunType] /\ loads'[l] = run
      /\ \A m \in LoadProcs \ {l} : loads'[m] = loads[m]
  BY DEF LoadInd, LoadTyped
<1>2. LoadTyped'
  BY <1>1 DEF LoadInd, LoadTyped
<1>3. ASSUME NEW m \in LoadProcs PROVE LoadSound(loads[m])'
  <2>1. PICK other : other = loads'[m]
    OBVIOUS
  <2>2. other \in LoadRunType /\ LoadSound(other)
    BY <1>1, <2>1 DEF LoadInd, LoadTyped
  <2>3. newest' \in [PartNames -> 1..MaxRelease] /\ \A p \in PartNames : newest[p] <= newest'[p]
    BY ReleasesTyped DEF LoadInd, LoadTyped
  <2>4. LoadSound(other)'
    BY <2>2, <2>3, SoundStays DEF LoadInd
  <2>5. Placed(loads[m])'
    BY <2>1, <2>4 DEF LoadSound, Placed, NextOf
  <2>6. Covered(loads[m])'
    BY <2>1, <2>4 DEF LoadSound, Covered, NextOf
  <2>7. Ahead(loads[m])'
    BY <2>1, <2>4 DEF LoadSound, Ahead, NextOf
  <2>8. CatchingUp(loads[m])'
    BY <2>1, <2>4 DEF LoadSound, CatchingUp, NextOf
  <2> QED BY <2>5, <2>6, <2>7, <2>8 DEF LoadSound
<1>4. ASSUME NEW k \in LoadProcs, NEW m \in LoadProcs, loads'[k].alone, loads'[m].stage # "idle"
      PROVE  k = m
  <2>1. loads[k].alone /\ loads[m].stage # "idle"
    BY <1>1, <1>4
  <2> QED BY <2>1 DEF LoadInd
<1> QED BY <1>2, <1>3, <1>4 DEF LoadInd, OnDisk

LEMMA PublishKeepsLoads ==
    ASSUME LoadInd, NEW p \in PartNames, Publish(p)
    PROVE  LoadInd'
<1>1. newest[p] < MaxRelease /\ newest' = [newest EXCEPT ![p] = newest[p] + 1]
      /\ UNCHANGED <<command, disk, catalog, table, loads, crossed>>
  BY DEF Publish
<1>2. \A q \in PartNames : newest[q] \in 1..MaxRelease /\ newest[q] \in Nat
  BY ReleasesTyped DEF LoadInd
<1>3. newest[p] + 1 \in 1..MaxRelease
  BY <1>1, <1>2, LoadAssumption
<1>4. newest' \in [PartNames -> 1..MaxRelease]
  BY <1>1, <1>3 DEF LoadInd, LoadTyped
<1>5. \A q \in PartNames : newest[q] <= newest'[q] /\ newest'[q] \in Nat
  BY <1>1, <1>2 DEF LoadInd, LoadTyped
<1>6. LoadTyped'
  BY <1>1, <1>4 DEF LoadInd, LoadTyped
<1>7. ASSUME NEW m \in LoadProcs PROVE LoadSound(loads[m])'
  <2>1. PICK other : other = loads[m] /\ other = loads'[m]
    BY <1>1
  <2>2. other \in LoadRunType /\ LoadSound(other)
    BY <2>1 DEF LoadInd, LoadTyped
  <2>3. LoadSound(other)'
    BY <1>1, <1>4, <1>5, <2>2, SoundStays DEF LoadInd
  <2> QED BY <2>1, <2>3 DEF LoadSound, Placed, Covered, Ahead, CatchingUp, NextOf
<1>8. \A q \in PartNames : disk'[q].release <= newest'[q]
  <2> TAKE q \in PartNames
  <2>1. disk[q].release \in Nat /\ disk[q].release <= newest[q]
    BY ReleasesTyped DEF LoadInd
  <2> QED BY <1>1, <1>2, <1>5, <2>1
<1>9. \A u \in Units, q \in PartNames : table'[u][q] <= newest'[q]
  <2> TAKE u \in Units, q \in PartNames
  <2>1. table[u][q] \in Nat /\ table[u][q] <= newest[q]
    BY ReleasesTyped DEF LoadInd
  <2> QED BY <1>1, <1>2, <1>5, <2>1
<1> QED BY <1>1, <1>6, <1>7, <1>8, <1>9 DEF LoadInd, OnDisk

LEMMA ClearKeepsLoads == ASSUME LoadInd, ClearCache PROVE LoadInd'
<1>1. /\ \A l \in LoadProcs : loads[l].stage # "write"
      /\ disk' = [p \in PartNames |-> NoFile] /\ crossed' = FALSE
      /\ loads' = [l \in LoadProcs |-> [loads[l] EXCEPT !.alone = FALSE]]
      /\ UNCHANGED <<command, newest, catalog, table>>
  BY DEF ClearCache
<1>2. NoFile \in FileType /\ NoFile.release = 0
  BY DEF NoFile, FileType
<1>3. ASSUME NEW l \in LoadProcs
      PROVE  loads'[l] \in LoadRunType /\ ~loads'[l].alone /\ LoadSound(loads[l])'
  <2>1. PICK run : run = [loads[l] EXCEPT !.alone = FALSE]
    OBVIOUS
  <2>2. loads[l] \in LoadRunType /\ LoadSound(loads[l]) /\ loads[l].stage # "write"
    BY <1>1 DEF LoadInd, LoadTyped
  <2>3. run \in LoadRunType /\ LoadSound(run) /\ ~run.alone /\ run.stage # "write"
    BY <2>1, <2>2, CompanyComes DEF LoadInd, LoadRunType
  <2>4. \A i \in 1..Len(run.got) : Parts[i] \in PartNames
    BY <2>3, HeldTyped DEF LoadInd, LoadSound
  <2>5. Parts' = Parts
    BY <1>1 DEF Parts
  <2>6. Covered(run)'
    BY <1>1, <2>3, <2>4, <2>5 DEF Covered
  <2>7. LoadSound(run)'
    BY <1>1, <2>3, <2>6, CompanyStays DEF LoadInd
  <2>8. run = loads'[l]
    BY <1>1, <2>1
  <2> QED BY <2>3, <2>7, <2>8 DEF LoadSound, Placed, Covered, Ahead, CatchingUp, NextOf
<1>4. LoadTyped'
  BY <1>1, <1>2, <1>3 DEF LoadInd, LoadTyped
<1>5. \A p \in PartNames : disk'[p].release <= newest'[p]
  BY <1>1, <1>2, ReleasesTyped DEF LoadInd
<1>6. \A p \in PartNames : disk'[p] = NoFile
  BY <1>1
<1> QED BY <1>1, <1>3, <1>4, <1>5, <1>6 DEF LoadInd

LEMMA BeginKeepsLoads ==
    ASSUME LoadInd, NEW l \in LoadProcs, BeginLoad(l)
    PROVE  LoadInd'
<1>1. PICK run : run = [NoLoad EXCEPT !.stage = "fetch", !.alone = Loading = {},
                  !.codes = IF Catalogued THEN catalog ELSE Units,
                  !.goal = IF \A p \in PartNames : disk[p] = NoFile THEN newest ELSE Nothing]
  OBVIOUS
<1>2. /\ loads[l].stage = "idle"
      /\ loads' = [m \in LoadProcs |-> IF m # l THEN [loads[m] EXCEPT !.alone = FALSE] ELSE run]
      /\ UNCHANGED <<command, newest, disk, catalog, table, crossed>>
  BY <1>1 DEF BeginLoad, Loading
<1>3. /\ run.stage = "fetch" /\ run.got = <<>> /\ run.alone = (Loading = {})
      /\ run.goal = IF \A p \in PartNames : disk[p] = NoFile THEN newest ELSE Nothing
  BY <1>1 DEF NoLoad
<1>4. run \in LoadRunType
  <2>1. newest \in [PartNames -> Nat] /\ Nothing \in [PartNames -> Nat]
    BY ReleasesTyped DEF Nothing, LoadInd, LoadTyped
  <2>2. NoLoad.file \in FileType /\ <<>> \in Seq(FileType)
    BY DEF NoLoad, NoFile, FileType
  <2>3. catalog \subseteq Units
    BY DEF LoadInd, LoadTyped
  <2> QED BY <1>1, <2>1, <2>2, <2>3 DEF NoLoad, LoadRunType
<1>5. LoadSound(run)
  <2>1. Placed(run) /\ Covered(run) /\ Ahead(run)
    BY <1>3, PartsListed DEF Placed, Covered, Ahead, LoadInd, LoadTyped
  <2>2. CatchingUp(run)
    BY <1>3, ReleasesTyped DEF CatchingUp, LoadInd
  <2> QED BY <2>1, <2>2 DEF LoadSound
<1>6. ASSUME NEW m \in LoadProcs
      PROVE  loads'[m] \in LoadRunType /\ LoadSound(loads[m])' /\ (m # l => ~loads'[m].alone)
  <2>1. PICK other : other = loads'[m]
    OBVIOUS
  <2>2. other = IF m # l THEN [loads[m] EXCEPT !.alone = FALSE] ELSE run
    BY <1>2, <2>1
  <2>3. loads[m] \in LoadRunType /\ LoadSound(loads[m])
    BY DEF LoadInd, LoadTyped
  <2>4. other \in LoadRunType /\ LoadSound(other) /\ (m # l => ~other.alone)
    <3>1. CASE m # l
      BY <2>2, <2>3, <3>1, CompanyComes DEF LoadInd, LoadRunType
    <3>2. CASE m = l
      BY <2>2, <3>2, <1>4, <1>5
    <3> QED BY <3>1, <3>2
  <2>5. newest' \in [PartNames -> 1..MaxRelease] /\ \A p \in PartNames : newest[p] <= newest'[p]
    BY <1>2, ReleasesTyped DEF LoadInd, LoadTyped
  <2>6. LoadSound(other)'
    BY <1>2, <2>4, <2>5, SoundStays DEF LoadInd
  <2> QED BY <2>1, <2>4, <2>6 DEF LoadSound, Placed, Covered, Ahead, CatchingUp, NextOf
<1>7. LoadTyped'
  BY <1>2, <1>6 DEF LoadInd, LoadTyped
<1>8. ASSUME NEW k \in LoadProcs, NEW m \in LoadProcs, loads'[k].alone, loads'[m].stage # "idle"
      PROVE  k = m
  <2>1. k = l /\ run.alone
    BY <1>2, <1>6, <1>8
  <2>2. \A n \in LoadProcs : loads[n].stage = "idle"
    BY <1>3, <2>1 DEF Loading
  <2>3. m # l => loads'[m].stage = loads[m].stage
    BY <1>2 DEF LoadInd, LoadTyped, LoadRunType
  <2> QED BY <1>8, <2>1, <2>2, <2>3
<1> QED BY <1>2, <1>6, <1>7, <1>8 DEF LoadInd, OnDisk

\* A release downloaded is the newest of its part.
LEMMA NewestIsAhead ==
    ASSUME LoadInd, NEW p \in PartNames
    PROVE  /\ FileOf(p, newest[p]) \in FileType /\ FileOf(p, newest[p]).release = newest[p]
           /\ newest[p] \in Nat /\ newest[p] \in 1..newest[p]
           /\ \A u \in Units : table[u][p] <= newest[p]
<1>1. newest[p] \in 1..MaxRelease /\ newest[p] \in Nat \ {0}
  BY ReleasesTyped DEF LoadInd
<1> QED BY <1>1, FilesRead DEF LoadInd

LEMMA DownloadKeepsLoads ==
    ASSUME LoadInd, NEW l \in LoadProcs, Download(l)
    PROVE  LoadInd'
<1> DEFINE f == loads[l]
<1>1. f \in LoadRunType /\ LoadSound(f) /\ Placed(f) /\ Len(f.got) <= Len(Parts) /\ Len(f.got) # Len(Parts)
  BY DEF LoadInd, LoadTyped, LoadSound, Placed, Download, Fetched
<1>2. Len(Parts) \in Nat /\ Len(f.got) \in Nat
  BY <1>1, PartsListed, HeldTyped DEF LoadInd, LoadTyped
<1>3. Len(f.got) < Len(Parts)
  BY <1>1, <1>2
<1>4. PICK p \in PartNames : p = NextOf(f)
  BY <1>1, <1>3, HeldTyped DEF LoadInd
<1>5. PICK file : file = FileOf(p, newest[p])
  OBVIOUS
<1>6. PICK run : run = [f EXCEPT !.stage = "open", !.file = file]
  OBVIOUS
<1>7. /\ f.stage = "fetch" /\ disk[p] = NoFile /\ OnDisk
      /\ loads' = [loads EXCEPT ![l] = run]
      /\ UNCHANGED <<command, newest, disk, catalog, table, crossed>>
  BY <1>4, <1>5, <1>6 DEF Download, NextOf, NextPart, LoadInd, LoadTyped
<1>8. /\ file \in FileType /\ file.release = newest[p] /\ newest[p] \in 1..newest[p] /\ newest[p] \in Nat
      /\ file = FileOf(p, file.release)
      /\ \A u \in Units : table[u][p] <= newest[p]
  BY <1>5, NewestIsAhead
<1>9. /\ run.stage = "open" /\ run.got = f.got /\ run.file = file /\ run.alone = f.alone
      /\ run.goal = f.goal /\ run \in LoadRunType
  BY <1>1, <1>6, <1>8 DEF LoadRunType
<1>10. NextOf(run) = p
  BY <1>4, <1>9 DEF NextOf
<1>11. Placed(run)
  BY <1>1, <1>3, <1>7, <1>8, <1>9, <1>10 DEF Placed
<1>12. Covered(run) /\ Ahead(run)
  BY <1>1, <1>7, <1>8, <1>9, <1>10 DEF LoadSound, Covered, Ahead
<1>13. CatchingUp(run)
  BY <1>1, <1>7, <1>8, <1>9, <1>10 DEF LoadSound, CatchingUp
<1>14. LoadSound(run)
  BY <1>11, <1>12, <1>13 DEF LoadSound
<1> QED BY <1>7, <1>9, <1>14, LoadStep

\* The next part is in hand: a file that is whole if nobody is in company, and
\* neither newer than what is on disk nor older than the table.
LEMMA TakeKeepsLoads ==
    ASSUME LoadInd, NEW l \in LoadProcs, NEW file \in FileType,
           loads[l].stage \in {"fetch", "read"}, ~Fetched(l), loads' = Take(l, file),
           UNCHANGED <<command, newest, disk, catalog, table, crossed>>,
           file.release <= newest[NextOf(loads[l])],
           ~crossed => /\ disk[NextOf(loads[l])] # NoFile => file.release <= disk[NextOf(loads[l])].release
                       /\ \A u \in Units : table[u][NextOf(loads[l])] <= file.release,
           loads[l].alone /\ loads[l].goal # Nothing =>
              /\ file = FileOf(NextOf(loads[l]), file.release)
              /\ loads[l].goal[NextOf(loads[l])] <= file.release
    PROVE  LoadInd'
<1> DEFINE f == loads[l]
<1>1. /\ f \in LoadRunType /\ LoadSound(f) /\ Placed(f) /\ f.got \in Seq(FileType)
      /\ Len(f.got) <= Len(Parts) /\ Len(f.got) # Len(Parts)
  BY DEF LoadInd, LoadTyped, LoadSound, Placed, Fetched, LoadRunType
<1>2. Len(Parts) \in Nat /\ Len(f.got) \in Nat
  BY <1>1, PartsListed, HeldTyped DEF LoadInd, LoadTyped
<1>3. PICK n \in Nat, m \in Nat : n = Len(f.got) /\ m = Len(Parts) /\ n + 1 <= m
  BY <1>1, <1>2
<1>4. PICK p \in PartNames : p = NextOf(f) /\ p = Parts[n + 1]
  BY <1>1, <1>3, HeldTyped DEF LoadInd, NextOf
<1>5. PICK run : run = [f EXCEPT !.stage = "fetch", !.got = Append(f.got, file)]
  OBVIOUS
<1>6. loads' = [loads EXCEPT ![l] = run]
  BY <1>5 DEF Take, LoadInd, LoadTyped
<1>7. /\ Append(f.got, file) \in Seq(FileType) /\ Len(Append(f.got, file)) = n + 1
      /\ \A i \in 1..n : Append(f.got, file)[i] = f.got[i]
      /\ Append(f.got, file)[n + 1] = file
  BY <1>1, <1>3, AppendProperties
<1>8. /\ run.stage = "fetch" /\ run.alone = f.alone /\ run.goal = f.goal /\ run \in LoadRunType
      /\ Len(run.got) = n + 1 /\ run.got[n + 1] = file /\ \A i \in 1..n : run.got[i] = f.got[i]
      /\ \A i \in 1..(n + 1) : i \in 1..n \/ i = n + 1
  <2>1. /\ run.stage = "fetch" /\ run.alone = f.alone /\ run.goal = f.goal /\ run \in LoadRunType
        /\ run.got = Append(f.got, file)
    BY <1>1, <1>5, <1>7 DEF LoadRunType
  <2>2. \A i \in 1..(n + 1) : i \in 1..n \/ i = n + 1
    BY <1>3
  <2> QED BY <1>7, <2>1, <2>2
<1>9. Placed(run)
  <2>1. \A i \in 1..(n + 1) : run.got[i].release <= newest[Parts[i]]
    BY <1>1, <1>3, <1>4, <1>8 DEF Placed
  <2> QED BY <1>3, <1>8, <2>1 DEF Placed
<1>10. Covered(run)
  BY <1>1, <1>3, <1>4, <1>8 DEF LoadSound, Covered
<1>11. Ahead(run)
  BY <1>1, <1>3, <1>4, <1>8 DEF LoadSound, Ahead
<1>12. CatchingUp(run)
  <2> SUFFICES ASSUME run.alone, run.goal # Nothing
               PROVE  /\ \A q \in PartNames : 1 <= run.goal[q] /\ run.goal[q] <= newest[q]
                      /\ \A i \in 1..(n + 1) :
                            /\ run.got[i] = FileOf(Parts[i], run.got[i].release)
                            /\ run.goal[Parts[i]] <= run.got[i].release
                      /\ \A q \in PartNames : disk[q] # NoFile =>
                            /\ run.goal[q] <= disk[q].release
                            /\ disk[q] = FileOf(q, disk[q].release)
    BY <1>8 DEF CatchingUp
  <2>1. /\ \A q \in PartNames : 1 <= f.goal[q] /\ f.goal[q] <= newest[q]
        /\ \A i \in 1..n :
              /\ f.got[i] = FileOf(Parts[i], f.got[i].release)
              /\ f.goal[Parts[i]] <= f.got[i].release
        /\ \A q \in PartNames : disk[q] # NoFile =>
              /\ f.goal[q] <= disk[q].release
              /\ disk[q] = FileOf(q, disk[q].release)
    BY <1>1, <1>3, <1>8 DEF LoadSound, CatchingUp
  <2> QED BY <1>3, <1>4, <1>8, <2>1
<1>13. LoadSound(run)
  BY <1>9, <1>10, <1>11, <1>12 DEF LoadSound
<1> QED BY <1>6, <1>8, <1>13, LoadStep

LEMMA ReadKeepsLoads ==
    ASSUME LoadInd, NEW l \in LoadProcs, ReadFile(l)
    PROVE  LoadInd'
<1>1. /\ loads[l].stage \in {"fetch", "read"} /\ ~Fetched(l)
      /\ disk[NextOf(loads[l])] # NoFile
      /\ loads' = Take(l, disk[NextOf(loads[l])])
      /\ UNCHANGED <<command, newest, disk, catalog, table, crossed>>
  BY DEF ReadFile, NextOf, NextPart
<1>2. loads[l] \in LoadRunType /\ Placed(loads[l]) /\ CatchingUp(loads[l])
  BY DEF LoadInd, LoadTyped, LoadSound
<1>3. Len(loads[l].got) < Len(Parts)
  BY <1>1, <1>2, HeldTyped, PartsListed DEF LoadInd, LoadTyped, Fetched
<1>4. PICK p \in PartNames : p = NextOf(loads[l])
  BY <1>2, <1>3, HeldTyped DEF LoadInd
<1>5. disk[p] \in FileType /\ disk[p].release \in Nat /\ disk[p].release <= newest[p]
  BY ReleasesTyped DEF LoadInd
<1>6. ~crossed => \A u \in Units : table[u][p] <= disk[p].release
  BY <1>1, <1>4 DEF LoadInd
<1>7. loads[l].alone /\ loads[l].goal # Nothing =>
         disk[p] = FileOf(p, disk[p].release) /\ loads[l].goal[p] <= disk[p].release
  BY <1>1, <1>2, <1>4 DEF CatchingUp
<1>8. PICK file \in FileType : file = disk[p]
  BY <1>5
<1>9. file.release <= file.release
  BY <1>5, <1>8
<1> QED BY <1>1, <1>4, <1>5, <1>6, <1>7, <1>8, <1>9, TakeKeepsLoads

LEMMA FetchKeepsLoads ==
    ASSUME LoadInd, NEW l \in LoadProcs, FetchPart(l)
    PROVE  LoadInd'
<1>1. /\ loads[l].stage = "fetch" /\ ~Fetched(l)
      /\ loads' = Take(l, FileOf(NextOf(loads[l]), newest[NextOf(loads[l])]))
      /\ UNCHANGED <<command, newest, disk, catalog, table, crossed>>
  BY DEF FetchPart, NextOf, NextPart
<1>2. loads[l] \in LoadRunType /\ Placed(loads[l]) /\ CatchingUp(loads[l])
  BY DEF LoadInd, LoadTyped, LoadSound
<1>3. Len(loads[l].got) < Len(Parts)
  BY <1>1, <1>2, HeldTyped, PartsListed DEF LoadInd, LoadTyped, Fetched
<1>4. PICK p \in PartNames : p = NextOf(loads[l])
  BY <1>2, <1>3, HeldTyped DEF LoadInd
<1>5. PICK file \in FileType : file = FileOf(p, newest[p])
  BY NewestIsAhead
<1>6. /\ file.release = newest[p] /\ newest[p] \in Nat /\ file = FileOf(p, file.release)
      /\ \A u \in Units : table[u][p] <= file.release
  BY <1>5, NewestIsAhead
<1>7. loads[l].alone /\ loads[l].goal # Nothing => loads[l].goal[p] <= file.release
  BY <1>2, <1>6 DEF CatchingUp
<1>8. file.release <= newest[p]
  BY <1>6
<1>9. disk[p] = NoFile
  BY DEF LoadInd, FetchPart
<1> QED BY <1>1, <1>4, <1>5, <1>6, <1>7, <1>8, <1>9, TakeKeepsLoads

LEMMA OpenKeepsLoads ==
    ASSUME LoadInd, NEW l \in LoadProcs, OpenFile(l)
    PROVE  LoadInd'
<1> DEFINE f == loads[l]
<1>1. /\ f \in LoadRunType /\ LoadSound(f) /\ Placed(f) /\ Covered(f) /\ Ahead(f) /\ CatchingUp(f)
      /\ f.stage = "open" /\ f.file \in FileType /\ OnDisk /\ Len(f.got) < Len(Parts)
  BY DEF LoadInd, LoadTyped, LoadRunType, LoadSound, Placed, OpenFile
<1>2. PICK p \in PartNames : p = NextOf(f)
  BY <1>1, HeldTyped DEF LoadInd
<1>3. f.file = FileOf(p, f.file.release) /\ f.file.release \in 1..newest[p]
  BY <1>1, <1>2 DEF Placed
<1>4. PICK file : file = [f.file EXCEPT !.units = {}]
  OBVIOUS
<1>5. PICK run : run = [f EXCEPT !.stage = "write"]
  OBVIOUS
<1>6. /\ disk' = [disk EXCEPT ![p] = file]
      /\ loads' = [loads EXCEPT ![l] = run]
      /\ crossed' = (crossed \/ ~f.alone)
      /\ UNCHANGED <<command, newest, catalog, table>>
  BY <1>2, <1>4, <1>5 DEF OpenFile, NextOf, NextPart, LoadInd, LoadTyped
<1>7. /\ file \in FileType /\ file.release = f.file.release /\ file.release \in Nat \ {0}
      /\ file.release <= newest[p] /\ file # NoFile
  <2>1. file \in FileType /\ file.release = f.file.release
    BY <1>1, <1>4 DEF FileType
  <2>2. file.release \in Nat \ {0} /\ file.release <= newest[p]
    BY <1>3, <2>1, ReleasesTyped DEF LoadInd
  <2> QED BY <2>1, <2>2 DEF NoFile
<1>8. /\ run.stage = "write" /\ run.got = f.got /\ run.file = f.file /\ run.alone = f.alone
      /\ run.goal = f.goal /\ run \in LoadRunType
  BY <1>1, <1>5 DEF LoadRunType
<1>9. /\ disk' \in [PartNames -> FileType] /\ disk'[p] = file
      /\ \A q \in PartNames \ {p} : disk'[q] = disk[q]
  BY <1>6, <1>7 DEF LoadInd, LoadTyped
<1>10. /\ loads' \in [LoadProcs -> LoadRunType] /\ loads'[l] = run
       /\ \A m \in LoadProcs \ {l} : loads'[m] = loads[m]
  BY <1>6, <1>8 DEF LoadInd, LoadTyped
<1>11. LoadTyped' /\ Parts' = Parts /\ OnDisk' = OnDisk
  BY <1>1, <1>6, <1>9, <1>10 DEF LoadInd, LoadTyped, Parts, OnDisk
<1>12. NextOf(run) = p /\ NextOf(run)' = p
  BY <1>2, <1>8, <1>11 DEF NextOf
<1>13. /\ Len(f.got) \in Nat
       /\ \A i \in 1..Len(f.got) : Parts[i] \in PartNames /\ Parts[i] # p
  BY <1>1, <1>2, HeldTyped DEF LoadInd
<1>14. LoadSound(run)'
  <2>1. Placed(run)'
    BY <1>1, <1>2, <1>6, <1>8, <1>11, <1>12 DEF Placed
  <2>2. Covered(run)'
    BY <1>1, <1>6, <1>7, <1>8, <1>9, <1>11, <1>12, <1>13 DEF Covered
  <2>3. Ahead(run)'
    BY <1>1, <1>2, <1>6, <1>8, <1>11, <1>12 DEF Ahead
  <2>4. CatchingUp(run)'
    BY <1>1, <1>2, <1>6, <1>7, <1>8, <1>9, <1>11, <1>12 DEF CatchingUp
  <2> QED BY <2>1, <2>2, <2>3, <2>4 DEF LoadSound
<1>15. ASSUME NEW m \in LoadProcs \ {l} PROVE LoadSound(loads[m])'
  <2>1. PICK other : other = loads'[m] /\ other = loads[m]
    BY <1>10
  <2>2. other \in LoadRunType /\ LoadSound(other) /\ ~other.alone
    BY <1>1, <2>1 DEF LoadInd, LoadTyped
  <2>3. ~crossed' => other.got = <<>> /\ other.stage = "idle"
    <3>1. CASE f.alone
      <4>1. other.stage = "idle"
        BY <3>1, <2>1 DEF LoadInd
      <4> QED BY <2>2, <4>1 DEF LoadSound, Placed
    <3>2. CASE ~f.alone
      BY <3>2, <1>6
    <3> QED BY <3>1, <3>2
  <2>4. Covered(other)'
    BY <2>3 DEF Covered
  <2>5. LoadSound(other)'
    BY <1>6, <2>2, <2>4, CompanyStays DEF LoadInd
  <2> QED BY <2>1, <2>5 DEF LoadSound, Placed, Covered, Ahead, CatchingUp, NextOf
<1>16. ASSUME NEW m \in LoadProcs PROVE LoadSound(loads[m])'
  <2>1. CASE m = l
    BY <2>1, <1>10, <1>14 DEF LoadSound, Placed, Covered, Ahead, CatchingUp, NextOf
  <2> QED BY <2>1, <1>15
<1>17. ASSUME NEW k \in LoadProcs, NEW m \in LoadProcs, loads'[k].alone, loads'[m].stage # "idle"
       PROVE  k = m
  <2>1. loads[k].alone /\ loads[m].stage # "idle"
    BY <1>1, <1>8, <1>10, <1>17
  <2> QED BY <2>1 DEF LoadInd
<1>18. \A q \in PartNames : disk'[q].release <= newest'[q] /\ (~OnDisk' => disk'[q] = NoFile)
  BY <1>1, <1>6, <1>7, <1>9, <1>11 DEF LoadInd
<1>19. \A u \in Units, q \in PartNames : table'[u][q] <= newest'[q]
  BY <1>6 DEF LoadInd
<1>20. ASSUME ~crossed', NEW q \in PartNames, NEW u \in Units, disk'[q] # NoFile
       PROVE  table'[u][q] <= disk'[q].release
  <2>1. ~crossed /\ f.alone
    BY <1>6, <1>20
  <2>2. CASE q = p
    BY <1>1, <1>2, <1>6, <1>7, <1>9, <2>1, <2>2 DEF Ahead
  <2>3. CASE q # p
    BY <1>6, <1>9, <1>20, <2>1, <2>3 DEF LoadInd
  <2> QED BY <2>2, <2>3
<1> QED BY <1>11, <1>16, <1>17, <1>18, <1>19, <1>20 DEF LoadInd

LEMMA WriteKeepsLoads ==
    ASSUME LoadInd, NEW l \in LoadProcs, WriteFile(l)
    PROVE  LoadInd'
<1> DEFINE f == loads[l]
<1>1. /\ f \in LoadRunType /\ LoadSound(f) /\ Placed(f) /\ Covered(f) /\ Ahead(f) /\ CatchingUp(f)
      /\ f.stage = "write" /\ f.file \in FileType /\ OnDisk /\ Len(f.got) < Len(Parts)
  BY DEF LoadInd, LoadTyped, LoadRunType, LoadSound, Placed, WriteFile
<1>2. PICK p \in PartNames : p = NextOf(f)
  BY <1>1, HeldTyped DEF LoadInd
<1>3. PICK file : file = f.file
  OBVIOUS
<1>4. file \in FileType /\ file = FileOf(p, file.release) /\ file.release \in 1..newest[p]
  BY <1>1, <1>2, <1>3 DEF Placed
<1>5. PICK run : run = [f EXCEPT !.stage = "read", !.file = NoFile]
  OBVIOUS
<1>6. /\ disk' = [disk EXCEPT ![p] = file]
      /\ loads' = [loads EXCEPT ![l] = run]
      /\ UNCHANGED <<command, newest, catalog, table, crossed>>
  BY <1>2, <1>3, <1>5 DEF WriteFile, NextOf, NextPart, LoadInd, LoadTyped
<1>7. file.release \in Nat \ {0} /\ file.release <= newest[p] /\ file # NoFile
  <2>1. file.release \in Nat \ {0} /\ file.release <= newest[p]
    BY <1>4, ReleasesTyped DEF LoadInd
  <2> QED BY <2>1 DEF NoFile
<1>8. /\ run.stage = "read" /\ run.got = f.got /\ run.alone = f.alone
      /\ run.goal = f.goal /\ run \in LoadRunType
  <2>1. NoFile \in FileType
    BY DEF NoFile, FileType
  <2> QED BY <1>1, <1>5, <2>1 DEF LoadRunType
<1>9. /\ disk' \in [PartNames -> FileType] /\ disk'[p] = file
      /\ \A q \in PartNames \ {p} : disk'[q] = disk[q]
  BY <1>4, <1>6 DEF LoadInd, LoadTyped
<1>10. /\ loads' \in [LoadProcs -> LoadRunType] /\ loads'[l] = run
       /\ \A m \in LoadProcs \ {l} : loads'[m] = loads[m]
  BY <1>6, <1>8 DEF LoadInd, LoadTyped
<1>11. LoadTyped' /\ Parts' = Parts /\ OnDisk' = OnDisk
  BY <1>1, <1>6, <1>9, <1>10 DEF LoadInd, LoadTyped, Parts, OnDisk
\* the file that was opened is the one that is written
<1>12. ~crossed => disk[p].release = file.release /\ disk[p] # NoFile
  BY <1>1, <1>2, <1>3, <1>7 DEF Covered, NoFile
<1>13. ~crossed => \A q \in PartNames : disk'[q].release = disk[q].release /\ (disk'[q] # NoFile => disk[q] # NoFile)
  BY <1>9, <1>12
<1>14. \A i \in 1..Len(f.got) : Parts[i] \in PartNames /\ Parts[i] # p
  BY <1>1, <1>2, HeldTyped DEF LoadInd
<1>15. LoadSound(run)'
  <2>1. Placed(run)'
    BY <1>1, <1>6, <1>8, <1>11 DEF Placed
  <2>2. Covered(run)'
    BY <1>1, <1>6, <1>8, <1>9, <1>11, <1>14 DEF Covered
  <2>3. Ahead(run)'
    BY <1>1, <1>6, <1>8, <1>11 DEF Ahead
  <2>4. CatchingUp(run)'
    BY <1>1, <1>2, <1>3, <1>4, <1>6, <1>8, <1>9, <1>11 DEF CatchingUp
  <2> QED BY <2>1, <2>2, <2>3, <2>4 DEF LoadSound
<1>16. ASSUME NEW m \in LoadProcs \ {l} PROVE LoadSound(loads[m])'
  <2>1. PICK other : other = loads'[m] /\ other = loads[m]
    BY <1>10
  <2>2. other \in LoadRunType /\ LoadSound(other) /\ Placed(other) /\ Covered(other) /\ ~other.alone
    BY <1>1, <2>1 DEF LoadInd, LoadTyped, LoadSound
  <2>3. /\ \A i \in 1..Len(other.got) : Parts[i] \in PartNames
        /\ other.stage = "write" => NextOf(other) \in PartNames
    BY <2>2, HeldTyped DEF LoadInd, Placed
  <2>4. NextOf(other)' = NextOf(other)
    BY <1>11 DEF NextOf
  <2>5. Covered(other)'
    BY <1>6, <1>11, <1>13, <2>2, <2>3, <2>4 DEF Covered
  <2>6. LoadSound(other)'
    BY <1>6, <2>2, <2>5, CompanyStays DEF LoadInd
  <2> QED BY <2>1, <2>6 DEF LoadSound, Placed, Covered, Ahead, CatchingUp, NextOf
<1>17. ASSUME NEW m \in LoadProcs PROVE LoadSound(loads[m])'
  <2>1. CASE m = l
    BY <2>1, <1>10, <1>15 DEF LoadSound, Placed, Covered, Ahead, CatchingUp, NextOf
  <2> QED BY <2>1, <1>16
<1>18. ASSUME NEW k \in LoadProcs, NEW m \in LoadProcs, loads'[k].alone, loads'[m].stage # "idle"
       PROVE  k = m
  <2>1. loads[k].alone /\ loads[m].stage # "idle"
    BY <1>1, <1>8, <1>10, <1>18
  <2> QED BY <2>1 DEF LoadInd
<1>19. \A q \in PartNames : disk'[q].release <= newest'[q] /\ (~OnDisk' => disk'[q] = NoFile)
  BY <1>1, <1>6, <1>7, <1>9, <1>11 DEF LoadInd
<1>20. ~crossed' => \A q \in PartNames, u \in Units : disk'[q] # NoFile => table'[u][q] <= disk'[q].release
  BY <1>6, <1>13 DEF LoadInd
<1> QED BY <1>6, <1>11, <1>17, <1>18, <1>19, <1>20 DEF LoadInd

LEMMA StopKeepsLoads ==
    ASSUME LoadInd, NEW l \in LoadProcs, StopLoad(l)
    PROVE  LoadInd'
<1>1. /\ loads[l].stage # "idle" /\ loads' = [loads EXCEPT ![l] = NoLoad]
      /\ UNCHANGED <<command, newest, disk, catalog, table, crossed>>
  BY DEF StopLoad, Loading
<1>2. NoLoad \in LoadRunType
  BY DEF NoLoad, LoadRunType, NoFile, FileType, Nothing
<1>3. NoLoad.stage = "idle" /\ NoLoad.got = <<>> /\ ~NoLoad.alone
  BY DEF NoLoad
<1>4. LoadSound(NoLoad)
  BY <1>3, PartsListed DEF LoadSound, Placed, Covered, Ahead, CatchingUp, LoadInd, LoadTyped
<1> QED BY <1>1, <1>2, <1>3, <1>4, LoadStep

\* What a step that only touches the catalog, or nothing, leaves.
LEMMA UntouchedLoads ==
    ASSUME LoadInd, UNCHANGED <<command, newest, disk, table, loads, crossed>>, catalog' \subseteq Units
    PROVE  LoadInd'
<1>1. LoadTyped'
  BY DEF LoadInd, LoadTyped
<1>2. ASSUME NEW l \in LoadProcs PROVE LoadSound(loads[l])'
  <2>1. Placed(loads[l])'
    BY DEF LoadInd, LoadSound, Placed, NextOf, Parts, OnDisk
  <2>2. Covered(loads[l])'
    BY DEF LoadInd, LoadSound, Covered, NextOf, Parts
  <2>3. Ahead(loads[l])'
    BY DEF LoadInd, LoadSound, Ahead, NextOf, Parts
  <2>4. CatchingUp(loads[l])'
    BY DEF LoadInd, LoadSound, CatchingUp, NextOf, Parts
  <2> QED BY <2>1, <2>2, <2>3, <2>4 DEF LoadSound
<1> QED BY <1>1, <1>2 DEF LoadInd, OnDisk

LEMMA SeedKeepsLoads ==
    ASSUME LoadInd, NEW units \in SUBSET Units, SeedCatalog(units)
    PROVE  LoadInd'
BY UntouchedLoads DEF SeedCatalog, LoadInd, LoadTyped

\* What a commit leaves in a row, part by part.
LEMMA CommittedRow ==
    ASSUME LoadTyped, NEW l \in LoadProcs, Placed(loads[l]), CommitLoad(l), NEW u \in Units
    PROVE  /\ table'[u] = [p \in PartNames |-> table'[u][p]]
           /\ \A p \in PartNames : table'[u][p] # table[u][p] =>
                 \E i \in 1..Len(loads[l].got) : Parts[i] = p /\ table'[u][p] = loads[l].got[i].release
           /\ u \in Selected(l) => \A i \in 1..Len(loads[l].got) :
                 u \in loads[l].got[i].units => table'[u][Parts[i]] = loads[l].got[i].release
<1>1. PICK f \in LoadRunType : f = loads[l]
  BY DEF LoadTyped
<1>2. f.got \in Seq(FileType) /\ DOMAIN f.got = 1..Len(f.got)
  BY DEF LoadRunType
<1>3. /\ \A i, j \in 1..Len(f.got) : Parts[i] = Parts[j] => i = j
      /\ \A i \in 1..Len(f.got) : Parts[i] \in PartNames
  BY <1>1, HeldTyped, PartsListed DEF LoadTyped
<1>4. ASSUME NEW p \in PartNames, NEW i \in 1..Len(f.got), Parts[i] = p
      PROVE  (CHOOSE j \in DOMAIN f.got : Parts[j] = p) = i
  BY <1>2, <1>3, <1>4
<1>5. table[u] = [p \in PartNames |-> table[u][p]]
  BY DEF LoadTyped
<1>6. table' = [v \in Units |-> IF v \in Selected(l) THEN Merged(table[v], v, f.got) ELSE table[v]]
  BY <1>1 DEF CommitLoad
<1>7. CASE u \notin Selected(l)
  BY <1>5, <1>6, <1>7
<1>8. CASE u \in Selected(l)
  <2>1. table'[u] = [p \in PartNames |->
          IF \E i \in DOMAIN f.got : Parts[i] = p /\ u \in f.got[i].units
          THEN f.got[CHOOSE i \in DOMAIN f.got : Parts[i] = p].release ELSE table[u][p]]
    BY <1>6, <1>8 DEF Merged
  <2>2. ASSUME NEW p \in PartNames, table'[u][p] # table[u][p]
        PROVE  \E i \in 1..Len(f.got) : Parts[i] = p /\ table'[u][p] = f.got[i].release
    <3>1. PICK i \in 1..Len(f.got) : Parts[i] = p /\ u \in f.got[i].units
      BY <1>2, <2>1, <2>2
    <3>2. table'[u][p] = f.got[CHOOSE j \in DOMAIN f.got : Parts[j] = p].release
      BY <1>2, <2>1, <3>1
    <3> QED BY <1>4, <3>1, <3>2
  <2>3. ASSUME NEW i \in 1..Len(f.got), u \in f.got[i].units
        PROVE  table'[u][Parts[i]] = f.got[i].release
    <3>1. PICK p \in PartNames : p = Parts[i]
      BY <1>3
    <3>2. i \in DOMAIN f.got /\ Parts[i] = p /\ u \in f.got[i].units
      BY <1>2, <2>3, <3>1
    <3>3. table'[u][p] = f.got[CHOOSE j \in DOMAIN f.got : Parts[j] = p].release
      BY <2>1, <3>2
    <3> QED BY <1>4, <3>1, <3>3
  <2>4. table'[u] = [p \in PartNames |-> table'[u][p]]
    BY <2>1
  <2> QED BY <1>1, <2>2, <2>3, <2>4
<1> QED BY <1>7, <1>8

LEMMA CommittedFrom ==
    ASSUME LoadInd, NEW l \in LoadProcs, CommitLoad(l), NEW u \in Units, NEW p \in PartNames
    PROVE  \/ table'[u][p] = table[u][p]
           \/ \E i \in 1..Len(loads[l].got) : Parts[i] = p /\ table'[u][p] = loads[l].got[i].release
<1>1. Placed(loads[l]) /\ LoadTyped
  BY DEF LoadInd, LoadSound
<1>2. \A q \in PartNames : table'[u][q] # table[u][q] =>
        \E i \in 1..Len(loads[l].got) : Parts[i] = q /\ table'[u][q] = loads[l].got[i].release
  BY <1>1, CommittedRow
<1> QED BY <1>2

LEMMA CommittedPart ==
    ASSUME LoadInd, NEW l \in LoadProcs, CommitLoad(l), NEW u \in Units,
           u \in Selected(l), NEW i \in 1..Len(loads[l].got), u \in loads[l].got[i].units
    PROVE  table'[u][Parts[i]] = loads[l].got[i].release
<1>1. Placed(loads[l]) /\ LoadTyped
  BY DEF LoadInd, LoadSound
<1>2. \A j \in 1..Len(loads[l].got) :
        u \in loads[l].got[j].units => table'[u][Parts[j]] = loads[l].got[j].release
  BY <1>1, CommittedRow
<1> QED BY <1>2

LEMMA CommitKeepsLoads ==
    ASSUME LoadInd, NEW l \in LoadProcs, CommitLoad(l)
    PROVE  LoadInd'
<1> DEFINE f == loads[l]
<1>1. /\ f \in LoadRunType /\ LoadSound(f) /\ Placed(f) /\ Covered(f) /\ f.stage = "fetch"
      /\ loads' = [loads EXCEPT ![l] = NoLoad]
      /\ table' = [u \in Units |-> IF u \in Selected(l) THEN Merged(table[u], u, f.got) ELSE table[u]]
      /\ UNCHANGED <<command, newest, disk, catalog, crossed>>
  BY DEF CommitLoad, LoadInd, LoadTyped, LoadSound
<1>2. NoLoad \in LoadRunType /\ NoLoad.stage = "idle" /\ NoLoad.got = <<>> /\ ~NoLoad.alone
  BY DEF NoLoad, LoadRunType, NoFile, FileType, Nothing
<1>3. ASSUME NEW u \in Units, NEW p \in PartNames
      PROVE  \/ table'[u][p] = table[u][p]
             \/ \E i \in 1..Len(f.got) : Parts[i] = p /\ table'[u][p] = f.got[i].release
  BY CommittedFrom
<1>4. \A i \in 1..Len(f.got) : Parts[i] \in PartNames /\ f.got[i].release \in Nat
                               /\ f.got[i].release <= newest[Parts[i]]
  BY <1>1, HeldTyped DEF LoadInd, Placed
<1>5. table' \in [Units -> [PartNames -> Nat]]
  <2>1. ASSUME NEW u \in Units PROVE table'[u] \in [PartNames -> Nat]
    <3>1. table[u] \in [PartNames -> Nat]
      BY DEF LoadInd, LoadTyped
    <3>2. \A p \in PartNames : table'[u][p] \in Nat
      BY <1>3, <1>4, <3>1
    <3>3. table'[u] = [p \in PartNames |-> table'[u][p]]
      BY <1>1, CommittedRow DEF LoadInd
    <3> QED BY <3>2, <3>3
  <2>2. table' = [u \in Units |-> table'[u]]
    BY <1>1
  <2> QED BY <2>1, <2>2
<1>6. /\ loads' \in [LoadProcs -> LoadRunType] /\ loads'[l] = NoLoad
      /\ \A m \in LoadProcs \ {l} : loads'[m] = loads[m]
  BY <1>1, <1>2 DEF LoadInd, LoadTyped
<1>7. LoadTyped' /\ Parts' = Parts /\ OnDisk' = OnDisk
  BY <1>1, <1>5, <1>6 DEF LoadInd, LoadTyped, Parts, OnDisk
<1>8. ASSUME NEW m \in LoadProcs PROVE LoadSound(loads[m])'
  <2>1. PICK other : other = loads'[m]
    OBVIOUS
  <2>2. other \in LoadRunType
    BY <1>6, <2>1
  <2>3. LoadSound(other)
    <3>1. CASE m = l
      BY <1>2, <1>6, <2>1, <3>1, PartsListed
      DEF LoadSound, Placed, Covered, Ahead, CatchingUp, LoadInd, LoadTyped
    <3>2. CASE m # l
      BY <1>6, <2>1, <3>2 DEF LoadInd
    <3> QED BY <3>1, <3>2
  <2>4. ~other.alone
    <3>1. m # l => ~loads[m].alone
      BY <1>1 DEF LoadInd
    <3> QED BY <1>2, <1>6, <2>1, <3>1
  <2>5. Covered(other)'
    BY <1>1, <1>7, <2>3 DEF LoadSound, Covered, NextOf
  <2>6. LoadSound(other)'
    BY <1>1, <2>2, <2>3, <2>4, <2>5, CompanyStays DEF LoadInd
  <2> QED BY <2>1, <2>6 DEF LoadSound, Placed, Covered, Ahead, CatchingUp, NextOf
<1>9. ASSUME NEW k \in LoadProcs, NEW m \in LoadProcs, loads'[k].alone, loads'[m].stage # "idle"
      PROVE  k = m
  <2>1. loads[k].alone /\ loads[m].stage # "idle"
    BY <1>2, <1>6, <1>9
  <2> QED BY <2>1 DEF LoadInd
<1>10. \A u \in Units, p \in PartNames : table'[u][p] <= newest'[p]
  BY <1>1, <1>3, <1>4 DEF LoadInd
<1>11. ~crossed' => \A p \in PartNames, u \in Units : disk'[p] # NoFile => table'[u][p] <= disk'[p].release
  BY <1>1, <1>3 DEF LoadInd, Covered
<1> QED BY <1>1, <1>7, <1>8, <1>9, <1>10, <1>11 DEF LoadInd

LEMMA LoadIndInit == LoadInit => LoadInd
<1> SUFFICES ASSUME LoadInit PROVE LoadInd
  OBVIOUS
<1>1. /\ NoLoad \in LoadRunType /\ NoLoad.stage = "idle" /\ NoLoad.got = <<>> /\ ~NoLoad.alone
      /\ NoFile \in FileType /\ NoFile.release = 0
      /\ Nothing \in [PartNames -> Nat] /\ \A p \in PartNames : Nothing[p] = 0
  BY DEF NoLoad, LoadRunType, NoFile, FileType, Nothing
<1>2. \A p \in PartNames : newest[p] = 1 /\ disk[p] = NoFile
  BY DEF LoadInit
<1>3. 1 \in 1..MaxRelease
  BY LoadAssumption
<1>4. LoadTyped
  BY <1>1, <1>3 DEF LoadInit, LoadTyped
<1>5. LoadSound(NoLoad)
  BY <1>1, <1>4, PartsListed DEF LoadSound, Placed, Covered, Ahead, CatchingUp, LoadTyped
<1>6. \A u \in Units, p \in PartNames : table[u][p] = 0
  BY <1>1 DEF LoadInit
<1>7. \A l \in LoadProcs : loads[l] = NoLoad
  BY DEF LoadInit
<1> QED BY <1>1, <1>2, <1>4, <1>5, <1>6, <1>7 DEF LoadInd

LEMMA LoadIndNext == LoadInd /\ [LoadNext]_loadVars => LoadInd'
<1> SUFFICES ASSUME LoadInd, [LoadNext]_loadVars PROVE LoadInd'
  OBVIOUS
<1>1. CASE UNCHANGED loadVars
  BY <1>1, UntouchedLoads DEF loadVars, LoadInd, LoadTyped
<1>2. CASE ClearCache
  BY <1>2, ClearKeepsLoads
<1>3. ASSUME NEW p \in PartNames, Publish(p) PROVE LoadInd'
  BY <1>3, PublishKeepsLoads
<1>4. ASSUME NEW units \in SUBSET Units,
             seed_acs_variables(units) \/ seed_decennial_variables(units) \/ seed_irs_soi_buckets(units)
      PROVE  LoadInd'
  BY <1>4, SeedKeepsLoads DEF seed_acs_variables, seed_decennial_variables, seed_irs_soi_buckets
<1>5. ASSUME NEW l \in LoadProcs,
             \/ BeginLoad(l) \/ Download(l) \/ OpenFile(l) \/ WriteFile(l) \/ ReadFile(l)
             \/ FetchPart(l) \/ CommitLoad(l) \/ StopLoad(l)
      PROVE  LoadInd'
  BY <1>5, BeginKeepsLoads, DownloadKeepsLoads, OpenKeepsLoads, WriteKeepsLoads, ReadKeepsLoads,
     FetchKeepsLoads, CommitKeepsLoads, StopKeepsLoads
<1> QED BY <1>1, <1>2, <1>3, <1>4, <1>5 DEF LoadNext

\* The types of the loaders' state (the models and caches of the load commands).
THEOREM LoadTypeCorrect == LoadSpec => []LoadTypeOK
<1>1. LoadInd => LoadTypeOK
  <2> SUFFICES ASSUME LoadInd PROVE LoadTypeOK
    OBVIOUS
  <2>1. \A p \in PartNames : disk[p].release \in 0..newest[p]
    BY ReleasesTyped DEF LoadInd
  <2>2. table \in [Units -> [PartNames -> 0..MaxRelease]]
    <3>1. \A u \in Units, p \in PartNames : table[u][p] \in 0..MaxRelease
      <4> TAKE u \in Units, p \in PartNames
      <4>1. table[u][p] \in Nat /\ table[u][p] <= newest[p] /\ newest[p] \in 1..MaxRelease
        BY ReleasesTyped DEF LoadInd
      <4> QED BY <4>1, LoadAssumption
    <3> QED BY <3>1 DEF LoadInd, LoadTyped
  <2> QED BY <2>1, <2>2 DEF LoadInd, LoadTyped, LoadRunType, LoadTypeOK
<1> QED BY <1>1, LoadIndInit, LoadIndNext, PTL DEF LoadSpec

\* update_or_create in one transaction: a row loses a release only where runs of
\* the command overlap (see RowsGoForward).
THEOREM RowsOnlyGoForward == LoadSpec => RowsGoForward
<1>1. LoadInd /\ [LoadNext]_loadVars =>
        \A u \in Units, p \in PartNames : table'[u][p] < table[u][p] =>
           crossed \/ \E l \in LoadProcs : ~loads[l].alone /\ CommitLoad(l)
  <2> SUFFICES ASSUME LoadInd, [LoadNext]_loadVars, NEW u \in Units, NEW p \in PartNames,
                      ~crossed, \A l \in LoadProcs : CommitLoad(l) => loads[l].alone
               PROVE  ~(table'[u][p] < table[u][p])
    OBVIOUS
  <2>1. table[u][p] \in Nat
    BY ReleasesTyped DEF LoadInd
  <2>2. ASSUME NEW l \in LoadProcs, CommitLoad(l) PROVE ~(table'[u][p] < table[u][p])
    <3>1. Placed(loads[l]) /\ Ahead(loads[l]) /\ loads[l].alone /\ loads[l] \in LoadRunType
      BY <2>2 DEF LoadInd, LoadSound, LoadTyped
    <3>2. \/ table'[u][p] = table[u][p]
          \/ \E i \in 1..Len(loads[l].got) : Parts[i] = p /\ table'[u][p] = loads[l].got[i].release
      BY <2>2, CommittedFrom
    <3>3. \A i \in 1..Len(loads[l].got) :
             loads[l].got[i].release \in Nat /\ table[u][Parts[i]] <= loads[l].got[i].release
      BY <3>1, HeldTyped DEF LoadInd, Ahead
    <3> QED BY <2>1, <3>2, <3>3
  <2>3. ASSUME ~ \E l \in LoadProcs : CommitLoad(l) PROVE table' = table
    BY <2>3 DEF LoadNext, loadVars, ClearCache, Publish, seed_acs_variables, seed_decennial_variables,
       seed_irs_soi_buckets, SeedCatalog, BeginLoad, Download, OpenFile, WriteFile, ReadFile, FetchPart,
       StopLoad
  <2> QED BY <2>1, <2>2, <2>3
<1> QED BY <1>1, LoadIndInit, LoadIndNext, PTL DEF LoadSpec, RowsGoForward

\* Emptying the cache directory is enough: a run that starts from no files and has
\* the command to itself leaves what was out when it began (ClearedCacheCatchesUp).
THEOREM ClearingCatchesUp == LoadSpec => ClearedCacheCatchesUp
<1>1. LoadInd /\ [LoadNext]_loadVars =>
        \A l \in LoadProcs : CommitLoad(l) /\ loads[l].alone =>
          \A u \in InState \cap loads[l].codes, i \in DOMAIN Parts :
             loads[l].goal[Parts[i]] > 0 /\ LongListed(l, u, 1) /\ LongListed(l, u, i) =>
                table'[u][Parts[i]] >= loads[l].goal[Parts[i]]
  <2> SUFFICES ASSUME LoadInd, NEW l \in LoadProcs, CommitLoad(l), loads[l].alone,
                      NEW u \in InState \cap loads[l].codes, NEW i \in DOMAIN Parts,
                      loads[l].goal[Parts[i]] > 0, LongListed(l, u, 1), LongListed(l, u, i)
               PROVE  table'[u][Parts[i]] >= loads[l].goal[Parts[i]]
    OBVIOUS
  <2> DEFINE f == loads[l]
  <2>1. /\ f \in LoadRunType /\ Placed(f) /\ CatchingUp(f) /\ Len(f.got) = Len(Parts)
        /\ u \in Units /\ u \in InState /\ u \in f.codes
    BY LoadAssumption DEF CommitLoad, Fetched, LoadInd, LoadSound, LoadTyped
  <2>2. 1 \in 1..Len(Parts) /\ i \in 1..Len(Parts) /\ Parts[i] \in PartNames
    BY PartsListed DEF LoadInd, LoadTyped
  <2>3. f.goal # Nothing
    BY <2>2 DEF Nothing
  <2>4. ASSUME NEW j \in 1..Len(Parts), LongListed(l, u, j)
        PROVE  /\ u \in f.got[j].units /\ f.goal[Parts[j]] <= f.got[j].release
               /\ f.got[j].release \in Nat /\ f.goal[Parts[j]] \in Nat
    <3>1. /\ Parts[j] \in PartNames /\ f.got[j].release \in Nat
          /\ f.got[j].release <= newest[Parts[j]]
          /\ f.got[j] = FileOf(Parts[j], f.got[j].release)
          /\ 1 <= f.goal[Parts[j]] /\ f.goal[Parts[j]] <= f.got[j].release
      BY <2>1, <2>3, HeldTyped DEF LoadInd, Placed, CatchingUp
    <3>2. f.goal[Parts[j]] \in Nat /\ newest[Parts[j]] \in 1..MaxRelease
      BY <2>1, <3>1, ReleasesTyped DEF LoadInd, LoadRunType
    <3>3. f.got[j].release \in 1..MaxRelease /\ f.got[j].release >= f.goal[Parts[j]]
      BY <3>1, <3>2, LoadAssumption
    <3>4. u \in Listed[Parts[j]][f.got[j].release]
      BY <2>4, <3>3 DEF LongListed
    <3>5. f.got[j].units = Listed[Parts[j]][f.got[j].release]
      BY <3>1, <3>3, FilesRead
    <3> QED BY <3>1, <3>2, <3>4, <3>5
  <2>5. u \in Selected(l)
    BY <2>1, <2>2, <2>4 DEF Selected
  <2>6. table'[u][Parts[i]] = f.got[i].release
    <3>1. u \in f.got[i].units /\ i \in 1..Len(f.got)
      BY <2>1, <2>2, <2>4
    <3> QED BY <2>1, <2>5, <3>1, CommittedPart
  <2> QED BY <2>2, <2>4, <2>6
<1> QED BY <1>1, LoadIndInit, LoadIndNext, PTL DEF LoadSpec, ClearedCacheCatchesUp

-----------------------------------------------------------------------------
(***************************************************************************)
(* The census tables.  What a command has still to replace is the tables   *)
(* of the types it has to download or upload for the first of its states,  *)
(* and of all its types for the others.  Nothing that remains has been     *)
(* replaced, and what is neither is what failed: so a command that has     *)
(* nothing left has replaced everything exactly when nothing failed.       *)
(***************************************************************************)
CensusSteps == {"ready", "download", "upload", "exit 0", "exit 2", "dead"}
CensusRunType ==
    [step : CensusSteps, name : {""} \cup CensusCommands, states : Seq(ToSet(States)),
     types : {<<>>} \cup Requests, todo : Seq(BoundaryTypes), got : Seq(BoundaryTypes),
     failed : Nat, replaced : SUBSET TableNames]

CensusTyped ==
    /\ layers \in [TableNames -> CensusRuns \cup {NoLayer}]
    /\ fetches \in [CensusRuns -> CensusRunType]

Asked(run) == ToSet(run.types) \X ToSet(States)
Remaining(run) ==
    (ToSet(run.todo) \cup ToSet(run.got)) \X {Head(run.states)}
    \cup ToSet(run.types) \X ToSet(Tail(run.states))

CensusRunSound(run) ==
  /\ run.step = "ready" => run.failed = 0 /\ run.replaced = {}
  /\ run.step # "ready" =>
      /\ run.types \in Requests
      /\ run.states # <<>> /\ IsInjective(run.states)
      /\ IsInjective(run.todo) /\ IsInjective(run.got)
      /\ ToSet(run.todo) \cap ToSet(run.got) = {}
      /\ run.step \in {"upload", "exit 0", "exit 2"} => run.todo = <<>>
      /\ run.step \in {"exit 0", "exit 2"} => run.got = <<>> /\ Len(run.states) = 1
      /\ run.step = "exit 0" => run.failed = 0
      /\ run.step = "exit 2" => run.failed > 0
      /\ run.replaced \cup Remaining(run) \subseteq Asked(run)
      /\ run.replaced \cap Remaining(run) = {}
      /\ run.name = "load-census" =>
            (run.failed = 0 <=> run.replaced \cup Remaining(run) = Asked(run))

\* A table somebody replaced names the last who did.
HoldsADownload(k) == layers[k] \in CensusRuns /\ k \in fetches[layers[k]].replaced

CensusInd ==
    /\ CensusTyped
    /\ \A c \in CensusRuns : CensusRunSound(fetches[c])
    /\ \A c \in CensusRuns : \A k \in fetches[c].replaced : HoldsADownload(k)

\* A type or a state given twice is loaded twice: the second may succeed where
\* the first failed.
StatesOnce == IsInjective(States)

-----------------------------------------------------------------------------

\* What is taken from the front of a list without repetitions is not in the rest.
LEMMA TakeFirst ==
    ASSUME NEW S, NEW s \in Seq(S), s # <<>>
    PROVE  /\ Head(s) \in S /\ Tail(s) \in Seq(S)
           /\ Head(s) \in ToSet(s)
           /\ ToSet(s) = {Head(s)} \cup ToSet(Tail(s))
           /\ Len(s) = 1 => Tail(s) = <<>>
           /\ IsInjective(s) => IsInjective(Tail(s)) /\ Head(s) \notin ToSet(Tail(s))
<1>1. /\ Head(s) \in S /\ Tail(s) \in Seq(S) /\ Len(Tail(s)) = Len(s) - 1
      /\ \A i \in 1..Len(Tail(s)) : Tail(s)[i] = s[i + 1]
  BY HeadTailProperties
<1>2. Head(s) = s[1] /\ Len(s) \in Nat \ {0} /\ DOMAIN s = 1..Len(s)
  OBVIOUS
<1>3. DOMAIN Tail(s) = 1..(Len(s) - 1)
  BY <1>1
<1>4. ToSet(s) = {Head(s)} \cup ToSet(Tail(s))
  <2>1. ASSUME NEW i \in DOMAIN s PROVE s[i] \in {Head(s)} \cup ToSet(Tail(s))
    <3>1. CASE i = 1
      BY <3>1, <1>2
    <3>2. CASE i # 1
      <4>1. i - 1 \in DOMAIN Tail(s) /\ Tail(s)[i - 1] = s[i]
        BY <3>2, <2>1, <1>1, <1>2, <1>3
      <4> QED BY <4>1 DEF ToSet
    <3> QED BY <3>1, <3>2
  <2>2. ASSUME NEW i \in DOMAIN Tail(s) PROVE Tail(s)[i] \in ToSet(s)
    <3>1. i + 1 \in DOMAIN s /\ Tail(s)[i] = s[i + 1]
      BY <2>2, <1>1, <1>2, <1>3
    <3> QED BY <3>1 DEF ToSet
  <2>3. Head(s) \in ToSet(s)
    BY <1>2 DEF ToSet
  <2> QED BY <2>1, <2>2, <2>3 DEF ToSet
<1>5. ASSUME IsInjective(s) PROVE IsInjective(Tail(s)) /\ Head(s) \notin ToSet(Tail(s))
  <2>1. ASSUME NEW i \in DOMAIN Tail(s) PROVE i + 1 \in DOMAIN s /\ Tail(s)[i] = s[i + 1] /\ i \in Nat
    BY <2>1, <1>1, <1>2, <1>3
  <2>2. IsInjective(Tail(s))
    <3>1. ASSUME NEW i \in DOMAIN Tail(s), NEW j \in DOMAIN Tail(s), Tail(s)[i] = Tail(s)[j]
          PROVE  i = j
      <4>1. i + 1 = j + 1
        BY <3>1, <2>1, <1>5 DEF IsInjective
      <4> QED BY <4>1, <2>1
    <3> QED BY <3>1 DEF IsInjective
  <2>3. ASSUME NEW i \in DOMAIN Tail(s), Tail(s)[i] = Head(s) PROVE FALSE
    <3>1. i + 1 = 1
      BY <2>3, <2>1, <1>2, <1>5 DEF IsInjective
    <3> QED BY <3>1, <2>1
  <2> QED BY <2>2, <2>3 DEF ToSet
<1>6. Len(s) = 1 => Tail(s) = <<>>
  <2>1. Len(s) = 1 => Len(Tail(s)) = 0
    BY <1>1, <1>2
  <2>2. Tail(s) # <<>> => Len(Tail(s)) \in Nat \ {0}
    BY <1>1, EmptySeq
  <2> QED BY <2>1, <2>2
<1> QED BY <1>1, <1>4, <1>5, <1>6

LEMMA AddLast ==
    ASSUME NEW S, NEW s \in Seq(S), NEW e \in S
    PROVE  /\ Append(s, e) \in Seq(S)
           /\ ToSet(Append(s, e)) = ToSet(s) \cup {e}
           /\ IsInjective(s) /\ e \notin ToSet(s) => IsInjective(Append(s, e))
<1> DEFINE t == Append(s, e)
<1>1. /\ t \in Seq(S) /\ Len(t) = Len(s) + 1
      /\ \A i \in 1..Len(s) : t[i] = s[i]
      /\ t[Len(s) + 1] = e
  BY AppendProperties
<1>2. Len(s) \in Nat /\ DOMAIN s = 1..Len(s) /\ DOMAIN t = 1..(Len(s) + 1)
  BY <1>1
<1> HIDE DEF t
<1>3. \A i \in DOMAIN t : i = Len(s) + 1 \/ i \in DOMAIN s
  BY <1>2
<1>4. \A i \in DOMAIN s : i \in DOMAIN t /\ t[i] = s[i]
  BY <1>1, <1>2
<1>5. Len(s) + 1 \in DOMAIN t
  BY <1>2
<1>6. ToSet(t) = ToSet(s) \cup {e}
  <2>1. ASSUME NEW i \in DOMAIN t PROVE t[i] \in ToSet(s) \cup {e}
    <3>1. CASE i = Len(s) + 1
      BY <3>1, <1>1
    <3>2. CASE i \in DOMAIN s
      BY <3>2, <1>4 DEF ToSet
    <3> QED BY <2>1, <3>1, <3>2, <1>3
  <2>2. ASSUME NEW i \in DOMAIN s PROVE s[i] \in ToSet(t)
    <3>1. i \in DOMAIN t /\ t[i] = s[i]
      BY <2>2, <1>4
    <3> QED BY <3>1 DEF ToSet
  <2>3. e \in ToSet(t)
    BY <1>1, <1>5 DEF ToSet
  <2> QED BY <2>1, <2>2, <2>3 DEF ToSet
<1>7. ASSUME IsInjective(s), e \notin ToSet(s) PROVE IsInjective(t)
  <2>1. ASSUME NEW i \in DOMAIN t, NEW j \in DOMAIN t, t[i] = t[j] PROVE i = j
    <3>1. CASE i \in DOMAIN s /\ j \in DOMAIN s
      BY <3>1, <2>1, <1>4, <1>7 DEF IsInjective
    <3>2. CASE i \in DOMAIN s /\ j = Len(s) + 1
      BY <3>2, <2>1, <1>1, <1>4, <1>7 DEF ToSet
    <3>3. CASE i = Len(s) + 1 /\ j \in DOMAIN s
      BY <3>3, <2>1, <1>1, <1>4, <1>7 DEF ToSet
    <3> QED BY <1>3, <3>1, <3>2, <3>3
  <2> QED BY <2>1 DEF IsInjective
<1> QED BY <1>1, <1>6, <1>7 DEF t

LEMMA NothingListed == ToSet(<<>>) = {} /\ IsInjective(<<>>) /\ \A S : <<>> \in Seq(S)
<1>1. DOMAIN <<>> = {}
  OBVIOUS
<1>2. ToSet(<<>>) = {} /\ IsInjective(<<>>)
  BY <1>1 DEF ToSet, IsInjective
<1> QED BY <1>2

LEMMA TypesListed ==
    ASSUME NEW types \in Requests
    PROVE  types \in Seq(BoundaryTypes) /\ ToSet(types) \subseteq BoundaryTypes /\ IsInjective(types)
<1>1. ToSet(types) \subseteq BoundaryTypes
  BY DEF BoundaryTypes
<1>2. types \in Seq(ToSet(types)) /\ IsInjective(types)
  BY CensusAssumption
<1>3. ASSUME NEW i \in 1..Len(types) PROVE types[i] \in BoundaryTypes
  BY <1>1, <1>2, <1>3 DEF ToSet
<1>4. types \in Seq(BoundaryTypes)
  BY <1>2, <1>3
<1> QED BY <1>1, <1>2, <1>4

-----------------------------------------------------------------------------
\* A step of one run that leaves the tables alone and takes nothing back.
LEMMA CensusRunStep ==
    ASSUME CensusInd,
           NEW c \in CensusRuns, NEW run \in CensusRunType,
           fetches' = [fetches EXCEPT ![c] = run], UNCHANGED layers,
           CensusRunSound(run), run.replaced = fetches[c].replaced
    PROVE  CensusInd'
<1>1. /\ fetches' \in [CensusRuns -> CensusRunType] /\ fetches'[c] = run
      /\ \A d \in CensusRuns \ {c} : fetches'[d] = fetches[d]
  BY DEF CensusInd, CensusTyped
<1>2. \A d \in CensusRuns : fetches'[d].replaced = fetches[d].replaced
  BY <1>1
<1>3. CensusTyped'
  BY <1>1 DEF CensusInd, CensusTyped
<1>4. ASSUME NEW d \in CensusRuns PROVE CensusRunSound(fetches[d])'
  <2>1. PICK f : f = fetches'[d]
    OBVIOUS
  <2>2. CensusRunSound(f)
    BY <2>1, <1>1 DEF CensusInd
  <2> QED BY <2>1, <2>2
<1>5. ASSUME NEW d \in CensusRuns, NEW k \in fetches'[d].replaced PROVE HoldsADownload(k)'
  <2>1. k \in fetches[d].replaced
    BY <1>2, <1>5
  <2>2. layers[k] \in CensusRuns /\ k \in fetches[layers[k]].replaced
    BY <2>1 DEF CensusInd, HoldsADownload
  <2> QED BY <2>2, <1>2 DEF HoldsADownload
<1> QED BY <1>3, <1>4, <1>5 DEF CensusInd

\* What is left of a run that has just turned to the first of its states.
LEMMA FreshRemaining ==
    ASSUME NEW run, NEW types, NEW states \in Seq(ToSet(States)),
           run.todo = types, run.got = <<>>, run.types = types, run.states = states,
           states # <<>>
    PROVE  Remaining(run) = ToSet(types) \X ToSet(states)
<1>1. ToSet(states) = {Head(states)} \cup ToSet(Tail(states))
  BY TakeFirst
<1>2. Remaining(run) = ToSet(types) \X {Head(states)} \cup ToSet(types) \X ToSet(Tail(states))
  BY NothingListed DEF Remaining
<1> QED BY <1>1, <1>2

\* One type of the first of the states is done with.
LEMMA OneLess ==
    ASSUME NEW run, NEW next, NEW type,
           type \in ToSet(run.todo) \cup ToSet(run.got),
           ToSet(next.todo) \cup ToSet(next.got) = (ToSet(run.todo) \cup ToSet(run.got)) \ {type},
           next.types = run.types, next.states = run.states,
           Head(run.states) \notin ToSet(Tail(run.states))
    PROVE  /\ <<type, Head(run.states)>> \in Remaining(run)
           /\ Remaining(next) = Remaining(run) \ {<<type, Head(run.states)>>}
BY DEF Remaining

\* Nothing else of a run than its step matters to what remains.
LEMMA SameRemaining ==
    ASSUME NEW run, NEW next,
           ToSet(next.todo) \cup ToSet(next.got) = ToSet(run.todo) \cup ToSet(run.got),
           next.types = run.types, next.states = run.states
    PROVE  Remaining(next) = Remaining(run) /\ Asked(next) = Asked(run)
BY DEF Remaining, Asked

\* What a run under way says of itself, in the parts the steps use.
LEMMA RunUnderWay ==
    ASSUME CensusInd, NEW c \in CensusRuns, fetches[c].step # "ready"
    PROVE  /\ fetches[c] \in CensusRunType /\ CensusRunSound(fetches[c])
           /\ fetches[c].types \in Requests
           /\ fetches[c].todo \in Seq(BoundaryTypes) /\ fetches[c].got \in Seq(BoundaryTypes)
           /\ fetches[c].states \in Seq(ToSet(States)) /\ fetches[c].states # <<>>
           /\ fetches[c].failed \in Nat
           /\ Head(fetches[c].states) \in ToSet(States)
           /\ Head(fetches[c].states) \notin ToSet(Tail(fetches[c].states))
           /\ Tail(fetches[c].states) \in Seq(ToSet(States))
           /\ IsInjective(Tail(fetches[c].states))
<1>1. fetches[c] \in CensusRunType /\ CensusRunSound(fetches[c])
  BY DEF CensusInd, CensusTyped
<1>2. fetches[c].types \in Requests /\ fetches[c].states # <<>> /\ IsInjective(fetches[c].states)
  BY <1>1 DEF CensusRunSound
<1>3. /\ fetches[c].todo \in Seq(BoundaryTypes) /\ fetches[c].got \in Seq(BoundaryTypes)
      /\ fetches[c].states \in Seq(ToSet(States)) /\ fetches[c].failed \in Nat
  BY <1>1 DEF CensusRunType
<1> QED BY <1>1, <1>2, <1>3, TakeFirst

LEMMA BeginKeepsCensus ==
    ASSUME StatesOnce, CensusInd, NEW c \in CensusRuns,
           NEW name \in CensusCommands, NEW types \in Requests, BeginFetch(c, name, types)
    PROVE  CensusInd'
<1>1. fetches[c] \in CensusRunType /\ fetches[c].step = "ready" /\ CensusRunSound(fetches[c])
  BY DEF CensusInd, CensusTyped, BeginFetch
<1>2. PICK run : run = Downloading([fetches[c] EXCEPT !.name = name, !.types = types], States)
  OBVIOUS
<1>3. fetches' = [fetches EXCEPT ![c] = run] /\ UNCHANGED layers
  BY <1>2 DEF BeginFetch
<1>4. /\ run.step = "download" /\ run.name = name /\ run.types = types /\ run.states = States
      /\ run.todo = types /\ run.got = <<>> /\ run.failed = fetches[c].failed
      /\ run.replaced = fetches[c].replaced
      /\ DOMAIN run = DOMAIN fetches[c]
  BY <1>1, <1>2 DEF Downloading, CensusRunType
<1>5. States \in Seq(ToSet(States)) /\ States # <<>>
  BY CensusAssumption
<1>6. types \in Seq(BoundaryTypes) /\ IsInjective(types)
  BY TypesListed
<1>7. run \in CensusRunType
  BY <1>1, <1>2, <1>5, <1>6, NothingListed DEF Downloading, CensusRunType, CensusSteps
<1>8. Remaining(run) = Asked(run)
  BY <1>4, <1>5, FreshRemaining DEF Asked
<1>9. fetches[c].failed = 0 /\ fetches[c].replaced = {}
  BY <1>1 DEF CensusRunSound
<1>10. IsInjective(run.todo) /\ IsInjective(run.got) /\ ToSet(run.got) = {} /\ IsInjective(run.states)
  BY <1>4, <1>6, NothingListed DEF StatesOnce
<1>11. CensusRunSound(run)
  BY <1>4, <1>5, <1>8, <1>9, <1>10 DEF CensusRunSound
<1> QED BY <1>3, <1>4, <1>7, <1>11, CensusRunStep

LEMMA DownloadKeepsCensus ==
    ASSUME CensusInd, NEW c \in CensusRuns, DownloadType(c) \/ FailDownload(c)
    PROVE  CensusInd'
<1> DEFINE f == fetches[c]
           type == Head(f.todo)
<1>1. f.step = "download" /\ f.todo # <<>> /\ UNCHANGED layers
  BY DEF DownloadType, FailDownload
<1>2. /\ f \in CensusRunType /\ CensusRunSound(f) /\ f.types \in Requests
      /\ f.todo \in Seq(BoundaryTypes) /\ f.got \in Seq(BoundaryTypes) /\ f.failed \in Nat
      /\ Head(f.states) \notin ToSet(Tail(f.states))
  BY <1>1, RunUnderWay
<1>3. /\ IsInjective(f.todo) /\ IsInjective(f.got) /\ ToSet(f.todo) \cap ToSet(f.got) = {}
      /\ f.states # <<>> /\ IsInjective(f.states)
      /\ f.replaced \cup Remaining(f) \subseteq Asked(f)
      /\ f.replaced \cap Remaining(f) = {}
      /\ f.name = "load-census" => (f.failed = 0 <=> f.replaced \cup Remaining(f) = Asked(f))
  BY <1>1, <1>2 DEF CensusRunSound
<1>4. /\ type \in BoundaryTypes /\ Tail(f.todo) \in Seq(BoundaryTypes) /\ IsInjective(Tail(f.todo))
      /\ ToSet(f.todo) = {type} \cup ToSet(Tail(f.todo)) /\ type \notin ToSet(Tail(f.todo))
  BY <1>1, <1>2, <1>3, TakeFirst
<1>5. type \notin ToSet(f.got)
  BY <1>3, <1>4
<1>6. CASE DownloadType(c) /\ f.name = "load-census"
  <2>1. PICK run : run = [f EXCEPT !.todo = Tail(f.todo), !.got = Append(f.got, type)]
    OBVIOUS
  <2>2. fetches' = [fetches EXCEPT ![c] = run]
    BY <1>6, <2>1 DEF DownloadType, CensusInd, CensusTyped
  <2>3. /\ run.step = "download" /\ run.name = f.name /\ run.types = f.types /\ run.states = f.states
        /\ run.todo = Tail(f.todo) /\ run.got = Append(f.got, type) /\ run.failed = f.failed
        /\ run.replaced = f.replaced
    BY <1>1, <1>2, <2>1 DEF CensusRunType
  <2>4. /\ run.got \in Seq(BoundaryTypes) /\ ToSet(run.got) = ToSet(f.got) \cup {type}
        /\ IsInjective(run.got)
    BY <1>2, <1>3, <1>4, <1>5, <2>3, AddLast
  <2>5. run \in CensusRunType
    BY <1>2, <1>4, <2>1, <2>3, <2>4 DEF CensusRunType
  <2>6. ToSet(run.todo) \cup ToSet(run.got) = ToSet(f.todo) \cup ToSet(f.got)
    BY <1>4, <2>3, <2>4
  <2>7. Remaining(run) = Remaining(f) /\ Asked(run) = Asked(f)
    BY <2>3, <2>6, SameRemaining
  <2>8. IsInjective(run.todo) /\ ToSet(run.todo) \cap ToSet(run.got) = {}
    BY <1>3, <1>4, <2>3, <2>4
  <2>9. CensusRunSound(run)
    BY <1>2, <1>3, <2>3, <2>4, <2>7, <2>8 DEF CensusRunSound
  <2> QED BY <1>1, <2>2, <2>3, <2>5, <2>9, CensusRunStep
<1>7. CASE (DownloadType(c) /\ f.name # "load-census") \/ FailDownload(c)
  <2>1. PICK failed \in Nat :
          /\ fetches' = [fetches EXCEPT ![c] = [f EXCEPT !.todo = Tail(f.todo), !.failed = failed]]
          /\ f.name = "load-census" => failed # 0
    <3>1. CASE DownloadType(c) /\ f.name # "load-census"
      <4>1. [f EXCEPT !.todo = Tail(f.todo), !.got = f.got]
              = [f EXCEPT !.todo = Tail(f.todo), !.failed = f.failed]
        BY <1>2 DEF CensusRunType
      <4>2. fetches' = [fetches EXCEPT ![c] = [f EXCEPT !.todo = Tail(f.todo), !.got = f.got]]
        BY <3>1 DEF DownloadType, CensusInd, CensusTyped
      <4> QED BY <1>2, <3>1, <4>1, <4>2
    <3>2. CASE FailDownload(c)
      <4>1. fetches' = [fetches EXCEPT ![c] = [f EXCEPT !.todo = Tail(f.todo), !.failed = f.failed + 1]]
        BY <3>2 DEF FailDownload, CensusInd, CensusTyped
      <4>2. f.failed + 1 \in Nat /\ f.failed + 1 # 0
        BY <1>2
      <4> QED BY <4>1, <4>2
    <3> QED BY <1>7, <3>1, <3>2
  <2>2. PICK run : run = [f EXCEPT !.todo = Tail(f.todo), !.failed = failed]
    OBVIOUS
  <2>3. /\ run.step = "download" /\ run.name = f.name /\ run.types = f.types /\ run.states = f.states
        /\ run.todo = Tail(f.todo) /\ run.got = f.got /\ run.failed = failed
        /\ run.replaced = f.replaced
    BY <1>1, <1>2, <2>2 DEF CensusRunType
  <2>4. run \in CensusRunType
    BY <1>2, <1>4, <2>2, <2>3 DEF CensusRunType
  <2>5. PICK key : key = <<type, Head(f.states)>>
    OBVIOUS
  <2>6. ToSet(run.todo) \cup ToSet(run.got) = (ToSet(f.todo) \cup ToSet(f.got)) \ {type}
    BY <1>4, <1>5, <2>3
  <2>7. key \in Remaining(f) /\ Remaining(run) = Remaining(f) \ {key}
    BY <1>2, <1>4, <2>3, <2>5, <2>6, OneLess
  <2>8. Asked(run) = Asked(f)
    BY <2>3 DEF Asked
  <2>9. /\ run.replaced \cup Remaining(run) \subseteq Asked(run)
        /\ run.replaced \cap Remaining(run) = {}
        /\ run.replaced \cup Remaining(run) # Asked(run)
    BY <1>3, <2>3, <2>7, <2>8
  <2>10. IsInjective(run.todo) /\ ToSet(run.todo) \cap ToSet(run.got) = {}
    BY <1>3, <1>4, <2>3
  <2>11. CensusRunSound(run)
    BY <1>2, <1>3, <2>1, <2>3, <2>9, <2>10 DEF CensusRunSound
  <2> QED BY <1>1, <2>1, <2>2, <2>3, <2>4, <2>11, CensusRunStep
<1> QED BY <1>6, <1>7

LEMMA UploadKeepsCensus ==
    ASSUME CensusInd, NEW c \in CensusRuns, UploadType(c) \/ FailUpload(c)
    PROVE  CensusInd'
<1> DEFINE f == fetches[c]
           type == Head(f.got)
<1>1. f.step = "upload" /\ f.got # <<>>
  BY DEF UploadType, FailUpload
<1>2. /\ f \in CensusRunType /\ CensusRunSound(f) /\ f.types \in Requests
      /\ f.got \in Seq(BoundaryTypes) /\ f.failed \in Nat
      /\ Head(f.states) \in ToSet(States) /\ Head(f.states) \notin ToSet(Tail(f.states))
  BY <1>1, RunUnderWay
<1>3. /\ f.todo = <<>> /\ IsInjective(f.todo) /\ IsInjective(f.got)
      /\ f.states # <<>> /\ IsInjective(f.states)
      /\ f.replaced \cup Remaining(f) \subseteq Asked(f)
      /\ f.replaced \cap Remaining(f) = {}
      /\ f.name = "load-census" => (f.failed = 0 <=> f.replaced \cup Remaining(f) = Asked(f))
  BY <1>1, <1>2 DEF CensusRunSound
<1>4. /\ type \in BoundaryTypes /\ Tail(f.got) \in Seq(BoundaryTypes) /\ IsInjective(Tail(f.got))
      /\ ToSet(f.got) = {type} \cup ToSet(Tail(f.got)) /\ type \notin ToSet(Tail(f.got))
  BY <1>1, <1>2, <1>3, TakeFirst
<1>5. ToSet(f.todo) = {}
  BY <1>3, NothingListed
<1>6. PICK key : key = <<type, Head(f.states)>>
  OBVIOUS
<1>7. key \in TableNames
  BY <1>2, <1>4, <1>6 DEF TableNames
<1>8. ASSUME NEW run, run.todo = f.todo, run.got = Tail(f.got), run.types = f.types, run.states = f.states
      PROVE  /\ key \in Remaining(f) /\ Remaining(run) = Remaining(f) \ {key}
             /\ Asked(run) = Asked(f)
             /\ IsInjective(run.todo) /\ IsInjective(run.got) /\ IsInjective(run.states)
             /\ ToSet(run.todo) \cap ToSet(run.got) = {}
  <2>1. ToSet(run.todo) \cup ToSet(run.got) = (ToSet(f.todo) \cup ToSet(f.got)) \ {type}
    BY <1>4, <1>5, <1>8
  <2>2. key \in Remaining(f) /\ Remaining(run) = Remaining(f) \ {key}
    BY <1>2, <1>4, <1>6, <1>8, <2>1, OneLess
  <2>3. Asked(run) = Asked(f)
    BY <1>8 DEF Asked
  <2> QED BY <1>3, <1>4, <1>5, <1>8, <2>2, <2>3
<1>9. CASE UploadType(c)
  <2>1. PICK run : run = [f EXCEPT !.got = Tail(f.got), !.replaced = f.replaced \cup {key}]
    OBVIOUS
  <2>2. /\ fetches' = [fetches EXCEPT ![c] = run]
        /\ layers' = [layers EXCEPT ![key] = c]
    BY <1>6, <1>9, <2>1 DEF UploadType, CensusInd, CensusTyped
  <2>3. /\ run.step = "upload" /\ run.name = f.name /\ run.types = f.types /\ run.states = f.states
        /\ run.todo = f.todo /\ run.got = Tail(f.got) /\ run.failed = f.failed
        /\ run.replaced = f.replaced \cup {key}
    BY <1>1, <1>2, <2>1 DEF CensusRunType
  <2>4. run \in CensusRunType
    BY <1>2, <1>4, <1>7, <2>1, <2>3 DEF CensusRunType
  <2>5. /\ key \in Remaining(f) /\ Remaining(run) = Remaining(f) \ {key} /\ Asked(run) = Asked(f)
        /\ IsInjective(run.todo) /\ IsInjective(run.got) /\ IsInjective(run.states)
        /\ ToSet(run.todo) \cap ToSet(run.got) = {}
    BY <1>8, <2>3
  <2>6. /\ run.replaced \cup Remaining(run) = f.replaced \cup Remaining(f)
        /\ run.replaced \cap Remaining(run) = {}
    BY <1>3, <2>3, <2>5
  <2>7. CensusRunSound(run)
    BY <1>2, <1>3, <2>3, <2>5, <2>6 DEF CensusRunSound
  <2>8. /\ fetches' \in [CensusRuns -> CensusRunType] /\ fetches'[c] = run
        /\ \A d \in CensusRuns \ {c} : fetches'[d] = fetches[d]
    BY <2>2, <2>4 DEF CensusInd, CensusTyped
  <2>9. layers' \in [TableNames -> CensusRuns \cup {NoLayer}] /\ layers'[key] = c
        /\ \A k \in TableNames \ {key} : layers'[k] = layers[k]
    BY <2>2, <1>7 DEF CensusInd, CensusTyped
  <2>10. ASSUME NEW d \in CensusRuns PROVE CensusRunSound(fetches[d])'
    <3>1. PICK g : g = fetches'[d]
      OBVIOUS
    <3>2. CensusRunSound(g)
      BY <3>1, <2>7, <2>8 DEF CensusInd
    <3> QED BY <3>1, <3>2 DEF CensusRunSound, Remaining, Asked
  <2>11. \A d \in CensusRuns : fetches[d].replaced \subseteq fetches'[d].replaced
    BY <2>3, <2>8
  <2>12. ASSUME NEW d \in CensusRuns, NEW k \in fetches'[d].replaced PROVE HoldsADownload(k)'
    <3>1. CASE k = key
      BY <3>1, <2>3, <2>8, <2>9 DEF HoldsADownload
    <3>2. CASE k # key
      <4>1. k \in fetches[d].replaced
        BY <2>3, <2>8, <2>12, <3>2
      <4>2. k \in TableNames
        BY <4>1 DEF CensusInd, CensusTyped, CensusRunType
      <4>3. layers[k] \in CensusRuns /\ k \in fetches[layers[k]].replaced
        BY <4>1 DEF CensusInd, HoldsADownload
      <4> QED BY <3>2, <4>2, <4>3, <2>9, <2>11 DEF HoldsADownload
    <3> QED BY <3>1, <3>2
  <2> QED BY <2>8, <2>9, <2>10, <2>12 DEF CensusInd, CensusTyped
<1>10. CASE FailUpload(c)
  <2>1. PICK run : run = [f EXCEPT !.got = Tail(f.got), !.failed = f.failed + 1]
    OBVIOUS
  <2>2. fetches' = [fetches EXCEPT ![c] = run] /\ UNCHANGED layers
    BY <1>10, <2>1 DEF FailUpload, CensusInd, CensusTyped
  <2>3. /\ run.step = "upload" /\ run.name = f.name /\ run.types = f.types /\ run.states = f.states
        /\ run.todo = f.todo /\ run.got = Tail(f.got) /\ run.failed = f.failed + 1
        /\ run.replaced = f.replaced
    BY <1>1, <1>2, <2>1 DEF CensusRunType
  <2>4. run \in CensusRunType
    <3>1. f.failed + 1 \in Nat
      BY <1>2
    <3>2. PICK n \in Nat : n = f.failed + 1
      BY <3>1
    <3>3. run = [f EXCEPT !.got = Tail(f.got), !.failed = n]
      BY <2>1, <3>2
    <3> QED BY <1>2, <1>4, <3>3 DEF CensusRunType
  <2>5. /\ key \in Remaining(f) /\ Remaining(run) = Remaining(f) \ {key} /\ Asked(run) = Asked(f)
        /\ IsInjective(run.todo) /\ IsInjective(run.got) /\ IsInjective(run.states)
        /\ ToSet(run.todo) \cap ToSet(run.got) = {}
    BY <1>8, <2>3
  <2>6. /\ run.replaced \cup Remaining(run) \subseteq Asked(run)
        /\ run.replaced \cap Remaining(run) = {}
        /\ run.replaced \cup Remaining(run) # Asked(run)
    BY <1>3, <2>3, <2>5
  <2>7. run.failed # 0
    BY <1>2, <2>3
  <2>8. CensusRunSound(run)
    BY <1>2, <1>3, <2>3, <2>5, <2>6, <2>7 DEF CensusRunSound
  <2> QED BY <2>2, <2>3, <2>4, <2>8, CensusRunStep
<1> QED BY <1>9, <1>10

\* The steps between the types: on to the uploads, to the next state, out.
LEMMA TurningKeepsCensus ==
    ASSUME CensusInd, NEW c \in CensusRuns,
           BeginUploads(c) \/ NextState(c) \/ ExitFetch(c) \/ DieFetching(c)
    PROVE  CensusInd'
<1> DEFINE f == fetches[c]
<1>1. f.step \in {"download", "upload"} /\ UNCHANGED layers
  BY DEF BeginUploads, NextState, ExitFetch, DieFetching
<1>2. /\ f \in CensusRunType /\ CensusRunSound(f) /\ f.types \in Requests /\ f.failed \in Nat
      /\ f.states \in Seq(ToSet(States)) /\ f.states # <<>>
      /\ Tail(f.states) \in Seq(ToSet(States)) /\ IsInjective(Tail(f.states))
  BY <1>1, RunUnderWay
<1>3. /\ IsInjective(f.todo) /\ IsInjective(f.got) /\ ToSet(f.todo) \cap ToSet(f.got) = {}
      /\ f.states # <<>> /\ IsInjective(f.states)
      /\ f.step = "upload" => f.todo = <<>>
      /\ f.replaced \cup Remaining(f) \subseteq Asked(f)
      /\ f.replaced \cap Remaining(f) = {}
      /\ f.name = "load-census" => (f.failed = 0 <=> f.replaced \cup Remaining(f) = Asked(f))
  BY <1>1, <1>2 DEF CensusRunSound
<1>4. CASE NextState(c)
  <2>1. PICK run : run = Downloading(f, Tail(f.states))
    OBVIOUS
  <2>2. /\ fetches' = [fetches EXCEPT ![c] = run]
        /\ f.step = "upload" /\ f.got = <<>> /\ Len(f.states) > 1
    BY <1>4, <2>1 DEF NextState, CensusInd, CensusTyped
  <2>3. /\ run.step = "download" /\ run.name = f.name /\ run.types = f.types
        /\ run.states = Tail(f.states) /\ run.todo = f.types /\ run.got = <<>>
        /\ run.failed = f.failed /\ run.replaced = f.replaced
    BY <1>2, <2>1 DEF Downloading, CensusRunType
  <2>4. f.types \in Seq(BoundaryTypes) /\ IsInjective(f.types)
    BY <1>2, TypesListed
  <2>5. run \in CensusRunType
    BY <1>2, <2>1, <2>4, NothingListed DEF Downloading, CensusRunType, CensusSteps
  <2>6. run.states # <<>>
    <3>1. Len(Tail(f.states)) = Len(f.states) - 1 /\ Len(f.states) \in Nat
      BY <1>2, HeadTailProperties
    <3>2. PICK n \in Nat : n = Len(f.states)
      BY <3>1
    <3>3. n > 1 /\ Len(Tail(f.states)) = n - 1
      BY <2>2, <3>1, <3>2
    <3>4. PICK m \in Nat : m = n - 1 /\ m # 0
      BY <3>3
    <3>5. Len(Tail(f.states)) # 0
      BY <3>3, <3>4
    <3> QED BY <2>3, <3>5, EmptySeq
  <2>7. Remaining(run) = ToSet(f.types) \X ToSet(Tail(f.states))
    <3>1. PICK states \in Seq(ToSet(States)) : states = Tail(f.states)
      BY <1>2
    <3>2. PICK types : types = f.types
      OBVIOUS
    <3>3. /\ run.todo = types /\ run.got = <<>> /\ run.types = types /\ run.states = states
          /\ states # <<>>
      BY <2>3, <2>6, <3>1, <3>2
    <3>4. Remaining(run) = ToSet(types) \X ToSet(states)
      BY <3>3, FreshRemaining
    <3> QED BY <3>1, <3>2, <3>4
  <2>8. Remaining(f) = ToSet(f.types) \X ToSet(Tail(f.states))
    BY <1>3, <2>2, NothingListed DEF Remaining
  <2>9. Asked(run) = Asked(f)
    BY <2>3 DEF Asked
  <2>10. /\ IsInjective(run.todo) /\ IsInjective(run.got) /\ IsInjective(run.states)
         /\ ToSet(run.todo) \cap ToSet(run.got) = {}
    BY <1>2, <2>3, <2>4, NothingListed
  <2>11. CensusRunSound(run)
    BY <1>2, <1>3, <2>3, <2>6, <2>7, <2>8, <2>9, <2>10 DEF CensusRunSound
  <2> QED BY <1>1, <2>2, <2>3, <2>5, <2>11, CensusRunStep
<1>5. ASSUME NEW step \in CensusSteps \ {"ready"},
             fetches' = [fetches EXCEPT ![c] = [f EXCEPT !.step = step]],
             step \in {"upload", "exit 0", "exit 2"} => f.todo = <<>>,
             step \in {"exit 0", "exit 2"} => f.got = <<>> /\ Len(f.states) = 1,
             step = "exit 0" => f.failed = 0, step = "exit 2" => f.failed > 0
      PROVE  CensusInd'
  <2>1. PICK run : run = [f EXCEPT !.step = step]
    OBVIOUS
  <2>2. /\ run.step = step /\ run.name = f.name /\ run.types = f.types /\ run.states = f.states
        /\ run.todo = f.todo /\ run.got = f.got /\ run.failed = f.failed
        /\ run.replaced = f.replaced
    BY <1>2, <2>1 DEF CensusRunType
  <2>3. run \in CensusRunType
    BY <1>2, <2>1 DEF CensusRunType
  <2>4. Remaining(run) = Remaining(f) /\ Asked(run) = Asked(f)
    BY <2>2, SameRemaining
  <2>5. CensusRunSound(run)
    BY <1>2, <1>3, <1>5, <2>2, <2>4 DEF CensusRunSound
  <2> QED BY <1>1, <1>5, <2>1, <2>2, <2>3, <2>5, CensusRunStep
<1>6. CASE BeginUploads(c)
  BY <1>5, <1>6 DEF BeginUploads, CensusSteps, CensusInd, CensusTyped
<1>7. CASE ExitFetch(c)
  <2>1. PICK step : step = IF ExitCode(c) = 0 THEN "exit 0" ELSE "exit 2"
    OBVIOUS
  <2>2. /\ fetches' = [fetches EXCEPT ![c] = [f EXCEPT !.step = step]]
        /\ f.step = "upload" /\ f.got = <<>> /\ Len(f.states) = 1
    BY <1>7, <2>1 DEF ExitFetch, CensusInd, CensusTyped
  <2>3. step \in {"exit 0", "exit 2"} /\ (step = "exit 0" => f.failed = 0) /\ (step = "exit 2" => f.failed > 0)
    <3>1. PICK n \in Nat : n = f.failed
      BY <1>2
    <3>2. CASE n > 0
      <4>1. ExitCode(c) = 2 /\ 2 # 0
        BY <3>1, <3>2 DEF ExitCode
      <4>2. step = "exit 2"
        BY <2>1, <4>1, Zenon
      <4> QED BY <3>1, <3>2, <4>2
    <3>3. CASE ~(n > 0)
      <4>1. ExitCode(c) = 0
        BY <3>1, <3>3 DEF ExitCode
      <4>2. step = "exit 0"
        BY <2>1, <4>1, Zenon
      <4>3. n = 0
        BY <3>1, <3>3
      <4> QED BY <3>1, <4>2, <4>3
    <3> QED BY <3>2, <3>3
  <2> QED BY <1>3, <1>5, <2>2, <2>3 DEF CensusSteps
<1>8. CASE DieFetching(c)
  BY <1>5, <1>8 DEF DieFetching, CensusSteps, CensusInd, CensusTyped
<1> QED BY <1>4, <1>6, <1>7, <1>8

LEMMA CensusIndInit == CensusInit => CensusInd
<1> SUFFICES ASSUME CensusInit PROVE CensusInd
  OBVIOUS
<1>1. NotFetched \in CensusRunType
  BY NothingListed DEF NotFetched, CensusRunType, CensusSteps
<1>2. \A c \in CensusRuns : fetches[c] = NotFetched
  BY DEF CensusInit
<1>3. CensusTyped
  BY <1>1 DEF CensusInit, CensusTyped
<1>4. NotFetched.step = "ready" /\ NotFetched.failed = 0 /\ NotFetched.replaced = {}
  BY DEF NotFetched
<1>5. CensusRunSound(NotFetched)
  BY <1>4 DEF CensusRunSound
<1> QED BY <1>2, <1>3, <1>4, <1>5 DEF CensusInd

\* What a run remembers is true of its requests and of the tables, if States names
\* each state once.
LEMMA CensusInvariance == ASSUME StatesOnce PROVE CensusSpec => []CensusInd
<1>1. CensusInd /\ [CensusNext]_censusVars => CensusInd'
  <2> SUFFICES ASSUME CensusInd, [CensusNext]_censusVars PROVE CensusInd'
    OBVIOUS
  <2>1. CASE UNCHANGED censusVars
    <3>1. layers' = layers /\ fetches' = fetches
      BY <2>1 DEF censusVars
    <3>2. ASSUME NEW c \in CensusRuns PROVE CensusRunSound(fetches[c])'
      <4>1. PICK f : f = fetches'[c]
        OBVIOUS
      <4>2. CensusRunSound(f)
        BY <3>1, <4>1 DEF CensusInd
      <4> QED BY <4>1, <4>2
    <3> QED BY <3>1, <3>2 DEF CensusInd, CensusTyped, HoldsADownload
  <2>2. ASSUME NEW c \in CensusRuns, NEW name \in CensusCommands, NEW types \in Requests,
               BeginFetch(c, name, types)
        PROVE  CensusInd'
    BY <2>2, BeginKeepsCensus
  <2>3. ASSUME NEW c \in CensusRuns, DownloadType(c) \/ FailDownload(c) PROVE CensusInd'
    BY <2>3, DownloadKeepsCensus
  <2>4. ASSUME NEW c \in CensusRuns, UploadType(c) \/ FailUpload(c) PROVE CensusInd'
    BY <2>4, UploadKeepsCensus
  <2>5. ASSUME NEW c \in CensusRuns,
               BeginUploads(c) \/ NextState(c) \/ ExitFetch(c) \/ DieFetching(c)
        PROVE  CensusInd'
    BY <2>5, TurningKeepsCensus
  <2> QED BY <2>1, <2>2, <2>3, <2>4, <2>5 DEF CensusNext
<1> QED BY <1>1, CensusIndInit, PTL DEF CensusSpec

\* The exit code of load-census (sys.exit(2) on any failure, else 0): 0 after it
\* replaced the table of every type and state it was asked for, 2 when it missed
\* one; and a table once replaced holds the download of the last run to replace it.
THEOREM ExitCodesAreTrue == ASSUME StatesOnce PROVE CensusSpec => []ExitZeroMeansLoaded
<1>1. CensusInd => ExitZeroMeansLoaded
  <2> SUFFICES ASSUME CensusInd, NEW c \in CensusRuns
               PROVE  /\ /\ fetches[c].name = "load-census" /\ fetches[c].step = "exit 0"
                         => fetches[c].replaced = Asked(fetches[c])
                      /\ fetches[c].name = "load-census" /\ fetches[c].step = "exit 2"
                         => fetches[c].replaced # Asked(fetches[c])
                      /\ \A k \in fetches[c].replaced :
                            layers[k] = c \/ k \in fetches[layers[k]].replaced
    BY DEF ExitZeroMeansLoaded, Asked
  <2>1. CASE fetches[c].step \in {"exit 0", "exit 2"}
    <3>1. CensusRunSound(fetches[c]) /\ fetches[c].failed \in Nat /\ fetches[c].step # "ready"
          /\ fetches[c].states \in Seq(ToSet(States)) /\ fetches[c].states # <<>>
      BY <2>1, RunUnderWay
    <3>2. /\ fetches[c].todo = <<>> /\ fetches[c].got = <<>> /\ Len(fetches[c].states) = 1
          /\ fetches[c].step = "exit 0" => fetches[c].failed = 0
          /\ fetches[c].step = "exit 2" => fetches[c].failed > 0
          /\ fetches[c].name = "load-census" =>
                (fetches[c].failed = 0
                 <=> fetches[c].replaced \cup Remaining(fetches[c]) = Asked(fetches[c]))
      BY <2>1, <3>1 DEF CensusRunSound
    <3>3. Tail(fetches[c].states) = <<>>
      BY <3>1, <3>2, TakeFirst
    <3>4. Remaining(fetches[c]) = {}
      BY <3>2, <3>3, NothingListed DEF Remaining
    <3>5. fetches[c].name = "load-census" =>
            (fetches[c].failed = 0 <=> fetches[c].replaced = Asked(fetches[c]))
      BY <3>2, <3>4
    <3>6. fetches[c].step = "exit 2" => fetches[c].failed # 0
      <4>1. PICK n \in Nat : n = fetches[c].failed
        BY <3>1
      <4>2. n > 0 => n # 0
        OBVIOUS
      <4>3. fetches[c].step = "exit 2" => n > 0
        BY <3>2, <4>1
      <4> QED BY <4>1, <4>2, <4>3
    <3> QED BY <3>2, <3>5, <3>6 DEF CensusInd, HoldsADownload
  <2>2. CASE fetches[c].step \notin {"exit 0", "exit 2"}
    BY <2>2 DEF CensusInd, HoldsADownload
  <2> QED BY <2>1, <2>2
<1> QED BY <1>1, CensusInvariance, PTL

-----------------------------------------------------------------------------
(* How often a command can fail.  States may name a state twice here: what   *)
(* counts is the places of the two lists, each of which fails once at most.  *)

CountSound(run) ==
    /\ run.step = "ready" => run.failed = 0 /\ run.types = <<>>
    /\ run.step # "ready" =>
        /\ run.types \in Requests /\ run.states # <<>> /\ Len(run.states) <= Len(States)
        /\ run.failed + Len(run.todo) + Len(run.got)
             <= Len(run.types) * (Len(States) - Len(run.states) + 1)

CountInd == CensusTyped /\ \A c \in CensusRuns : CountSound(fetches[c])

LEMMA CountStep ==
    ASSUME CountInd, NEW c \in CensusRuns, NEW run \in CensusRunType, CountSound(run),
           fetches' = [fetches EXCEPT ![c] = run],
           layers' \in [TableNames -> CensusRuns \cup {NoLayer}]
    PROVE  CountInd'
<1>1. fetches' \in [CensusRuns -> CensusRunType]
  BY DEF CountInd, CensusTyped
<1>2. ASSUME NEW d \in CensusRuns PROVE CountSound(fetches[d])'
  <2>1. PICK f : f = fetches'[d]
    OBVIOUS
  <2>2. CountSound(f)
    BY <2>1 DEF CountInd, CensusTyped
  <2> QED BY <2>1, <2>2 DEF CountSound
<1> QED BY <1>1, <1>2 DEF CountInd, CensusTyped

\* What the steps of a run under way use of it.
LEMMA CountUnderWay ==
    ASSUME CountInd, NEW c \in CensusRuns, fetches[c].step # "ready"
    PROVE  /\ fetches[c] \in CensusRunType /\ CountSound(fetches[c])
           /\ fetches[c].types \in Requests /\ fetches[c].types \in Seq(BoundaryTypes)
           /\ fetches[c].todo \in Seq(BoundaryTypes) /\ fetches[c].got \in Seq(BoundaryTypes)
           /\ fetches[c].states \in Seq(ToSet(States)) /\ fetches[c].states # <<>>
           /\ Head(fetches[c].states) \in ToSet(States)
           /\ Tail(fetches[c].states) \in Seq(ToSet(States))
           /\ fetches[c].failed \in Nat
<1>1. fetches[c] \in CensusRunType /\ CountSound(fetches[c])
  BY DEF CountInd, CensusTyped
<1>2. fetches[c].types \in Requests /\ fetches[c].states # <<>>
  BY <1>1 DEF CountSound
<1>3. /\ fetches[c].todo \in Seq(BoundaryTypes) /\ fetches[c].got \in Seq(BoundaryTypes)
      /\ fetches[c].states \in Seq(ToSet(States)) /\ fetches[c].failed \in Nat
  BY <1>1 DEF CensusRunType
<1> QED BY <1>1, <1>2, <1>3, TakeFirst, TypesListed

\* Lengths, as numbers.
LEMMA Shorter ==
    ASSUME NEW S, NEW s \in Seq(S), s # <<>>
    PROVE  Len(s) \in Nat \ {0} /\ Len(Tail(s)) = Len(s) - 1 /\ Head(s) \in S /\ Tail(s) \in Seq(S)
BY HeadTailProperties, LenProperties, EmptySeq

\* A run that goes on with no more failures and types to do than before.
LEMMA NoMoreToFail ==
    ASSUME CountInd, NEW c \in CensusRuns, fetches[c].step # "ready",
           NEW run \in CensusRunType, run.step # "ready",
           run.types = fetches[c].types, run.states = fetches[c].states,
           run.failed + Len(run.todo) + Len(run.got)
             <= fetches[c].failed + Len(fetches[c].todo) + Len(fetches[c].got)
    PROVE  CountSound(run)
<1>1. CountSound(fetches[c])
  BY DEF CountInd
<1>2. PICK most \in Int : most = Len(run.types) * (Len(States) - Len(run.states) + 1)
  <2>1. run.types \in Seq(BoundaryTypes) /\ run.states \in Seq(ToSet(States)) /\ States \in Seq(ToSet(States))
    BY CountUnderWay, CensusAssumption
  <2>2. Len(run.types) \in Nat /\ Len(run.states) \in Nat /\ Len(States) \in Nat
    BY <2>1, LenProperties
  <2>3. PICK n \in Nat, s \in Nat, all \in Nat : n = Len(run.types) /\ s = Len(run.states) /\ all = Len(States)
    BY <2>2
  <2>4. n * (all - s + 1) \in Int
    OBVIOUS
  <2> QED BY <2>3, <2>4
<1>3. fetches[c].failed + Len(fetches[c].todo) + Len(fetches[c].got) <= most
  BY <1>1, <1>2 DEF CountSound
<1>4. /\ run.failed \in Nat /\ Len(run.todo) \in Nat /\ Len(run.got) \in Nat
      /\ fetches[c].failed \in Nat /\ Len(fetches[c].todo) \in Nat /\ Len(fetches[c].got) \in Nat
  <2>1. run.failed \in Nat /\ run.todo \in Seq(BoundaryTypes) /\ run.got \in Seq(BoundaryTypes)
    BY DEF CensusRunType
  <2> QED BY <2>1, CountUnderWay, LenProperties
<1>5. PICK before \in Int : before = fetches[c].failed + Len(fetches[c].todo) + Len(fetches[c].got)
  BY <1>4
<1>6. PICK after \in Int : after = run.failed + Len(run.todo) + Len(run.got)
  BY <1>4
<1>7. after <= most
  BY <1>3, <1>5, <1>6
<1> QED BY <1>1, <1>2, <1>6, <1>7 DEF CountSound

LEMMA BeginCounts ==
    ASSUME CountInd, NEW c \in CensusRuns,
           NEW name \in CensusCommands, NEW types \in Requests, BeginFetch(c, name, types)
    PROVE  CountInd'
<1>1. fetches[c] \in CensusRunType /\ fetches[c].step = "ready" /\ CountSound(fetches[c])
  BY DEF CountInd, CensusTyped, BeginFetch
<1>2. PICK run : run = Downloading([fetches[c] EXCEPT !.name = name, !.types = types], States)
  OBVIOUS
<1>3. fetches' = [fetches EXCEPT ![c] = run] /\ UNCHANGED layers
  BY <1>2 DEF BeginFetch
<1>4. /\ run.step = "download" /\ run.types = types /\ run.states = States
      /\ run.todo = types /\ run.got = <<>> /\ run.failed = fetches[c].failed
  BY <1>1, <1>2 DEF Downloading, CensusRunType
<1>5. States \in Seq(ToSet(States)) /\ States # <<>> /\ types \in Seq(BoundaryTypes)
  BY CensusAssumption, TypesListed
<1>6. run \in CensusRunType
  BY <1>1, <1>2, <1>5, NothingListed DEF Downloading, CensusRunType, CensusSteps
<1>7. Len(types) \in Nat /\ Len(States) \in Nat /\ Len(<<>>) = 0
  BY <1>5, LenProperties
<1>8. 0 + Len(types) + 0 <= Len(types) * (Len(States) - Len(States) + 1)
  <2>1. PICK n \in Nat : n = Len(types)
    BY <1>7
  <2>2. Len(States) - Len(States) + 1 = 1
    BY <1>7
  <2>3. 0 + n + 0 <= n * 1
    OBVIOUS
  <2> QED BY <2>1, <2>2, <2>3
<1>9. fetches[c].failed = 0
  BY <1>1 DEF CountSound
<1>10. CountSound(run)
  BY <1>4, <1>5, <1>7, <1>8, <1>9 DEF CountSound
<1>11. layers' \in [TableNames -> CensusRuns \cup {NoLayer}]
  BY <1>3 DEF CountInd, CensusTyped
<1> QED BY <1>3, <1>6, <1>10, <1>11, CountStep

\* A type that is downloaded moves to the other list, one that fails leaves both.
LEMMA DownloadCounts ==
    ASSUME CountInd, NEW c \in CensusRuns, DownloadType(c) \/ FailDownload(c)
    PROVE  CountInd'
<1>1. PICK f : f = fetches[c]
  OBVIOUS
<1>2. /\ f.step = "download" /\ f.todo # <<>> /\ UNCHANGED layers
      /\ layers' \in [TableNames -> CensusRuns \cup {NoLayer}]
  BY <1>1 DEF DownloadType, FailDownload, CountInd, CensusTyped
<1>3. f \in CensusRunType /\ f.todo \in Seq(BoundaryTypes) /\ f.got \in Seq(BoundaryTypes) /\ f.failed \in Nat
  BY <1>1, <1>2, CountUnderWay
<1>4. PICK rest \in Seq(BoundaryTypes) : rest = Tail(f.todo) /\ Len(rest) = Len(f.todo) - 1
  BY <1>2, <1>3, Shorter
<1>5. Head(f.todo) \in BoundaryTypes /\ Len(f.todo) \in Nat \ {0} /\ Len(f.got) \in Nat
  BY <1>2, <1>3, Shorter, LenProperties
<1>6. \E got \in Seq(BoundaryTypes), n \in Nat :
        /\ fetches' = [fetches EXCEPT ![c] = [f EXCEPT !.todo = rest, !.got = got, !.failed = n]]
        /\ n + Len(got) <= f.failed + Len(f.got) + 1
  <2>1. CASE DownloadType(c)
    <3>1. PICK got : got = IF f.name = "load-census" THEN Append(f.got, Head(f.todo)) ELSE f.got
      OBVIOUS
    <3>2. got \in Seq(BoundaryTypes) /\ Len(got) <= Len(f.got) + 1
      BY <1>3, <1>5, <3>1, AppendProperties
    <3>3. fetches' = [fetches EXCEPT ![c] = [f EXCEPT !.todo = rest, !.got = got, !.failed = f.failed]]
      BY <1>1, <1>3, <1>4, <2>1, <3>1 DEF DownloadType, CountInd, CensusTyped, CensusRunType
    <3>4. Len(got) \in Nat
      BY <3>2, LenProperties
    <3>5. f.failed + Len(got) <= f.failed + Len(f.got) + 1
      BY <1>3, <1>5, <3>2, <3>4
    <3> QED BY <1>3, <3>2, <3>3, <3>5
  <2>2. CASE FailDownload(c)
    <3>1. PICK n \in Nat : n = f.failed + 1
      BY <1>3
    <3>2. fetches' = [fetches EXCEPT ![c] = [f EXCEPT !.todo = rest, !.got = f.got, !.failed = n]]
      BY <1>1, <1>3, <1>4, <2>2, <3>1 DEF FailDownload, CountInd, CensusTyped, CensusRunType
    <3>3. n + Len(f.got) <= f.failed + Len(f.got) + 1
      BY <1>3, <1>5, <3>1
    <3> QED BY <1>3, <3>2, <3>3
  <2> QED BY <2>1, <2>2
<1>7. PICK got \in Seq(BoundaryTypes), n \in Nat :
        /\ fetches' = [fetches EXCEPT ![c] = [f EXCEPT !.todo = rest, !.got = got, !.failed = n]]
        /\ n + Len(got) <= f.failed + Len(f.got) + 1
  BY <1>6
<1>8. PICK run : run = [f EXCEPT !.todo = rest, !.got = got, !.failed = n]
  OBVIOUS
<1>9. run \in CensusRunType
  BY <1>3, <1>8 DEF CensusRunType
<1>10. /\ run.step = "download" /\ run.types = f.types /\ run.states = f.states
       /\ run.todo = rest /\ run.got = got /\ run.failed = n
  BY <1>2, <1>3, <1>8 DEF CensusRunType
<1>11. n + Len(rest) + Len(got) <= f.failed + Len(f.todo) + Len(f.got)
  <2>1. PICK new \in Nat, more \in Nat, left \in Nat, before \in Nat, old \in Nat :
          /\ new = Len(got) /\ more = Len(f.got) /\ left = Len(rest) /\ before = Len(f.todo)
          /\ old = f.failed
    BY <1>3, LenProperties
  <2>2. left = before - 1 /\ n + new <= old + more + 1
    BY <1>4, <1>7, <2>1
  <2>3. n + left + new <= old + before + more
    BY <2>2
  <2> QED BY <2>1, <2>3
<1>12. CountSound(run)
  BY <1>1, <1>2, <1>9, <1>10, <1>11, NoMoreToFail
<1> QED BY <1>2, <1>7, <1>8, <1>9, <1>12, CountStep

LEMMA UploadCounts ==
    ASSUME CountInd, NEW c \in CensusRuns, UploadType(c) \/ FailUpload(c)
    PROVE  CountInd'
<1>1. PICK f : f = fetches[c]
  OBVIOUS
<1>2. f.step = "upload" /\ f.got # <<>>
  BY <1>1 DEF UploadType, FailUpload
<1>3. /\ f \in CensusRunType /\ f.todo \in Seq(BoundaryTypes) /\ f.got \in Seq(BoundaryTypes)
      /\ f.failed \in Nat /\ Head(f.states) \in ToSet(States) /\ f.replaced \in SUBSET TableNames
  BY <1>1, <1>2, CountUnderWay DEF CensusRunType
<1>4. PICK rest \in Seq(BoundaryTypes) : rest = Tail(f.got) /\ Len(rest) = Len(f.got) - 1
  BY <1>2, <1>3, Shorter
<1>5. Head(f.got) \in BoundaryTypes /\ Len(f.got) \in Nat \ {0} /\ Len(f.todo) \in Nat
  BY <1>2, <1>3, Shorter, LenProperties
<1>6. PICK key \in TableNames : key = <<Head(f.got), Head(f.states)>>
  BY <1>3, <1>5 DEF TableNames
<1>7. \E n \in Nat, made \in SUBSET TableNames :
        /\ fetches' = [fetches EXCEPT ![c] = [f EXCEPT !.got = rest, !.failed = n, !.replaced = made]]
        /\ n <= f.failed + 1
  <2>1. CASE UploadType(c)
    <3>1. PICK made \in SUBSET TableNames : made = f.replaced \cup {key}
      BY <1>3
    <3>2. fetches' = [fetches EXCEPT ![c] = [f EXCEPT !.got = rest, !.failed = f.failed, !.replaced = made]]
      BY <1>1, <1>3, <1>4, <1>6, <2>1, <3>1 DEF UploadType, CountInd, CensusTyped, CensusRunType
    <3>3. PICK n \in Nat : n = f.failed
      BY <1>3
    <3>4. n <= f.failed + 1
      BY <3>3
    <3>5. fetches' = [fetches EXCEPT ![c] = [f EXCEPT !.got = rest, !.failed = n, !.replaced = made]]
      BY <3>2, <3>3
    <3> QED BY <3>4, <3>5
  <2>2. CASE FailUpload(c)
    <3>1. PICK n \in Nat : n = f.failed + 1
      BY <1>3
    <3>3. PICK made \in SUBSET TableNames : made = f.replaced
      BY <1>3
    <3>2. fetches' = [fetches EXCEPT ![c] = [f EXCEPT !.got = rest, !.failed = n, !.replaced = made]]
      BY <1>1, <1>3, <1>4, <2>2, <3>1, <3>3 DEF FailUpload, CountInd, CensusTyped, CensusRunType
    <3>4. n <= f.failed + 1
      BY <3>1
    <3> QED BY <3>2, <3>4
  <2> QED BY <2>1, <2>2
<1>8. PICK n \in Nat, made \in SUBSET TableNames :
        /\ fetches' = [fetches EXCEPT ![c] = [f EXCEPT !.got = rest, !.failed = n, !.replaced = made]]
        /\ n <= f.failed + 1
  BY <1>7
<1>9. PICK run : run = [f EXCEPT !.got = rest, !.failed = n, !.replaced = made]
  OBVIOUS
<1>10. run \in CensusRunType
  BY <1>3, <1>9 DEF CensusRunType
<1>11. /\ run.step = "upload" /\ run.types = f.types /\ run.states = f.states
       /\ run.todo = f.todo /\ run.got = rest /\ run.failed = n
  BY <1>2, <1>3, <1>9 DEF CensusRunType
<1>12. n + Len(f.todo) + Len(rest) <= f.failed + Len(f.todo) + Len(f.got)
  BY <1>3, <1>4, <1>5, <1>8
<1>13. CountSound(run)
  BY <1>1, <1>2, <1>10, <1>11, <1>12, NoMoreToFail
<1>14. layers' \in [TableNames -> CensusRuns \cup {NoLayer}]
  BY <1>1, <1>6 DEF UploadType, FailUpload, CountInd, CensusTyped
<1> QED BY <1>8, <1>9, <1>10, <1>13, <1>14, CountStep

LEMMA TurnCounts ==
    ASSUME CountInd, NEW c \in CensusRuns,
           BeginUploads(c) \/ NextState(c) \/ ExitFetch(c) \/ DieFetching(c)
    PROVE  CountInd'
<1>1. PICK f : f = fetches[c]
  OBVIOUS
<1>2. /\ f.step \in {"download", "upload"} /\ UNCHANGED layers
      /\ layers' \in [TableNames -> CensusRuns \cup {NoLayer}]
  BY <1>1 DEF BeginUploads, NextState, ExitFetch, DieFetching, CountInd, CensusTyped
<1>3. /\ f \in CensusRunType /\ CountSound(f) /\ f.types \in Requests /\ f.types \in Seq(BoundaryTypes)
      /\ f.todo \in Seq(BoundaryTypes) /\ f.got \in Seq(BoundaryTypes) /\ f.failed \in Nat
      /\ f.states \in Seq(ToSet(States)) /\ f.states # <<>>
  BY <1>1, <1>2, CountUnderWay
<1>4. CASE NextState(c)
  <2>1. PICK run : run = Downloading(f, Tail(f.states))
    OBVIOUS
  <2>2. /\ fetches' = [fetches EXCEPT ![c] = run]
        /\ f.got = <<>> /\ Len(f.states) > 1
    BY <1>1, <1>4, <2>1 DEF NextState, CountInd, CensusTyped
  <2>3. /\ run.step = "download" /\ run.types = f.types /\ run.states = Tail(f.states)
        /\ run.todo = f.types /\ run.got = <<>> /\ run.failed = f.failed
    BY <1>3, <2>1 DEF Downloading, CensusRunType
  <2>4. Tail(f.states) \in Seq(ToSet(States)) /\ Len(Tail(f.states)) = Len(f.states) - 1
    BY <1>3, Shorter
  <2>5. run \in CensusRunType
    BY <1>3, <2>1, <2>4, NothingListed DEF Downloading, CensusRunType, CensusSteps
  <2>6. PICK n \in Nat, s \in Nat, all \in Nat, todo \in Nat :
          n = Len(f.types) /\ s = Len(f.states) /\ all = Len(States) /\ todo = Len(f.todo)
    BY <1>3, CensusAssumption, LenProperties
  <2>7. f.failed + todo + 0 <= n * (all - s + 1) /\ s <= all /\ s > 1
    <3>1. Len(<<>>) = 0
      OBVIOUS
    <3> QED BY <1>2, <1>3, <2>2, <2>6, <3>1 DEF CountSound
  <2>8. n * (all - (s - 1) + 1) = n * (all - s + 1) + n
    OBVIOUS
  <2>9. f.failed + n + 0 <= n * (all - (s - 1) + 1)
    <3>1. PICK most \in Int : most = n * (all - s + 1)
      OBVIOUS
    <3>2. f.failed + n + 0 <= most + n
      BY <1>3, <2>7, <3>1
    <3> QED BY <2>8, <3>1, <3>2
  <2>10. run.states # <<>> /\ Len(run.states) <= Len(States)
    <3>1. Len(run.states) = s - 1 /\ s - 1 > 0 /\ s - 1 <= all
      BY <2>3, <2>4, <2>6, <2>7
    <3>2. Len(<<>>) = 0
      OBVIOUS
    <3> QED BY <2>6, <3>1, <3>2
  <2>11. CountSound(run)
    <3>1. Len(<<>>) = 0
      OBVIOUS
    <3> QED BY <1>3, <2>3, <2>4, <2>6, <2>9, <2>10, <3>1 DEF CountSound
  <2> QED BY <1>2, <2>2, <2>5, <2>11, CountStep
<1>5. ASSUME NEW step \in CensusSteps \ {"ready"}, fetches' = [fetches EXCEPT ![c] = [f EXCEPT !.step = step]]
      PROVE  CountInd'
  <2>1. PICK run : run = [f EXCEPT !.step = step]
    OBVIOUS
  <2>2. /\ run.step = step /\ run.types = f.types /\ run.states = f.states
        /\ run.todo = f.todo /\ run.got = f.got /\ run.failed = f.failed
    BY <1>3, <2>1 DEF CensusRunType
  <2>3. run \in CensusRunType
    BY <1>3, <2>1 DEF CensusRunType
  <2>4. CountSound(run)
    BY <1>2, <1>3, <2>2 DEF CountSound
  <2> QED BY <1>2, <1>5, <2>1, <2>3, <2>4, CountStep
<1>6. CASE BeginUploads(c) \/ DieFetching(c)
  BY <1>1, <1>5, <1>6 DEF BeginUploads, DieFetching, CensusSteps, CountInd, CensusTyped
<1>7. CASE ExitFetch(c)
  <2>1. PICK step : step = IF ExitCode(c) = 0 THEN "exit 0" ELSE "exit 2"
    OBVIOUS
  <2>2. fetches' = [fetches EXCEPT ![c] = [f EXCEPT !.step = step]]
    BY <1>1, <1>7, <2>1 DEF ExitFetch, CountInd, CensusTyped
  <2>3. step \in CensusSteps \ {"ready"}
    BY <2>1 DEF CensusSteps
  <2> QED BY <1>5, <2>2, <2>3
<1> QED BY <1>4, <1>6, <1>7

\* Type correctness of the Census commands, repeated states included: the failures a
\* command reports are at most one for each type of each state it was asked for.
THEOREM CensusTypeCorrect == CensusSpec => []CensusTypeOK
<1>1. CensusInit => CountInd
  <2> SUFFICES ASSUME CensusInit PROVE CountInd
    OBVIOUS
  <2>1. NotFetched \in CensusRunType
    BY NothingListed DEF NotFetched, CensusRunType, CensusSteps
  <2>2. CountSound(NotFetched)
    BY DEF NotFetched, CountSound
  <2>3. \A c \in CensusRuns : fetches[c] = NotFetched
    BY DEF CensusInit
  <2> QED BY <2>1, <2>2, <2>3 DEF CensusInit, CountInd, CensusTyped
<1>2. CountInd /\ [CensusNext]_censusVars => CountInd'
  <2> SUFFICES ASSUME CountInd, [CensusNext]_censusVars PROVE CountInd'
    OBVIOUS
  <2>1. CASE UNCHANGED censusVars
    <3>1. layers' = layers /\ fetches' = fetches
      BY <2>1 DEF censusVars
    <3> QED BY <3>1 DEF CountInd, CensusTyped, CountSound
  <2>2. ASSUME NEW c \in CensusRuns, NEW name \in CensusCommands, NEW types \in Requests,
               BeginFetch(c, name, types)
        PROVE  CountInd'
    BY <2>2, BeginCounts
  <2>3. ASSUME NEW c \in CensusRuns, DownloadType(c) \/ FailDownload(c) PROVE CountInd'
    BY <2>3, DownloadCounts
  <2>4. ASSUME NEW c \in CensusRuns, UploadType(c) \/ FailUpload(c) PROVE CountInd'
    BY <2>4, UploadCounts
  <2>5. ASSUME NEW c \in CensusRuns,
               BeginUploads(c) \/ NextState(c) \/ ExitFetch(c) \/ DieFetching(c)
        PROVE  CountInd'
    BY <2>5, TurnCounts
  <2> QED BY <2>1, <2>2, <2>3, <2>4, <2>5 DEF CensusNext
<1>3. ASSUME CountInd, NEW c \in CensusRuns
      PROVE  /\ fetches[c].replaced \subseteq TableNames
             /\ fetches[c].failed \in 0..(Len(fetches[c].types) * Len(States))
  <2>1. fetches[c] \in CensusRunType /\ CountSound(fetches[c])
    BY <1>3 DEF CountInd, CensusTyped
  <2>2. fetches[c].replaced \subseteq TableNames /\ fetches[c].failed \in Nat
    BY <2>1 DEF CensusRunType
  <2>3. CASE fetches[c].step = "ready"
    <3>1. fetches[c].failed = 0 /\ Len(fetches[c].types) = 0
      BY <2>1, <2>3 DEF CountSound
    <3>2. PICK all \in Nat : all = Len(States)
      BY CensusAssumption, LenProperties
    <3>3. 0 \in 0..(0 * all)
      OBVIOUS
    <3> QED BY <2>2, <3>1, <3>2, <3>3
  <2>4. CASE fetches[c].step # "ready"
    <3>1. PICK n \in Nat, s \in Nat, all \in Nat, todo \in Nat, got \in Nat, failed \in Nat :
            /\ n = Len(fetches[c].types) /\ s = Len(fetches[c].states) /\ all = Len(States)
            /\ todo = Len(fetches[c].todo) /\ got = Len(fetches[c].got) /\ failed = fetches[c].failed
      <4>1. /\ fetches[c].types \in Seq(BoundaryTypes) /\ fetches[c].states \in Seq(ToSet(States))
            /\ fetches[c].todo \in Seq(BoundaryTypes) /\ fetches[c].got \in Seq(BoundaryTypes)
        BY <1>3, <2>4, CountUnderWay
      <4> QED BY <2>2, <4>1, CensusAssumption, LenProperties
    <3>2. failed + todo + got <= n * (all - s + 1) /\ s >= 1 /\ s <= all
      <4>1. failed + todo + got <= n * (all - s + 1) /\ s <= all
        BY <2>1, <2>4, <3>1 DEF CountSound
      <4>2. fetches[c].states \in Seq(ToSet(States)) /\ fetches[c].states # <<>>
        BY <1>3, <2>4, CountUnderWay
      <4>3. s # 0
        BY <3>1, <4>2, EmptySeq
      <4> QED BY <4>1, <4>3
    <3>3. n * (all - s + 1) <= n * all
      <4>1. PICK fewer \in Nat : fewer = s - 1
        BY <3>2
      <4>2. n * (all - s + 1) = n * all - n * fewer
        BY <4>1
      <4>3. n * fewer \in Nat /\ n * all \in Nat
        OBVIOUS
      <4> QED BY <4>2, <4>3
    <3>4. n * (all - s + 1) \in Int /\ n * all \in Int
      OBVIOUS
    <3>5. failed <= n * all
      BY <3>2, <3>3, <3>4
    <3> QED BY <2>2, <3>1, <3>4, <3>5
  <2> QED BY <2>2, <2>3, <2>4
<1>4. CountInd => CensusTypeOK
  BY <1>3 DEF CountInd, CensusTyped, CensusTypeOK
<1> QED BY <1>1, <1>2, <1>4, PTL DEF CensusSpec

-----------------------------------------------------------------------------
(***************************************************************************)
(* VoterFileLoad: all or nothing, for any files and any number of loads of *)
(* one table.                                                              *)
(***************************************************************************)

ReadingSteps == {"ready", "reading", "cleanup", "done", "failed", "left"}
Reading == [step : ReadingSteps, file : VoterFiles \cup {<<>>}, at : Nat \ {0},
            first : BOOLEAN, refused : SUBSET Nat]

ReadingTypes ==
    /\ reading \in [Loads -> Reading]
    /\ staging \in [Loads -> SUBSET (Loads \X Nat)]

\* the chunks of its file that load l has uploaded before it reached its place
Uploaded(l) ==
    {<<l, n>> : n \in {m \in 1..(reading[l].at - 1) :
        reading[l].file[m] = "rows" /\ m \notin reading[l].refused}}

\* A load that has not begun has no staging table; one that reads has passed the
\* chunks before its place, and its staging table holds those it has uploaded.
VoterFollows(l) ==
    /\ reading[l].at <= Len(reading[l].file) + 1
    /\ reading[l].step = "ready" =>
         staging[l] = NoTable /\ reading[l].at = 1 /\ reading[l].first /\ reading[l].refused = {}
    /\ reading[l].step = "reading" =>
         /\ \A n \in 1..(reading[l].at - 1) : reading[l].file[n] \in {"rows", "none"}
         /\ reading[l].refused \subseteq 1..(reading[l].at - 1)
         /\ staging[l] = Uploaded(l)
         /\ reading[l].first => Uploaded(l) = {}
    /\ reading[l].step \in {"done", "failed"} => staging[l] = NoTable

TargetIsWhole ==
    target # NoTable =>
        \E l \in Loads : reading[l].step = "done" /\ target = ChunksOf(l) \ Refused(l)

VoterInd == ReadingTypes /\ (\A l \in Loads : VoterFollows(l)) /\ TargetIsWhole

\* What holds of a load holds until that load moves or its staging table changes.
LEMMA OthersKeep ==
    ASSUME NEW m \in Loads, VoterFollows(m), reading'[m] = reading[m], staging'[m] = staging[m]
    PROVE  VoterFollows(m)'
BY DEF VoterFollows, Uploaded

\* A target made whole by a load stays so while another load moves.
LEMMA TargetKeeps ==
    ASSUME TargetIsWhole, NEW l \in Loads, reading[l].step # "done", target' = target,
           \A m \in Loads \ {l} : reading'[m] = reading[m]
    PROVE  TargetIsWhole'
<1>1. SUFFICES ASSUME target # NoTable PROVE TargetIsWhole'
  BY DEF TargetIsWhole
<1>2. PICK k \in Loads : reading[k].step = "done" /\ target = ChunksOf(k) \ Refused(k)
  BY <1>1 DEF TargetIsWhole
<1>3. reading'[k] = reading[k]
  BY <1>2
<1>. QED
  BY <1>2, <1>3 DEF TargetIsWhole, ChunksOf, Refused

\* The file of a load is a sequence of chunks.
LEMMA FilesAreSequences ==
    ASSUME NEW file \in VoterFiles \cup {<<>>}
    PROVE  file \in Seq({"rows", "none", "drifted"})
<1>1. VoterFiles \subseteq Seq({"rows", "none", "drifted"})
  BY VoterFileAssumption
<1>2. <<>> \in Seq({"rows", "none", "drifted"})
  BY EmptySeq
<1>. QED
  BY <1>1, <1>2

\* The record of a load that passes a chunk.
LEMMA Passing ==
    ASSUME ReadingTypes, NEW l \in Loads
    PROVE  /\ PastChunk(l) \in Reading
           /\ PastChunk(l).at = reading[l].at + 1 /\ PastChunk(l).file = reading[l].file
           /\ PastChunk(l).refused = reading[l].refused /\ PastChunk(l).step = reading[l].step
           /\ reading[l].refused \in SUBSET Nat /\ reading[l].at \in Nat \ {0}
<1>1. PICK run \in Reading : run = reading[l]
  BY DEF ReadingTypes
<1>2. PICK place \in Nat \ {0} : place = run.at
  BY DEF Reading
<1>3. PICK next : next = [run EXCEPT !.at = place + 1]
  OBVIOUS
<1>4. next \in Reading /\ next.at = place + 1
  BY <1>3, <1>2 DEF Reading
<1>5. next.file = run.file /\ next.refused = run.refused /\ next.step = run.step
  BY <1>3 DEF Reading
<1>6. PastChunk(l) = next
  BY <1>1, <1>2, <1>3 DEF PastChunk
<1>. QED
  BY <1>1, <1>2, <1>4, <1>5, <1>6 DEF Reading

\* A chunk with rows is not yet among the refused or the uploaded.
LEMMA AtPlace ==
    ASSUME ReadingTypes, NEW l \in Loads, VoterFollows(l), MoreChunks(l)
    PROVE  /\ reading[l].at \in Nat \ {0} /\ reading[l].at \notin reading[l].refused
           /\ 1..reading[l].at = 1..(reading[l].at - 1) \cup {reading[l].at}
           /\ reading[l].at + 1 <= Len(reading[l].file) + 1
           /\ Len(reading[l].file) \in Nat
<1>1. reading[l] \in Reading
  BY DEF ReadingTypes
<1>2. reading[l].file \in Seq({"rows", "none", "drifted"})
  BY <1>1, FilesAreSequences DEF Reading
<1>3. reading[l].at \in Nat \ {0} /\ Len(reading[l].file) \in Nat
  BY <1>1, <1>2, LenProperties DEF Reading
<1>4. reading[l].refused \subseteq 1..(reading[l].at - 1) /\ reading[l].at <= Len(reading[l].file)
  BY DEF VoterFollows, MoreChunks
<1>. QED
  BY <1>3, <1>4

\* Skipping a chunk without coordinates leaves what has been uploaded.
LEMMA SkipFollows ==
    ASSUME ReadingTypes, NEW l \in Loads, VoterFollows(l), SkipChunk(l)
    PROVE  VoterFollows(l)' /\ reading'[l] \in Reading
<1>1. MoreChunks(l) /\ reading[l].file[reading[l].at] = "none"
  BY DEF SkipChunk, Chunk
<1>2. reading[l] \in Reading /\ reading'[l] = [reading[l] EXCEPT !.at = @ + 1] /\ staging' = staging
  BY DEF SkipChunk, PastChunk, ReadingTypes
<1>3. /\ reading'[l].at = reading[l].at + 1 /\ reading'[l].file = reading[l].file
      /\ reading'[l].refused = reading[l].refused /\ reading'[l].first = reading[l].first
      /\ reading'[l].step = "reading" /\ reading[l].step = "reading"
      /\ reading'[l] \in Reading
  BY <1>1, <1>2 DEF MoreChunks, Reading
<1>4. reading'[l].at - 1 = reading[l].at
  BY <1>3, <1>1, AtPlace
<1>5. Uploaded(l)' = Uploaded(l)
  BY <1>1, <1>3, <1>4, AtPlace DEF Uploaded
<1>6. staging'[l] = staging[l]
  BY <1>2
<1>. QED
  BY <1>1, <1>3, <1>4, <1>5, <1>6, AtPlace DEF VoterFollows

\* An upload adds the chunk to the staging table.
LEMMA UploadFollows ==
    ASSUME ReadingTypes, NEW l \in Loads, VoterFollows(l), UploadChunk(l)
    PROVE  VoterFollows(l)' /\ reading'[l] \in Reading /\ staging'[l] \in SUBSET (Loads \X Nat)
<1>1. MoreChunks(l) /\ reading[l].file[reading[l].at] = "rows" /\ StagingOf(l) = l
  BY DEF UploadChunk, Uploadable, Chunk, StagingOf
<1>2. /\ reading[l] \in Reading
      /\ reading'[l] = [PastChunk(l) EXCEPT !.first = FALSE, !.refused = reading[l].refused]
      /\ staging'[l] = (IF reading[l].first THEN {} ELSE staging[l]) \cup {<<l, reading[l].at>>}
  BY <1>1 DEF UploadChunk, ReadingTypes, Reading, PastChunk
<1>3. /\ reading'[l].at = reading[l].at + 1 /\ reading'[l].file = reading[l].file
      /\ reading'[l].refused = reading[l].refused /\ reading'[l].first = FALSE
      /\ reading'[l].step = "reading" /\ reading[l].step = "reading"
      /\ reading'[l] \in Reading
  <2>1. PICK more \in SUBSET Nat : more = reading[l].refused
    BY Passing
  <2>2. PICK run \in Reading : run = PastChunk(l)
    BY Passing
  <2>3. PICK next : next = [run EXCEPT !.first = FALSE, !.refused = more]
    OBVIOUS
  <2>4. /\ next \in Reading /\ next.at = run.at /\ next.file = run.file /\ next.step = run.step
        /\ next.refused = more /\ next.first = FALSE
    BY <2>3 DEF Reading
  <2>5. reading'[l] = next
    BY <1>2, <2>1, <2>2, <2>3
  <2>. QED
    BY <1>1, <2>1, <2>2, <2>4, <2>5, Passing DEF MoreChunks
<1>4. reading'[l].at - 1 = reading[l].at
  BY <1>3, <1>1, AtPlace
<1>5. Uploaded(l)' = Uploaded(l) \cup {<<l, reading[l].at>>}
  BY <1>1, <1>3, <1>4, AtPlace DEF Uploaded
<1>6. staging'[l] = Uploaded(l)'
  BY <1>2, <1>3, <1>5 DEF VoterFollows
<1>7. Uploaded(l)' \in SUBSET (Loads \X Nat)
  BY <1>3, <1>4, AtPlace, <1>1 DEF Uploaded
<1>. QED
  BY <1>1, <1>3, <1>4, <1>6, <1>7, AtPlace DEF VoterFollows

\* A refused upload is passed over, and remembered only here.
LEMMA RefuseFollows ==
    ASSUME ReadingTypes, NEW l \in Loads, VoterFollows(l), RefuseChunk(l)
    PROVE  VoterFollows(l)' /\ reading'[l] \in Reading
<1>1. MoreChunks(l) /\ reading[l].file[reading[l].at] = "rows"
  BY DEF RefuseChunk, Uploadable, Chunk
<1> DEFINE more == reading[l].refused \cup {reading[l].at}
<1>0. more \in SUBSET Nat
  BY Passing
<1>2. /\ reading[l] \in Reading /\ staging' = staging
      /\ reading'[l] = [PastChunk(l) EXCEPT !.first = FALSE, !.refused = more]
  BY Passing DEF RefuseChunk, ReadingTypes
<1> HIDE DEF more
<1>3. /\ reading'[l].at = reading[l].at + 1 /\ reading'[l].file = reading[l].file
      /\ reading'[l].refused = more /\ reading'[l].first = FALSE
      /\ reading'[l].step = "reading" /\ reading[l].step = "reading"
      /\ reading'[l] \in Reading
  <2>1. PICK run \in Reading : run = PastChunk(l)
    BY Passing
  <2>2. PICK next : next = [run EXCEPT !.first = FALSE, !.refused = more]
    OBVIOUS
  <2>3. /\ next \in Reading /\ next.at = run.at /\ next.file = run.file /\ next.step = run.step
        /\ next.refused = more /\ next.first = FALSE
    BY <1>0, <2>2 DEF Reading
  <2>4. reading'[l] = next
    BY <1>2, <2>1, <2>2
  <2>. QED
    BY <1>1, <2>1, <2>3, <2>4, Passing DEF MoreChunks
<1>4. reading'[l].at - 1 = reading[l].at
  BY <1>3, <1>1, AtPlace
<1>5. {m \in 1..reading[l].at : reading[l].file[m] = "rows" /\ m \notin more}
        = {m \in 1..(reading[l].at - 1) : reading[l].file[m] = "rows" /\ m \notin reading[l].refused}
  BY <1>1, AtPlace DEF more
<1>7. Uploaded(l)' = Uploaded(l)
  BY <1>3, <1>4, <1>5 DEF Uploaded
<1>6. staging'[l] = staging[l]
  BY <1>2
<1>. QED
  BY <1>1, <1>3, <1>4, <1>6, <1>7, AtPlace DEF VoterFollows, more

\* What a load that has come to the end of its file has uploaded is the whole
\* file but for the refused chunks.
LEMMA WholeAtEnd ==
    ASSUME ReadingTypes, NEW l \in Loads, VoterFollows(l), reading[l].step = "reading", ~MoreChunks(l)
    PROVE  Uploaded(l) = ChunksOf(l) \ Refused(l)
<1>1. reading[l].file \in Seq({"rows", "none", "drifted"}) /\ reading[l].at \in Nat \ {0}
  BY FilesAreSequences DEF ReadingTypes, Reading
<1>2. reading[l].at - 1 = Len(reading[l].file)
  BY <1>1, LenProperties DEF VoterFollows, MoreChunks
<1>3. DOMAIN reading[l].file = 1..(reading[l].at - 1)
  BY <1>1, <1>2, LenProperties
<1>4. {m \in 1..(reading[l].at - 1) : reading[l].file[m] = "rows"}
        = {m \in DOMAIN reading[l].file : reading[l].file[m] # "none"}
  BY <1>3 DEF VoterFollows
<1>. QED
  BY <1>4 DEF Uploaded, ChunksOf, Refused

\* A move of one load that leaves the target alone keeps the invariant if that
\* load still follows its staging table.
LEMMA OneMoves ==
    ASSUME VoterInd, NEW l \in Loads, NEW r, NEW uploads,
           reading' = [reading EXCEPT ![l] = r], staging' = [staging EXCEPT ![l] = uploads],
           r \in Reading, uploads \in SUBSET (Loads \X Nat),
           target' = target, reading[l].step # "done", VoterFollows(l)'
    PROVE  VoterInd'
<1>1. ReadingTypes'
  BY DEF VoterInd, ReadingTypes
<1>2. \A m \in Loads \ {l} : reading'[m] = reading[m] /\ staging'[m] = staging[m]
  BY DEF VoterInd, ReadingTypes
<1>3. \A m \in Loads : VoterFollows(m)'
  BY <1>2, OthersKeep DEF VoterInd
<1>4. TargetIsWhole'
  BY <1>2, TargetKeeps DEF VoterInd
<1>. QED
  BY <1>1, <1>3, <1>4 DEF VoterInd

\* At first no load has begun and there is no target.
LEMMA VoterStarts == VoterInit => VoterInd
<1> SUFFICES ASSUME VoterInit PROVE VoterInd
  OBVIOUS
<1>1. ReadingTypes
  BY DEF VoterInit, NoTable, NotBegun, ReadingTypes, Reading, ReadingSteps
<1>2. \A l \in Loads : VoterFollows(l)
  <2>1. Len(<<>>) = 0
    OBVIOUS
  <2>2. /\ NotBegun.file = <<>> /\ NotBegun.at = 1 /\ NotBegun.first /\ NotBegun.refused = {}
        /\ NotBegun.step = "ready"
    BY DEF NotBegun
  <2>3. ASSUME NEW l \in Loads PROVE reading[l] = NotBegun /\ staging[l] = NoTable
    BY <2>3 DEF VoterInit
  <2>4. 1 <= 0 + 1
    OBVIOUS
  <2> QED
    BY <2>1, <2>2, <2>3, <2>4 DEF NoTable, VoterFollows
<1>. QED
  BY <1>1, <1>2 DEF VoterInit, TargetIsWhole, VoterInd

\* A load begins with nothing uploaded.
LEMMA BeginKeeps ==
    ASSUME VoterInd, NEW l \in Loads, NEW file \in VoterFiles, BeginFile(l, file)
    PROVE  VoterInd'
<1> DEFINE r == [reading[l] EXCEPT !.step = "reading", !.file = file]
<1>1. reading[l] \in Reading /\ reading[l].step = "ready"
  BY DEF VoterInd, ReadingTypes, BeginFile
<1>2. /\ r \in Reading /\ r.step = "reading" /\ r.file = file /\ r.at = reading[l].at
      /\ r.first = reading[l].first /\ r.refused = reading[l].refused
  BY <1>1 DEF Reading, ReadingSteps
<1>3. reading' = [reading EXCEPT ![l] = r] /\ staging' = staging /\ target' = target
  BY DEF BeginFile
<1> HIDE DEF r
<1>4. /\ reading'[l] = r /\ staging' = [staging EXCEPT ![l] = staging[l]]
      /\ staging[l] \in SUBSET (Loads \X Nat)
  BY <1>3 DEF VoterInd, ReadingTypes
<1>5. staging[l] = NoTable /\ r.at = 1 /\ r.first /\ r.refused = {}
  BY <1>1, <1>2 DEF VoterInd, VoterFollows
<1>6. Len(file) \in Nat
  BY FilesAreSequences, LenProperties
<1>7. Uploaded(l)' = {} /\ staging'[l] = {}
  BY <1>3, <1>4, <1>5 DEF Uploaded, NoTable
<1>8. VoterFollows(l)'
  BY <1>2, <1>4, <1>5, <1>6, <1>7 DEF VoterFollows
<1>. QED
  BY <1>1, <1>2, <1>3, <1>4, <1>8, OneMoves

\* So do a skip, an upload and a refusal.
LEMMA ChunkKeeps ==
    ASSUME VoterInd, NEW l \in Loads, SkipChunk(l) \/ UploadChunk(l) \/ RefuseChunk(l)
    PROVE  VoterInd'
<1>1. VoterFollows(l)' /\ reading'[l] \in Reading
  BY SkipFollows, UploadFollows, RefuseFollows DEF VoterInd
<1>2. /\ reading[l].step # "done" /\ target' = target
      /\ reading' = [reading EXCEPT ![l] = reading'[l]]
  BY DEF SkipChunk, UploadChunk, RefuseChunk, Uploadable, MoreChunks, VoterInd, ReadingTypes
<1>3. staging' = [staging EXCEPT ![l] = staging'[l]]
  BY DEF SkipChunk, UploadChunk, RefuseChunk, StagingOf, VoterInd, ReadingTypes
<1>4. staging'[l] \in SUBSET (Loads \X Nat)
  BY UploadFollows DEF SkipChunk, RefuseChunk, VoterInd, ReadingTypes
<1>. QED
  BY <1>1, <1>2, <1>3, <1>4, OneMoves

\* A load that raises, cleans up or is left behind keeps it.
LEMMA FailureKeeps ==
    ASSUME VoterInd, NEW l \in Loads, RaiseLoad(l) \/ CleanUp(l) \/ LeaveStaging(l)
    PROVE  VoterInd'
<1>1. PICK step \in {"cleanup", "failed", "left"} :
        /\ reading' = [reading EXCEPT ![l] = [reading[l] EXCEPT !.step = step]]
        /\ reading[l].step # "done" /\ target' = target
        /\ step = "failed" => staging' = [staging EXCEPT ![l] = NoTable]
        /\ step # "failed" => staging' = staging
  BY DEF NoTable, RaiseLoad, CleanUp, LeaveStaging, StagingOf
<1>2. reading[l] \in Reading /\ reading'[l] = [reading[l] EXCEPT !.step = step]
  BY <1>1 DEF VoterInd, ReadingTypes
<1>3. reading'[l] \in Reading /\ reading'[l].step = step
  BY <1>2 DEF Reading, ReadingSteps
<1>4. /\ staging' = [staging EXCEPT ![l] = staging'[l]]
      /\ staging'[l] \in SUBSET (Loads \X Nat)
      /\ step = "failed" => staging'[l] = NoTable
  BY <1>1 DEF VoterInd, ReadingTypes, NoTable
<1>5. VoterFollows(l)'
  <2>1. reading'[l].at = reading[l].at /\ reading'[l].file = reading[l].file
    BY <1>2 DEF Reading
  <2> QED
    BY <1>3, <1>4, <2>1 DEF VoterInd, VoterFollows
<1>6. reading' = [reading EXCEPT ![l] = reading'[l]]
  BY <1>1, <1>2
<1>. QED
  BY <1>1, <1>3, <1>4, <1>5, <1>6, OneMoves

\* The swap makes the staging table, whole by then, the target.
LEMMA SwapKeeps ==
    ASSUME VoterInd, NEW l \in Loads, SwapTables(l)
    PROVE  VoterInd'
<1>1. /\ reading[l].step = "reading" /\ ~MoreChunks(l) /\ staging[l] # NoTable
      /\ target' = staging[l] /\ staging' = [staging EXCEPT ![l] = NoTable]
      /\ reading' = [reading EXCEPT ![l] = [reading[l] EXCEPT !.step = "done"]]
  BY DEF SwapTables, StagingOf
<1>2. reading[l] \in Reading /\ reading'[l] = [reading[l] EXCEPT !.step = "done"]
  BY <1>1 DEF VoterInd, ReadingTypes
<1>3. /\ reading'[l] \in Reading /\ reading'[l].step = "done"
      /\ reading'[l].file = reading[l].file /\ reading'[l].refused = reading[l].refused
      /\ reading'[l].at = reading[l].at
  BY <1>2 DEF Reading, ReadingSteps
<1>4. target' = ChunksOf(l) \ Refused(l)
  BY <1>1, WholeAtEnd DEF VoterInd, VoterFollows
<1>5. TargetIsWhole'
  BY <1>3, <1>4 DEF TargetIsWhole, ChunksOf, Refused
<1>6. ReadingTypes'
  BY <1>1, <1>2, <1>3 DEF VoterInd, ReadingTypes, NoTable
<1>7. staging'[l] = NoTable
  BY <1>1 DEF VoterInd, ReadingTypes
<1>8. VoterFollows(l)'
  BY <1>3, <1>7 DEF VoterInd, VoterFollows
<1>9. \A m \in Loads \ {l} : reading'[m] = reading[m] /\ staging'[m] = staging[m]
  BY <1>1 DEF VoterInd, ReadingTypes
<1>10. \A m \in Loads : VoterFollows(m)'
  BY <1>8, <1>9, OthersKeep DEF VoterInd
<1>. QED
  BY <1>5, <1>6, <1>10 DEF VoterInd

\* Every step of a load keeps the invariant.
LEMMA VoterStep == VoterInd /\ [VoterNext]_voterVars => VoterInd'
<1> SUFFICES ASSUME VoterInd, [VoterNext]_voterVars PROVE VoterInd'
  OBVIOUS
<1>1. ASSUME NEW l \in Loads, NEW file \in VoterFiles, BeginFile(l, file)
      PROVE  VoterInd'
  BY <1>1, BeginKeeps
<1>2. ASSUME NEW l \in Loads, SkipChunk(l) \/ UploadChunk(l) \/ RefuseChunk(l)
      PROVE  VoterInd'
  BY <1>2, ChunkKeeps
<1>3. ASSUME NEW l \in Loads, RaiseLoad(l) \/ CleanUp(l) \/ LeaveStaging(l)
      PROVE  VoterInd'
  BY <1>3, FailureKeeps
<1>4. ASSUME NEW l \in Loads, SwapTables(l)
      PROVE  VoterInd'
  BY <1>4, SwapKeeps
<1>5. CASE UNCHANGED voterVars
  BY <1>5 DEF voterVars, VoterInd, ReadingTypes, VoterFollows, Uploaded, TargetIsWhole, ChunksOf, Refused
<1> QED
  BY <1>1, <1>2, <1>3, <1>4, <1>5 DEF VoterNext

\* load_voter_file: whatever loads of one table overlap, fail and die, the target
\* is the file of one load that succeeded, but for the chunks PostGIS refused, and
\* a load that succeeded or cleaned up has left no staging table.
THEOREM LoadsAreAllOrNothing == VoterSpec => []LoadIsAllOrNothing
<1>1. VoterInd => LoadIsAllOrNothing
  BY DEF VoterInd, VoterFollows, TargetIsWhole, LoadIsAllOrNothing
<1> QED
  BY <1>1, VoterStarts, VoterStep, PTL DEF VoterSpec

\* A load never reads past the end of its file, whatever it skips and is refused.
THEOREM VoterTypeCorrect == VoterSpec => []VoterTypeOK
<1>1. ASSUME VoterInd PROVE VoterTypeOK
  <2> SUFFICES ASSUME NEW l \in Loads
               PROVE  /\ reading[l].step \in {"ready", "reading", "cleanup", "done", "failed", "left"}
                      /\ reading[l].at \in 1..(Len(reading[l].file) + 1)
    BY DEF VoterTypeOK
  <2>1. reading[l] \in Reading /\ reading[l].at <= Len(reading[l].file) + 1
    BY <1>1 DEF VoterInd, ReadingTypes, VoterFollows
  <2>2. reading[l].at \in Nat /\ reading[l].at >= 1 /\ reading[l].step \in ReadingSteps
    BY <2>1 DEF Reading
  <2>3. Len(reading[l].file) \in Nat
    BY <2>1, FilesAreSequences, LenProperties DEF Reading
  <2> QED
    BY <2>1, <2>2, <2>3 DEF ReadingSteps
<1> QED
  BY <1>1, VoterStarts, VoterStep, PTL DEF VoterSpec
=============================================================================
