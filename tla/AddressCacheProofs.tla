------------------------- MODULE AddressCacheProofs -------------------------
(***************************************************************************)
(* Proofs about AddressCache, for every set of types, geoids, vintages and *)
(* rows.                                                                   *)
(***************************************************************************)
EXTENDS AddressCache, BoundaryPeriodsProofs, SequenceTheorems

USE DEF NoDate, NoDecade, Date, ContextDate

-----------------------------------------------------------------------------
(* What the queries return *)

\* An eligible type is answered, by a geoid of one of the latest rows.
LEMMA EligibleAnswered ==
    ASSUME NEW rows \in [Keys -> Row], NEW t \in Types, NEW d \in Nat,
           NEW scan \in ScanOrders, Eligible(rows, t, d) # {}
    PROVE  GeoidOn(rows, t, d, scan) \in Answers(rows, t, d)
BY EligibleIsAnswered DEF Answers

\* Answers are geoids, never blank, and come from rows of the decade.
LEMMA AnswersType ==
    ASSUME NEW rows \in [Keys -> Row], NEW t \in Types, NEW d \in Nat
    PROVE  Answers(rows, t, d) \in SUBSET Geoids
BY LatestCarriesGeoid DEF Answers

\* A decadal vintage has a decade.
LEMMA DecadeOfServing ==
    ASSUME NEW d \in Nat, NEW v \in ForYear(d)
    PROVE  Window[v].decade \in Nat
BY VintageAssumption DEF ForYear, VintageRecord

-----------------------------------------------------------------------------
(* Type correctness *)

\* Every reachable state has the types of the models' fields.
THEOREM TypeCorrect == Spec => []TypeOK
<1>1. Init => TypeOK
  <2> SUFFICES ASSUME Init PROVE TypeOK
    OBVIOUS
  <2>1. EmptyRow \in Row
    BY DEF EmptyRow, Row, GeoidOrBlank
  <2>2. <<>> \in Seq(BOOLEAN)
    OBVIOUS
  <2> QED
    BY <2>1, <2>2, SettingsAssumption DEF Init, TypeOK, GeoidOrBlank
<1>2. TypeOK /\ [Next]_vars => TypeOK'
  <2> SUFFICES ASSUME TypeOK, [Next]_vars PROVE TypeOK'
    OBVIOUS
  <2> USE DEF TypeOK
  <2>a. today \in Nat
    BY SettingsAssumption
  <2>b. ASSUME NEW rows \in [Keys -> Row], NEW d \in Nat
        PROVE  AllAnswers(rows, d) \in SUBSET (Types \X Geoids)
    <3>1. \A t \in Types : Answers(rows, t, d) \in SUBSET Geoids
      BY <2>b, AnswersType
    <3> QED
      BY <3>1 DEF AllAnswers
  <2>1. ASSUME NEW k \in Keys, NEW row \in RowInputs, NEW raw \in BOOLEAN,
               Save(k, row, raw)
        PROVE  TypeOK'
    <3>1. row \in Row /\ abp' \in [Keys -> Row]
      BY <2>1, InputsAssumption DEF Save
    <3>2. cache' \in [Types -> GeoidOrBlank]
      <4>1. \A scan \in ScanOrders, t \in Types :
               GeoidOn(abp', t, today, scan) \in GeoidOrBlank
        BY <3>1, <2>a, GeoidOnIsGeoid
      <4>2. CASE HandlerRuns(k, raw)
        <5>1. PICK scan \in ScanOrders : cache' = Refreshed(abp', row, scan)
          BY <4>2, <2>1 DEF Save
        <5> QED
          BY <4>1, <5>1 DEF Refreshed
      <4>3. CASE ~HandlerRuns(k, raw)
        BY <4>3, <2>1 DEF Save
      <4> QED
        BY <4>2, <4>3
    <3>3. censusYear' \in Nat
      <4>1. CensusYearFromVintage(k[1]) \in Nat \cup {-1}
        BY KeysAssumption, VintageAssumption DEF CensusYearFromVintage, VintageRecord
      <4> QED
        BY <4>1, <2>1 DEF Save, YearAfter
    <3>4. exposed' \in SUBSET Types
      BY <2>1 DEF Save, Settled, Exposure, Touched
    <3>5. served' \in SUBSET (Types \X Geoids)
      BY <2>1, <2>a, <2>b, <3>1 DEF Save
    <3>6. UNCHANGED <<today, disabled, saved>>
      BY <2>1 DEF Save
    <3> QED
      BY <3>1, <3>2, <3>3, <3>4, <3>5, <3>6
  <2>2. CASE EnterBulk
    <3>1. Append(saved, disabled) \in Seq(BOOLEAN)
      OBVIOUS
    <3> QED
      BY <2>2, <3>1 DEF EnterBulk
  <2>3. CASE ExitBulk
    <3>1. Len(saved) \in 1..Len(saved)
      BY <2>3, EmptySeq DEF ExitBulk
    <3>2. saved[Len(saved)] \in BOOLEAN
      BY <3>1, ElementOfSeq
    <3>3. SubSeq(saved, 1, Len(saved) - 1) \in Seq(BOOLEAN)
      BY <3>1
    <3> QED
      BY <2>3, <3>2, <3>3 DEF ExitBulk
  <2>4. CASE RefreshCaches
    <3>1. cache' \in [Types -> GeoidOrBlank]
      <4>1. \A scan \in ScanOrders, t \in Types :
               GeoidOn(abp, t, today, scan) \in GeoidOrBlank
        BY <2>a, GeoidOnIsGeoid
      <4> QED
        BY <4>1, <2>4 DEF RefreshCaches
    <3>2. YearOfRows \subseteq Nat
      <4>1. \A t \in Types : \A k \in Latest(abp, t, today) : k[1] \in ForYear(today)
        BY DEF Latest, Eligible
      <4> QED
        BY <4>1, <2>a, DecadeOfServing DEF YearOfRows
    <3> QED
      BY <2>4, <3>1, <3>2 DEF RefreshCaches
  <2>5. CASE NextDay
    <3>1. today' \in 0..MaxDay /\ today' \in Nat
      BY <2>5, SettingsAssumption DEF NextDay
    <3>2. exposed' \in SUBSET Types
      BY <2>5 DEF NextDay, DateExposure, Touched
    <3>3. served' \in SUBSET (Types \X Geoids)
      BY <2>5, <2>b, <3>1 DEF NextDay
    <3> QED
      BY <2>5, <3>1, <3>2, <3>3 DEF NextDay
  <2>6. CASE UNCHANGED vars
    BY <2>6 DEF vars
  <2> QED
    BY <2>1, <2>2, <2>3, <2>4, <2>5, <2>6 DEF Next
<1> QED
  BY <1>1, <1>2, PTL DEF Spec

-----------------------------------------------------------------------------
(* Coherence *)

\* A save whose handler does not run, or does not touch the type, and that does
\* not expose the type, leaves its answers as they were.
LEMMA UntouchedType ==
    ASSUME TypeOK, NEW k \in Keys, NEW row \in RowInputs, NEW raw \in BOOLEAN,
           NEW t \in Types, Debug = TRUE, Save(k, row, raw),
           t \notin exposed', ~(HandlerRuns(k, raw) /\ t \in Touched(row))
    PROVE  /\ t \notin exposed
           /\ Eligible(abp', t, today) = Eligible(abp, t, today)
           /\ Answers(abp', t, today) = Answers(abp, t, today)
<1>1. /\ abp \in [Keys -> Row] /\ row \in Row /\ today \in Nat
      /\ abp' = [abp EXCEPT ![k] = row]
      /\ exposed' = (exposed \ Settled(k, row, raw)) \cup Exposure(k, row, raw)
  BY InputsAssumption, SettingsAssumption DEF TypeOK, Save
<1>2. t \notin Settled(k, row, raw)
  BY DEF Settled, HandlerRuns, ReceiverAlive
<1>3. t \notin exposed
  BY <1>1, <1>2
<1>4. \/ k[1] \notin ForYear(today)
      \/ abp[k].geoid[t] = Blank /\ row.geoid[t] = Blank
  <2>1. SUFFICES ASSUME k[1] \in ForYear(today)
                 PROVE  abp[k].geoid[t] = Blank /\ row.geoid[t] = Blank
    OBVIOUS
  <2>2. IsCurrentVintage(k[1], today)
    BY <1>1, <2>1, ServingIsCurrent
  <2>3. t \notin Touched(abp[k]) \/ t \in Touched(row)
    BY <1>1, <2>1 DEF Exposure
  <2>4. t \notin Touched(row)
    BY <1>1, <2>1, <2>2 DEF Exposure, HandlerRuns, ReceiverAlive
  <2> QED
    BY <2>3, <2>4 DEF Touched
<1>5. /\ Eligible(abp', t, today) = Eligible(abp, t, today)
      /\ Latest(abp', t, today) = Latest(abp, t, today)
      /\ \A j \in Latest(abp, t, today) : abp'[j] = abp[j]
  <2>1. /\ abp' \in [Keys -> Row] /\ abp'[k] = row
        /\ \A j \in Keys \ {k} : abp'[j] = abp[j]
    BY <1>1
  <2> DEFINE after == abp'
  <2>2. after \in [Keys -> Row] /\ today \in Date /\ abp \in [Keys -> Row]
    BY <1>1, <2>1
  <2>3. \A j \in Keys \ {k} : after[j] = abp[j]
    BY <2>1
  <2>4. \/ k[1] \notin ForYear(today)
        \/ abp[k].geoid[t] = Blank /\ after[k].geoid[t] = Blank
    BY <1>4, <2>1
  <2> HIDE DEF after
  <2>5. /\ Eligible(after, t, today) = Eligible(abp, t, today)
        /\ Latest(after, t, today) = Latest(abp, t, today)
        /\ \A j \in Latest(abp, t, today) : after[j] = abp[j]
    BY <2>2, <2>3, <2>4, BystanderRow
  <2> QED
    BY <2>5 DEF after
<1>6. Answers(abp', t, today) = Answers(abp, t, today)
  <2> DEFINE L == Latest(abp, t, today)
  <2>1. \A j \in L : abp'[j].geoid[t] = abp[j].geoid[t]
    BY <1>5
  <2> HIDE DEF L
  <2>2. {abp'[j].geoid[t] : j \in L} = {abp[j].geoid[t] : j \in L}
    BY <2>1
  <2> QED
    BY <1>5, <2>2 DEF Answers, L
<1> QED
  BY <1>3, <1>5, <1>6

\* With the receiver alive, the cached geoid of a type is the one
\* current_boundaries() gives, in every state and for every history of saves,
\* unless the type is exposed.
THEOREM CoherenceHolds ==
    ASSUME Debug = TRUE
    PROVE  Spec => []CoherentUnlessExposed
<1>1. Init => CoherentUnlessExposed
  <2> SUFFICES ASSUME Init PROVE CoherentUnlessExposed
    OBVIOUS
  <2>1. \A t \in Types, k \in Keys : abp[k].geoid[t] = Blank
    BY DEF Init, EmptyRow
  <2>2. \A t \in Types : Eligible(abp, t, today) = {}
    BY <2>1 DEF Eligible
  <2> QED
    BY <2>2 DEF CoherentUnlessExposed, Coherent
<1>2. TypeOK /\ TypeOK' /\ CoherentUnlessExposed /\ [Next]_vars
         => CoherentUnlessExposed'
  <2> SUFFICES ASSUME TypeOK, TypeOK', CoherentUnlessExposed, [Next]_vars,
                      NEW t \in Types, t \notin exposed',
                      Eligible(abp', t, today') # {}
               PROVE  cache'[t] \in Answers(abp', t, today')
    BY DEF CoherentUnlessExposed, Coherent
  <2>a. /\ abp \in [Keys -> Row] /\ abp' \in [Keys -> Row]
        /\ today \in Nat /\ today' \in Nat
    BY SettingsAssumption DEF TypeOK
  <2>b. t \notin exposed /\ Eligible(abp, t, today) # {}
           => cache[t] \in Answers(abp, t, today)
    BY DEF CoherentUnlessExposed, Coherent
  <2>1. ASSUME NEW k \in Keys, NEW row \in RowInputs, NEW raw \in BOOLEAN,
               Save(k, row, raw)
        PROVE  cache'[t] \in Answers(abp', t, today')
    <3>1. today' = today
      BY <2>1 DEF Save
    <3>2. CASE HandlerRuns(k, raw) /\ t \in Touched(row)
      <4>1. PICK scan \in ScanOrders : cache' = Refreshed(abp', row, scan)
        BY <2>1, <3>2 DEF Save
      <4>2. cache'[t] = GeoidOn(abp', t, today, scan)
        BY <3>1, <3>2, <4>1 DEF Refreshed
      <4> QED
        BY <2>a, <3>1, <4>2, EligibleAnswered
    <3>3. CASE ~(HandlerRuns(k, raw) /\ t \in Touched(row))
      <4>1. /\ t \notin exposed
            /\ Eligible(abp', t, today) = Eligible(abp, t, today)
            /\ Answers(abp', t, today) = Answers(abp, t, today)
        BY <2>1, <3>3, UntouchedType
      <4>2. cache'[t] = cache[t]
        <5>1. CASE HandlerRuns(k, raw)
          BY <2>1, <3>3, <5>1 DEF Save, Refreshed
        <5>2. CASE ~HandlerRuns(k, raw)
          BY <2>1, <5>2 DEF Save
        <5> QED
          BY <5>1, <5>2
      <4> QED
        BY <2>b, <3>1, <4>1, <4>2
    <3> QED
      BY <3>2, <3>3
  <2>2. CASE EnterBulk
    BY <2>2, <2>b DEF EnterBulk
  <2>3. CASE ExitBulk
    BY <2>3, <2>b DEF ExitBulk
  <2>4. CASE RefreshCaches
    <3>1. today' = today /\ abp' = abp
      BY <2>4 DEF RefreshCaches
    <3>2. PICK scan \in ScanOrders : cache'[t] = GeoidOn(abp, t, today, scan)
      BY <2>4 DEF RefreshCaches
    <3> QED
      BY <2>a, <3>1, <3>2, EligibleAnswered
  <2>5. CASE NextDay
    <3>1. /\ today' = today + 1 /\ abp' = abp /\ cache' = cache
          /\ t \notin exposed /\ t \notin DateExposure(today + 1)
      BY <2>5 DEF NextDay
    <3>2. /\ ForYear(today + 1) = ForYear(today)
          /\ \A k \in Keys : abp[k].ctx = today + 1 => t \notin Touched(abp[k])
      BY <2>a, <3>1 DEF DateExposure
    <3>3. /\ Eligible(abp, t, today + 1) = Eligible(abp, t, today)
          /\ Latest(abp, t, today + 1) = Latest(abp, t, today)
      BY <2>a, <3>2, UneventfulDay
    <3> QED
      BY <2>b, <3>1, <3>3 DEF Answers
  <2>6. CASE UNCHANGED vars
    BY <2>6, <2>b DEF vars
  <2> QED
    BY <2>1, <2>2, <2>3, <2>4, <2>5, <2>6 DEF Next
<1> QED
  BY <1>1, <1>2, TypeCorrect, PTL DEF Spec

-----------------------------------------------------------------------------
(* Provenance of the cached geoids *)

\* What answers now has been recorded as served.
CurrentServed == AllAnswers(abp, today) \subseteq served

\* Whatever the receiver does, a cached geoid answered for today at some time.
THEOREM CachedWasServed == Spec => []CachedOnceServed
<1> DEFINE IInv == CurrentServed /\ CachedOnceServed
<1>1. Init => IInv
  <2> SUFFICES ASSUME Init PROVE IInv
    OBVIOUS
  <2>1. \A t \in Types, k \in Keys : abp[k].geoid[t] = Blank
    BY DEF Init, EmptyRow
  <2>2. \A t \in Types : Answers(abp, t, today) = {}
    BY <2>1 DEF Answers, Latest, Eligible
  <2> QED
    BY <2>2 DEF Init, CurrentServed, CachedOnceServed, AllAnswers
<1>2. TypeOK /\ TypeOK' /\ IInv /\ [Next]_vars => IInv'
  <2> SUFFICES ASSUME TypeOK, TypeOK', CurrentServed, CachedOnceServed, [Next]_vars
               PROVE  CurrentServed' /\ CachedOnceServed'
    OBVIOUS
  <2>a. /\ abp \in [Keys -> Row] /\ abp' \in [Keys -> Row]
        /\ today \in Nat /\ today' \in Nat
    BY SettingsAssumption DEF TypeOK
  <2>b. ASSUME NEW rows \in [Keys -> Row], NEW t \in Types, NEW scan \in ScanOrders,
               Eligible(rows, t, today) # {}
        PROVE  <<t, GeoidOn(rows, t, today, scan)>> \in AllAnswers(rows, today)
    BY <2>a, <2>b, EligibleAnswered DEF AllAnswers
  <2>1. ASSUME NEW k \in Keys, NEW row \in RowInputs, NEW raw \in BOOLEAN,
               Save(k, row, raw)
        PROVE  CurrentServed' /\ CachedOnceServed'
    <3>1. today' = today /\ served' = served \cup AllAnswers(abp', today)
      BY <2>1 DEF Save
    <3>2. CASE HandlerRuns(k, raw)
      <4>1. PICK scan \in ScanOrders : cache' = Refreshed(abp', row, scan)
        BY <2>1, <3>2 DEF Save
      <4>2. \A t \in Types : \/ cache'[t] = cache[t]
                             \/ <<t, cache'[t]>> \in AllAnswers(abp', today)
        BY <2>a, <2>b, <4>1 DEF Refreshed
      <4> QED
        BY <3>1, <4>2 DEF CurrentServed, CachedOnceServed
    <3>3. CASE ~HandlerRuns(k, raw)
      <4>1. cache' = cache
        BY <2>1, <3>3 DEF Save
      <4> QED
        BY <3>1, <4>1 DEF CurrentServed, CachedOnceServed
    <3> QED
      BY <3>2, <3>3
  <2>2. CASE EnterBulk
    BY <2>2 DEF EnterBulk, CurrentServed, CachedOnceServed, AllAnswers
  <2>3. CASE ExitBulk
    BY <2>3 DEF ExitBulk, CurrentServed, CachedOnceServed, AllAnswers
  <2>4. CASE RefreshCaches
    <3>1. UNCHANGED <<abp, today, served>>
      BY <2>4 DEF RefreshCaches
    <3>2. PICK scan \in ScanOrders :
             cache' = [t \in Types |-> GeoidOn(abp, t, today, scan)]
      BY <2>4 DEF RefreshCaches
    <3>3. ASSUME NEW t \in Types, cache'[t] # Blank
          PROVE  <<t, cache'[t]>> \in served
      <4>1. Eligible(abp, t, today) # {}
        BY <3>2, <3>3 DEF GeoidOn, Latest
      <4> QED
        BY <2>a, <2>b, <3>2, <4>1 DEF CurrentServed
    <3> QED
      BY <3>1, <3>3 DEF CurrentServed, CachedOnceServed
  <2>5. CASE NextDay
    BY <2>5 DEF NextDay, CurrentServed, CachedOnceServed
  <2>6. CASE UNCHANGED vars
    BY <2>6 DEF vars, CurrentServed, CachedOnceServed, AllAnswers
  <2> QED
    BY <2>1, <2>2, <2>3, <2>4, <2>5, <2>6 DEF Next
<1>3. IInv => CachedOnceServed
  OBVIOUS
<1> QED
  BY <1>1, <1>2, <1>3, TypeCorrect, PTL DEF Spec

-----------------------------------------------------------------------------
(* Bulk blocks *)

\* Every open block but the outermost was entered with the handler disabled.
OnlyOutermostEnabled ==
    \A i \in 1..Len(saved) : saved[i] <=> i > 1

\* The handler is disabled exactly inside bulk blocks, at any nesting.
THEOREM BulkBlocksNest == Spec => []DisabledExactlyInside
<1> DEFINE IInv == OnlyOutermostEnabled /\ DisabledExactlyInside
<1>1. Init => IInv
  BY DEF Init, OnlyOutermostEnabled, DisabledExactlyInside
<1>2. TypeOK /\ IInv /\ [Next]_vars => IInv'
  <2> SUFFICES ASSUME TypeOK, OnlyOutermostEnabled, DisabledExactlyInside, [Next]_vars
               PROVE  OnlyOutermostEnabled' /\ DisabledExactlyInside'
    OBVIOUS
  <2>a. saved \in Seq(BOOLEAN) /\ disabled \in BOOLEAN /\ Len(saved) \in Nat
    BY DEF TypeOK
  <2>1. ASSUME UNCHANGED <<disabled, saved>>
        PROVE  OnlyOutermostEnabled' /\ DisabledExactlyInside'
    BY <2>1 DEF OnlyOutermostEnabled, DisabledExactlyInside
  <2>2. CASE EnterBulk
    <3>1. saved' = Append(saved, disabled) /\ disabled' = TRUE
      BY <2>2 DEF EnterBulk
    <3>2. Len(saved') = Len(saved) + 1 /\ saved' # <<>>
      BY <2>a, <3>1
    <3>3. disabled <=> Len(saved) + 1 > 1
      BY <2>a, EmptySeq DEF DisabledExactlyInside
    <3>4. \A i \in 1..Len(saved) + 1 :
             saved'[i] = IF i = Len(saved) + 1 THEN disabled ELSE saved[i]
      BY <2>a, <3>1
    <3>5. OnlyOutermostEnabled'
      BY <2>a, <3>2, <3>3, <3>4 DEF OnlyOutermostEnabled
    <3> QED
      BY <3>1, <3>2, <3>5 DEF DisabledExactlyInside
  <2>3. CASE ExitBulk
    <3>1. /\ saved # <<>> /\ disabled' = saved[Len(saved)]
          /\ saved' = SubSeq(saved, 1, Len(saved) - 1)
      BY <2>3 DEF ExitBulk
    <3>2. Len(saved) \in 1..Len(saved)
      BY <2>a, <3>1, EmptySeq
    <3>3. /\ saved' \in Seq(BOOLEAN) /\ Len(saved') = Len(saved) - 1
          /\ \A i \in 1..Len(saved) - 1 : saved'[i] = saved[i]
      <4> DEFINE n == Len(saved) - 1
      <4>1. n \in Nat /\ \A i \in 1..n : saved[i] \in BOOLEAN
        BY <2>a, <3>2, ElementOfSeq
      <4> HIDE DEF n
      <4>2. /\ SubSeq(saved, 1, n) \in Seq(BOOLEAN)
            /\ Len(SubSeq(saved, 1, n)) = IF 1 <= n THEN n - 1 + 1 ELSE 0
            /\ \A i \in 1..(n - 1 + 1) : SubSeq(saved, 1, n)[i] = saved[1 + i - 1]
        BY <4>1, SubSeqProperties
      <4>3. Len(SubSeq(saved, 1, n)) = n
        BY <4>1, <4>2
      <4>4. \A i \in 1..n : SubSeq(saved, 1, n)[i] = saved[i]
        BY <4>1, <4>2
      <4> QED
        BY <3>1, <4>2, <4>3, <4>4 DEF n
    <3>4. disabled' <=> Len(saved) > 1
      BY <3>1, <3>2 DEF OnlyOutermostEnabled
    <3>5. saved' = <<>> <=> Len(saved) = 1
      <4>1. saved' # <<>> => Len(saved') \in Nat \ {0}
        BY <3>3, EmptySeq
      <4>2. saved' = <<>> => Len(saved') = 0
        BY EmptySeq
      <4> QED
        BY <2>a, <3>3, <4>1, <4>2
    <3> QED
      BY <2>a, <3>2, <3>3, <3>4, <3>5 DEF OnlyOutermostEnabled, DisabledExactlyInside
  <2>4. ASSUME NEW k \in Keys, NEW row \in RowInputs, NEW raw \in BOOLEAN,
               Save(k, row, raw)
        PROVE  UNCHANGED <<disabled, saved>>
    BY <2>4 DEF Save
  <2> QED
    BY <2>1, <2>2, <2>3, <2>4 DEF Next, RefreshCaches, NextDay, vars
<1>3. IInv => DisabledExactlyInside
  OBVIOUS
<1> QED
  BY <1>1, <1>2, <1>3, TypeCorrect, PTL DEF Spec

-----------------------------------------------------------------------------
(* census_year *)

\* Every decadal vintage was closed by the first day of each later one.
Sealed ==
    \A v, w \in Vintages :
        /\ Window[v].kind = "census-decadal" /\ Window[w].kind = "census-decadal"
        /\ Window[v].decade < Window[w].decade
        => Window[v].to # NoDate /\ Window[v].to <= Window[w].from

\* With closed windows at most one decadal vintage is current, the one that
\* serves, on every day that some vintage serves.
LEMMA CurrentServes ==
    ASSUME Sealed, NEW d \in Nat, NEW v \in Vintages, NEW w \in ForYear(d),
           Window[v].kind = "census-decadal", IsCurrentVintage(v, d)
    PROVE  Window[v].decade = d \div DecadeDays
<1>1. /\ w \in Vintages /\ Window[w].kind = "census-decadal"
      /\ Window[w].decade = d \div DecadeDays
  BY DEF ForYear
<1>2. /\ Window[v].decade \in Nat /\ Window[v].to \in Int /\ Window[v].from \in Nat
      /\ Window[w].decade \in Nat /\ Window[w].from \in Nat /\ DecadeDays \in Nat \ {0}
  BY <1>1, VintageAssumption, DecadeAssumption DEF VintageRecord
<1>3. /\ Window[v].from = Window[v].decade * DecadeDays
      /\ Window[w].from = Window[w].decade * DecadeDays
  BY <1>1, DecadalAssumption
<1>4. Window[w].from <= d /\ d < (Window[w].decade + 1) * DecadeDays
  BY <1>1, <1>3, DayInDecade
<1>5. ~(Window[v].decade < Window[w].decade)
  BY <1>1, <1>2, <1>4 DEF Sealed, IsCurrentVintage
<1>6. ~(Window[w].decade + 1 <= Window[v].decade)
  <2>1. SUFFICES ASSUME Window[w].decade + 1 <= Window[v].decade PROVE FALSE
    OBVIOUS
  <2>2. (Window[w].decade + 1) * DecadeDays <= Window[v].decade * DecadeDays
    BY <2>1, <1>2
  <2>3. Window[v].from <= d
    BY DEF IsCurrentVintage
  <2> QED
    BY <2>2, <2>3, <1>2, <1>3, <1>4
<1> QED
  BY <1>1, <1>2, <1>5, <1>6

\* With closed windows, a save that moves a cached geoid under a decadal vintage
\* leaves census_year at the decade the geoid was read from.
THEOREM YearIsGeoidsDecade ==
    ASSUME Sealed
    PROVE  Spec => YearFollowsGeoids
<1>1. TypeOK /\ TypeOK' /\ [Next]_vars =>
         \A k \in Keys :
            /\ abp'[k] # abp[k] /\ cache' # cache
            /\ Window[k[1]].kind = "census-decadal"
            => censusYear' = today \div DecadeDays
  <2> SUFFICES ASSUME TypeOK, TypeOK', [Next]_vars, NEW k \in Keys,
                      abp'[k] # abp[k], cache' # cache,
                      Window[k[1]].kind = "census-decadal"
               PROVE  censusYear' = today \div DecadeDays
    OBVIOUS
  <2>1. PICK j \in Keys, row \in RowInputs, raw \in BOOLEAN : Save(j, row, raw)
    BY DEF Next, EnterBulk, ExitBulk, RefreshCaches, NextDay, vars
  <2>2. j = k
    BY <2>1 DEF Save, TypeOK
  <2>3. HandlerRuns(k, raw) /\ censusYear' = YearAfter(k)
    BY <2>1, <2>2 DEF Save
  <2>4. PICK scan \in ScanOrders : cache' = Refreshed(abp', row, scan)
    BY <2>1, <2>2, <2>3 DEF Save
  <2>5. PICK t \in Types : Eligible(abp', t, today) # {}
    BY <2>4 DEF Refreshed, TypeOK
  <2>6. PICK w \in ForYear(today) : TRUE
    BY <2>5 DEF Eligible
  <2>7. Window[k[1]].decade = today \div DecadeDays
    <3>1. k[1] \in Vintages /\ IsCurrentVintage(k[1], today) /\ today \in Nat
      BY <2>3, KeysAssumption, SettingsAssumption DEF HandlerRuns, TypeOK
    <3> QED
      BY <2>6, <3>1, CurrentServes
  <2>8. Window[k[1]].decade # NoDecade
    BY KeysAssumption, VintageAssumption
  <2> QED
    BY <2>3, <2>7, <2>8 DEF YearAfter, CensusYearFromVintage
<1> QED
  BY <1>1, TypeCorrect, PTL DEF Spec, YearFollowsGeoids
=============================================================================
