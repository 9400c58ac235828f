------------------------ MODULE BoundaryPeriodsProofs ------------------------
(***************************************************************************)
(* Lemmas about the queries of BoundaryPeriods: what answers a query       *)
(* exists, and which saves and date changes leave an answer as it was.     *)
(***************************************************************************)
EXTENDS BoundaryPeriods, WellFoundedInduction, FiniteSetTheorems, TLAPS

\* A function with integer values on a non-empty finite set takes a largest
\* value.  The sets of strictly larger elements are ordered by inclusion, and
\* a minimal one of them is empty.
LEMMA FiniteMaximum ==
    ASSUME NEW S, IsFiniteSet(S), S # {}, NEW f \in [S -> Int]
    PROVE  \E m \in S : \A n \in S : f[n] <= f[m]
<1> DEFINE above(m) == {n \in S : f[m] < f[n]}
           aboves == {above(m) : m \in S}
           R == StrictSubsetOrdering(S)
<1>1. IsWellFoundedOn(R, SUBSET S)
  BY FS_StrictSubsetOrderingWellFounded, FS_FiniteSubsetsOfFinite, Zenon
<1>2. aboves \subseteq SUBSET S /\ aboves # {}
  <2>1. \A m \in S : above(m) \in SUBSET S /\ above(m) \in aboves
    OBVIOUS
  <2> HIDE DEF above
  <2> QED BY <2>1
<1>3. PICK u \in aboves : \A w \in aboves : <<w, u>> \notin R
  <2> HIDE DEF aboves, R
  <2> QED BY <1>1, <1>2, WFMin, Zenon
<1>4. PICK m \in S : u = above(m)
  BY <1>3
<1>5. ASSUME NEW n \in S, ~(f[n] <= f[m])
      PROVE  FALSE
  <2>1. f[n] \in Int /\ f[m] \in Int /\ f[m] < f[n]
    BY <1>5
  <2>2. above(n) \subseteq above(m)
    BY <2>1
  <2>3. n \in above(m) /\ n \notin above(n)
    BY <2>1
  <2>4. <<above(n), above(m)>> \in R
    BY <2>2, <2>3 DEF StrictSubsetOrdering
  <2> QED
    BY <2>4, <1>3, <1>4
<1> QED
  BY <1>5

\* If some row is eligible, one has the most recent context date.
LEMMA LatestExists ==
    ASSUME NEW abp \in [Keys -> Row], NEW t \in Types, NEW d \in Date,
           Eligible(abp, t, d) # {}
    PROVE  Latest(abp, t, d) # {}
<1> DEFINE E == Eligible(abp, t, d)
           ctx == [k \in E |-> abp[k].ctx]
<1>1. IsFiniteSet(E) /\ E \subseteq Keys
  BY KeysAssumption, FS_Subset DEF Eligible
<1>2. ctx \in [E -> Int]
  BY <1>1 DEF Row, ContextDate, Date, NoDate
<1>3. PICK m \in E : \A n \in E : ctx[n] <= ctx[m]
  <2> HIDE DEF ctx, E
  <2> QED BY <1>1, <1>2, FiniteMaximum DEF E
<1> QED
  BY <1>3 DEF Latest

\* The first row of a scan exists and is one of those scanned.
LEMMA FirstAnswers ==
    ASSUME NEW S \in SUBSET Keys, S # {}, NEW scan \in ScanOrders
    PROVE  First(S, scan) \in S
<1> DEFINE rank == [k \in S |-> -scan[k]]
<1>1. IsFiniteSet(S) /\ Cardinality(Keys) \in Nat
  BY KeysAssumption, FS_Subset, FS_CardinalityType
<1>2. scan \in [Keys -> Int]
  BY <1>1 DEF ScanOrders
<1>3. rank \in [S -> Int]
  BY <1>2
<1>4. PICK m \in S : \A n \in S : rank[n] <= rank[m]
  <2> HIDE DEF rank
  <2> QED BY <1>1, <1>3, FiniteMaximum
<1>5. \A n \in S : scan[m] <= scan[n]
  BY <1>2, <1>4
<1> QED
  BY <1>5 DEF First

\* An eligible type is answered, by the geoid of one of the latest rows.
LEMMA EligibleIsAnswered ==
    ASSUME NEW rows \in [Keys -> Row], NEW t \in Types, NEW d \in Date,
           NEW scan \in ScanOrders, Eligible(rows, t, d) # {}
    PROVE  \E k \in Latest(rows, t, d) : GeoidOn(rows, t, d, scan) = rows[k].geoid[t]
<1>1. Latest(rows, t, d) # {} /\ Latest(rows, t, d) \in SUBSET Keys
  BY LatestExists DEF Latest, Eligible
<1>2. First(Latest(rows, t, d), scan) \in Latest(rows, t, d)
  BY <1>1, FirstAnswers
<1> QED
  BY <1>1, <1>2 DEF GeoidOn

\* A row that answers carries a geoid.
LEMMA LatestCarriesGeoid ==
    ASSUME NEW rows \in [Keys -> Row], NEW t \in Types, NEW d \in Date,
           NEW k \in Latest(rows, t, d)
    PROVE  k \in Keys /\ rows[k].geoid[t] \in Geoids
<1>1. k \in Keys /\ rows[k].geoid[t] # Blank
  BY DEF Latest, Eligible
<1>2. rows[k].geoid[t] \in Geoids \cup {Blank}
  BY <1>1 DEF Row, GeoidOrBlank
<1> QED
  BY <1>1, <1>2

\* A query returns a geoid or, when nothing answers, Blank.
LEMMA GeoidOnIsGeoid ==
    ASSUME NEW rows \in [Keys -> Row], NEW t \in Types, NEW d \in Date,
           NEW scan \in ScanOrders
    PROVE  GeoidOn(rows, t, d, scan) \in GeoidOrBlank
<1>1. CASE Eligible(rows, t, d) = {}
  BY <1>1 DEF GeoidOn, Latest, GeoidOrBlank
<1>2. CASE Eligible(rows, t, d) # {}
  BY <1>2, EligibleIsAnswered, LatestCarriesGeoid DEF GeoidOrBlank
<1> QED
  BY <1>1, <1>2

-----------------------------------------------------------------------------
(* Decades *)

\* A day lies in the decade that its quotient names.
LEMMA DayInDecade ==
    ASSUME NEW d \in Nat
    PROVE  /\ d \div DecadeDays \in Nat
           /\ (d \div DecadeDays) * DecadeDays <= d
           /\ d < ((d \div DecadeDays) + 1) * DecadeDays
BY DecadeAssumption

\* A vintage that serves a day is one the handler takes for current on it, so
\* the handler never misses a row that could answer.
LEMMA ServingIsCurrent ==
    ASSUME NEW d \in Date, NEW v \in ForYear(d)
    PROVE  IsCurrentVintage(v, d)
<1>1. /\ v \in Vintages
      /\ Window[v].kind = "census-decadal"
      /\ Window[v].decade = d \div DecadeDays
  BY DEF ForYear
<1>2. /\ Window[v].from = (d \div DecadeDays) * DecadeDays
      /\ Window[v].to # NoDate => Window[v].to >= ((d \div DecadeDays) + 1) * DecadeDays
  BY <1>1, DecadalAssumption
<1>3. Window[v].to \in Nat \cup {-1} /\ DecadeDays \in Nat
  BY <1>1, VintageAssumption, DecadeAssumption
     DEF VintageRecord, ContextDate, Date, NoDate
<1>4. /\ (d \div DecadeDays) * DecadeDays <= d
      /\ d < ((d \div DecadeDays) + 1) * DecadeDays
      /\ d \div DecadeDays \in Nat
  BY DayInDecade DEF Date
<1> DEFINE low == (d \div DecadeDays) * DecadeDays
           high == ((d \div DecadeDays) + 1) * DecadeDays
<1>5. low \in Int /\ high \in Int
  BY <1>3, <1>4
<1> HIDE DEF low, high
<1> QED
  BY <1>2, <1>3, <1>4, <1>5 DEF IsCurrentVintage, low, high, Date

-----------------------------------------------------------------------------
(* What leaves an answer as it was *)

\* A row of a vintage that does not serve the day, or one that has no geoid of
\* the type before and after, does not take part in the answer.
LEMMA BystanderRow ==
    ASSUME NEW abp \in [Keys -> Row], NEW after \in [Keys -> Row],
           NEW k \in Keys, \A j \in Keys \ {k} : after[j] = abp[j],
           NEW t \in Types, NEW d \in Date,
           \/ k[1] \notin ForYear(d)
           \/ abp[k].geoid[t] = Blank /\ after[k].geoid[t] = Blank
    PROVE  /\ Eligible(after, t, d) = Eligible(abp, t, d)
           /\ Latest(after, t, d) = Latest(abp, t, d)
           /\ \A j \in Latest(abp, t, d) : after[j] = abp[j]
<1>1. k \notin Eligible(after, t, d) /\ k \notin Eligible(abp, t, d)
  BY DEF Eligible
<1>2. \A j \in Keys : j # k => after[j] = abp[j]
  OBVIOUS
<1>3. Eligible(after, t, d) = Eligible(abp, t, d)
  BY <1>1, <1>2 DEF Eligible
<1>4. \A j \in Eligible(abp, t, d) : after[j] = abp[j]
  BY <1>1, <1>2 DEF Eligible
<1>5. Latest(after, t, d) = Latest(abp, t, d)
  BY <1>3, <1>4 DEF Latest
<1> QED
  BY <1>3, <1>4, <1>5 DEF Latest

\* A new day that opens no decade and on which no row with a geoid of the type
\* takes effect has the answers of the day before.
LEMMA UneventfulDay ==
    ASSUME NEW abp \in [Keys -> Row], NEW t \in Types, NEW d \in Date,
           ForYear(d + 1) = ForYear(d),
           \A k \in Keys : abp[k].ctx = d + 1 => t \notin Touched(abp[k])
    PROVE  /\ Eligible(abp, t, d + 1) = Eligible(abp, t, d)
           /\ Latest(abp, t, d + 1) = Latest(abp, t, d)
<1>1. \A k \in Keys : abp[k].ctx \in Int
  BY DEF Row, ContextDate, Date, NoDate
<1>2. Eligible(abp, t, d + 1) = Eligible(abp, t, d)
  <2>1. ASSUME NEW k \in Keys, abp[k].geoid[t] # Blank
        PROVE  abp[k].ctx <= d + 1 <=> abp[k].ctx <= d
    <3>1. abp[k].ctx # d + 1
      BY <2>1 DEF Touched
    <3> QED
      BY <3>1, <1>1 DEF Date
  <2> QED
    BY <2>1 DEF Eligible
<1> QED
  BY <1>2 DEF Latest
=============================================================================
