------------------------ MODULE VoterMedallionProofs ------------------------
(***************************************************************************)
(* Proofs about VoterMedallion, for any number of workers, records,        *)
(* elections and addresses and whatever the bound on bronze: what bronze,  *)
(* silver and PostgreSQL may say of the voter while commands overlap, die  *)
(* and are run again.                                                      *)
(***************************************************************************)
EXTENDS VoterMedallion, FiniteSetTheorems, SequenceTheorems, WellFoundedInduction, TLAPS

-----------------------------------------------------------------------------
(* Invariants *)

\* places, facts and addresses that go back to a record of the vendor
Named(place) == \E r \in Sources : r.place = place
FactsSound(table) ==
    /\ DOMAIN table \subseteq FactKeys
    /\ \A f \in DOMAIN table :
          /\ table[f] \in Values \cup {Absent}
          /\ table[f] # Absent => \E r \in Sources : r.facts[f] = table[f]
AddressSound(a) == a \in Addresses /\ Named(PlaceOf[a])

\* facts on their way to PostgreSQL, which silver has
ShownFacts(table) ==
    FactsSound(table) /\ \A f \in DOMAIN table : table[f] # Absent => facts[f] # Absent

\* counts that the vote history bears out
CountsSound(counts) ==
    /\ counts \in CountsRecord
    /\ counts.general <= Cardinality(Voted(facts, Generals))
    /\ counts.total <= Cardinality(Voted(facts, Elections))
    /\ counts # NoCounts => counts.category = Category(counts.general)

PersonSound(person) ==
    /\ person \in Person
    /\ person.src \in Sources
    /\ person.address # NoAddress => AddressSound(person.address)
    /\ CountsSound(person.counts)

TablesSound ==
    /\ silver # NoPerson => PersonSound(silver)
    /\ dim # NoPerson => PersonSound(dim)
    /\ FactsSound(facts)
    /\ ShownFacts(dimFacts)
    /\ dim = NoPerson => \A f \in FactKeys : dimFacts[f] = Absent

\* what a stage holds in memory, until it has written
HeldSound(w) ==
    /\ At(w, "append") \/ At(w, "linkSilver") \/ At(w, "linkDim") => HasRead(w)
    /\ HasRead(w) =>
         /\ At(w, "append") => buf[w][1] \in Records \cup {NoRecord}
         /\ At(w, "persons") => buf[w][1] \in Sources
         /\ At(w, "scores") \/ At(w, "votes") => FactsSound(buf[w][1])
         /\ At(w, "aggregates") => CountsSound(buf[w][1])
         /\ At(w, "dimPersons") => PersonSound(buf[w][1])
         /\ At(w, "dimScores") \/ At(w, "dimVotes") => ShownFacts(buf[w][1])
         /\ At(w, "resolve") => silver # NoPerson /\ Named(buf[w][1])
         /\ At(w, "linkSilver") \/ At(w, "linkDim") => silver # NoPerson /\ AddressSound(buf[w][1])

\* append and resolve begin a command, the two links only follow resolve
WellOrdered(stages) ==
    \A i \in 1..Len(stages) :
        /\ stages[i] \in {"append", "resolve"} => i = 1
        /\ stages[i] = "resolve" => i < Len(stages) /\ stages[i + 1] = "linkSilver"
        /\ stages[i] = "linkSilver" => i < Len(stages) /\ stages[i + 1] = "linkDim"
        /\ stages[i] = "linkDim" => i = Len(stages)
        /\ i < Len(stages) =>
              /\ stages[i + 1] = "linkSilver" => stages[i] = "resolve"
              /\ stages[i + 1] = "linkDim" => stages[i] = "linkSilver"

StageNames == UNION {{Stages[c][i] : i \in DOMAIN Stages[c]} : c \in Commands}

Control ==
    /\ left \in [Workers -> Seq(StageNames)]
    /\ \A w \in Workers : WellOrdered(left[w])
    /\ buf = [w \in Workers |-> buf[w]]
    /\ \A w \in Workers : buf[w] = <<>> \/ buf[w] = <<buf[w][1]>>

Bounded == IsFiniteSet(Pending) /\ Len(bronze) + Cardinality(Pending) <= MaxBronze

IInv ==
    /\ TypeOK
    /\ Control
    /\ TablesSound
    /\ \A w \in Workers : HeldSound(w)
    /\ Bounded

-----------------------------------------------------------------------------
(* Stages *)

\* Every command is a well-ordered list of its stages.
LEMMA StagesOrdered ==
    ASSUME NEW name \in Commands
    PROVE  /\ Stages[name] \in Seq(StageNames)
           /\ Stages[name] # <<>>
           /\ WellOrdered(Stages[name])
<1>1. name \in {"ingestBronze", "ingest", "ingestVotes", "ingestAll", "persons", "scores",
                "voteHistory", "all", "backfill"}
  BY CommandsAssumption DEF Stages
<1>2. Stages[name] \in {<<"append">>, <<"append", "persons">>,
                        <<"append", "persons", "votes", "aggregates">>,
                        <<"append", "persons", "scores", "votes", "aggregates">>,
                        <<"dimPersons">>, <<"dimScores">>, <<"dimVotes">>,
                        <<"dimPersons", "dimScores", "dimVotes">>,
                        <<"resolve", "linkSilver", "linkDim">>}
  BY <1>1 DEF Stages, VoteHistory, MaterializeAll
<1> DEFINE AllStages == {"append", "persons", "votes", "scores", "aggregates", "dimPersons",
                        "dimScores", "dimVotes", "resolve", "linkSilver", "linkDim"}
           Fit(l) == l \in Seq(AllStages) /\ l # <<>> /\ WellOrdered(l)
<1>3. Fit(Stages[name])
  <2>1. Fit(<<"append">>)
    BY DEF WellOrdered
  <2>2. Fit(<<"append", "persons">>)
    BY DEF WellOrdered
  <2>3. Fit(<<"append", "persons", "votes", "aggregates">>)
    BY DEF WellOrdered
  <2>4. Fit(<<"append", "persons", "scores", "votes", "aggregates">>)
    BY DEF WellOrdered
  <2>5. Fit(<<"dimPersons">>)
    BY DEF WellOrdered
  <2>6. Fit(<<"dimScores">>)
    BY DEF WellOrdered
  <2>7. Fit(<<"dimVotes">>)
    BY DEF WellOrdered
  <2>8. Fit(<<"dimPersons", "dimScores", "dimVotes">>)
    BY DEF WellOrdered
  <2>9. Fit(<<"resolve", "linkSilver", "linkDim">>)
    BY DEF WellOrdered
  <2> HIDE DEF Fit
  <2> QED
    BY <1>2, <2>1, <2>2, <2>3, <2>4, <2>5, <2>6, <2>7, <2>8, <2>9
<1>4. Stages[name] \in Seq(StageNames)
  <2> DEFINE l == Stages[name]
  <2>1. \A i \in DOMAIN l : l[i] \in StageNames
    BY DEF StageNames
  <2>2. l \in Seq(AllStages)
    BY <1>3
  <2> HIDE DEF l, AllStages
  <2>3. l \in Seq(StageNames)
    BY <2>1, <2>2
  <2> QED
    BY <2>3 DEF l
<1> QED
  BY <1>3, <1>4

\* What may follow a stage.
LEMMA NextStage ==
    ASSUME NEW S, NEW l \in Seq(S), l # <<>>, WellOrdered(l)
    PROVE  /\ Tail(l) \in Seq(S) /\ WellOrdered(Tail(l))
           /\ Tail(l) # <<>> =>
                /\ Head(Tail(l)) \notin {"append", "resolve"}
                /\ Head(Tail(l)) = "linkSilver" <=> Head(l) = "resolve"
                /\ Head(Tail(l)) = "linkDim" <=> Head(l) = "linkSilver"
           /\ Head(l) \in {"resolve", "linkSilver"} => Tail(l) # <<>>
           /\ Head(l) = "linkDim" => Tail(l) = <<>>
<1> DEFINE t == Tail(l)
<1>1. /\ Len(l) \in Nat \ {0} /\ t \in Seq(S) /\ Len(t) = Len(l) - 1
      /\ \A i \in 1..Len(l) - 1 : t[i] = l[i + 1]
      /\ Head(l) = l[1]
  BY EmptySeq
<1>2. t = <<>> <=> Len(t) = 0
  <2> HIDE DEF t
  <2> QED BY <1>1, EmptySeq
<1>3. t # <<>> => Head(t) = l[2]
  <2>1. t # <<>> => Head(t) = t[1]
    OBVIOUS
  <2> QED BY <1>1, <1>2, <2>1
<1> HIDE DEF t
<1>4. WellOrdered(t)
  <2> SUFFICES ASSUME NEW i \in 1..Len(t)
               PROVE  /\ t[i] \in {"append", "resolve"} => i = 1
                      /\ t[i] = "resolve" => i < Len(t) /\ t[i + 1] = "linkSilver"
                      /\ t[i] = "linkSilver" => i < Len(t) /\ t[i + 1] = "linkDim"
                      /\ t[i] = "linkDim" => i = Len(t)
                      /\ i < Len(t) =>
                            /\ t[i + 1] = "linkSilver" => t[i] = "resolve"
                            /\ t[i + 1] = "linkDim" => t[i] = "linkSilver"
    BY DEF WellOrdered
  <2>1. i \in 1..Len(l) - 1 /\ i + 1 \in 1..Len(l) /\ t[i] = l[i + 1]
    BY <1>1
  <2>2. i < Len(t) => t[i + 1] = l[i + 2] /\ i + 1 < Len(l)
    BY <1>1, <2>1
  <2>3. i = Len(t) <=> i + 1 = Len(l)
    BY <1>1, <2>1
  <2> DEFINE j == i + 1
  <2>4. /\ l[j] \in {"append", "resolve"} => j = 1
        /\ l[j] = "resolve" => j < Len(l) /\ l[j + 1] = "linkSilver"
        /\ l[j] = "linkSilver" => j < Len(l) /\ l[j + 1] = "linkDim"
        /\ l[j] = "linkDim" => j = Len(l)
        /\ j < Len(l) =>
              /\ l[j + 1] = "linkSilver" => l[j] = "resolve"
              /\ l[j + 1] = "linkDim" => l[j] = "linkSilver"
    <3> HIDE DEF j
    <3> QED BY <2>1 DEF WellOrdered, j
  <2>5. l[j + 1] = l[i + 2] /\ j # 1
    BY <2>1
  <2>6. i + 1 < Len(l) => i < Len(t)
    BY <1>1, <2>1
  <2> QED
    BY <2>1, <2>2, <2>3, <2>4, <2>5, <2>6
<1>5. 1 \in 1..Len(l) /\ (Len(l) > 1 => 2 \in 1..Len(l))
  BY <1>1
<1>6. Len(l) > 1 <=> t # <<>>
  BY <1>1, <1>2
<1>7. /\ Len(l) > 1 => l[2] \notin {"append", "resolve"}
      /\ Len(l) > 1 => (l[2] = "linkSilver" <=> l[1] = "resolve")
      /\ Len(l) > 1 => (l[2] = "linkDim" <=> l[1] = "linkSilver")
      /\ l[1] \in {"resolve", "linkSilver"} => Len(l) > 1
      /\ l[1] = "linkDim" => Len(l) = 1
  <2>1. 1 + 1 = 2
    OBVIOUS
  <2> QED BY <1>1, <1>5, <2>1 DEF WellOrdered
<1> QED
  BY <1>1, <1>2, <1>3, <1>4, <1>6, <1>7 DEF t

-----------------------------------------------------------------------------
(* Derived columns *)

LEMMA VotedFinite ==
    ASSUME NEW table
    PROVE  /\ IsFiniteSet(Voted(table, Elections)) /\ IsFiniteSet(Voted(table, Generals))
           /\ Cardinality(Voted(table, Elections)) \in Nat
           /\ Cardinality(Voted(table, Generals)) \in Nat
<1>1. /\ Voted(table, Elections) \subseteq Elections
      /\ Voted(table, Generals) \subseteq Elections
  BY RecordsAssumption DEF Voted
<1> QED
  BY <1>1, RecordsAssumption, FS_Subset, FS_CardinalityType

\* A history that only grows has counts that only grow.
LEMMA CountsGrow ==
    ASSUME NEW old, NEW new, \A f \in FactKeys : old[f] # Absent => new[f] # Absent
    PROVE  /\ Cardinality(Voted(old, Elections)) <= Cardinality(Voted(new, Elections))
           /\ Cardinality(Voted(old, Generals)) <= Cardinality(Voted(new, Generals))
<1>1. /\ Voted(old, Elections) \subseteq Voted(new, Elections)
      /\ Voted(old, Generals) \subseteq Voted(new, Generals)
  BY RecordsAssumption DEF Voted, FactKeys
<1> QED
  BY <1>1, VotedFinite, FS_Subset

LEMMA CategoryType ==
    ASSUME NEW n \in Nat
    PROVE  Category(n) \in {"non", "occasional", "regular", "super_voter"}
BY DEF Category

\* NoPerson is not a row.
LEMMA PersonIsSomebody == NoPerson \notin Person
BY PersonAssumption

LEMMA CountsAreSound ==
    CountsSound(Counts(facts)) /\ CountsSound(NoCounts)
<1>1. CountsSound(NoCounts)
  BY VotedFinite DEF CountsSound, NoCounts, CountsRecord
<1>2. CountsSound(Counts(facts))
  <2> DEFINE g == Cardinality(Voted(facts, Generals))
             t == Cardinality(Voted(facts, Elections))
  <2>1. g \in Nat /\ t \in Nat
    BY VotedFinite
  <2> HIDE DEF g, t
  <2>2. Category(g) \in {"non", "occasional", "regular", "super_voter"}
    BY <2>1, CategoryType
  <2>3. Counts(facts) = [general |-> g, total |-> t, category |-> Category(g)]
    BY DEF Counts, g, t
  <2>4. /\ Counts(facts).general = g /\ Counts(facts).total = t
        /\ Counts(facts).category = Category(g)
    BY <2>3
  <2>5. Counts(facts) \in CountsRecord
    <3> DEFINE c == Category(g)
    <3>1. c \in {"", "non", "occasional", "regular", "super_voter"}
      BY <2>2
    <3> HIDE DEF c
    <3>2. [general |-> g, total |-> t, category |-> c] \in CountsRecord
      BY <2>1, <3>1 DEF CountsRecord
    <3> QED
      BY <2>3, <3>2 DEF c
  <2> QED
    BY <2>1, <2>4, <2>5 DEF CountsSound, g, t
<1> QED
  BY <1>1, <1>2

LEMMA LeastElement ==
    ASSUME NEW S \in SUBSET Nat, S # {}
    PROVE  \E i \in S : \A j \in S : i <= j
<1> DEFINE R == OpToRel(<, Nat)
<1>1. PICK i \in S : \A j \in S : <<j, i>> \notin R
  <2>1. IsWellFoundedOn(R, Nat)
    BY NatLessThanWellFounded
  <2> HIDE DEF R
  <2> QED
    BY <2>1, WFMin, Zenon
<1>2. \A j \in Nat : j < i => <<j, i>> \in R
  BY DEF OpToRel
<1> HIDE DEF R
<1>3. \A j \in S : ~(j < i)
  BY <1>1, <1>2
<1> QED
  BY <1>3

\* The rows of bronze are ranked by a scan, and the first with a value is one.
LEMMA FirstIsOne ==
    ASSUME TypeOK, NEW S \in SUBSET (DOMAIN bronze), S # {}, NEW order \in ReadOrders
    PROVE  FirstOf(S, order) \in S
<1> DEFINE ranks == {order[i] : i \in S}
<1>1. DOMAIN bronze \in SUBSET Nat
  BY DEF TypeOK
<1>2. ranks \in SUBSET Nat /\ ranks # {}
  BY <1>1 DEF ReadOrders
<1>3. PICK n \in ranks : \A m \in ranks : n <= m
  <2> HIDE DEF ranks
  <2> QED BY <1>2, LeastElement
<1>4. PICK i \in S : n = order[i]
  BY <1>3
<1>5. \A j \in S : order[i] <= order[j]
  BY <1>3, <1>4
<1> QED
  BY <1>5 DEF FirstOf

\* What a scan extracts are facts of the vendor.
LEMMA ExtractedIsSound ==
    ASSUME TypeOK, NEW keys \in SUBSET FactKeys, NEW order \in ReadOrders
    PROVE  FactsSound(Extracted(keys, order))
<1> DEFINE having(f) == {i \in DOMAIN bronze : bronze[i].facts[f] # Absent}
<1>1. \A i \in DOMAIN bronze : bronze[i] \in Records
  BY DEF TypeOK
<1>2. ASSUME NEW f \in keys
      PROVE  /\ Extracted(keys, order)[f] \in Values \cup {Absent}
             /\ Extracted(keys, order)[f] # Absent =>
                    \E r \in Sources : r.facts[f] = Extracted(keys, order)[f]
  <2>1. CASE having(f) = {}
    BY <2>1 DEF Extracted
  <2>2. CASE having(f) # {}
    <3>1. FirstOf(having(f), order) \in DOMAIN bronze
      <4>1. having(f) \in SUBSET (DOMAIN bronze)
        OBVIOUS
      <4> HIDE DEF having
      <4> QED BY <2>2, <4>1, FirstIsOne
    <3>2. Extracted(keys, order)[f] = bronze[FirstOf(having(f), order)].facts[f]
      BY <2>2 DEF Extracted
    <3> HIDE DEF having
    <3>3. bronze[FirstOf(having(f), order)] \in Records \cap Sources
      BY <1>1, <3>1 DEF Sources
    <3> QED
      BY <3>2, <3>3, RecordsAssumption DEF Record, FactTable
  <2> QED
    BY <2>1, <2>2
<1>3. DOMAIN Extracted(keys, order) = keys
  BY DEF Extracted
<1> QED
  BY <1>2, <1>3 DEF FactsSound

\* Merging facts of the vendor into a table leaves such facts and drops none.
LEMMA OverlaySound ==
    ASSUME NEW old \in FactTable, FactsSound(old), NEW new, FactsSound(new)
    PROVE  /\ Overlay(old, new) \in FactTable
           /\ FactsSound(Overlay(old, new))
           /\ \A f \in FactKeys : old[f] # Absent => Overlay(old, new)[f] # Absent
<1>1. DOMAIN old = FactKeys /\ DOMAIN Overlay(old, new) = FactKeys
  BY DEF FactTable, Overlay
<1>2. \A f \in FactKeys :
         /\ Overlay(old, new)[f] \in Values \cup {Absent}
         /\ Overlay(old, new)[f] # Absent => \E r \in Sources : r.facts[f] = Overlay(old, new)[f]
         /\ old[f] # Absent => Overlay(old, new)[f] # Absent
  BY <1>1 DEF Overlay, FactsSound
<1>3. Overlay(old, new) \in FactTable
  BY <1>2 DEF Overlay, FactTable
<1> QED
  BY <1>1, <1>2, <1>3 DEF FactsSound

-----------------------------------------------------------------------------
(* Growth: bronze is only appended to, silver loses no person and no fact *)

Grown ==
    /\ Sources \subseteq Sources'
    /\ \A f \in FactKeys : facts[f] # Absent => facts'[f] # Absent
    /\ silver # NoPerson => silver' # NoPerson

LEMMA SoundStaysSound ==
    ASSUME Grown
    PROVE  /\ \A place : Named(place) => Named(place)'
           /\ \A table : FactsSound(table) => FactsSound(table)'
           /\ \A table : ShownFacts(table) => ShownFacts(table)'
           /\ \A a : AddressSound(a) => AddressSound(a)'
           /\ \A counts : CountsSound(counts) => CountsSound(counts)'
           /\ \A person : PersonSound(person) => PersonSound(person)'
<1>1. \A place : Named(place) => Named(place)'
  BY DEF Grown, Named
<1>2. \A table : FactsSound(table) => FactsSound(table)'
  BY DEF Grown, FactsSound
<1>3. \A table : ShownFacts(table) => ShownFacts(table)'
  BY <1>2 DEF Grown, ShownFacts, FactsSound
<1>4. \A a : AddressSound(a) => AddressSound(a)'
  BY <1>1 DEF AddressSound
<1>5. \A counts : CountsSound(counts) => CountsSound(counts)'
  <2> SUFFICES ASSUME NEW counts, CountsSound(counts) PROVE CountsSound(counts)'
    OBVIOUS
  <2>1. /\ Cardinality(Voted(facts, Elections)) <= Cardinality(Voted(facts', Elections))
        /\ Cardinality(Voted(facts, Generals)) <= Cardinality(Voted(facts', Generals))
    BY CountsGrow DEF Grown
  <2>2. counts.general \in Nat /\ counts.total \in Nat
    BY DEF CountsSound, CountsRecord
  <2> QED
    BY <2>1, <2>2, VotedFinite DEF CountsSound
<1>6. \A person : PersonSound(person) => PersonSound(person)'
  BY <1>4, <1>5 DEF PersonSound, Grown
<1> QED
  BY <1>1, <1>2, <1>3, <1>4, <1>5, <1>6

\* What a worker holds stays sound while others write.
LEMMA HeldStaysSound ==
    ASSUME Grown, NEW v \in Workers, HeldSound(v), left'[v] = left[v], buf'[v] = buf[v]
    PROVE  HeldSound(v)'
BY SoundStaysSound DEF HeldSound, At, HasRead, Grown

TablesTyped ==
    /\ bronze \in Seq(Records)
    /\ silver = NoPerson \/ silver \in Person
    /\ dim = NoPerson \/ dim \in Person
    /\ facts \in FactTable /\ dimFacts \in FactTable

LEMMA StillSound ==
    ASSUME IInv, UNCHANGED tables
    PROVE  TablesTyped' /\ TablesSound' /\ Grown
<1> USE DEF tables
<1>1. Sources' = Sources
  BY DEF Sources
<1>2. Grown
  BY <1>1 DEF Grown
<1>3. TablesTyped'
  BY DEF IInv, TypeOK, TablesTyped
<1>4. TablesSound'
  BY <1>2, SoundStaysSound DEF IInv, TablesSound
<1> QED
  BY <1>2, <1>3, <1>4

\* The step of a worker, from what it leaves in the tables and in its memory.
LEMMA WorkerStep ==
    ASSUME IInv, NEW w \in Workers, NEW l \in Seq(StageNames), WellOrdered(l),
           NEW b, b = <<>> \/ b = <<b[1]>>, NEW c \in {"none"} \cup Commands,
           left' = [left EXCEPT ![w] = l], buf' = [buf EXCEPT ![w] = b],
           command' = [command EXCEPT ![w] = c], located' = located,
           TablesTyped', TablesSound', Grown, HeldSound(w)', Bounded'
    PROVE  IInv'
<1>1. left'[w] = l /\ buf'[w] = b
  BY DEF IInv, Control
<1>2. \A v \in Workers \ {w} : left'[v] = left[v] /\ buf'[v] = buf[v]
  BY DEF IInv, Control
<1>3. Control'
  BY <1>1, <1>2 DEF IInv, Control
<1>4. \A v \in Workers : HeldSound(v)'
  BY <1>2, HeldStaysSound DEF IInv
<1>5. \A v \in Workers : Len(buf'[v]) <= 1
  <2>1. Len(<<>>) <= 1 /\ Len(<<b[1]>>) <= 1
    OBVIOUS
  <2> QED
    BY <1>1, <1>2, <2>1 DEF IInv, TypeOK
<1>6. Len(bronze') <= MaxBronze
  <2>1. Cardinality(Pending') \in Nat /\ Len(bronze') \in Nat
    BY FS_CardinalityType DEF Bounded, TablesTyped
  <2> QED
    BY <2>1, BoundAssumption DEF Bounded
<1>7. command' \in [Workers -> {"none"} \cup Commands]
  BY DEF IInv, TypeOK
<1>8. TypeOK'
  BY <1>3, <1>5, <1>6, <1>7 DEF TypeOK, TablesTyped, IInv, Control, StageNames
<1> QED
  BY <1>3, <1>4, <1>8 DEF IInv

\* A step after which the worker is not about to append adds nobody who is.
LEMMA NobodyNewAppends ==
    ASSUME IInv, NEW w \in Workers, NEW l, NEW b,
           left' = [left EXCEPT ![w] = l], buf' = [buf EXCEPT ![w] = b],
           l # <<>> => Head(l) # "append"
    PROVE  /\ Pending' \subseteq Pending \ {w}
           /\ bronze' = bronze => Bounded'
<1>1. left'[w] = l
  BY DEF IInv, Control
<1>2. \A v \in Workers \ {w} : left'[v] = left[v] /\ buf'[v] = buf[v]
  BY DEF IInv, Control
<1>3. w \notin Pending'
  BY <1>1 DEF Pending, At
<1>4. \A v \in Workers \ {w} : v \in Pending' => v \in Pending
  BY <1>2 DEF Pending, At
<1>5. Pending' \subseteq Workers
  BY DEF Pending
<1>6. Pending' \subseteq Pending \ {w}
  BY <1>3, <1>4, <1>5
<1>7. ASSUME bronze' = bronze
      PROVE  Bounded'
  <2>1. /\ IsFiniteSet(Pending') /\ Cardinality(Pending') <= Cardinality(Pending)
        /\ Cardinality(Pending') \in Nat /\ Cardinality(Pending) \in Nat
    BY <1>6, FS_Subset, FS_CardinalityType DEF IInv, Bounded
  <2>2. Len(bronze) \in Nat
    BY DEF IInv, TypeOK
  <2> QED
    BY <1>7, <2>1, <2>2, BoundAssumption DEF IInv, Bounded
<1> QED
  BY <1>6, <1>7

\* A stage that has read holds what it read, and nothing else has changed.
LEMMA ReadStep ==
    ASSUME IInv, NEW w \in Workers, NEW stage, NEW value, Read(w, stage, value),
           stage # "append", HeldSound(w)'
    PROVE  IInv'
<1>1. /\ left' = [left EXCEPT ![w] = left[w]] /\ buf' = [buf EXCEPT ![w] = <<value>>]
      /\ command' = [command EXCEPT ![w] = command[w]] /\ UNCHANGED <<tables, located>>
      /\ left[w] # <<>> /\ Head(left[w]) = stage
  BY DEF Read, At, IInv, TypeOK, Control
<1>2. left[w] \in Seq(StageNames) /\ WellOrdered(left[w]) /\ command[w] \in {"none"} \cup Commands
  BY DEF IInv, TypeOK, Control
<1>3. Bounded'
  BY <1>1, NobodyNewAppends DEF tables
<1>4. <<value>> = <<(<<value>>)[1]>>
  OBVIOUS
<1> QED
  BY <1>1, <1>2, <1>3, <1>4, StillSound, WorkerStep

\* A worker that is through with a stage holds nothing for the next one.
LEMMA Through ==
    ASSUME IInv, NEW w \in Workers, ~Idle(w), Proceed(w),
           Head(left[w]) \notin {"resolve", "linkSilver"}
    PROVE  /\ Tail(left[w]) \in Seq(StageNames) /\ WellOrdered(Tail(left[w]))
           /\ left' = [left EXCEPT ![w] = Tail(left[w])] /\ buf' = [buf EXCEPT ![w] = <<>>]
           /\ \E c \in {"none"} \cup Commands : command' = [command EXCEPT ![w] = c]
           /\ Tail(left[w]) # <<>> => Head(Tail(left[w])) # "append"
           /\ HeldSound(w)'
<1>1. left[w] \in Seq(StageNames) /\ left[w] # <<>> /\ WellOrdered(left[w])
  BY DEF IInv, Control, Idle
<1>2. /\ Tail(left[w]) \in Seq(StageNames) /\ WellOrdered(Tail(left[w]))
      /\ Tail(left[w]) # <<>> =>
            Head(Tail(left[w])) \notin {"append", "resolve", "linkSilver", "linkDim"}
  BY <1>1, NextStage
<1>3. left' = [left EXCEPT ![w] = Tail(left[w])] /\ buf' = [buf EXCEPT ![w] = <<>>]
  BY DEF Proceed, Continue
<1>4. left'[w] = Tail(left[w]) /\ buf'[w] = <<>>
  BY <1>3 DEF IInv, Control
<1>5. HeldSound(w)'
  BY <1>2, <1>4 DEF HeldSound, At, HasRead
<1>6. \E c \in {"none"} \cup Commands : command' = [command EXCEPT ![w] = c]
  <2>1. command[w] \in {"none"} \cup Commands
    BY DEF IInv, TypeOK
  <2> QED
    BY <2>1 DEF Proceed, Continue
<1> QED
  BY <1>2, <1>3, <1>5, <1>6

\* A stage that leaves bronze alone writes, given what it writes is sound.
LEMMA WriteStep ==
    ASSUME IInv, NEW w \in Workers, NEW stage, Write(w, stage),
           stage \notin {"resolve", "linkSilver"}, bronze' = bronze,
           TablesTyped', TablesSound', Grown
    PROVE  IInv'
<1>1. ~Idle(w) /\ Proceed(w) /\ Head(left[w]) = stage /\ located' = located
  BY DEF Write, At, Idle
<1>2. Bounded'
  BY <1>1, Through, NobodyNewAppends
<1> QED
  BY <1>1, <1>2, Through, WorkerStep

LEMMA SkipStep ==
    ASSUME IInv, NEW w \in Workers, NEW stage, Skip(w, stage),
           stage \notin {"resolve", "linkSilver"}
    PROVE  IInv'
<1>1. ~Idle(w) /\ Proceed(w) /\ Head(left[w]) = stage /\ UNCHANGED <<tables, located>>
  BY DEF Skip, At, Idle
<1>2. Bounded'
  BY <1>1, Through, NobodyNewAppends DEF tables
<1> QED
  BY <1>1, <1>2, Through, WorkerStep, StillSound

\* A command that ends early.
LEMMA EndStep ==
    ASSUME IInv, NEW w \in Workers, Continue(w, <<>>),
           \E b \in {<<>>} : buf' = [buf EXCEPT ![w] = b], UNCHANGED <<tables, located>>
    PROVE  IInv'
<1>1. left' = [left EXCEPT ![w] = <<>>] /\ buf' = [buf EXCEPT ![w] = <<>>]
      /\ command' = [command EXCEPT ![w] = "none"]
  BY DEF Continue
<1>2. left'[w] = <<>> /\ buf'[w] = <<>>
  BY <1>1 DEF IInv, Control
<1>3. HeldSound(w)'
  BY <1>2 DEF HeldSound, At, HasRead
<1>4. Bounded'
  BY <1>1, NobodyNewAppends DEF tables
<1>5. <<>> \in Seq(StageNames) /\ WellOrdered(<<>>)
  BY DEF WellOrdered
<1> QED
  BY <1>1, <1>3, <1>4, <1>5, WorkerStep, StillSound

-----------------------------------------------------------------------------
(* The invariant is inductive *)

LEMMA IInvInit == Init => IInv
<1> SUFFICES ASSUME Init PROVE IInv
  OBVIOUS
<1> USE DEF Init
<1>1. TypeOK
  <2>1. Len(bronze) <= MaxBronze /\ bronze \in Seq(Records)
    BY BoundAssumption
  <2> QED
    BY <2>1 DEF TypeOK, FactTable
<1>2. Control
  BY DEF Control, WellOrdered
<1>3. TablesSound
  BY DEF TablesSound, ShownFacts, FactsSound
<1>4. \A w \in Workers : HeldSound(w)
  BY DEF HeldSound, At, HasRead
<1>5. Bounded
  <2>1. Pending = {}
    BY DEF Pending, At
  <2>2. IsFiniteSet({}) /\ Cardinality({}) = 0
    BY FS_EmptySet
  <2> QED
    BY <2>1, <2>2, BoundAssumption DEF Bounded
<1> QED
  BY <1>1, <1>2, <1>3, <1>4, <1>5 DEF IInv

LEMMA BeginKeeps ==
    ASSUME IInv, NEW w \in Workers, NEW name \in Commands, NEW record \in Records \cup {NoRecord},
           Begin(w, name, record)
    PROVE  IInv'
<1> DEFINE l == Stages[name]
           b == IF Ingests(name) THEN <<record>> ELSE <<>>
<1>1. /\ left[w] = <<>> /\ left' = [left EXCEPT ![w] = l] /\ buf' = [buf EXCEPT ![w] = b]
      /\ command' = [command EXCEPT ![w] = name] /\ UNCHANGED <<tables, located>>
      /\ record # NoRecord => Ingests(name) /\ Len(bronze) + Cardinality(Pending) < MaxBronze
  BY DEF Begin, Idle
<1>2. l \in Seq(StageNames) /\ l # <<>> /\ WellOrdered(l)
  BY StagesOrdered
<1>3. b = <<>> \/ b = <<b[1]>>
  OBVIOUS
<1>4. Head(l) \notin {"linkSilver", "linkDim"} /\ (Head(l) = "append" <=> Ingests(name))
  <2>1. name \in {"ingestBronze", "ingest", "ingestVotes", "ingestAll", "persons", "scores",
                  "voteHistory", "all", "backfill"}
    BY CommandsAssumption DEF Stages
  <2>2. Head(Stages[name]) \in {"append", "dimPersons", "dimScores", "dimVotes", "resolve"}
    <3>1. Stages[name] \in {<<"append">>, <<"append", "persons">>,
                            <<"append", "persons", "votes", "aggregates">>,
                            <<"append", "persons", "scores", "votes", "aggregates">>,
                            <<"dimPersons">>, <<"dimScores">>, <<"dimVotes">>,
                            <<"dimPersons", "dimScores", "dimVotes">>,
                            <<"resolve", "linkSilver", "linkDim">>}
      BY <2>1 DEF Stages, VoteHistory, MaterializeAll
    <3> QED
      BY <3>1
  <2> QED
    BY <2>2 DEF Ingests
<1>5. left'[w] = l /\ buf'[w] = b
  BY <1>1 DEF IInv, Control
<1> HIDE DEF l
<1>6. HeldSound(w)'
  <2>1. CASE Ingests(name)
    <3>1. buf'[w] = <<record>> /\ left'[w] # <<>> /\ Head(left'[w]) = "append"
      BY <1>2, <1>4, <1>5, <2>1
    <3> QED
      BY <3>1 DEF HeldSound, At, HasRead
  <2>2. CASE ~Ingests(name)
    BY <1>2, <1>4, <1>5, <2>2 DEF HeldSound, At, HasRead
  <2> QED
    BY <2>1, <2>2
<1>7. Bounded'
  <2>1. \A v \in Workers \ {w} : left'[v] = left[v] /\ buf'[v] = buf[v]
    BY <1>1 DEF IInv, Control
  <2>2. w \notin Pending
    BY <1>1 DEF Pending, At
  <2>3. Pending' \subseteq Pending \cup {w} /\ Pending \subseteq Pending'
    BY <2>1, <2>2 DEF Pending, At
  <2>4. w \in Pending' => record # NoRecord
    <3>1. ASSUME record = NoRecord, w \in Pending' PROVE FALSE
      <4>1. Head(left'[w]) = "append" /\ buf'[w] # <<NoRecord>>
        BY <3>1 DEF Pending, At
      <4> QED
        BY <1>4, <1>5, <3>1, <4>1
    <3> QED
      BY <3>1
  <2>5. /\ IsFiniteSet(Pending) /\ Cardinality(Pending) \in Nat /\ Len(bronze) \in Nat
        /\ Len(bronze) + Cardinality(Pending) <= MaxBronze /\ bronze' = bronze
    BY <1>1, FS_CardinalityType DEF IInv, Bounded, TypeOK, tables
  <2>6. CASE w \in Pending'
    <3>1. Pending' = Pending \cup {w}
      BY <2>3, <2>6
    <3>2. IsFiniteSet(Pending') /\ Cardinality(Pending') = Cardinality(Pending) + 1
      BY <2>2, <2>5, <3>1, FS_AddElement
    <3> QED
      BY <1>1, <2>4, <2>5, <2>6, <3>2, BoundAssumption DEF Bounded
  <2>7. CASE w \notin Pending'
    <3>1. Pending' = Pending
      BY <2>3, <2>7
    <3> QED
      BY <2>5, <3>1 DEF Bounded
  <2> QED
    BY <2>6, <2>7
<1> QED
  BY <1>1, <1>2, <1>3, <1>6, <1>7, StillSound, WorkerStep

LEMMA AppendKeeps ==
    ASSUME IInv, NEW w \in Workers, AppendBronze(w)
    PROVE  IInv'
<1>1. /\ ~Idle(w) /\ Proceed(w) /\ Head(left[w]) = "append" /\ located' = located
      /\ At(w, "append") /\ HasRead(w) /\ UNCHANGED <<silver, facts, dim, dimFacts>>
  BY DEF AppendBronze, Write, At, Idle
<1>2. buf[w][1] \in Records \cup {NoRecord} /\ buf[w] = <<buf[w][1]>>
  BY <1>1 DEF IInv, HeldSound, Control, HasRead
<1>3. Pending' \subseteq Pending \ {w} /\ (bronze' = bronze => Bounded')
  BY <1>1, Through, NobodyNewAppends
<1> DEFINE l == Tail(left[w])
<1>a. PICK c \in {"none"} \cup Commands : command' = [command EXCEPT ![w] = c]
  BY <1>1, Through
<1>b. /\ l \in Seq(StageNames) /\ WellOrdered(l)
      /\ left' = [left EXCEPT ![w] = l] /\ buf' = [buf EXCEPT ![w] = <<>>] /\ HeldSound(w)'
  BY <1>1, Through
<1> HIDE DEF l
<1>4. CASE ~Identified(buf[w][1])
  <2>1. UNCHANGED tables
    BY <1>1, <1>4 DEF AppendBronze, tables
  <2>2. TablesTyped' /\ TablesSound' /\ Grown /\ Bounded'
    BY <1>3, <2>1, StillSound DEF tables
  <2> QED
    BY <1>1, <1>a, <1>b, <2>2, WorkerStep
<1>5. CASE Identified(buf[w][1])
  <2>1. buf[w][1] \in Records /\ buf[w] # <<NoRecord>> /\ bronze' = Append(bronze, buf[w][1])
    BY <1>2, <1>5 DEF AppendBronze, Identified
  <2>2. /\ bronze \in Seq(Records) /\ bronze' \in Seq(Records) /\ Len(bronze') = Len(bronze) + 1
        /\ \A i \in 1..Len(bronze) : bronze'[i] = bronze[i]
    BY <2>1 DEF IInv, TypeOK
  <2>3. Sources \subseteq Sources'
    <3>1. DOMAIN bronze = 1..Len(bronze) /\ DOMAIN bronze' = 1..Len(bronze) + 1 /\ Len(bronze) \in Nat
      BY <2>2
    <3> QED
      BY <2>2, <3>1 DEF Sources
  <2>4. Grown
    BY <1>1, <2>3 DEF Grown
  <2>5. TablesTyped'
    BY <1>1, <2>2 DEF IInv, TypeOK, TablesTyped
  <2>6. TablesSound'
    BY <1>1, <2>4, SoundStaysSound DEF IInv, TablesSound
  <2>7. Bounded'
    <3>1. w \in Pending
      BY <1>1, <2>1 DEF Pending
    <3>2. /\ IsFiniteSet(Pending) /\ Cardinality(Pending) \in Nat
          /\ Len(bronze) + Cardinality(Pending) <= MaxBronze /\ Len(bronze) \in Nat
      BY <2>2, FS_CardinalityType DEF IInv, Bounded
    <3>3. IsFiniteSet(Pending \ {w}) /\ Cardinality(Pending \ {w}) = Cardinality(Pending) - 1
      BY <3>1, <3>2, FS_RemoveElement
    <3>4. /\ IsFiniteSet(Pending') /\ Cardinality(Pending') \in Nat
          /\ Cardinality(Pending') <= Cardinality(Pending) - 1
      BY <1>3, <3>3, FS_Subset, FS_CardinalityType
    <3> QED
      BY <2>2, <3>2, <3>4, BoundAssumption DEF Bounded
  <2> QED
    BY <1>1, <1>a, <1>b, <2>4, <2>5, <2>6, <2>7, WorkerStep
<1> QED
  BY <1>4, <1>5

\* What a stage reads is sound.
LEMMA ReadingKeeps ==
    ASSUME IInv, NEW w \in Workers,
           \/ ReadPersons(w) \/ ReadScores(w) \/ ReadVotes(w) \/ ReadAggregates(w)
           \/ ReadDimPersons(w) \/ ReadDimScores(w) \/ ReadDimVotes(w) \/ ReadUnlinked(w)
    PROVE  IInv'
<1>1. ASSUME NEW stage, NEW value, Read(w, stage, value)
      PROVE  /\ UNCHANGED tables /\ Grown /\ left' = left
             /\ left[w] # <<>> /\ Head(left[w]) = stage
             /\ buf'[w] = <<value>> /\ buf'[w] # <<>> /\ buf'[w][1] = value
  BY <1>1, StillSound DEF Read, At, IInv, Control
<1>2. CASE ReadPersons(w)
  <2>1. CASE Skip(w, "persons")
    BY <2>1, SkipStep
  <2>2. ASSUME NEW i \in DOMAIN bronze, Read(w, "persons", bronze[i])
        PROVE  IInv'
    <3>1. bronze[i] \in Sources'
      BY <1>1, <2>2 DEF Sources, tables
    <3>2. HeldSound(w)'
      BY <1>1, <2>2, <3>1 DEF HeldSound, At, HasRead
    <3> QED
      BY <2>2, <3>2, ReadStep
  <2> QED
    BY <1>2, <2>1, <2>2 DEF ReadPersons
<1>3. CASE ReadScores(w) \/ ReadVotes(w)
  <2>1. PICK stage \in {"scores", "votes"}, keys \in {ScoreTypes, Elections}, order \in ReadOrders :
           Read(w, stage, Extracted(keys, order))
    BY <1>3 DEF ReadScores, ReadVotes, ReadFacts
  <2>2. FactsSound(Extracted(keys, order))
    BY ExtractedIsSound DEF IInv, FactKeys
  <2>3. HeldSound(w)'
    <3>0. PICK value : value = Extracted(keys, order)
      OBVIOUS
    <3>1. Read(w, stage, value) /\ FactsSound(value)
      BY <2>1, <2>2, <3>0
    <3>2. FactsSound(value)'
      BY <1>1, <3>1, SoundStaysSound
    <3> QED
      BY <1>1, <3>1, <3>2 DEF HeldSound, At, HasRead
  <2> QED
    BY <2>1, <2>3, ReadStep
<1>4. CASE ReadAggregates(w)
  <2>1. CASE Skip(w, "aggregates")
    BY <2>1, SkipStep
  <2>2. CASE Read(w, "aggregates", Counts(facts))
    <3>1. CountsSound(Counts(facts))'
      BY CountsAreSound, <1>1, <2>2, SoundStaysSound DEF tables
    <3>2. buf'[w][1] = Counts(facts') /\ buf'[w] # <<>>
      BY <1>1, <2>2 DEF tables
    <3>3. HeldSound(w)'
      BY <1>1, <2>2, <3>1, <3>2 DEF HeldSound, At, HasRead
    <3> QED
      BY <2>2, <3>3, ReadStep
  <2> QED
    BY <1>4, <2>1, <2>2 DEF ReadAggregates
<1>5. CASE ReadDimPersons(w)
  <2>1. CASE Skip(w, "dimPersons")
    BY <2>1, SkipStep
  <2>2. CASE silver # NoPerson /\ Read(w, "dimPersons", silver)
    <3>1. PersonSound(silver)'
      BY <1>1, <2>2, SoundStaysSound DEF IInv, TablesSound, tables
    <3>2. buf'[w][1] = silver' /\ buf'[w] # <<>>
      BY <1>1, <2>2 DEF tables
    <3>3. HeldSound(w)'
      BY <1>1, <2>2, <3>1, <3>2 DEF HeldSound, At, HasRead
    <3> QED
      BY <2>2, <3>3, ReadStep
  <2> QED
    BY <1>5, <2>1, <2>2 DEF ReadDimPersons
<1>6. CASE ReadDimScores(w) \/ ReadDimVotes(w)
  <2>1. PICK stage \in {"dimScores", "dimVotes"}, keys \in {ScoreTypes, Elections} :
           Read(w, stage, [f \in keys |-> facts[f]])
    BY <1>6 DEF ReadDimScores, ReadDimVotes, ReadDimFacts
  <2>a. PICK value : value = [f \in keys |-> facts[f]]
    OBVIOUS
  <2>2. ShownFacts(value)
    <3>1. DOMAIN facts = FactKeys /\ keys \subseteq FactKeys /\ DOMAIN value = keys
      BY <2>a DEF IInv, TypeOK, FactTable, FactKeys
    <3>2. \A f \in keys : value[f] = facts[f]
      BY <2>a
    <3> QED
      BY <3>1, <3>2 DEF ShownFacts, FactsSound, IInv, TablesSound
  <2>3. Read(w, stage, value)
    BY <2>1, <2>a
  <2>4. ShownFacts(value)'
    BY <1>1, <2>2, <2>3, SoundStaysSound
  <2>5. HeldSound(w)'
    BY <1>1, <2>3, <2>4 DEF HeldSound, At, HasRead
  <2> QED
    BY <2>3, <2>5, ReadStep
<1>7. CASE ReadUnlinked(w)
  <2>1. CASE Unlinked /\ Read(w, "resolve", silver.src.place)
    <3>1. silver # NoPerson /\ silver.src \in Sources
      BY <2>1 DEF Unlinked, IInv, TablesSound, PersonSound
    <3>2. Named(silver.src.place)
      BY <3>1 DEF Named
    <3>3. silver' # NoPerson /\ Named(silver.src.place)'
      BY <1>1, <2>1, <3>1, <3>2, SoundStaysSound DEF tables, Named
    <3>4. buf'[w][1] = silver'.src.place /\ buf'[w] # <<>> /\ silver' = silver
      BY <1>1, <2>1 DEF tables
    <3>5. HeldSound(w)'
      BY <1>1, <2>1, <3>3, <3>4 DEF HeldSound, At, HasRead
    <3> QED
      BY <2>1, <3>5, ReadStep
  <2>2. CASE Abandon(w, "resolve")
    <3>1. buf' = [buf EXCEPT ![w] = <<>>]
      BY <2>2 DEF Abandon, HasRead, IInv, Control
    <3> QED
      BY <2>2, <3>1, EndStep DEF Abandon
  <2> QED
    BY <1>7, <2>1, <2>2 DEF ReadUnlinked
<1> QED
  BY <1>2, <1>3, <1>4, <1>5, <1>6, <1>7

\* What a stage writes to silver is sound.
LEMMA SilverKeeps ==
    ASSUME IInv, NEW w \in Workers,
           MergePersons(w) \/ MergeScores(w) \/ MergeVotes(w) \/ MergeAggregates(w)
    PROVE  IInv'
<1>1. HeldSound(w) /\ TablesSound /\ TypeOK
  BY DEF IInv
<1>2. CASE MergePersons(w)
  <2>1. /\ Write(w, "persons") /\ At(w, "persons") /\ HasRead(w)
        /\ silver' = [src |-> buf[w][1], address |-> NoAddress, counts |-> NoCounts]
        /\ UNCHANGED <<bronze, facts, dim, dimFacts>>
    BY <1>2 DEF MergePersons, Write
  <2>2. buf[w][1] \in Sources /\ Sources \subseteq Records /\ Sources' = Sources
    BY <1>1, <2>1 DEF HeldSound, TypeOK, Sources
  <2>3. silver' \in Person /\ silver'.src \in Sources' /\ silver'.address = NoAddress
        /\ silver'.counts = NoCounts
    <3>1. NoCounts \in CountsRecord
      BY CountsAreSound DEF CountsSound
    <3> HIDE DEF NoCounts
    <3> QED
      BY <2>1, <2>2, <3>1 DEF Person
  <2>4. silver # NoPerson => silver' # NoPerson
    BY <2>3, PersonIsSomebody
  <2>5. Grown
    BY <2>1, <2>2, <2>4 DEF Grown
  <2>6. PersonSound(silver)'
    BY <2>3, <2>5, CountsAreSound, SoundStaysSound DEF PersonSound
  <2>7. TablesTyped'
    BY <1>1, <2>1, <2>3 DEF TypeOK, TablesTyped
  <2>8. TablesSound'
    BY <1>1, <2>1, <2>5, <2>6, SoundStaysSound DEF TablesSound
  <2> QED
    BY <2>1, <2>5, <2>7, <2>8, WriteStep
<1>3. CASE MergeScores(w) \/ MergeVotes(w)
  <2>1. PICK stage \in {"scores", "votes"} : MergeFacts(w, stage)
    BY <1>3 DEF MergeScores, MergeVotes
  <2>2. /\ Write(w, stage) /\ At(w, stage) /\ HasRead(w)
        /\ facts' = Overlay(facts, buf[w][1]) /\ UNCHANGED <<bronze, silver, dim, dimFacts>>
    BY <2>1 DEF MergeFacts, Write
  <2>3. FactsSound(buf[w][1]) /\ FactsSound(facts) /\ facts \in FactTable
    BY <1>1, <2>2 DEF HeldSound, TablesSound, TypeOK, At
  <2>4. /\ facts' \in FactTable /\ FactsSound(facts')
        /\ \A f \in FactKeys : facts[f] # Absent => facts'[f] # Absent
    BY <2>2, <2>3, OverlaySound
  <2>5. Grown
    BY <2>2, <2>4 DEF Grown, Sources
  <2>6. TablesTyped'
    BY <1>1, <2>2, <2>4 DEF TypeOK, TablesTyped
  <2>7. FactsSound(facts)'
    BY <2>2, <2>4 DEF FactsSound, Sources
  <2>8. TablesSound'
    BY <1>1, <2>2, <2>5, <2>7, SoundStaysSound DEF TablesSound
  <2> QED
    BY <2>2, <2>5, <2>6, <2>8, WriteStep
<1>4. CASE MergeAggregates(w)
  <2>1. /\ Write(w, "aggregates") /\ At(w, "aggregates") /\ HasRead(w)
        /\ silver' = IF silver = NoPerson THEN silver ELSE [silver EXCEPT !.counts = buf[w][1]]
        /\ UNCHANGED <<bronze, facts, dim, dimFacts>>
    BY <1>4 DEF MergeAggregates, Write
  <2>2. CountsSound(buf[w][1]) /\ buf[w][1] \in CountsRecord
    BY <1>1, <2>1 DEF HeldSound, CountsSound
  <2>3. silver # NoPerson => /\ silver' \in Person /\ silver'.src = silver.src
                             /\ silver'.address = silver.address /\ silver'.counts = buf[w][1]
    BY <1>1, <2>1, <2>2 DEF TypeOK, Person
  <2>4. silver # NoPerson => silver' # NoPerson
    BY <2>3, PersonIsSomebody
  <2>5. Grown
    BY <2>1, <2>4 DEF Grown, Sources
  <2>6. silver # NoPerson => PersonSound(silver)'
    <3> SUFFICES ASSUME silver # NoPerson PROVE PersonSound(silver)'
      OBVIOUS
    <3>1. PersonSound(silver)
      BY <1>1 DEF TablesSound
    <3>2. silver.src \in Sources' /\ (silver.address # NoAddress => AddressSound(silver.address))
      BY <2>5, <3>1 DEF PersonSound, Grown
    <3>3. CountsSound(silver'.counts)
      BY <2>2, <2>3
    <3>4. AddressSound(silver'.address) => AddressSound(silver.address)'
      BY <2>1 DEF AddressSound, Named, Sources
    <3>5. CountsSound(silver.counts)'
      BY <2>1, <3>3 DEF CountsSound, Voted
    <3> QED
      BY <2>3, <3>2, <3>4, <3>5 DEF PersonSound
  <2>7. TablesTyped'
    BY <1>1, <2>1, <2>3 DEF TypeOK, TablesTyped
  <2>8. TablesSound'
    BY <1>1, <2>1, <2>5, <2>6, SoundStaysSound DEF TablesSound
  <2> QED
    BY <2>1, <2>5, <2>7, <2>8, WriteStep
<1> QED
  BY <1>2, <1>3, <1>4

\* What a stage writes to PostgreSQL is sound.
LEMMA PostgresKeeps ==
    ASSUME IInv, NEW w \in Workers,
           UpsertDim(w) \/ UpsertDimScores(w) \/ UpsertDimVotes(w) \/ LinkDim(w)
    PROVE  IInv'
<1>1. HeldSound(w) /\ TablesSound /\ TypeOK
  BY DEF IInv
<1>2. UNCHANGED <<bronze, silver, facts>> /\ Sources' = Sources
  BY DEF UpsertDim, UpsertDimScores, UpsertDimVotes, UpsertDimFacts, LinkDim, Sources
<1>3. Grown
  BY <1>2 DEF Grown
<1>4. \A person : PersonSound(person) <=> PersonSound(person)'
  BY <1>2 DEF PersonSound, AddressSound, Named, CountsSound, Voted
<1>5. CASE UpsertDim(w)
  <2>1. /\ Write(w, "dimPersons") /\ At(w, "dimPersons") /\ HasRead(w)
        /\ dim' = [buf[w][1] EXCEPT !.address = IF dim = NoPerson THEN NoAddress ELSE dim.address]
        /\ dimFacts' = dimFacts
    BY <1>5 DEF UpsertDim, Write
  <2>2. PersonSound(buf[w][1]) /\ (dim # NoPerson => PersonSound(dim) /\ dim \in Person)
    BY <1>1, <2>1 DEF HeldSound, TablesSound, PersonSound
  <2> DEFINE a == IF dim = NoPerson THEN NoAddress ELSE dim.address
  <2>3. a \in Addresses \cup {NoAddress} /\ (a # NoAddress => AddressSound(a))
    BY <2>2 DEF PersonSound, Person
  <2> HIDE DEF a
  <2>4. /\ dim' \in Person /\ dim'.src = buf[w][1].src /\ dim'.address = a
        /\ dim'.counts = buf[w][1].counts
    BY <2>1, <2>2, <2>3 DEF PersonSound, Person, a
  <2>5. PersonSound(dim')
    BY <2>2, <2>3, <2>4 DEF PersonSound
  <2>6. PersonSound(dim)'
    <3>1. PICK person : person = dim'
      OBVIOUS
    <3> QED
      BY <1>4, <2>5, <3>1 DEF PersonSound, AddressSound, Named, CountsSound
  <2>7. TablesTyped'
    BY <1>1, <1>2, <2>1, <2>4 DEF TypeOK, TablesTyped
  <2>8. dim' # NoPerson
    BY <2>4, PersonIsSomebody
  <2>9. TablesSound'
    BY <1>1, <1>2, <1>3, <2>1, <2>6, <2>8, SoundStaysSound DEF TablesSound
  <2> QED
    BY <1>2, <1>3, <2>1, <2>7, <2>9, WriteStep
<1>6. CASE UpsertDimScores(w) \/ UpsertDimVotes(w)
  <2>1. PICK stage \in {"dimScores", "dimVotes"} : UpsertDimFacts(w, stage)
    BY <1>6 DEF UpsertDimScores, UpsertDimVotes
  <2>2. /\ Write(w, stage) /\ At(w, stage) /\ HasRead(w) /\ dim' = dim
        /\ dimFacts' = IF dim = NoPerson THEN dimFacts ELSE Overlay(dimFacts, buf[w][1])
    BY <2>1 DEF UpsertDimFacts, Write
  <2>3. ShownFacts(buf[w][1]) /\ ShownFacts(dimFacts) /\ dimFacts \in FactTable
    BY <1>1, <2>2 DEF HeldSound, TablesSound, TypeOK, At
  <2>4. dimFacts' \in FactTable /\ ShownFacts(dimFacts')
    <3>1. CASE dim = NoPerson
      BY <2>2, <2>3, <3>1
    <3>2. CASE dim # NoPerson
      <4>1. Overlay(dimFacts, buf[w][1]) \in FactTable /\ FactsSound(Overlay(dimFacts, buf[w][1]))
        BY <2>3, OverlaySound DEF ShownFacts
      <4>2. \A f \in FactKeys : Overlay(dimFacts, buf[w][1])[f] # Absent => facts[f] # Absent
        BY <2>3 DEF ShownFacts, Overlay, FactTable
      <4>3. DOMAIN Overlay(dimFacts, buf[w][1]) = FactKeys
        BY DEF Overlay
      <4> QED
        BY <2>2, <3>2, <4>1, <4>2, <4>3 DEF ShownFacts
    <3> QED
      BY <3>1, <3>2
  <2>5. ShownFacts(dimFacts)'
    BY <1>2, <2>4 DEF ShownFacts, FactsSound
  <2>6. TablesTyped'
    BY <1>1, <1>2, <2>2, <2>4 DEF TypeOK, TablesTyped
  <2>7. dim' = NoPerson => \A f \in FactKeys : dimFacts'[f] = Absent
    BY <1>1, <2>2 DEF TablesSound
  <2>8. TablesSound'
    BY <1>1, <1>2, <1>3, <2>2, <2>5, <2>7, SoundStaysSound DEF TablesSound
  <2> QED
    BY <1>2, <1>3, <2>2, <2>6, <2>8, WriteStep
<1>7. CASE LinkDim(w)
  <2>1. /\ Write(w, "linkDim") /\ At(w, "linkDim") /\ HasRead(w)
        /\ dim' = IF dim = NoPerson THEN dim ELSE [dim EXCEPT !.address = buf[w][1]]
        /\ dimFacts' = dimFacts
    BY <1>7 DEF LinkDim, Write
  <2>2. AddressSound(buf[w][1]) /\ buf[w][1] \in Addresses
    BY <1>1, <2>1 DEF HeldSound, AddressSound
  <2>3. dim # NoPerson => /\ dim' \in Person /\ dim'.src = dim.src
                          /\ dim'.address = buf[w][1] /\ dim'.counts = dim.counts
    BY <1>1, <2>1, <2>2 DEF TypeOK, Person
  <2>4. dim' # NoPerson <=> dim # NoPerson
    BY <2>1, <2>3, PersonIsSomebody
  <2>5. dim # NoPerson => PersonSound(dim')
    BY <1>1, <2>2, <2>3 DEF PersonSound, TablesSound
  <2>6. dim # NoPerson => PersonSound(dim)'
    BY <1>2, <2>5 DEF PersonSound, AddressSound, Named, CountsSound
  <2>7. TablesTyped'
    BY <1>1, <1>2, <2>1, <2>3 DEF TypeOK, TablesTyped
  <2>8. TablesSound'
    BY <1>1, <1>2, <1>3, <2>1, <2>4, <2>6, SoundStaysSound DEF TablesSound
  <2> QED
    BY <1>2, <1>3, <2>1, <2>7, <2>8, WriteStep
<1> QED
  BY <1>5, <1>6, <1>7

\* The lowest of the candidates lies where the person lives; without one, and
\* when a command dies, the command ends.
LEMMA ResolveKeeps ==
    ASSUME IInv, NEW w \in Workers, Resolve(w)
    PROVE  IInv'
<1> DEFINE found == Candidates(buf[w][1])
<1>1. /\ left[w] # <<>> /\ Head(left[w]) = "resolve" /\ HasRead(w)
      /\ Continue(w, IF found = {} THEN <<>> ELSE Tail(left[w]))
      /\ buf' = [buf EXCEPT ![w] = IF found = {} THEN <<>> ELSE <<Lowest(found)>>]
      /\ UNCHANGED <<tables, located>>
  BY DEF Resolve, At
<1>2. silver # NoPerson /\ Named(buf[w][1])
  BY <1>1 DEF IInv, HeldSound, At
<1>3. /\ found \in SUBSET Nat /\ found \subseteq Addresses
      /\ \A a \in found : PlaceOf[a] = buf[w][1]
  BY AddressesAssumption DEF Candidates, IInv, TypeOK
<1> HIDE DEF found
<1>4. CASE found = {}
  BY <1>1, <1>4, EndStep
<1>5. CASE found # {}
  <2>a. PICK a : a = Lowest(found)
    OBVIOUS
  <2> DEFINE l == Tail(left[w])
  <2>1. a \in found
    <3>1. \E i \in found : \A j \in found : i <= j
      BY <1>3, <1>5, LeastElement
    <3> QED
      BY <2>a, <3>1 DEF Lowest
  <2>2. AddressSound(a)
    BY <1>2, <1>3, <2>1 DEF AddressSound
  <2>3. left[w] \in Seq(StageNames) /\ WellOrdered(left[w])
    BY DEF IInv, Control
  <2>4. l \in Seq(StageNames) /\ WellOrdered(l) /\ l # <<>> /\ Head(l) = "linkSilver"
    BY <1>1, <2>3, NextStage
  <2> HIDE DEF l
  <2>5. left' = [left EXCEPT ![w] = l] /\ buf' = [buf EXCEPT ![w] = <<a>>]
    BY <1>1, <1>5, <2>a DEF Continue, l
  <2>6. command[w] \in {"none"} \cup Commands /\ command' = [command EXCEPT ![w] = command[w]]
    BY <1>1, <1>5, <2>4 DEF Continue, IInv, TypeOK, l
  <2>7. left'[w] = l /\ buf'[w] = <<a>>
    BY <2>5 DEF IInv, Control
  <2>8. TablesTyped' /\ TablesSound' /\ Grown
    BY <1>1, StillSound
  <2>9. HeldSound(w)'
    <3>1. silver' # NoPerson /\ AddressSound(a)'
      BY <1>1, <1>2, <2>2 DEF tables, AddressSound, Named, Sources
    <3>2. buf'[w] # <<>> /\ buf'[w][1] = a
      BY <2>7
    <3> QED
      BY <2>4, <2>7, <3>1, <3>2 DEF HeldSound, At, HasRead, AddressSound, Named, Sources
  <2>10. Bounded'
    BY <1>1, <2>4, <2>5, NobodyNewAppends DEF tables
  <2> QED
    BY <1>1, <2>4, <2>5, <2>6, <2>8, <2>9, <2>10, WorkerStep
<1> QED
  BY <1>4, <1>5

LEMMA LinkSilverKeeps ==
    ASSUME IInv, NEW w \in Workers, LinkSilver(w)
    PROVE  IInv'
<1>a. PICK a : a = buf[w][1]
  OBVIOUS
<1> DEFINE l == Tail(left[w])
<1>1. /\ left[w] # <<>> /\ Head(left[w]) = "linkSilver" /\ Continue(w, l)
      /\ silver' = [silver EXCEPT !.address = a]
      /\ UNCHANGED <<bronze, facts, dim, dimFacts, located, buf>>
  BY <1>a DEF LinkSilver, At
<1>2. /\ HasRead(w) /\ silver # NoPerson /\ AddressSound(a) /\ a \in Addresses
      /\ buf[w] = <<a>>
  BY <1>1, <1>a DEF IInv, HeldSound, At, AddressSound, HasRead, Control
<1>3. left[w] \in Seq(StageNames) /\ WellOrdered(left[w])
  BY DEF IInv, Control
<1>4. l \in Seq(StageNames) /\ WellOrdered(l) /\ l # <<>> /\ Head(l) = "linkDim"
  BY <1>1, <1>3, NextStage
<1> HIDE DEF l
<1>5. /\ silver' \in Person /\ silver'.src = silver.src /\ silver'.counts = silver.counts
      /\ silver'.address = a
  BY <1>1, <1>2 DEF IInv, TypeOK, Person
<1>6. Grown
  BY <1>1, <1>5, PersonIsSomebody DEF Grown, Sources
<1>7. PersonSound(silver)'
  <2>1. PersonSound(silver')
    BY <1>2, <1>5 DEF PersonSound, IInv, TablesSound
  <2> QED
    BY <1>1, <2>1 DEF PersonSound, AddressSound, Named, Sources, CountsSound, Voted
<1>8. TablesTyped'
  BY <1>1, <1>5 DEF IInv, TypeOK, TablesTyped
<1>9. TablesSound'
  BY <1>1, <1>6, <1>7, SoundStaysSound DEF IInv, TablesSound
<1>10. /\ left' = [left EXCEPT ![w] = l] /\ buf' = [buf EXCEPT ![w] = <<a>>]
       /\ command[w] \in {"none"} \cup Commands /\ command' = [command EXCEPT ![w] = command[w]]
  BY <1>1, <1>2, <1>4 DEF Continue, IInv, TypeOK, Control
<1>11. left'[w] = l /\ buf'[w] = <<a>>
  BY <1>10 DEF IInv, Control
<1>12. HeldSound(w)'
  <2>1. AddressSound(a)' /\ silver' # NoPerson
    BY <1>2, <1>5, <1>6, PersonIsSomebody DEF AddressSound, Named, Grown
  <2>2. buf'[w] # <<>> /\ buf'[w][1] = a
    BY <1>11
  <2> QED
    BY <1>4, <1>11, <2>1, <2>2 DEF HeldSound, At, HasRead, AddressSound, Named, Sources
<1>13. Bounded'
  BY <1>1, <1>4, <1>10, NobodyNewAppends
<1> QED
  BY <1>1, <1>4, <1>6, <1>8, <1>9, <1>10, <1>12, <1>13, WorkerStep

LEMMA DieKeeps ==
    ASSUME IInv, NEW w \in Workers, Die(w)
    PROVE  IInv'
BY EndStep DEF Die

\* A step that leaves the workers and the tables alone.
LEMMA QuietKeeps ==
    ASSUME IInv, UNCHANGED <<tables, command, left, buf>>, located' \subseteq Addresses
    PROVE  IInv'
<1>1. TablesTyped' /\ TablesSound' /\ Grown
  BY StillSound
<1>2. Control'
  BY DEF IInv, Control
<1>3. \A w \in Workers : HeldSound(w)'
  BY <1>1, HeldStaysSound DEF IInv
<1>4. Bounded'
  BY DEF IInv, Bounded, Pending, At, tables
<1>5. TypeOK'
  BY DEF IInv, TypeOK, tables
<1> QED
  BY <1>1, <1>2, <1>3, <1>4, <1>5 DEF IInv

LEMMA IInvNext == IInv /\ [Next]_vars => IInv'
<1> SUFFICES ASSUME IInv, [Next]_vars PROVE IInv'
  OBVIOUS
<1>1. CASE UNCHANGED vars
  <2>1. located' \subseteq Addresses
    BY <1>1 DEF vars, IInv, TypeOK
  <2> QED
    BY <1>1, <2>1, QuietKeeps DEF vars
<1>2. ASSUME NEW a \in Addresses, LocateAddress(a) PROVE IInv'
  <2>1. located' \subseteq Addresses
    BY <1>2 DEF LocateAddress, IInv, TypeOK
  <2> QED
    BY <1>2, <2>1, QuietKeeps DEF LocateAddress
<1>3. ASSUME NEW w \in Workers, NEW name \in Commands, NEW record \in Records \cup {NoRecord},
             Begin(w, name, record)
      PROVE  IInv'
  BY <1>3, BeginKeeps
<1>4. ASSUME NEW w \in Workers, AppendBronze(w) PROVE IInv'
  BY <1>4, AppendKeeps
<1>5. ASSUME NEW w \in Workers,
             \/ ReadPersons(w) \/ ReadScores(w) \/ ReadVotes(w) \/ ReadAggregates(w)
             \/ ReadDimPersons(w) \/ ReadDimScores(w) \/ ReadDimVotes(w) \/ ReadUnlinked(w)
      PROVE  IInv'
  BY <1>5, ReadingKeeps
<1>6. ASSUME NEW w \in Workers,
             MergePersons(w) \/ MergeScores(w) \/ MergeVotes(w) \/ MergeAggregates(w)
      PROVE  IInv'
  BY <1>6, SilverKeeps
<1>7. ASSUME NEW w \in Workers,
             UpsertDim(w) \/ UpsertDimScores(w) \/ UpsertDimVotes(w) \/ LinkDim(w)
      PROVE  IInv'
  BY <1>7, PostgresKeeps
<1>8. ASSUME NEW w \in Workers, Resolve(w) \/ LinkSilver(w) \/ Die(w) PROVE IInv'
  BY <1>8, ResolveKeeps, LinkSilverKeeps, DieKeeps
<1> QED
  BY <1>1, <1>2, <1>3, <1>4, <1>5, <1>6, <1>7, <1>8 DEF Next

LEMMA Invariance == Spec => []IInv
<1> QED
  BY IInvInit, IInvNext, PTL DEF Spec

-----------------------------------------------------------------------------
(* Commands that nobody disturbs *)

\* the stages that materialize_all, and an ingest that counts, still have to do
MaterializeLeft ==
    {<<"dimPersons", "dimScores", "dimVotes">>, <<"dimScores", "dimVotes">>, <<"dimVotes">>}
CountingLeft ==
    {<<"append", "persons", "scores", "votes", "aggregates">>,
     <<"append", "persons", "votes", "aggregates">>,
     <<"persons", "scores", "votes", "aggregates">>, <<"persons", "votes", "aggregates">>,
     <<"scores", "votes", "aggregates">>, <<"votes", "aggregates">>, <<"aggregates">>}
Counting == {"ingestVotes", "ingestAll"}

OnCourse(w) ==
    /\ command[w] = "all" => left[w] \in MaterializeLeft
    /\ command[w] \in Counting => left[w] \in CountingLeft

\* what materialize_all has copied is still what silver says
Mirroring(w) ==
    command[w] = "all" /\ alone[w] =>
        /\ At(w, "dimPersons") /\ HasRead(w) => buf[w][1] = silver
        /\ ~At(w, "dimPersons") /\ silver # NoPerson =>
              dim # NoPerson /\ dim.src = silver.src /\ dim.counts = silver.counts
        /\ At(w, "dimScores") /\ HasRead(w) => buf[w][1] = [f \in ScoreTypes |-> facts[f]]
        /\ At(w, "dimVotes") /\ silver # NoPerson => \A f \in ScoreTypes : dimFacts[f] = facts[f]
        /\ At(w, "dimVotes") /\ HasRead(w) => buf[w][1] = [f \in Elections |-> facts[f]]

\* an ingest that counts has a person to count for, and counts all there is
Countable(w) ==
    command[w] \in Counting /\ alone[w] =>
        /\ ~At(w, "append") /\ ~At(w, "persons") /\ bronze # <<>> => silver # NoPerson
        /\ At(w, "aggregates") /\ HasRead(w) => buf[w][1] = Counts(facts)

Undisturbed ==
    /\ alone = [w \in Workers |-> alone[w]]
    /\ \A w \in Workers : OnCourse(w) /\ Mirroring(w) /\ Countable(w)

LEMMA CourseAhead ==
    ASSUME NEW w \in Workers, OnCourse(w)
    PROVE  /\ command[w] = "all" =>
                /\ left[w] # <<>> /\ Head(left[w]) \in {"dimPersons", "dimScores", "dimVotes"}
                /\ Tail(left[w]) = <<>> <=> Head(left[w]) = "dimVotes"
                /\ Tail(left[w]) # <<>> => Tail(left[w]) \in MaterializeLeft
                /\ Head(left[w]) = "dimPersons" => Head(Tail(left[w])) = "dimScores"
                /\ Head(left[w]) = "dimScores" => Head(Tail(left[w])) = "dimVotes"
           /\ command[w] \in Counting =>
                /\ left[w] # <<>>
                /\ Head(left[w]) \in {"append", "persons", "scores", "votes", "aggregates"}
                /\ Tail(left[w]) = <<>> <=> Head(left[w]) = "aggregates"
                /\ Tail(left[w]) # <<>> => Tail(left[w]) \in CountingLeft
                /\ Head(left[w]) = "append" => Head(Tail(left[w])) = "persons"
                /\ Head(left[w]) # "append" /\ Tail(left[w]) # <<>> =>
                      Head(Tail(left[w])) \in {"scores", "votes", "aggregates"}
<1>1. /\ Tail(<<"dimPersons", "dimScores", "dimVotes">>) = <<"dimScores", "dimVotes">>
      /\ Tail(<<"dimScores", "dimVotes">>) = <<"dimVotes">>
      /\ Tail(<<"dimVotes">>) = <<>>
  OBVIOUS
<1>2. /\ Tail(<<"append", "persons", "scores", "votes", "aggregates">>)
           = <<"persons", "scores", "votes", "aggregates">>
      /\ Tail(<<"append", "persons", "votes", "aggregates">>) = <<"persons", "votes", "aggregates">>
      /\ Tail(<<"persons", "scores", "votes", "aggregates">>) = <<"scores", "votes", "aggregates">>
      /\ Tail(<<"persons", "votes", "aggregates">>) = <<"votes", "aggregates">>
      /\ Tail(<<"scores", "votes", "aggregates">>) = <<"votes", "aggregates">>
      /\ Tail(<<"votes", "aggregates">>) = <<"aggregates">>
      /\ Tail(<<"aggregates">>) = <<>>
  OBVIOUS
<1> DEFINE Materialized(l) ==
              /\ l # <<>> /\ Head(l) \in {"dimPersons", "dimScores", "dimVotes"}
              /\ Tail(l) = <<>> <=> Head(l) = "dimVotes"
              /\ Tail(l) # <<>> => Tail(l) \in MaterializeLeft
              /\ Head(l) = "dimPersons" => Head(Tail(l)) = "dimScores"
              /\ Head(l) = "dimScores" => Head(Tail(l)) = "dimVotes"
           Counted(l) ==
              /\ l # <<>> /\ Head(l) \in {"append", "persons", "scores", "votes", "aggregates"}
              /\ Tail(l) = <<>> <=> Head(l) = "aggregates"
              /\ Tail(l) # <<>> => Tail(l) \in CountingLeft
              /\ Head(l) = "append" => Head(Tail(l)) = "persons"
              /\ Head(l) # "append" /\ Tail(l) # <<>> =>
                    Head(Tail(l)) \in {"scores", "votes", "aggregates"}
<1>3. /\ Materialized(<<"dimPersons", "dimScores", "dimVotes">>)
      /\ Materialized(<<"dimScores", "dimVotes">>)
      /\ Materialized(<<"dimVotes">>)
  BY <1>1 DEF MaterializeLeft
<1>4. /\ Counted(<<"append", "persons", "scores", "votes", "aggregates">>)
      /\ Counted(<<"append", "persons", "votes", "aggregates">>)
      /\ Counted(<<"persons", "scores", "votes", "aggregates">>)
  BY <1>2 DEF CountingLeft
<1>5. /\ Counted(<<"persons", "votes", "aggregates">>)
      /\ Counted(<<"scores", "votes", "aggregates">>)
      /\ Counted(<<"votes", "aggregates">>)
      /\ Counted(<<"aggregates">>)
  BY <1>2 DEF CountingLeft
<1> HIDE DEF Materialized, Counted
<1>6. /\ command[w] = "all" => Materialized(left[w])
      /\ command[w] \in Counting => Counted(left[w])
  BY <1>3, <1>4, <1>5 DEF OnCourse, MaterializeLeft, CountingLeft
<1> QED
  BY <1>6 DEF Materialized, Counted

\* What a step of w leaves of the others: theirs, and what they know unless it
\* has disturbed them.
Apart(w) ==
    /\ \A v \in Workers \ {w} :
          /\ command'[v] = command[v] /\ left'[v] = left[v] /\ buf'[v] = buf[v]
          /\ alone'[v] => alone[v] /\ UNCHANGED tables
    /\ alone' = [v \in Workers |-> alone'[v]]

\* w is through with a stage, or has read for it, or gives the command up.
Advanced(w) ==
    /\ left'[w] = Tail(left[w]) /\ buf'[w] = <<>>
    /\ command'[w] = IF Tail(left[w]) = <<>> THEN "none" ELSE command[w]
    /\ alone'[w] => alone[w]
HasNow(w, value) ==
    /\ command'[w] = command[w] /\ left'[w] = left[w] /\ buf'[w] = <<value>>
    /\ alone'[w] = alone[w] /\ UNCHANGED tables
Ended(w) == command'[w] = "none"

LEMMA OthersUndisturbed ==
    ASSUME Undisturbed, NEW w \in Workers, Apart(w), NEW v \in Workers \ {w}
    PROVE  OnCourse(v)' /\ Mirroring(v)' /\ Countable(v)'
<1>1. OnCourse(v) /\ Mirroring(v) /\ Countable(v)
  BY DEF Undisturbed
<1>2. OnCourse(v)'
  BY <1>1 DEF Apart, OnCourse
<1>3. Mirroring(v)'
  BY <1>1 DEF Apart, Mirroring, At, HasRead, tables
<1>4. Countable(v)'
  <2>1. SUFFICES ASSUME command'[v] \in Counting, alone'[v] PROVE Countable(v)'
    BY DEF Countable
  <2>2. alone[v] /\ UNCHANGED <<tables, command[v], left[v], buf[v]>>
    BY <2>1 DEF Apart
  <2>3. Counts(facts)' = Counts(facts)
    BY <2>2 DEF tables, Counts, Voted
  <2> QED
    BY <1>1, <2>2, <2>3 DEF Countable, At, HasRead, tables
<1> QED
  BY <1>2, <1>3, <1>4

LEMMA WriteAdvances ==
    ASSUME IInv, Undisturbed, NEW w \in Workers, NEW stage, Write(w, stage)
    PROVE  Apart(w) /\ Advanced(w)
<1>1. /\ left' = [left EXCEPT ![w] = Tail(left[w])] /\ buf' = [buf EXCEPT ![w] = <<>>]
      /\ command' = [command EXCEPT ![w] = IF Tail(left[w]) = <<>> THEN "none" ELSE @]
      /\ alone' = [v \in Workers |-> v = w /\ alone[v] /\ left'[v] # <<>>]
  BY DEF Write, Proceed, Continue, Disturb
<1> QED
  BY <1>1 DEF Apart, Advanced, IInv, Control, TypeOK

LEMMA SkipAdvances ==
    ASSUME IInv, Undisturbed, NEW w \in Workers, NEW stage, Skip(w, stage)
    PROVE  Apart(w) /\ Advanced(w) /\ UNCHANGED tables
<1>1. /\ left' = [left EXCEPT ![w] = Tail(left[w])] /\ buf' = [buf EXCEPT ![w] = <<>>]
      /\ command' = [command EXCEPT ![w] = IF Tail(left[w]) = <<>> THEN "none" ELSE @]
      /\ alone' = [alone EXCEPT ![w] = @ /\ left'[w] # <<>>] /\ UNCHANGED tables
  BY DEF Skip, Proceed, Continue, Undisturbing
<1> QED
  BY <1>1 DEF Apart, Advanced, IInv, Control, TypeOK, Undisturbed

LEMMA ReadHasNow ==
    ASSUME IInv, Undisturbed, NEW w \in Workers, NEW stage, NEW value, Read(w, stage, value)
    PROVE  Apart(w) /\ HasNow(w, value)
BY DEF Read, Apart, HasNow, IInv, Control, Undisturbed, tables

\* A command that ended, or is none of those three.
LEMMA EndedIsFine ==
    ASSUME NEW w \in Workers, command'[w] # "all", command'[w] \notin Counting
    PROVE  OnCourse(w)' /\ Mirroring(w)' /\ Countable(w)'
BY DEF OnCourse, Mirroring, Countable

\* The step of w, from what becomes of its own command.
LEMMA StepUndisturbed ==
    ASSUME Undisturbed, NEW w \in Workers, Apart(w),
           OnCourse(w)' /\ Mirroring(w)' /\ Countable(w)'
    PROVE  Undisturbed'
BY OthersUndisturbed DEF Undisturbed, Apart

LEMMA AdvancedOnCourse ==
    ASSUME NEW w \in Workers, OnCourse(w), Advanced(w)
    PROVE  OnCourse(w)'
<1>1. command'[w] # "none" => command'[w] = command[w] /\ Tail(left[w]) # <<>>
  BY DEF Advanced
<1> QED
  BY <1>1, CourseAhead DEF Advanced, OnCourse, Counting

LEMMA BeginUndisturbed ==
    ASSUME IInv, Undisturbed, NEW w \in Workers, NEW name \in Commands,
           NEW record \in Records \cup {NoRecord}, Begin(w, name, record)
    PROVE  Undisturbed'
<1>1. /\ left' = [left EXCEPT ![w] = Stages[name]] /\ command' = [command EXCEPT ![w] = name]
      /\ buf' = [buf EXCEPT ![w] = IF Ingests(name) THEN <<record>> ELSE <<>>]
      /\ alone' = [alone EXCEPT ![w] = TRUE] /\ UNCHANGED tables
  BY DEF Begin
<1>2. Apart(w)
  BY <1>1 DEF Apart, IInv, Control, TypeOK, Undisturbed
<1>3. left'[w] = Stages[name] /\ command'[w] = name
  BY <1>1 DEF IInv, Control, TypeOK
<1>4. /\ name = "all" => Stages[name] = <<"dimPersons", "dimScores", "dimVotes">>
      /\ name = "ingestVotes" => Stages[name] = <<"append", "persons", "votes", "aggregates">>
      /\ name = "ingestAll" => Stages[name] = <<"append", "persons", "scores", "votes", "aggregates">>
  BY DEF Stages, VoteHistory, MaterializeAll
<1>5. OnCourse(w)'
  BY <1>3, <1>4 DEF OnCourse, MaterializeLeft, CountingLeft, Counting
<1>6. /\ name = "all" => Head(Stages[name]) = "dimPersons" /\ Stages[name] # <<>>
      /\ name \in Counting => Head(Stages[name]) = "append" /\ Stages[name] # <<>>
  BY <1>4 DEF Counting
<1>7. name = "all" => buf'[w] = <<>>
  BY <1>1, <1>6 DEF Ingests, IInv, Control
<1>8. Mirroring(w)' /\ Countable(w)'
  BY <1>3, <1>6, <1>7 DEF Mirroring, Countable, At, HasRead
<1> QED
  BY <1>2, <1>5, <1>8, StepUndisturbed

\* A step at a stage none of the three has.
LEMMA ElsewhereUndisturbed ==
    ASSUME Undisturbed, NEW w \in Workers, Apart(w), Ended(w) \/ command'[w] = command[w],
           left[w] # <<>>, Head(left[w]) \in {"resolve", "linkSilver", "linkDim"}
    PROVE  Undisturbed'
<1>1. command[w] # "all" /\ command[w] \notin Counting
  BY CourseAhead DEF Undisturbed
<1>2. command'[w] # "all" /\ command'[w] \notin Counting
  BY <1>1 DEF Ended, Counting
<1> QED
  BY <1>2, EndedIsFine, StepUndisturbed

\* A stage of an ingest is through with the voter.
LEMMA IngestAdvances ==
    ASSUME Undisturbed, NEW w \in Workers, Apart(w), Advanced(w), left[w] # <<>>,
           Head(left[w]) \in {"append", "persons", "scores", "votes", "aggregates"},
           Head(left[w]) = "persons" /\ bronze' # <<>> => silver' # NoPerson,
           Head(left[w]) \in {"scores", "votes"} => UNCHANGED <<bronze, silver>>
    PROVE  Undisturbed'
<1>1. OnCourse(w) /\ Countable(w)
  BY DEF Undisturbed
<1>2. OnCourse(w)' /\ command'[w] # "all"
  BY <1>1, AdvancedOnCourse, CourseAhead DEF Advanced
<1>3. Mirroring(w)'
  BY <1>2 DEF Mirroring
<1>4. Countable(w)'
  <2> SUFFICES ASSUME command'[w] \in Counting, alone'[w]
               PROVE  /\ ~At(w, "append")' /\ ~At(w, "persons")' /\ bronze' # <<>> => silver' # NoPerson
                      /\ ~HasRead(w)'
    BY DEF Countable
  <2>1. command[w] = command'[w] /\ command[w] \in Counting /\ Tail(left[w]) # <<>> /\ alone[w]
    BY DEF Advanced, Counting
  <2>2. left'[w] # <<>> /\ (Head(left[w]) = "append" => Head(left'[w]) = "persons")
        /\ Head(left[w]) # "aggregates"
    BY <1>1, <2>1, CourseAhead DEF Advanced
  <2>3. ~HasRead(w)'
    BY DEF HasRead, Advanced
  <2>4. CASE Head(left[w]) \in {"scores", "votes"}
    BY <1>1, <2>1, <2>3, <2>4 DEF Countable, At
  <2>5. CASE Head(left[w]) \in {"append", "persons"}
    BY <2>2, <2>3, <2>5 DEF At
  <2> QED
    BY <2>2, <2>4, <2>5
<1> QED
  BY <1>2, <1>3, <1>4, StepUndisturbed

LEMMA IngestUndisturbed ==
    ASSUME IInv, Undisturbed, NEW w \in Workers,
           \/ AppendBronze(w) \/ ReadPersons(w) \/ MergePersons(w)
           \/ ReadScores(w) \/ MergeScores(w) \/ ReadVotes(w) \/ MergeVotes(w)
           \/ ReadAggregates(w) \/ MergeAggregates(w)
    PROVE  Undisturbed'
<1>1. ASSUME NEW stage \in {"append", "persons", "scores", "votes", "aggregates"}, Write(w, stage),
             stage = "persons" => silver' # NoPerson,
             stage \in {"scores", "votes"} => UNCHANGED <<bronze, silver>>
      PROVE  Undisturbed'
  <2>1. Apart(w) /\ Advanced(w) /\ left[w] # <<>> /\ Head(left[w]) = stage
    BY <1>1, WriteAdvances DEF Write, At
  <2> QED
    BY <1>1, <2>1, IngestAdvances
<1>2. ASSUME NEW stage \in {"persons", "scores", "votes", "aggregates"}, NEW value,
             Read(w, stage, value), stage = "aggregates" => value = Counts(facts)
      PROVE  Undisturbed'
  <2>1. Apart(w) /\ HasNow(w, value) /\ left[w] # <<>> /\ Head(left[w]) = stage
    BY <1>2, ReadHasNow DEF Read, At
  <2>2. OnCourse(w) /\ Countable(w)
    BY DEF Undisturbed
  <2>3. command[w] # "all" /\ OnCourse(w)'
    BY <2>1, <2>2, CourseAhead DEF HasNow, OnCourse
  <2>4. Mirroring(w)'
    BY <2>1, <2>3 DEF Mirroring, HasNow
  <2>5. buf'[w][1] = value
    BY <2>1 DEF HasNow
  <2>6. UNCHANGED <<silver, bronze, facts>> /\ Counts(facts') = Counts(facts)
    BY <2>1 DEF HasNow, tables
  <2>7. Countable(w)'
    BY <1>2, <2>1, <2>2, <2>5, <2>6 DEF Countable, HasNow, At, HasRead
  <2> QED
    BY <2>1, <2>3, <2>4, <2>7, StepUndisturbed
<1>3. CASE AppendBronze(w)
  BY <1>1, <1>3 DEF AppendBronze
<1>4. CASE ReadPersons(w)
  <2>1. CASE bronze = <<>> /\ Skip(w, "persons")
    <3>1. /\ Apart(w) /\ Advanced(w) /\ left[w] # <<>> /\ Head(left[w]) = "persons"
          /\ bronze' = <<>>
      BY <2>1, SkipAdvances DEF Skip, At, tables
    <3> QED
      BY <3>1, IngestAdvances
  <2> QED
    BY <1>2, <1>4, <2>1 DEF ReadPersons
<1>5. CASE MergePersons(w)
  <2>1. silver' # NoPerson
    <3>1. IInv'
      BY <1>5, SilverKeeps
    <3>2. silver' = [src |-> buf[w][1], address |-> NoAddress, counts |-> NoCounts]
          /\ Write(w, "persons")
      BY <1>5 DEF MergePersons
    <3>3. silver' \in Person
      <4>1. buf[w][1] \in Sources /\ Sources \subseteq Records
        BY <3>2 DEF IInv, HeldSound, TypeOK, Sources, Write
      <4>2. NoCounts \in CountsRecord
        BY CountsAreSound DEF CountsSound
      <4> QED
        BY <3>2, <4>1, <4>2 DEF Person
    <3> QED
      BY <3>3, PersonIsSomebody
  <2> QED
    BY <1>1, <1>5, <2>1 DEF MergePersons
<1>6. CASE ReadScores(w) \/ ReadVotes(w)
  <2>1. PICK stage \in {"scores", "votes"}, keys \in {ScoreTypes, Elections}, order \in ReadOrders :
           Read(w, stage, Extracted(keys, order))
    BY <1>6 DEF ReadScores, ReadVotes, ReadFacts
  <2> QED
    BY <1>2, <2>1
<1>7. CASE MergeScores(w) \/ MergeVotes(w)
  BY <1>1, <1>7 DEF MergeScores, MergeVotes, MergeFacts
<1>8. CASE ReadAggregates(w)
  <2>1. CASE Skip(w, "aggregates")
    <3>1. Apart(w) /\ Advanced(w) /\ left[w] # <<>> /\ Head(left[w]) = "aggregates"
      BY <2>1, SkipAdvances DEF Skip, At
    <3> QED
      BY <3>1, IngestAdvances
  <2>2. CASE Read(w, "aggregates", Counts(facts))
    BY <1>2, <2>2
  <2> QED
    BY <1>8, <2>1, <2>2 DEF ReadAggregates
<1>9. CASE MergeAggregates(w)
  BY <1>1, <1>9 DEF MergeAggregates
<1> QED
  BY <1>3, <1>4, <1>5, <1>6, <1>7, <1>8, <1>9

\* A stage of materialize_all is through, or has read.
LEMMA CopyUndisturbed ==
    ASSUME Undisturbed, NEW w \in Workers, Apart(w), Advanced(w) \/ \E value : HasNow(w, value),
           left[w] # <<>>, Head(left[w]) \in {"dimPersons", "dimScores", "dimVotes"}, Mirroring(w)'
    PROVE  Undisturbed'
<1>1. OnCourse(w)
  BY DEF Undisturbed
<1>2. OnCourse(w)'
  BY <1>1, AdvancedOnCourse DEF HasNow, OnCourse
<1>3. command'[w] \notin Counting
  BY <1>1, CourseAhead DEF Advanced, HasNow, Counting
<1>4. Countable(w)'
  BY <1>3 DEF Countable
<1> QED
  BY <1>2, <1>4, StepUndisturbed

LEMMA CopyingUndisturbed ==
    ASSUME IInv, Undisturbed, NEW w \in Workers,
           \/ ReadDimPersons(w) \/ UpsertDim(w) \/ ReadDimScores(w) \/ UpsertDimScores(w)
           \/ ReadDimVotes(w) \/ UpsertDimVotes(w)
    PROVE  Undisturbed'
<1>1. OnCourse(w) /\ Mirroring(w)
  BY DEF Undisturbed
<1>2. ASSUME NEW stage \in {"dimPersons", "dimScores", "dimVotes"}, NEW value, Read(w, stage, value),
             stage = "dimPersons" => value = silver,
             stage = "dimScores" => value = [f \in ScoreTypes |-> facts[f]],
             stage = "dimVotes" => value = [f \in Elections |-> facts[f]]
      PROVE  Undisturbed'
  <2>1. Apart(w) /\ HasNow(w, value) /\ left[w] # <<>> /\ Head(left[w]) = stage
    BY <1>2, ReadHasNow DEF Read, At
  <2>2. buf'[w][1] = value
    BY <2>1 DEF HasNow
  <2>3. UNCHANGED <<silver, facts, dim, dimFacts>>
    BY <2>1 DEF HasNow, tables
  <2>4. Mirroring(w)'
    BY <1>1, <1>2, <2>1, <2>2, <2>3 DEF Mirroring, HasNow, At, HasRead
  <2> QED
    BY <2>1, <2>4, CopyUndisturbed
<1>3. CASE ReadDimPersons(w)
  <2>1. CASE silver = NoPerson /\ Skip(w, "dimPersons")
    <3>1. Apart(w) /\ Advanced(w) /\ left[w] # <<>> /\ Head(left[w]) = "dimPersons" /\ silver' = NoPerson
      BY <2>1, SkipAdvances DEF Skip, At, tables
    <3>2. Mirroring(w)'
      <4>1. ~HasRead(w)'
        BY <3>1 DEF HasRead, Advanced
      <4> QED
        BY <3>1, <4>1 DEF Mirroring
    <3> QED
      BY <3>1, <3>2, CopyUndisturbed
  <2> QED
    BY <1>2, <1>3, <2>1 DEF ReadDimPersons
<1>4. CASE UpsertDim(w)
  <2>1. /\ Apart(w) /\ Advanced(w) /\ left[w] # <<>> /\ Head(left[w]) = "dimPersons" /\ HasRead(w)
        /\ dim' = [buf[w][1] EXCEPT !.address = IF dim = NoPerson THEN NoAddress ELSE dim.address]
        /\ UNCHANGED <<silver, facts, dimFacts>>
    BY <1>4, WriteAdvances DEF UpsertDim, Write, At
  <2>2. buf[w][1] \in Person
    BY <2>1 DEF IInv, HeldSound, PersonSound, At
  <2>3. dim' # NoPerson
    <3>1. dim' \in Person
      <4> DEFINE a == IF dim = NoPerson THEN NoAddress ELSE dim.address
      <4>1. a \in Addresses \cup {NoAddress}
        BY DEF IInv, TypeOK, Person
      <4> HIDE DEF a
      <4>2. dim' = [buf[w][1] EXCEPT !.address = a]
        BY <2>1 DEF a
      <4> QED
        BY <2>2, <4>1, <4>2 DEF Person
    <3> QED
      BY <3>1, PersonIsSomebody
  <2>4. dim'.src = buf[w][1].src /\ dim'.counts = buf[w][1].counts
    BY <2>1, <2>2 DEF Person
  <2>5. Mirroring(w)'
    <3> SUFFICES ASSUME command'[w] = "all", alone'[w] PROVE Mirroring(w)'
      BY DEF Mirroring
    <3>1. command[w] = "all" /\ alone[w] /\ Head(left'[w]) = "dimScores"
      BY <1>1, <2>1, CourseAhead DEF Advanced
    <3>2. buf[w][1] = silver /\ ~HasRead(w)' /\ ~At(w, "dimVotes")'
      BY <1>1, <2>1, <3>1 DEF Mirroring, At, HasRead, Advanced
    <3> QED
      BY <2>1, <2>3, <2>4, <3>2 DEF Mirroring
  <2> QED
    BY <2>1, <2>5, CopyUndisturbed
<1>5. CASE ReadDimScores(w)
  <2>1. PICK value : value = [f \in ScoreTypes |-> facts[f]] /\ Read(w, "dimScores", value)
    BY <1>5 DEF ReadDimScores, ReadDimFacts
  <2> QED
    BY <1>2, <2>1
<1>6. CASE UpsertDimScores(w)
  <2>1. /\ Apart(w) /\ Advanced(w) /\ left[w] # <<>> /\ Head(left[w]) = "dimScores" /\ HasRead(w)
        /\ dimFacts' = IF dim = NoPerson THEN dimFacts ELSE Overlay(dimFacts, buf[w][1])
        /\ UNCHANGED <<silver, facts, dim>>
    BY <1>6, WriteAdvances DEF UpsertDimScores, UpsertDimFacts, Write, At
  <2>2. Mirroring(w)'
    <3> SUFFICES ASSUME command'[w] = "all", alone'[w] PROVE Mirroring(w)'
      BY DEF Mirroring
    <3>1. command[w] = "all" /\ alone[w]
      BY <2>1 DEF Advanced
    <3>2. /\ ~HasRead(w)' /\ buf[w][1] = [f \in ScoreTypes |-> facts[f]]
          /\ silver # NoPerson => dim # NoPerson /\ dim.src = silver.src /\ dim.counts = silver.counts
      BY <1>1, <2>1, <3>1 DEF Mirroring, At, HasRead, Advanced
    <3>3. ASSUME silver # NoPerson, NEW f \in ScoreTypes PROVE dimFacts'[f] = facts[f]
      <4>1. dimFacts' = Overlay(dimFacts, buf[w][1]) /\ f \in FactKeys
        BY <2>1, <3>2, <3>3 DEF FactKeys
      <4>2. facts[f] = Absent => dimFacts[f] = Absent
        BY <4>1 DEF IInv, TablesSound, ShownFacts, TypeOK, FactTable
      <4> QED
        BY <3>2, <4>1, <4>2 DEF Overlay
    <3> QED
      BY <2>1, <3>2, <3>3 DEF Mirroring
  <2> QED
    BY <2>1, <2>2, CopyUndisturbed
<1>7. CASE ReadDimVotes(w)
  <2>1. PICK value : value = [f \in Elections |-> facts[f]] /\ Read(w, "dimVotes", value)
    BY <1>7 DEF ReadDimVotes, ReadDimFacts
  <2> QED
    BY <1>2, <2>1
<1>8. CASE UpsertDimVotes(w)
  <2>1. Apart(w) /\ Advanced(w) /\ left[w] # <<>> /\ Head(left[w]) = "dimVotes"
    BY <1>8, WriteAdvances DEF UpsertDimVotes, UpsertDimFacts, Write, At
  <2>2. command'[w] # "all"
    BY <1>1, <2>1, CourseAhead DEF Advanced
  <2> QED
    BY <2>1, <2>2, CopyUndisturbed DEF Mirroring
<1> QED
  BY <1>3, <1>4, <1>5, <1>6, <1>7, <1>8

LEMMA BackfillUndisturbed ==
    ASSUME IInv, Undisturbed, NEW w \in Workers,
           ReadUnlinked(w) \/ Resolve(w) \/ LinkSilver(w) \/ LinkDim(w)
    PROVE  Undisturbed'
<1>1. CASE ReadUnlinked(w) \/ Resolve(w)
  <2>1. /\ left[w] # <<>> /\ Head(left[w]) = "resolve" /\ UNCHANGED tables
        /\ \A v \in Workers \ {w} :
              /\ command'[v] = command[v] /\ left'[v] = left[v] /\ buf'[v] = buf[v]
              /\ alone'[v] = alone[v]
        /\ command'[w] = "none" \/ command'[w] = command[w]
    BY <1>1 DEF ReadUnlinked, Resolve, Read, Abandon, Continue, Undisturbing, At, tables, IInv, Control,
                TypeOK, Undisturbed
  <2>2. alone' = [v \in Workers |-> alone'[v]]
    BY <1>1 DEF ReadUnlinked, Resolve, Read, Abandon, Undisturbing, Undisturbed
  <2> QED
    BY <2>1, <2>2, ElsewhereUndisturbed DEF Apart, Ended
<1>2. CASE LinkSilver(w) \/ LinkDim(w)
  <2>1. /\ left[w] # <<>> /\ Head(left[w]) \in {"linkSilver", "linkDim"}
        /\ \A v \in Workers \ {w} :
              command'[v] = command[v] /\ left'[v] = left[v] /\ buf'[v] = buf[v]
        /\ alone' = [v \in Workers |-> v = w /\ alone[v] /\ left'[v] # <<>>]
        /\ command'[w] = "none" \/ command'[w] = command[w]
    BY <1>2 DEF LinkSilver, LinkDim, Write, Proceed, Continue, Disturb, At, IInv, Control, TypeOK
  <2> QED
    BY <2>1, ElsewhereUndisturbed DEF Apart, Ended
<1> QED
  BY <1>1, <1>2

LEMMA DieUndisturbed ==
    ASSUME IInv, Undisturbed, NEW w \in Workers, Die(w)
    PROVE  Undisturbed'
<1>1. /\ command' = [command EXCEPT ![w] = "none"] /\ left' = [left EXCEPT ![w] = <<>>]
      /\ buf' = [buf EXCEPT ![w] = <<>>] /\ alone' = [alone EXCEPT ![w] = @ /\ left'[w] # <<>>]
      /\ UNCHANGED tables
  BY DEF Die, Continue, Undisturbing
<1>2. Apart(w) /\ command'[w] = "none"
  BY <1>1 DEF Apart, IInv, Control, TypeOK, Undisturbed
<1> QED
  BY <1>2, EndedIsFine, StepUndisturbed DEF Counting

LEMMA UndisturbedNext == IInv /\ Undisturbed /\ [Next]_vars => Undisturbed'
<1> SUFFICES ASSUME IInv, Undisturbed, [Next]_vars PROVE Undisturbed'
  OBVIOUS
<1>1. CASE UNCHANGED <<tables, command, left, buf, alone>>
  BY <1>1 DEF Undisturbed, OnCourse, Mirroring, Countable, At, HasRead, tables, Counts, Voted
<1>2. ASSUME NEW w \in Workers, NEW name \in Commands, NEW record \in Records \cup {NoRecord},
             Begin(w, name, record)
      PROVE  Undisturbed'
  BY <1>2, BeginUndisturbed
<1>3. ASSUME NEW w \in Workers,
             \/ AppendBronze(w) \/ ReadPersons(w) \/ MergePersons(w)
             \/ ReadScores(w) \/ MergeScores(w) \/ ReadVotes(w) \/ MergeVotes(w)
             \/ ReadAggregates(w) \/ MergeAggregates(w)
      PROVE  Undisturbed'
  BY <1>3, IngestUndisturbed
<1>4. ASSUME NEW w \in Workers,
             \/ ReadDimPersons(w) \/ UpsertDim(w) \/ ReadDimScores(w) \/ UpsertDimScores(w)
             \/ ReadDimVotes(w) \/ UpsertDimVotes(w)
      PROVE  Undisturbed'
  BY <1>4, CopyingUndisturbed
<1>5. ASSUME NEW w \in Workers,
             ReadUnlinked(w) \/ Resolve(w) \/ LinkSilver(w) \/ LinkDim(w) \/ Die(w)
      PROVE  Undisturbed'
  BY <1>5, BackfillUndisturbed, DieUndisturbed
<1> QED
  BY <1>1, <1>2, <1>3, <1>4, <1>5 DEF Next, vars, LocateAddress

LEMMA UndisturbedInvariance == Spec => []Undisturbed
<1>1. Init => Undisturbed
  BY DEF Init, Undisturbed, OnCourse, Mirroring, Countable, Counting
<1> QED
  BY <1>1, UndisturbedNext, Invariance, PTL DEF Spec

\* A step of a worker moves no other one.
LEMMA MovesItself ==
    ASSUME IInv, NEW v \in Workers, NEW w \in Workers, left'[w] # left[w],
           \/ \E name \in Commands, record \in Records \cup {NoRecord} : Begin(v, name, record)
           \/ \E stage : (\E value : Read(v, stage, value)) \/ Write(v, stage) \/ Skip(v, stage)
                                                            \/ Abandon(v, stage)
           \/ Resolve(v) \/ LinkSilver(v) \/ Die(v)
    PROVE  v = w
<1>1. \E l : left' = [left EXCEPT ![v] = l]
  <2>1. left = [left EXCEPT ![v] = left[v]]
    BY DEF IInv, Control
  <2> QED
    BY <2>1 DEF Begin, Read, Write, Skip, Abandon, Resolve, LinkSilver, Die, Proceed, Continue
<1> QED
  BY <1>1 DEF IInv, Control

-----------------------------------------------------------------------------
(* Theorems *)

\* Whatever commands overlap, die or are run again, bronze holds no more rows
\* than files were ingested, and silver, PostgreSQL and the memory of every
\* command hold what their columns and variables can.
THEOREM MedallionTypeCorrect == Spec => []TypeOK
<1>1. IInv => TypeOK
  BY DEF IInv
<1> QED
  BY <1>1, Invariance, PTL

\* The person, the scores, the votes and the place of the address, in both
\* stores, are always what some record of the vendor says.
THEOREM VendorAlwaysSaidSo == Spec => []VendorSaidSo
<1>1. IInv => VendorSaidSo
  <2> SUFFICES ASSUME IInv PROVE VendorSaidSo
    OBVIOUS
  <2>1. ASSUME NEW person \in {silver, dim} \ {NoPerson}
        PROVE  /\ person.src \in Sources
               /\ person.address # NoAddress => \E r \in Sources : r.place = PlaceOf[person.address]
    <3>1. PersonSound(person)
      BY DEF IInv, TablesSound
    <3> QED
      BY <3>1 DEF PersonSound, AddressSound, Named
  <2>2. ASSUME NEW table \in {facts, dimFacts}, NEW f \in FactKeys, table[f] # Absent
        PROVE  \E r \in Sources : r.facts[f] = table[f]
    <3>1. FactsSound(table) /\ DOMAIN table = FactKeys
      BY DEF IInv, TablesSound, ShownFacts, TypeOK, FactTable
    <3> QED
      BY <2>2, <3>1 DEF FactsSound
  <2> QED
    BY <2>1, <2>2 DEF VendorSaidSo
<1> QED
  BY <1>1, Invariance, PTL

\* The counts that silver and PostgreSQL keep of the voter, however many
\* writers have been at them, never run ahead of the vote history.
THEOREM CountsAlwaysTrail == Spec => []CountsTrailHistory
<1>1. IInv => CountsTrailHistory
  BY DEF IInv, TablesSound, PersonSound, CountsSound, CountsTrailHistory
<1> QED
  BY <1>1, Invariance, PTL

\* The facts in PostgreSQL always refer to a person there and to an election
\* or score type that silver has.
THEOREM FactsAlwaysFollow == Spec => []FactsFollowSilver
<1>1. IInv => FactsFollowSilver
  <2> SUFFICES ASSUME IInv, NEW f \in FactKeys, dimFacts[f] # Absent
               PROVE  dim # NoPerson /\ facts[f] # Absent
    BY DEF FactsFollowSilver
  <2>1. DOMAIN dimFacts = FactKeys
    BY DEF IInv, TypeOK, FactTable
  <2> QED
    BY <2>1 DEF IInv, TablesSound, ShownFacts
<1> QED
  BY <1>1, Invariance, PTL

\* No step takes a link to a canonical address out of PostgreSQL again: only
\* the backfill writes it, and the persons materializer keeps it.
THEOREM LinksSurvive == Spec => LinkSurvives
<1>1. IInv /\ [Next]_vars => [dim # NoPerson /\ dim.address # NoAddress => dim'.address # NoAddress]_vars
  <2> SUFFICES ASSUME IInv, Next, dim # NoPerson, dim.address # NoAddress
               PROVE  dim'.address # NoAddress
    BY DEF vars
  <2>1. CASE dim' = dim
    BY <2>1
  <2>2. ASSUME NEW w \in Workers, UpsertDim(w) PROVE dim'.address # NoAddress
    <3>1. buf[w][1] \in Person
      BY <2>2 DEF UpsertDim, Write, IInv, HeldSound, PersonSound
    <3>2. dim' = [buf[w][1] EXCEPT !.address = dim.address]
      BY <2>2 DEF UpsertDim
    <3> QED
      BY <3>1, <3>2 DEF Person
  <2>3. ASSUME NEW w \in Workers, LinkDim(w) PROVE dim'.address # NoAddress
    <3>1. buf[w][1] \in Addresses /\ dim \in Person
      BY <2>3 DEF LinkDim, Write, IInv, HeldSound, AddressSound, TypeOK
    <3>2. dim' = [dim EXCEPT !.address = buf[w][1]]
      BY <2>3 DEF LinkDim
    <3>3. dim'.address = buf[w][1]
      BY <3>1, <3>2 DEF Person
    <3> QED
      BY <3>1, <3>3, AddressesAssumption
  <2>4. dim' = dim \/ \E w \in Workers : UpsertDim(w) \/ LinkDim(w)
    BY DEF Next, LocateAddress, Begin, AppendBronze, ReadPersons, MergePersons, ReadScores,
           MergeScores, ReadVotes, MergeVotes, ReadFacts, MergeFacts, ReadAggregates,
           MergeAggregates, ReadDimPersons, ReadDimScores, ReadDimVotes, ReadDimFacts,
           UpsertDimScores, UpsertDimVotes, UpsertDimFacts, ReadUnlinked, Resolve, LinkSilver,
           Die, Read, Skip, Abandon, tables
  <2> QED
    BY <2>1, <2>2, <2>3, <2>4
<1> QED
  BY <1>1, Invariance, PTL DEF Spec, LinkSurvives

\* A run of materialize_all during which nobody else writes ends with the
\* person, the counts and every fact of silver in PostgreSQL, whatever state
\* other runs, whole or broken off, had left PostgreSQL in.
THEOREM MirrorsUndisturbed == Spec => MaterializeMirrors
<1> DEFINE Mirrors ==
        \A w \in Workers :
           UpsertDimVotes(w) /\ command[w] = "all" /\ alone[w] /\ silver # NoPerson =>
              /\ dim' # NoPerson /\ dim'.src = silver.src /\ dim'.counts = silver.counts
              /\ dimFacts' = facts
<1>1. IInv /\ Undisturbed => Mirrors
  <2> SUFFICES ASSUME IInv, Undisturbed, NEW w \in Workers, UpsertDimVotes(w),
                      command[w] = "all", alone[w], silver # NoPerson
               PROVE  /\ dim' # NoPerson /\ dim'.src = silver.src /\ dim'.counts = silver.counts
                      /\ dimFacts' = facts
    OBVIOUS
  <2>1. /\ At(w, "dimVotes") /\ HasRead(w) /\ dim' = dim
        /\ dimFacts' = IF dim = NoPerson THEN dimFacts ELSE Overlay(dimFacts, buf[w][1])
    BY DEF UpsertDimVotes, UpsertDimFacts, Write
  <2>2. /\ dim # NoPerson /\ dim.src = silver.src /\ dim.counts = silver.counts
        /\ \A f \in ScoreTypes : dimFacts[f] = facts[f]
        /\ buf[w][1] = [f \in Elections |-> facts[f]]
    BY <2>1 DEF Undisturbed, Mirroring, At
  <2>3. \A f \in FactKeys : facts[f] = Absent => dimFacts[f] = Absent
    BY DEF IInv, TablesSound, ShownFacts, TypeOK, FactTable
  <2>4. Overlay(dimFacts, buf[w][1]) = [f \in FactKeys |-> facts[f]]
    BY <2>2, <2>3 DEF Overlay, FactKeys
  <2>5. facts = [f \in FactKeys |-> facts[f]]
    BY DEF IInv, TypeOK, FactTable
  <2> QED
    BY <2>1, <2>2, <2>4, <2>5
<1>2. IInv /\ Undisturbed => [Mirrors]_vars
  BY <1>1
<1> QED
  BY <1>2, Invariance, UndisturbedInvariance, PTL DEF MaterializeMirrors

\* An ingest with --include-vote-history during which nobody else writes leaves
\* the counts of the whole vote history, its own votes and those of runs that
\* died half way alike.
THEOREM CountsUndisturbed == Spec => IngestCounts
<1> DEFINE Counted(w) ==
        left[w] # <<>> /\ left'[w] = <<>> /\ ~Die(w)
        /\ command[w] \in {"ingestVotes", "ingestAll"} /\ alone[w]
        /\ Voted(facts', Elections) # {} =>
            silver'.counts = Counts(facts')
<1>1. ASSUME IInv, Undisturbed, Next, NEW w \in Workers, left[w] # <<>>, left'[w] = <<>>, ~Die(w),
             command[w] \in Counting, alone[w], Voted(facts', Elections) # {}
      PROVE  silver'.counts = Counts(facts')
  <2>1. OnCourse(w) /\ Countable(w)
    BY <1>1 DEF Undisturbed
  <2>2. /\ Head(left[w]) \in {"append", "persons", "scores", "votes", "aggregates"}
        /\ Tail(left[w]) = <<>> <=> Head(left[w]) = "aggregates"
    BY <1>1, <2>1, CourseAhead
  <2>3. ASSUME NEW stage, Write(w, stage) \/ Skip(w, stage)
        PROVE  stage = Head(left[w]) /\ stage = "aggregates"
    <3>1. left' = [left EXCEPT ![w] = Tail(left[w])] /\ stage = Head(left[w])
      BY <2>3 DEF Write, Skip, Proceed, Continue, At
    <3>2. left'[w] = Tail(left[w])
      BY <1>1, <3>1 DEF IInv, Control
    <3> QED
      BY <1>1, <2>2, <3>1, <3>2
  <2>4. ReadAggregates(w) \/ MergeAggregates(w)
    <3>1. ASSUME NEW v \in Workers,
                 \/ \E name \in Commands, record \in Records \cup {NoRecord} : Begin(v, name, record)
                 \/ ReadUnlinked(v) \/ Resolve(v) \/ LinkSilver(v) \/ LinkDim(v) \/ Die(v)
          PROVE  FALSE
      <4>1. v = w
        <5>1. left'[w] # left[w]
          BY <1>1
        <5> QED
          BY <1>1, <3>1, <5>1, MovesItself DEF ReadUnlinked, LinkDim
      <4> QED
        BY <1>1, <2>2, <3>1, <4>1 DEF Begin, Idle, ReadUnlinked, Read, Abandon, Resolve, LinkSilver,
                                     LinkDim, Write, At
    <3>2. ASSUME NEW v \in Workers, \E stage, value : Read(v, stage, value)
          PROVE  FALSE
      BY <1>1, <3>2 DEF Read
    <3>3. ASSUME NEW v \in Workers, NEW stage, stage # "aggregates", Write(v, stage) \/ Skip(v, stage)
          PROVE  FALSE
      <4>1. v = w
        <5>1. left'[w] # left[w]
          BY <1>1
        <5> QED
          BY <1>1, <3>3, <5>1, MovesItself
      <4> QED
        BY <2>3, <3>3, <4>1
    <3>4. ASSUME NEW v \in Workers, ReadAggregates(v) \/ MergeAggregates(v)
          PROVE  v = w
      <4>1. left'[w] # left[w]
        BY <1>1
      <4> QED
        BY <1>1, <3>4, <4>1, MovesItself DEF ReadAggregates, MergeAggregates
    <3>5. ASSUME NEW v \in Workers,
                 \/ AppendBronze(v) \/ ReadPersons(v) \/ MergePersons(v) \/ ReadScores(v) \/ MergeScores(v)
                 \/ ReadVotes(v) \/ MergeVotes(v) \/ ReadDimPersons(v) \/ UpsertDim(v)
                 \/ ReadDimScores(v) \/ UpsertDimScores(v) \/ ReadDimVotes(v) \/ UpsertDimVotes(v)
          PROVE  FALSE
      <4>1. \E stage : stage # "aggregates" /\ ((\E value : Read(v, stage, value))
                                                \/ Write(v, stage) \/ Skip(v, stage))
        BY <3>5 DEF AppendBronze, ReadPersons, MergePersons, ReadScores, MergeScores, ReadVotes,
                    MergeVotes, ReadFacts, MergeFacts, ReadDimPersons, UpsertDim, ReadDimScores,
                    UpsertDimScores, ReadDimVotes, UpsertDimVotes, ReadDimFacts, UpsertDimFacts
      <4> QED
        BY <3>2, <3>3, <4>1
    <3>6. ASSUME NEW a \in Addresses, LocateAddress(a) PROVE FALSE
      BY <1>1, <3>6 DEF LocateAddress
    <3> QED
      BY <1>1, <3>1, <3>4, <3>5, <3>6 DEF Next
  <2>5. CASE ReadAggregates(w)
    BY <1>1, <2>5 DEF ReadAggregates, Read, Skip, tables
  <2>6. CASE MergeAggregates(w)
    <3>1. /\ At(w, "aggregates") /\ HasRead(w) /\ facts' = facts
          /\ silver' = IF silver = NoPerson THEN silver ELSE [silver EXCEPT !.counts = buf[w][1]]
      BY <2>6 DEF MergeAggregates, Write
    <3>2. bronze # <<>>
      <4>1. PICK f \in Elections : facts[f] # Absent
        BY <1>1, <3>1 DEF Voted
      <4>2. PICK r \in Sources : r.facts[f] = facts[f]
        BY <1>1, <4>1 DEF IInv, TablesSound, FactsSound, TypeOK, FactTable, FactKeys
      <4> QED
        BY <4>2 DEF Sources
    <3>3. silver # NoPerson /\ buf[w][1] = Counts(facts)
      BY <1>1, <2>1, <3>1, <3>2 DEF Countable, At
    <3>4. silver \in Person
      BY <1>1, <3>3 DEF IInv, TypeOK
    <3>5. silver'.counts = buf[w][1]
      BY <3>1, <3>3, <3>4 DEF Person
    <3> QED
      BY <3>1, <3>3, <3>5
  <2> QED
    BY <2>4, <2>5, <2>6
<1>2. IInv /\ Undisturbed /\ [Next]_vars => [\A w \in Workers : Counted(w)]_vars
  BY <1>1 DEF Counting
<1> QED
  BY <1>2, Invariance, UndisturbedInvariance, PTL DEF Spec, IngestCounts

-----------------------------------------------------------------------------
(* Names that do not survive *)

\* no table holds anything of the voter
NothingLoaded ==
    /\ bronze = <<>>
    /\ silver = NoPerson /\ dim = NoPerson
    /\ \A f \in FactKeys : facts[f] = Absent /\ dimFacts[f] = Absent

LEMMA NamelessStep ==
    ASSUME ~NamesSurvive, bronze = <<>>, [Next]_vars
    PROVE  bronze' = <<>>
<1>1. ASSUME NEW w \in Workers, AppendBronze(w)
      PROVE  bronze' = <<>>
  BY <1>1 DEF AppendBronze, Identified
<1>2. ASSUME NEW w \in Workers, Die(w) \/ Resolve(w) \/ LinkSilver(w) \/ LinkDim(w)
      PROVE  bronze' = <<>>
  BY <1>2 DEF Die, Resolve, LinkSilver, LinkDim, tables
<1>3. ASSUME NEW w \in Workers, NEW name \in Commands, NEW record \in Records \cup {NoRecord},
             Begin(w, name, record)
      PROVE  bronze' = <<>>
  BY <1>3 DEF Begin, tables
<1>4. ASSUME NEW w \in Workers,
             \/ ReadPersons(w) \/ ReadScores(w) \/ ReadVotes(w) \/ ReadAggregates(w)
             \/ ReadDimPersons(w) \/ ReadDimScores(w) \/ ReadDimVotes(w) \/ ReadUnlinked(w)
      PROVE  bronze' = <<>>
  BY <1>4 DEF ReadPersons, ReadScores, ReadVotes, ReadFacts, ReadAggregates, ReadDimPersons,
              ReadDimScores, ReadDimVotes, ReadDimFacts, ReadUnlinked,
              Read, Skip, Abandon, tables
<1>5. ASSUME NEW w \in Workers,
             \/ MergePersons(w) \/ MergeScores(w) \/ MergeVotes(w) \/ MergeAggregates(w)
             \/ UpsertDim(w) \/ UpsertDimScores(w) \/ UpsertDimVotes(w)
      PROVE  bronze' = <<>>
  BY <1>5 DEF MergePersons, MergeScores, MergeVotes, MergeFacts, MergeAggregates,
              UpsertDim, UpsertDimScores, UpsertDimVotes, UpsertDimFacts
<1>6. ASSUME NEW a \in Addresses, LocateAddress(a)
      PROVE  bronze' = <<>>
  BY <1>6 DEF LocateAddress, tables
<1>7. CASE UNCHANGED vars
  BY <1>7 DEF vars, tables
<1> QED
  BY <1>1, <1>2, <1>3, <1>4, <1>5, <1>6, <1>7 DEF Next

\* itertuples gives the column vb.voterbase_id a positional name, so no row is
\* recognised: however many files are ingested, whatever command runs after,
\* no table of the pipeline ever holds anything of the voter.
THEOREM NamelessLoadsNothing ==
    ASSUME ~NamesSurvive
    PROVE  Spec => []NothingLoaded
<1> DEFINE Empty == bronze = <<>>
<1>1. Init => Empty
  BY DEF Init
<1>2. Empty /\ [Next]_vars => Empty'
  BY NamelessStep
<1>3. Empty /\ VendorSaidSo => NothingLoaded
  <2> SUFFICES ASSUME bronze = <<>>, VendorSaidSo PROVE NothingLoaded
    OBVIOUS
  <2>1. Sources = {}
    BY DEF Sources
  <2> QED
    BY <2>1 DEF VendorSaidSo, NothingLoaded
<1> QED
  BY <1>1, <1>2, <1>3, VendorAlwaysSaidSo, PTL DEF Spec
=============================================================================
