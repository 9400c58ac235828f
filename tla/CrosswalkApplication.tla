------------------------ MODULE CrosswalkApplication ------------------------
(***************************************************************************)
(* apply_crosswalks (socialwarehouse/warehouse/services/                   *)
(* geographic_enrichment.py): addresses with rows of the source vintage    *)
(* and none of the target vintage get a row of the target vintage with an  *)
(* estimated tract.  The rows to translate are selected once, by an open   *)
(* cursor; the upserts commit one by one, while assign_boundaries assigns  *)
(* the same addresses.                                                     *)
(***************************************************************************)
EXTENDS Naturals, Sequences

CONSTANTS
    Appliers,     \* processes that apply the crosswalk
    Residences,   \* the addresses
    SourcePlans,  \* the plans of their rows of the source vintage
    OldTracts, NewTracts,
    Crosswalk,    \* the rows [from, to, weight] of the crosswalk, as scanned
    NoTract

ASSUME CrosswalkAssumption ==
    /\ Crosswalk \in Seq([from : OldTracts, to : NewTracts, weight : Nat])
    /\ NoTract \notin OldTracts \cup NewTracts

VARIABLES
    sourceTract,  \* sourceTract[a][p]: tract of the source-vintage row under plan p
    estimate,     \* estimate[a]: the target-vintage row without a plan
    planned,      \* addresses with a target-vintage row under a plan
    appliers      \* appliers[c]: the rows that c selected and has not translated

crosswalkVars == <<sourceTract, estimate, planned, appliers>>

NoTargetRow == [tract |-> NoTract, tractBy |-> "none", restBy |-> "none"]
NoApplication == [rows |-> {}, since |-> {}]

CrosswalkInit ==
    /\ sourceTract \in [Residences -> [SourcePlans -> OldTracts \cup {NoTract}]]
    /\ estimate = [a \in Residences |-> NoTargetRow]
    /\ planned = {}
    /\ appliers = [c \in Appliers |-> NoApplication]

Assigned(a) == a \in planned \/ estimate[a].restBy = "assignment"

Since(a) == [c \in Appliers |-> [appliers[c] EXCEPT !.since = @ \cup {a}]]

\* assign_boundaries, with or without a plan in effect
AssignTarget(a, t) ==
    /\ \/ planned' = planned \cup {a} /\ estimate' = estimate
       \/ /\ estimate' = [estimate EXCEPT ![a] = [tract |-> t, tractBy |-> "assignment", restBy |-> "assignment"]]
          /\ planned' = planned
    /\ appliers' = Since(a)
    /\ UNCHANGED sourceTract

AssignSource(a, p, t) ==
    /\ sourceTract' = [sourceTract EXCEPT ![a][p] = t]
    /\ UNCHANGED <<estimate, planned, appliers>>

\* the heaviest target of a tract, the first one scanned if there are several
Heavier(i, j) == Crosswalk[i].weight > Crosswalk[j].weight \/ (Crosswalk[i].weight = Crosswalk[j].weight /\ i <= j)
RecordsOf(t) == {i \in DOMAIN Crosswalk : Crosswalk[i].from = t}
MappedTo(t) == Crosswalk[CHOOSE i \in RecordsOf(t) : \A j \in RecordsOf(t) : Heavier(i, j)].to

\* mutant: without the exclude()
SourcePeriodsAll ==
    {r \in Residences \X OldTracts : \E p \in SourcePlans : sourceTract[r[1]][p] = r[2]}

\* rows of the source vintage whose address has no row of the target vintage
SourcePeriods ==
    {r \in Residences \X OldTracts :
        /\ \E p \in SourcePlans : sourceTract[r[1]][p] = r[2]
        /\ estimate[r[1]] = NoTargetRow /\ r[1] \notin planned}

SelectPeriods(c) ==
    /\ appliers[c].rows = {} /\ Crosswalk # <<>>
    /\ appliers' = [appliers EXCEPT ![c] = [rows |-> SourcePeriods, since |-> {}]]
    /\ UNCHANGED <<sourceTract, estimate, planned>>

\* update_or_create of the row without a plan sets the state, county and tract
\* and the method; the other geoids of a row that is there stay
ApplyPeriod(c, a, t) ==
    /\ <<a, t>> \in appliers[c].rows
    /\ estimate' = IF RecordsOf(t) = {} THEN estimate
                   ELSE [estimate EXCEPT ![a].tract = MappedTo(t), ![a].tractBy = "crosswalk"]
    /\ appliers' = [appliers EXCEPT ![c].rows = @ \ {<<a, t>>}]
    /\ UNCHANGED <<sourceTract, planned>>

StopApplying(c) ==
    /\ appliers[c].rows # {}
    /\ appliers' = [appliers EXCEPT ![c] = NoApplication]
    /\ UNCHANGED <<sourceTract, estimate, planned>>

CrosswalkNext ==
    \/ \E a \in Residences :
        \/ \E t \in NewTracts : AssignTarget(a, t)
        \/ \E p \in SourcePlans, t \in OldTracts : AssignSource(a, p, t)
    \/ \E c \in Appliers :
        \/ SelectPeriods(c) \/ StopApplying(c)
        \/ \E a \in Residences, t \in OldTracts : ApplyPeriod(c, a, t)

CrosswalkSpec == CrosswalkInit /\ [][CrosswalkNext]_crosswalkVars

-----------------------------------------------------------------------------
(* Properties *)

CrosswalkTypeOK ==
    /\ sourceTract \in [Residences -> [SourcePlans -> OldTracts \cup {NoTract}]]
    /\ estimate \in [Residences -> [tract : NewTracts \cup {NoTract},
            tractBy : {"none", "assignment", "crosswalk"}, restBy : {"none", "assignment"}]]
    /\ planned \subseteq Residences
    /\ appliers \in [Appliers -> [rows : SUBSET (Residences \X OldTracts), since : SUBSET Residences]]

\* An estimate never takes the place of an assignment, nor is it added to an
\* address with one, unless the assignment came after the run had selected its
\* rows: only then can a row hold an estimated tract among assigned geoids.
EstimatesYield ==
    [][\A c \in Appliers, a \in Residences, t \in OldTracts :
         ApplyPeriod(c, a, t) /\ Assigned(a) => a \in appliers[c].since]_crosswalkVars
=============================================================================
