---------------------------- MODULE AddressCache ----------------------------
(***************************************************************************)
(* The boundary cache of one Address: the denormalised `{type}_geoid` and  *)
(* `census_year` fields, and the post_save handler that maintains them     *)
(* from AddressBoundaryPeriod writes (socialwarehouse/geo/signals.py).     *)
(*                                                                         *)
(* One step is one completed operation: the save of a row together with    *)
(* the handler it triggers.  AddressCacheSessions splits that step into    *)
(* its statements and interleaves several sessions.                        *)
(***************************************************************************)
EXTENDS BoundaryPeriods, Sequences

CONSTANTS
    RowInputs,   \* the rows callers write
    Debug,       \* settings.DEBUG of the process
    DefaultYear, \* DEFAULT_CENSUS_YEAR, as a decade number
    MaxDay,      \* bound: the clock stops here
    MaxNesting   \* bound: nesting of address_cache_refresh_disabled blocks

ASSUME InputsAssumption == RowInputs \subseteq Row
ASSUME SettingsAssumption ==
    Debug \in BOOLEAN /\ DefaultYear \in Nat /\ MaxDay \in Nat /\ MaxNesting \in Nat

VARIABLES
    today,      \* timezone.localdate()
    abp,        \* the rows of the address
    cache,      \* Address.{type}_geoid
    censusYear, \* Address.census_year
    disabled,   \* _signal_state.disabled of the thread
    saved,      \* the `prev` of each open address_cache_refresh_disabled block
    exposed,    \* history: types a write or a date change may have left stale
    served      \* history: every <<type, geoid>> that ever answered for today

vars == <<today, abp, cache, censusYear, disabled, saved, exposed, served>>

Answers(rows, t, d) == {rows[k].geoid[t] : k \in Latest(rows, t, d)}
AllAnswers(rows, d) ==
    UNION {{<<t, g>> : g \in Answers(rows, t, d)} : t \in Types}

Init ==
    /\ today \in 0..MaxDay
    /\ abp = [k \in Keys |-> EmptyRow]
    /\ cache = [t \in Types |-> Blank]
    /\ censusYear = DefaultYear
    /\ disabled = FALSE
    /\ saved = <<>>
    /\ exposed = {}
    /\ served = {}

-----------------------------------------------------------------------------
(* The handler *)

\* Django keeps a weak reference to a receiver, and `_connect` registers a
\* function local to it.  With DEBUG set, the signature check of
\* Signal.connect leaves a strong reference in an lru_cache; without it the
\* receiver is collected as soon as `_connect` returns.
ReceiverAlive == Debug

\* mutant: the vintage gate is missing
HandlerRunsAnyVintage(k, raw) == ReceiverAlive /\ ~raw /\ ~disabled

HandlerRuns(k, raw) ==
    /\ ReceiverAlive
    /\ ~raw
    /\ ~disabled
    /\ IsCurrentVintage(k[1], today)

\* mutant: the values of the saved row are copied
RefreshedFromRow(rows, row, scan) ==
    [t \in Types |-> IF t \in Touched(row) THEN row.geoid[t] ELSE cache[t]]

\* every touched type is resolved anew; one nothing answers for is left alone
Refreshed(rows, row, scan) ==
    [t \in Types |->
        IF t \in Touched(row) /\ Eligible(rows, t, today) # {}
        THEN GeoidOn(rows, t, today, scan)
        ELSE cache[t]]

YearAfter(k) ==
    IF CensusYearFromVintage(k[1]) = NoDecade THEN censusYear
                                              ELSE CensusYearFromVintage(k[1])

(* What the handler does not see.  Only rows of the vintage that serves     *)
(* today matter: a save outside its sight exposes the types of the old and  *)
(* the new row, a save it sees exposes the types the new row dropped.       *)
Exposure(k, row, raw) ==
    IF k[1] \notin ForYear(today) THEN {}
    ELSE IF raw \/ disabled THEN Touched(abp[k]) \cup Touched(row)
    ELSE Touched(abp[k]) \ Touched(row)

Settled(k, row, raw) == IF raw \/ disabled THEN {} ELSE
    IF IsCurrentVintage(k[1], today) THEN Touched(row) ELSE {}

\* AddressBoundaryPeriod.save(), create() or update_or_create(); raw is set
\* by fixture loading
Save(k, row, raw) ==
    /\ abp' = [abp EXCEPT ![k] = row]
    /\ IF HandlerRuns(k, raw)
       THEN /\ cache' \in {Refreshed(abp', row, scan) : scan \in ScanOrders}
            /\ censusYear' = YearAfter(k)
       ELSE UNCHANGED <<cache, censusYear>>
    /\ exposed' = (exposed \ Settled(k, row, raw)) \cup Exposure(k, row, raw)
    /\ served' = served \cup AllAnswers(abp', today)
    /\ UNCHANGED <<today, disabled, saved>>

-----------------------------------------------------------------------------
(* Bulk writes *)

EnterBulk ==
    /\ Len(saved) < MaxNesting
    /\ saved' = Append(saved, disabled)
    /\ disabled' = TRUE
    /\ UNCHANGED <<today, abp, cache, censusYear, exposed, served>>

ExitBulk ==
    /\ saved # <<>>
    /\ disabled' = saved[Len(saved)]
    /\ saved' = SubSeq(saved, 1, Len(saved) - 1)
    /\ UNCHANGED <<today, abp, cache, censusYear, exposed, served>>

\* the decade of the rows boundaries_on(today) returned, if it returned any
YearOfRows ==
    {Window[v].decade : v \in {k[1] : k \in UNION {Latest(abp, t, today) : t \in Types}}}

\* refresh_address_caches: every type is written, "" where nothing answers
RefreshCaches ==
    /\ cache' \in {[t \in Types |-> GeoidOn(abp, t, today, scan)] : scan \in ScanOrders}
    /\ censusYear' \in IF YearOfRows = {} THEN {censusYear} ELSE YearOfRows
    /\ exposed' = {}
    /\ UNCHANGED <<today, abp, disabled, saved, served>>

-----------------------------------------------------------------------------
(* The date moves; nothing in the code runs on a date change *)

DateExposure(d) ==
    IF ForYear(d) # ForYear(d - 1) THEN Types
    ELSE UNION {Touched(abp[k]) : k \in {j \in Keys : abp[j].ctx = d}}

NextDay ==
    /\ today < MaxDay
    /\ today' = today + 1
    /\ exposed' = exposed \cup DateExposure(today + 1)
    /\ served' = served \cup AllAnswers(abp, today + 1)
    /\ UNCHANGED <<abp, cache, censusYear, disabled, saved>>

Next ==
    \/ \E k \in Keys, row \in RowInputs, raw \in BOOLEAN : Save(k, row, raw)
    \/ EnterBulk
    \/ ExitBulk
    \/ RefreshCaches
    \/ NextDay

Spec == Init /\ [][Next]_vars

-----------------------------------------------------------------------------
(* Properties *)

TypeOK ==
    /\ today \in 0..MaxDay
    /\ abp \in [Keys -> Row]
    /\ cache \in [Types -> GeoidOrBlank]
    /\ censusYear \in Nat
    /\ disabled \in BOOLEAN
    /\ saved \in Seq(BOOLEAN)
    /\ exposed \in SUBSET Types
    /\ served \in SUBSET (Types \X Geoids)

\* The definition of coherence at the head of signals.py: the cached geoid of
\* a type is the one current_boundaries() gives, if it gives one.
Coherent(t) ==
    Eligible(abp, t, today) # {} => cache[t] \in Answers(abp, t, today)

\* The handler keeps every type coherent, whatever the order of the context
\* dates of the rows it sees and whatever is written for historical vintages.
\* The only ways to go stale are the listed ones: a suppressed or raw save, a
\* save that empties a geoid, and a date that arrives.
CoherentUnlessExposed == \A t \in Types \ exposed : Coherent(t)

\* A stale cache is only late, never early and never foreign: what it holds
\* answered for today at some time (no row ahead of its context date, none of
\* another decade's vintage).
CachedOnceServed ==
    \A t \in Types : cache[t] # Blank => <<t, cache[t]>> \in served

\* Leaving an inner address_cache_refresh_disabled block does not switch the
\* handler back on inside the outer one, and leaving the outermost one does.
DisabledExactlyInside == disabled <=> saved # <<>>

\* When a save moves a cached geoid under a census-decadal vintage, the
\* address's census_year becomes the decade that geoid was read from.
YearFollowsGeoids ==
    [][\A k \in Keys :
          /\ abp'[k] # abp[k] /\ cache' # cache
          /\ Window[k[1]].kind = "census-decadal"
          => censusYear' = today \div DecadeDays]_vars
=============================================================================
