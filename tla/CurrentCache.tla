---------------------------- MODULE CurrentCache ----------------------------
(***************************************************************************)
(* What the head of signals.py promises of the boundary cache: writing a   *)
(* boundary row, bringing the cached geoids it touches up to date and      *)
(* telling the subscriber are one indivisible step ("updated in the same   *)
(* transaction", "current-by-construction").                               *)
(***************************************************************************)
EXTENDS BoundaryPeriods

CONSTANTS
    RowInputs,  \* the rows callers write
    Today       \* the day all of this happens on

VARIABLES
    abp,    \* the rows of the address
    cache,  \* Address.{type}_geoid
    mirror  \* what the subscriber keeps of it

vars == <<abp, cache, mirror>>

Answers(rows, t, d) == {rows[k].geoid[t] : k \in Latest(rows, t, d)}

Init ==
    /\ abp = [k \in Keys |-> EmptyRow]
    /\ cache = [t \in Types |-> Blank]
    /\ mirror = cache

\* what the cache may hold for t once row is written
Current(t, row) ==
    IF t \in Touched(row) /\ Answers(abp', t, Today) # {}
    THEN Answers(abp', t, Today)
    ELSE {cache[t]}

Write(k, row) ==
    /\ abp' = [abp EXCEPT ![k] = row]
    /\ cache' \in [Types -> GeoidOrBlank]
    /\ \A t \in Types : cache'[t] \in
          IF IsCurrentVintage(k[1], Today) THEN Current(t, row) ELSE {cache[t]}
    /\ mirror' = cache'

Next == \E k \in Keys, row \in RowInputs : Write(k, row)

Spec == Init /\ [][Next]_vars
=============================================================================
