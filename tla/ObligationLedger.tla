--------------------------- MODULE ObligationLedger ---------------------------
(***************************************************************************)
(* The balance of one obligation (socialwarehouse/transactions/models/     *)
(* transactions.py).  A caller reads the Obligation, records               *)
(* ObligationEvents, applies each with apply_event() to the object it      *)
(* holds, and saves that object: a read, changes in memory, and a full-row *)
(* write, between which other callers do the same.                         *)
(*                                                                         *)
(* Amounts are whole cents.  The fields sum and low of an object are not   *)
(* columns: they remember the events that went into its balance.  The      *)
(* statuses defaulted and written_off, which no code sets, are left out.   *)
(***************************************************************************)
EXTENDS Integers

CONSTANTS
    Callers,      \* sessions that work on the obligation
    NoObject,     \* what a session holds before it reads the row
    Amounts,      \* amounts of events, which nothing keeps above zero
    Original,     \* original_amount
    MaxBalance,   \* the largest balance of max_digits = 14
    MaxEvents     \* bound: events recorded in all

ASSUME ObligationAssumption ==
    /\ Amounts \subseteq Int /\ Original \in Nat \ {0}
    /\ MaxBalance \in Nat /\ Original <= MaxBalance
    /\ MaxEvents \in Nat

VARIABLES
    obligation,    \* the committed row
    objects,       \* objects[c]: the Obligation c holds in memory
    recorded,      \* number of ObligationEvents
    unsaved,       \* unsaved[c]: what c has recorded and applied since it last saved
    settled,       \* sum of the recorded events whose caller has saved since
    outdated,      \* callers whose object was read before the row last changed
    overwritten    \* has an outdated object been saved?

obVars == <<obligation, objects, recorded, unsaved, settled, outdated, overwritten>>

EventTypes == {"repayment", "drawdown", "forgiveness", "adjustment"}
Statuses == {"active", "paid", "forgiven"}

Obligation ==
    [balance : Nat, status : Statuses, sum : Int, low : Int]

ASSUME NoObjectAssumption == NoObject \notin Obligation

Signed(type, amount) ==
    IF type \in {"repayment", "forgiveness"} THEN -amount ELSE amount

\* mutant: an overpayment stays in the balance as a credit
Unfloored(balance) == balance

Floored(balance) == IF balance <= 0 THEN 0 ELSE balance

\* mutant: a drawdown makes a closed obligation active again
StatusReopened(status, type, balance) ==
    IF balance > 0 THEN IF type = "drawdown" THEN "active" ELSE status
    ELSE IF type = "forgiveness" THEN "forgiven" ELSE "paid"

\* the event that brings the balance to zero or below closes the obligation
StatusAfter(status, type, balance) ==
    IF balance > 0 THEN status
    ELSE IF type = "forgiveness" THEN "forgiven" ELSE "paid"

\* Obligation.apply_event
Applied(o, type, amount) ==
    LET balance == o.balance + Signed(type, amount)
        sum == o.sum + Signed(type, amount) IN
    [balance |-> Floored(balance),
     status |-> StatusAfter(o.status, type, balance),
     sum |-> sum,
     low |-> IF sum < o.low THEN sum ELSE o.low]

ObInit ==
    /\ obligation = [balance |-> Original, status |-> "active", sum |-> Original, low |-> 0]
    /\ objects = [c \in Callers |-> NoObject]
    /\ recorded = 0 /\ settled = 0
    /\ unsaved = [c \in Callers |-> 0]
    /\ outdated = {} /\ overwritten = FALSE

Holders == {c \in Callers : objects[c] # NoObject}

\* Obligation.objects.get()
Get(c) ==
    /\ c \notin Holders
    /\ objects' = [objects EXCEPT ![c] = obligation]
    /\ UNCHANGED <<obligation, recorded, unsaved, settled, outdated, overwritten>>

\* an ObligationEvent is created and applied to the object
Record(c, type, amount) ==
    /\ c \in Holders /\ recorded < MaxEvents
    /\ objects' = [objects EXCEPT ![c] = Applied(@, type, amount)]
    /\ recorded' = recorded + 1
    /\ unsaved' = [unsaved EXCEPT ![c] = @ + Signed(type, amount)]
    /\ UNCHANGED <<obligation, settled, outdated, overwritten>>

\* Obligation.save(); a balance of too many digits is refused by the column
SaveObligation(c) ==
    /\ c \in Holders /\ objects[c].balance <= MaxBalance
    /\ obligation' = objects[c]
    /\ settled' = settled + unsaved[c]
    /\ unsaved' = [unsaved EXCEPT ![c] = 0]
    /\ outdated' = IF objects[c] = obligation THEN outdated
                   ELSE (outdated \cup Holders) \ {c}
    /\ overwritten' = (overwritten \/ c \in outdated)
    /\ UNCHANGED <<objects, recorded>>

\* the caller ends, or its save is refused: the events stay, the object goes
Drop(c) ==
    /\ c \in Holders
    /\ objects' = [objects EXCEPT ![c] = NoObject]
    /\ unsaved' = [unsaved EXCEPT ![c] = 0]
    /\ outdated' = outdated \ {c}
    /\ UNCHANGED <<obligation, recorded, settled, overwritten>>

ObNext ==
    \E c \in Callers :
        \/ Get(c) \/ SaveObligation(c) \/ Drop(c)
        \/ \E type \in EventTypes, amount \in Amounts : Record(c, type, amount)

ObSpec == ObInit /\ [][ObNext]_obVars

-----------------------------------------------------------------------------
(* Properties *)

ObTypeOK ==
    /\ obligation \in Obligation
    /\ objects \in [Callers -> Obligation \cup {NoObject}]
    /\ recorded \in 0..MaxEvents
    /\ unsaved \in [Callers -> Int] /\ settled \in Int
    /\ outdated \subseteq Holders /\ overwritten \in BOOLEAN

\* The balance is the running sum of the events reflected at zero: the sum, less
\* the lowest it ever was below zero.  An obligation that is still active owes
\* something and has never been overpaid.
Reflected(o) ==
    /\ o.low <= 0 /\ o.balance = o.sum - o.low
    /\ o.status = "active" => o.balance > 0 /\ o.low = 0

\* Floors, overpayments and drawdowns of apply_event leave a balance that can be
\* recomputed from the events alone; and the events it accounts for are those
\* whose recorder has saved, unless somebody saved an object read before another
\* session's save.
BooksBalance ==
    /\ Reflected(obligation)
    /\ \A c \in Holders : Reflected(objects[c])
    /\ ~overwritten => obligation.sum = Original + settled

\* apply_event never makes a paid or forgiven obligation active: one that becomes
\* active again was overwritten by an object read before it closed.
ReopensOnlyByStaleSave ==
    [][obligation.status # "active" /\ obligation'.status = "active" =>
        \E c \in outdated : obligation' = objects[c]]_obVars
=============================================================================
