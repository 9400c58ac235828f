--------------------------- MODULE MCFairComponents ---------------------------
(* Two components that promise progress, one at a time: two sessions that save *)
(* rows of an address, and the publication of a pipeline.  focus says which of *)
(* them runs; the other stays as it begins.                                    *)
EXTENDS MCAddressCacheSessions, PostgisPublication

VARIABLE focus

\* a row for every source row
PubKeysOf == [t \in UNION {Pipeline[p].targets : p \in Pipelines} |-> [z1 |-> {"z1"}, z2 |-> {"z2"}]]
PubBronze == {{"z1"}, {"z2"}}

FairInit ==
    /\ focus \in {"sessions", "publication"}
    /\ Init
    /\ PubInit /\ (focus # "publication" => pipeline = "nces_edge")

FairNext ==
    \/ focus = "sessions" /\ Next /\ UNCHANGED <<focus, pubVars>>
    \/ focus = "publication" /\ PubNext /\ UNCHANGED <<focus, vars>>

FairComponents == FairInit /\ [][FairNext]_<<focus, vars, pubVars>> /\ Fairness /\ PubFairness

\* The component that runs keeps to its types.
FairTypeOK == IF focus = "sessions" THEN TypeOK ELSE PubTypeOK
=============================================================================
