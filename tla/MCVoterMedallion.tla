-------------------------- MODULE MCVoterMedallion --------------------------
(* A small instance of VoterMedallion: two records of the voter, who moves  *)
(* and votes between them, and an address at the second of the places.      *)
EXTENDS VoterMedallion, TLC

CONSTANTS w1, w2, home, away, general, primary, score, low, high

Facts(g, p, s) == (general :> g) @@ (primary :> p) @@ (score :> s)

First == [place |-> home, facts |-> Facts(low, Absent, low)]
Second == [place |-> away, facts |-> Facts(low, high, Absent)]
MCRecords == {First, Second}

MCPlaceOf == 1 :> away

\* Death ends a command after any stage: these three have the shorter ones as prefixes.
MCCommands == {"ingestAll", "all", "backfill"}

WorkerSymmetry == Permutations({w1, w2})
=============================================================================
