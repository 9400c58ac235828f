---------------------------- MODULE MCVoterFileLoad ----------------------------
(* A file of two chunks. *)
EXTENDS VoterFileLoad

TwoChunks == {<<"rows", "rows">>}
=============================================================================
