----------------------------- MODULE VoterFileLoad -----------------------------
(***************************************************************************)
(* load_voter_file (swh/voters/_legacy_raw.py, `swh load-voters`): the     *)
(* chunks of a CSV go to a staging table, which then takes the name of the *)
(* target in one transaction.  Loads of one target table can overlap, fail *)
(* and be killed; each load here is one call.                              *)
(*                                                                         *)
(* A file is a sequence of chunks: "rows", "none" (no valid coordinates)   *)
(* or "drifted" (other columns than the first).  A table is the set of     *)
(* <<load, chunk>> in it; there is none before the first chunk comes.      *)
(***************************************************************************)
EXTENDS Naturals, Sequences

CONSTANTS
    Loads,
    VoterFiles

ASSUME VoterFileAssumption ==
    /\ VoterFiles \subseteq Seq({"rows", "none", "drifted"})
    /\ \A file \in VoterFiles : \A n \in DOMAIN file :
          file[n] = "drifted" => \E m \in 1..(n - 1) : file[m] = "rows"

VARIABLES
    target,
    staging,  \* staging[name]: a staging table
    reading   \* reading[l]: a load's file, place in it, first_chunk, and refused chunks

voterVars == <<target, staging, reading>>

NoTable == {}
NotBegun == [step |-> "ready", file |-> <<>>, at |-> 1, first |-> TRUE, refused |-> {}]

VoterInit ==
    /\ target = NoTable
    /\ staging = [l \in Loads |-> NoTable]
    /\ reading = [l \in Loads |-> NotBegun]

\* mutant: the name of the staging table lacks the uuid
StagingOfTable(l) == CHOOSE m \in Loads : TRUE

\* _staging_<table>_<uuid>
StagingOf(l) == l

\* an invalid identifier ends the call before this
BeginFile(l, file) ==
    /\ reading[l].step = "ready"
    /\ reading' = [reading EXCEPT ![l].step = "reading", ![l].file = file]
    /\ UNCHANGED <<target, staging>>

Chunk(l) == reading[l].file[reading[l].at]
MoreChunks(l) == reading[l].step = "reading" /\ reading[l].at <= Len(reading[l].file)
PastChunk(l) == [reading[l] EXCEPT !.at = @ + 1]

\* len(gdf) == 0
SkipChunk(l) ==
    /\ MoreChunks(l) /\ Chunk(l) = "none"
    /\ reading' = [reading EXCEPT ![l] = PastChunk(l)]
    /\ UNCHANGED <<target, staging>>

\* a drifted chunk is not uploaded: RaiseLoad
Uploadable(l) == MoreChunks(l) /\ Chunk(l) = "rows"

UploadChunk(l) ==
    LET name == StagingOf(l) chunk == <<l, reading[l].at>> IN
    /\ Uploadable(l)
    /\ staging' = [staging EXCEPT ![name] = (IF reading[l].first THEN {} ELSE staging[name]) \cup {chunk}]
    /\ reading' = [reading EXCEPT ![l] = [PastChunk(l) EXCEPT !.first = FALSE]]
    /\ UNCHANGED target

\* upload_spatial_data returns False, which nothing looks at
RefuseChunk(l) ==
    /\ Uploadable(l)
    /\ reading' = [reading EXCEPT ![l] =
          [PastChunk(l) EXCEPT !.first = FALSE, !.refused = @ \cup {reading[l].at}]]
    /\ UNCHANGED <<target, staging>>

\* the target is locked if it was there, dropped, and the staging table renamed;
\* without a staging table the rename fails and the transaction with it
SwapTables(l) ==
    /\ reading[l].step = "reading" /\ ~MoreChunks(l)
    /\ staging[StagingOf(l)] # NoTable
    /\ target' = staging[StagingOf(l)]
    /\ staging' = [staging EXCEPT ![StagingOf(l)] = NoTable]
    /\ reading' = [reading EXCEPT ![l].step = "done"]

\* a drifted chunk, a missing column, the parser or the database raises
RaiseLoad(l) ==
    /\ reading[l].step = "reading"
    /\ reading' = [reading EXCEPT ![l].step = "cleanup"]
    /\ UNCHANGED <<target, staging>>

\* DROP TABLE IF EXISTS and raise
CleanUp(l) ==
    /\ reading[l].step = "cleanup"
    /\ staging' = [staging EXCEPT ![StagingOf(l)] = NoTable]
    /\ reading' = [reading EXCEPT ![l].step = "failed"]
    /\ UNCHANGED target

\* the cleanup fails, or the process dies: an operator has to drop the table
LeaveStaging(l) ==
    /\ reading[l].step \in {"reading", "cleanup"}
    /\ reading' = [reading EXCEPT ![l].step = "left"]
    /\ UNCHANGED <<target, staging>>

VoterNext == \E l \in Loads :
    \/ \E file \in VoterFiles : BeginFile(l, file)
    \/ SkipChunk(l) \/ UploadChunk(l) \/ RefuseChunk(l)
    \/ SwapTables(l) \/ RaiseLoad(l) \/ CleanUp(l) \/ LeaveStaging(l)

VoterSpec == VoterInit /\ [][VoterNext]_voterVars

-----------------------------------------------------------------------------
(* Properties *)

VoterTypeOK ==
    /\ \A l \in Loads : reading[l].step \in {"ready", "reading", "cleanup", "done", "failed", "left"}
    /\ \A l \in Loads : reading[l].at \in 1..(Len(reading[l].file) + 1)

\* the chunks of a load's file that should be in the table
ChunksOf(l) == {<<l, n>> : n \in {m \in DOMAIN reading[l].file : reading[l].file[m] # "none"}}
Refused(l) == {<<l, n>> : n \in reading[l].refused}

\* However loads of one table overlap, fail and die, the target holds the whole
\* file of one load that succeeded but for the chunks that were refused, and no
\* staging table outlives a load that succeeded or cleaned up after itself.
LoadIsAllOrNothing ==
    /\ target # NoTable => \E l \in Loads : reading[l].step = "done" /\ target = ChunksOf(l) \ Refused(l)
    /\ \A l \in Loads : reading[l].step \in {"done", "failed"} => staging[l] = NoTable

\* "Uses a staging table for atomicity — if any chunk fails, the target table is
\* left untouched" (the docstring of load_voter_file).
ChunkFailureLeavesTarget ==
    [][\A l \in Loads : reading[l].refused # {} /\ reading'[l].step = "done" => target' = target]_voterVars
=============================================================================
