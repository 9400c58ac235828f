\* One load after another.
SPECIFICATION VoterSpec
CONSTANTS
    Loads = {"l1", "l2"}
    VoterFiles <- TwoChunks
CHECK_DEADLOCK FALSE
PROPERTY ChunkFailureLeavesTarget
