\* Two ssh connections; every ready descriptor fits a batch.
SPECIFICATION FairAgentSpec
CONSTANTS
    Talk <- MCTalk
    MaxConn = 2
    MaxFaults = 1
    MaxBatch = 5
INVARIANT NothingLost
PROPERTY EndsTogether
CHECK_DEADLOCK FALSE
