\* Two by two cells, two lines of history, snapshots with one line of it.
SPECIFICATION Spec
CONSTANTS
    Limit = 2
    Cols = 2
    Rws = 2
    Outputs <- MCOutputs
    Sizes <- MCSizes
    AttachLines = 1
    FetchLines = 1
    MaxOps = 4
    MaxWire = 1
INVARIANT TypeOK ReplicaExact HistoryAgrees
PROPERTY HistoryImmutable ReflowKeepsText
CHECK_DEADLOCK FALSE
