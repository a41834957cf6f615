\* Links fail, engines deliver late, m_early overflows, the daemon upgrades.
SPECIFICATION FairSpec
CONSTANTS
    MaxOut = 4
    MaxChunk = 2
    MaxLife = 2
    RingMax = 2
    EarlyMax = 1
    EarlyOverflow = TRUE
    UniqueEpochs = TRUE
    LateDelivery = TRUE
INVARIANT ReplicaFaithful ResumeCurrent
PROPERTY OffsetMonotone ReplicaSpec CatchUp
CHECK_DEADLOCK FALSE
