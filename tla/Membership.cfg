\* A laptop without a daemon pairs two boxes; a request fails or a process dies.
SPECIFICATION FairSpec
CONSTANTS
    a = a
    b = b
    c = c
    Devices = {a, b, c}
    Syncers = {b, c}
    Founders = {b}
    Inviters = {a}
    MaxOps = 3
    MaxFaults = 1
INVARIANT  LogsVerify
PROPERTY DiskGrows Converges
CHECK_DEADLOCK FALSE
