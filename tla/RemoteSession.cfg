\* One window, its ghosts of lost connections, an upgrade, a shell exit.
SPECIFICATION FairSpec
CONSTANTS
    MaxConn = 2
    MaxSession = 1
    MaxSpawn = 3
    MaxStream = 0
    PaneMod = 8
    SpawnFails = FALSE
    Users = {u1}
    MaxRequest = 1
    MaxDeath = 1
    MaxUpgrade = 1
    MaxLocal = 1
INVARIANT TypeOK 
PROPERTY NoLiveWindowDropped 
CHECK_DEADLOCK FALSE
