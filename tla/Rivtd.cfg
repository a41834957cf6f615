\* Two connections, two sessions, three panes.
SPECIFICATION SpecRivtd
CONSTANTS
    MaxConn = 2
    MaxSession = 2
    MaxSpawn = 3
    MaxStream = 1
    PaneMod = 8
    SpawnFails = TRUE
INVARIANT PanesExact SessionsPopulated RecordsLive
CHECK_DEADLOCK FALSE
