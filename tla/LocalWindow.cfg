\* Three tabs, three panes, cells of two pixels.
SPECIFICATION Spec
CONSTANTS
    CellW = 2
    CellH = 2
    Border = 2
    BarHeight = 4
    StartSize <- MCStart
    Sizes <- MCSizes
    Points <- MCPoints
    MaxTabs = 3
    MaxPanes = 3
    MaxOps = 7
INVARIANT TabsAgree Tiled
PROPERTY KeysStay
CHECK_DEADLOCK FALSE
