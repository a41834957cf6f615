\* Two windows and three panes at most.
SPECIFICATION FairSpec
CONSTANTS
    CellW = 1
    CellH = 1
    Border = 0
    Resizes <- MCResizes
    MaxWindows = 2
    MaxTmuxPanes = 3
    MaxOps = 3
INVARIANT AnswersMatch Mirrored
PROPERTY GatewayReturns
CHECK_DEADLOCK FALSE
