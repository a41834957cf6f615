\* Two clients, a session of two panes and one of a single pane.
SPECIFICATION FairSpec
CONSTANTS
    p1 = p1
    p2 = p2
    p3 = p3
    s1 = s1
    s2 = s2
    Clients = {c1, c2}
    Panes = {p1, p2, p3}
    Sessions = {s1, s2}
    SessionOf <- PaneSession
    Low = 2
    High = 3
    Burst = 2
    Snap = 2
    MaxAttach = 2
INVARIANT NeverLeftPaused QueueBounded
PROPERTY StallEnds
CHECK_DEADLOCK FALSE
