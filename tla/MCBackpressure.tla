--------------------------- MODULE MCBackpressure ----------------------------
\* Two clients, a session of two panes and one of a single pane.
EXTENDS Backpressure, TLC

CONSTANTS p1, p2, p3, s1, s2

PaneSession == p1 :> s1 @@ p2 :> s1 @@ p3 :> s2
=============================================================================
