----------------------------- MODULE PaneReplica -----------------------------
(***************************************************************************)
(* What rivtd promises a client about one pane: the client's screen is, at *)
(* every moment, the screen the shell's first `shown` bytes produce, it    *)
(* only moves forward, and it never runs ahead of the shell.  PaneStream   *)
(* implements this with frames, a replay ring, offsets and reconnects.     *)
(***************************************************************************)
EXTENDS Naturals

VARIABLES produced,   \* bytes the pane's program has written
          shown       \* bytes the client's replica has applied, in order, once

vars == <<produced, shown>>

TypeOK == produced \in Nat /\ shown \in Nat

Init == produced = 0 /\ shown = 0

\* The program writes.
Produce == /\ produced' \in Nat
           /\ produced' > produced
           /\ UNCHANGED shown

\* The replica advances: by output that continues it, or by a snapshot.
Show == /\ shown' \in Nat
        /\ shown' > shown
        /\ shown' <= produced
        /\ UNCHANGED produced

Next == Produce \/ Show

Spec == Init /\ [][Next]_vars
=============================================================================
