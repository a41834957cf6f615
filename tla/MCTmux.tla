------------------------------- MODULE MCTmux -------------------------------
(***************************************************************************)
(* A session of at most two windows and three panes, and one resize.       *)
(***************************************************************************)
EXTENDS Tmux

MCResizes == {1}
=============================================================================
