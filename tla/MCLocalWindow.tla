--------------------------- MODULE MCLocalWindow ---------------------------
(***************************************************************************)
(* A window of ten cells by ten, a smaller size, and points on a divider   *)
(* and beside it.                                                          *)
(***************************************************************************)
EXTENDS LocalWindow

MCStart == <<40, 42>>
MCSizes == {<<40, 42>>, <<30, 24>>}
MCPoints == {<<19, 30>>, <<8, 12>>}
=============================================================================
