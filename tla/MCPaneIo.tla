------------------------------ MODULE MCPaneIo ------------------------------
(***************************************************************************)
(* The two halves of sequences, strings and characters, which any two of   *)
(* them put together rightly or wrongly.                                   *)
(***************************************************************************)
EXTENDS PaneIo

SomeOutputs == {
    <<"ESC", "[", "digit">>, <<"?", "m">>, <<"ESC", "]", "ESC">>, <<"backslash">>,
    <<"ESC", "P", "space">>, <<"lead3", "cont">>, <<"cont", "BEL">>, <<"ESC", "_">> }
=============================================================================
