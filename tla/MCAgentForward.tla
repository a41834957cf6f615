--------------------------- MODULE MCAgentForward ----------------------------
(***************************************************************************)
(* Two ssh connections, of which the second takes the descriptors that the *)
(* first leaves.                                                           *)
(***************************************************************************)
EXTENDS AgentForward
MCTalk == <<2, 0>>
=============================================================================
