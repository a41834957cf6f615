---------------------------- MODULE MCReconnect ------------------------------
(***************************************************************************)
(* One candidate address beside the punch, and a daemon that answers with  *)
(* an address of its network or with the one STUN saw; a second answer     *)
(* may give the other.                                                     *)
(***************************************************************************)
EXTENDS Reconnect

CONSTANT a1
MCAddresses == {a1}
MCAnswers == {{"local"}, {"stun"}}
=============================================================================
