----------------------------- MODULE Signaling -------------------------------
(***************************************************************************)
(* The shared signaling socket of a process: offers go out on it, or wait  *)
(* in m_pending for it to open; answers come in on it.  A socket whose TCP *)
(* connection is silently dead still counts as open.                       *)
(*                                                                         *)
(* Source: src/src/net/signaling.cpp.                                      *)
(***************************************************************************)
EXTENDS Naturals

\* The socket is open, open but dead, or down: connecting, refused or closed.
NoSocket == [ws |-> "down", pending |-> FALSE, offer |-> FALSE]

\* start, and restart: what waits in m_pending waits on.
Restart(sg) == [sg EXCEPT !.ws = "down"]

\* shared: `stale' is 95 seconds without a frame.
Shared(sg, stale) == IF stale THEN Restart(sg) ELSE sg

\* send: an offer to the peer.  One on its way is like two.
Send(sg) ==
    CASE sg.ws = "open" -> [sg EXCEPT !.offer = TRUE]
      [] sg.ws = "dead" -> sg
      [] OTHER          -> [sg EXCEPT !.pending = TRUE]

\* on_open
Opened(sg) == [ws |-> "open", pending |-> FALSE, offer |-> sg.offer \/ sg.pending]

\* The connection is lost, noticed (on_close) or not.
Lost(sg, noticed) == [sg EXCEPT !.ws = IF noticed THEN "down" ELSE "dead"]
=============================================================================
