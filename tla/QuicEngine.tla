----------------------------- MODULE QuicEngine ------------------------------
(***************************************************************************)
(* A client's QuicEngine: one socket, and the connections dialled from it. *)
(* m_client_conn is the last of them, whichever one completed.  The owner  *)
(* hangs its callbacks on the engine; `at' and `kind' are what they        *)
(* captured.  Packets, TLS and the pump's timer are picoquic's and left    *)
(* out: a connection is trying, up or dead.                                *)
(*                                                                         *)
(* Source: src/src/net/quic_engine.cpp.                                    *)
(***************************************************************************)
EXTENDS Naturals, Sequences

\* create_client: an engine with the place its on_connected captures.
CreateClient(kind, at) ==
    [kind |-> kind, at |-> at, conns |-> <<>>]

\* start_connection: the new connection becomes client_conn.
StartConnection(e) == [e EXCEPT !.conns = Append(@, "trying")]

\* connect
Connected(kind, at) == StartConnection(CreateClient(kind, at))

\* client_conn, if there is one that is not dead
StillTrying(e) == e.conns # <<>> /\ e.conns[Len(e.conns)] # "dead"

\* handle_event: the handshake of connection c is done (ready).
Establish(e, c) == [e EXCEPT !.conns[c] = "up"]

\* mark_closed; on_closed is the owner's.
MarkClosed(e, c) == [e EXCEPT !.conns[c] = "dead"]

\* Connections that can still call the owner back.
Handshakes(e) == {c \in DOMAIN e.conns : e.conns[c] = "trying"}
OnlyHandshakes(e) == [e EXCEPT !.conns = SelectSeq(@, LAMBDA c : c = "trying")]
OpenConns(e)  == {c \in DOMAIN e.conns : e.conns[c] # "dead"}
=============================================================================
