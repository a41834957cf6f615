------------------------------- MODULE Rivtd ---------------------------------
(***************************************************************************)
(* The registry of the rivtd daemon: sessions, their windows and panes,    *)
(* the pane index m_panes with its raw Pane and Client pointers, client    *)
(* connections, SSH agent streams, and the deferred cleanup in sweep().    *)
(*                                                                         *)
(* The daemon is one thread: EventLoop::poll runs the handlers of a batch  *)
(* of events, then run() calls sweep().  A handler is an action; sweep()   *)
(* is the actions guarded by `sweeping', during which no handler runs.     *)
(* `out' holds the control messages sent and not yet read, for the peers   *)
(* that still read theirs.                                                 *)
(*                                                                         *)
(* Source: src/src/daemon/rivtd.cpp.                                       *)
(***************************************************************************)
EXTENDS Integers, Sequences, FiniteSets, SequencesExt

CONSTANTS
    MaxConn,     \* bound: connections ever accepted
    MaxSession,  \* bound: sessions ever created
    MaxSpawn,    \* bound: pane ids ever drawn
    MaxStream,   \* bound: agent streams ever opened
    PaneMod,     \* pane ids are uint16_t: 65536 in the code
    SpawnFails   \* may spawn_shell fail?

ASSUME RivtdAssumption ==
    /\ MaxConn \in Nat /\ MaxSession \in Nat /\ MaxSpawn \in Nat
    /\ MaxStream \in Nat /\ PaneMod \in Nat \ {0}
    /\ SpawnFails \in BOOLEAN

VARIABLES
    sessions,   \* keys of m_sessions
    wins,       \* every SrvWindow: its id, its session, its panes
    refs,       \* m_panes: pane id -> PaneRef
    dead,       \* m_dead_panes
    sweeping,   \* between poll() and the end of sweep()
    next_sid, next_wid, spawned,
    conn,       \* Client: unused, new (no Hello yet), open, dead, gone
    attached,   \* Client::attached, 0 when not attached
    streams,    \* m_agent_streams
    next_stream,
    peer,       \* is somebody reading the other end of the connection?
    out         \* what was sent and not read

regVars  == <<sessions, wins, refs, dead>>
idVars   == <<next_sid, next_wid, spawned>>
connVars == <<conn, attached, streams, next_stream>>
serverVars == <<regVars, idVars, connVars, sweeping>>
rivtdVars == <<serverVars, peer, out>>

Conns    == 1..MaxConn
NoClient == 0
PaneIds  == 0..(PaneMod - 1)

Windows == [id : Nat, sid : Nat, panes : SUBSET PaneIds]
Refs    == [sid : Nat, wid : Nat, client : Conns \cup {NoClient}]
Streams == [id : Nat, sid : Nat, client : Conns]

-----------------------------------------------------------------------------
(* Messages.                                                               *)

HelloOk              == [t |-> "HelloOk"]
Error                == [t |-> "Error"]
SessionList(S)       == [t |-> "SessionList", list |-> S]
SessionCreated(s, p) == [t |-> "SessionCreated", sid |-> s, pid |-> p]
AttachOk(s)          == [t |-> "AttachOk", sid |-> s]
WindowAdded(w)       == [t |-> "WindowAdded", sid |-> w.sid, wid |-> w.id]
WindowClosed(w)      == [t |-> "WindowClosed", sid |-> w.sid, wid |-> w.id]
Layout(w)            == [t |-> "Layout", sid |-> w.sid, wid |-> w.id,
                         panes |-> w.panes]
PaneExited(p)        == [t |-> "PaneExited", pid |-> p]
SessionClosed(s)     == [t |-> "SessionClosed", sid |-> s]

\* Every "for c in m_clients: if (!c->dead && c->attached == sid) send".
Hears(k, sid)        == conn[k] = "open" /\ attached[k] = sid
Broadcast(sid, msgs) == [k \in Conns |-> IF Hears(k, sid) THEN msgs ELSE <<>>]
Reply(k, msgs)       == [j \in Conns |-> IF j = k THEN msgs ELSE <<>>]
Silence              == [j \in Conns |-> <<>>]

\* send_control, for every connection at once.
Transmit(msgs) ==
    /\ out' = [k \in Conns |-> IF peer[k] THEN out[k] \o msgs[k] ELSE <<>>]
    /\ UNCHANGED peer

-----------------------------------------------------------------------------
(* Looking things up.                                                      *)

Without(f, S)    == [p \in DOMAIN f \ S |-> f[p]]
SessionWins(sid) == {w \in wins : w.sid = sid}
PanesOf(sid)     == UNION {w.panes : w \in SessionWins(sid)}

\* The pane is registered and its session is the one the client looks at.
Owns(k, pid)     == pid \in DOMAIN refs /\ refs[pid].sid = attached[k]

\* m_next_pane, a uint16_t that starts at 1 and wraps.
NextPane         == (spawned + 1) % PaneMod

InitRivtd ==
    /\ sessions = {} /\ wins = {} /\ refs = <<>> /\ dead = <<>>
    /\ sweeping = FALSE
    /\ next_sid = 1 /\ next_wid = 1 /\ spawned = 0
    /\ conn = [k \in Conns |-> "unused"]
    /\ attached = [k \in Conns |-> 0]
    /\ streams = {} /\ next_stream = 1
    /\ peer = [k \in Conns |-> FALSE] /\ out = Silence

-----------------------------------------------------------------------------
(* What the handlers are made of.                                          *)

\* close_session and the m_sessions.erase behind it: agent streams closed,
\* panes unregistered, everyone attached told and detached.
CloseSession(sid, panes, msgs) ==
    /\ sessions' = sessions \ {sid}
    /\ wins' = wins \ SessionWins(sid)
    /\ refs' = Without(refs, panes)
    /\ streams' = {s \in streams : s.sid # sid}
    /\ attached' = [k \in Conns |-> IF Hears(k, sid) THEN 0 ELSE attached[k]]
    /\ Transmit(Broadcast(sid, msgs \o <<SessionClosed(sid)>>))

\* Mutant: the session outlives its last window.
EndWindowKeepSession(w, panes, msgs) ==
    /\ wins' = wins \ {w}
    /\ refs' = Without(refs, panes)
    /\ Transmit(Broadcast(w.sid, msgs \o <<WindowClosed(w)>>))
    /\ UNCHANGED <<sessions, streams, attached>>

\* close_window: the session ends with its last window.
EndWindow(w, panes, msgs) ==
    IF SessionWins(w.sid) = {w}
    THEN CloseSession(w.sid, panes, msgs \o <<WindowClosed(w)>>)
    ELSE /\ wins' = wins \ {w}
         /\ refs' = Without(refs, panes)
         /\ Transmit(Broadcast(w.sid, msgs \o <<WindowClosed(w)>>))
         /\ UNCHANGED <<sessions, streams, attached>>

\* remove_dead_pane, `erased' being what the caller took out of m_panes.
RemovePane(w, pid, erased) ==
    LET v == [w EXCEPT !.panes = @ \ {pid}]
    IN IF v.panes = {}
       THEN EndWindow(w, erased, <<PaneExited(pid)>>)
       ELSE /\ wins' = (wins \ {w}) \cup {v}
            /\ refs' = Without(refs, erased)
            /\ Transmit(Broadcast(w.sid, <<PaneExited(pid), Layout(v)>>))
            /\ UNCHANGED <<sessions, streams, attached>>

Register(pid, sid, wid) ==
    [p \in DOMAIN refs \cup {pid} |->
        IF p = pid THEN [sid |-> sid, wid |-> wid, client |-> NoClient]
        ELSE refs[p]]

\* add_window with a shell that starts, and whether the window is kept.
AddWindow(sid, kept) ==
    /\ wins' = IF kept THEN wins \cup {[id |-> next_wid, sid |-> sid,
                                       panes |-> {NextPane}]} ELSE wins
    /\ refs' = Register(NextPane, sid, next_wid)
    /\ next_wid' = next_wid + 1
    /\ spawned' = spawned + 1

-----------------------------------------------------------------------------
(* Connections.                                                            *)

\* on_accept, or QuicEngine::on_connected.
Accept(k, read) ==
    /\ ~sweeping /\ conn[k] = "unused"
    /\ \A j \in 1..(k - 1) : conn[j] # "unused"
    /\ conn' = [conn EXCEPT ![k] = "new"]
    /\ peer' = [peer EXCEPT ![k] = read] /\ UNCHANGED out
    /\ UNCHANGED <<regVars, idVars, attached, streams, next_stream, sweeping>>

\* kill_client: EOF, a full buffer, a bad frame, an idle QUIC connection.
Kill(k) ==
    /\ ~sweeping /\ conn[k] \in {"new", "open"}
    /\ conn' = [conn EXCEPT ![k] = "dead"]
    /\ UNCHANGED <<peer, out>>
    /\ UNCHANGED <<regVars, idVars, attached, streams, next_stream, sweeping>>

-----------------------------------------------------------------------------
(* handle_control, one action per message.                                 *)

Live(k) == ~sweeping /\ conn[k] = "open"

HandleHello(k) ==
    /\ ~sweeping /\ conn[k] = "new"
    /\ conn' = [conn EXCEPT ![k] = "open"]
    /\ Transmit(Reply(k, <<HelloOk>>))
    /\ UNCHANGED <<regVars, idVars, attached, streams, next_stream, sweeping>>

HandleListSessions(k) ==
    /\ Live(k)
    /\ Transmit(Reply(k, <<SessionList(sessions)>>))
    /\ UNCHANGED <<regVars, idVars, connVars, sweeping>>

\* create_session: the ids are drawn even when the shell does not start.
\* add_window returns the pane id, and id 0 is taken for a failed spawn: the
\* session is erased, with its window, behind a pane already in m_panes.
HandleCreateSession(k) ==
    /\ Live(k) /\ next_sid <= MaxSession /\ spawned < MaxSpawn
    /\ next_sid' = next_sid + 1
    /\ \/ /\ AddWindow(next_sid, NextPane # 0)
          /\ sessions' = sessions \cup (IF NextPane # 0 THEN {next_sid} ELSE {})
          /\ Transmit(Reply(k, <<SessionCreated(IF NextPane # 0 THEN next_sid ELSE 0,
                                              NextPane)>>))
       \/ /\ SpawnFails
          /\ spawned' = spawned + 1
          /\ Transmit(Reply(k, <<SessionCreated(0, 0)>>))
          /\ UNCHANGED <<sessions, wins, refs, next_wid>>
    /\ UNCHANGED <<dead, connVars, sweeping>>

\* Windows are listed as they were opened, and ids only grow.
Nth(sid, i) ==
    CHOOSE w \in SessionWins(sid) :
        Cardinality({v \in SessionWins(sid) : v.id <= w.id}) = i

Announce(sid) ==
    [i \in 1..(2 * Cardinality(SessionWins(sid))) |->
        LET w == Nth(sid, (i + 1) \div 2)
        IN IF i % 2 = 1 THEN WindowAdded(w) ELSE Layout(w)]

HandleAttach(k, sid) ==
    /\ Live(k)
    /\ IF sid \in sessions
       THEN /\ attached' = [attached EXCEPT ![k] = sid]
            /\ Transmit(Reply(k, <<AttachOk(sid)>> \o Announce(sid)))
       ELSE /\ Transmit(Reply(k, <<Error>>))
            /\ UNCHANGED attached
    /\ UNCHANGED <<regVars, idVars, conn, streams, next_stream, sweeping>>

HandleDetach(k) ==
    /\ Live(k)
    /\ attached' = [attached EXCEPT ![k] = 0]
    /\ UNCHANGED <<peer, out>>
    /\ UNCHANGED <<regVars, idVars, conn, streams, next_stream, sweeping>>

HandleNewWindow(k) ==
    /\ Live(k) /\ attached[k] \in sessions /\ spawned < MaxSpawn
    /\ \/ LET w == [id |-> next_wid, sid |-> attached[k], panes |-> {NextPane}]
          IN /\ AddWindow(attached[k], TRUE)
             /\ Transmit(Broadcast(attached[k], <<WindowAdded(w), Layout(w)>>))
       \/ /\ SpawnFails
          /\ spawned' = spawned + 1 /\ UNCHANGED <<peer, out>>
          /\ UNCHANGED <<wins, refs, next_wid>>
    /\ UNCHANGED <<sessions, dead, next_sid, connVars, sweeping>>

\* split_pane; LayoutTree::split finds every pane of the window.
HandleSplit(k, pid) ==
    /\ Live(k) /\ Owns(k, pid) /\ spawned < MaxSpawn
    /\ spawned' = spawned + 1
    /\ \/ \E w \in wins :
            LET v == [w EXCEPT !.panes = @ \cup {NextPane}]
            IN /\ w.sid = attached[k] /\ w.id = refs[pid].wid
               /\ wins' = (wins \ {w}) \cup {v}
               /\ refs' = Register(NextPane, w.sid, w.id)
               /\ Transmit(Broadcast(w.sid, <<Layout(v)>>))
       \/ /\ SpawnFails
          /\ UNCHANGED <<peer, out>>
          /\ UNCHANGED <<wins, refs>>
    /\ UNCHANGED <<sessions, dead, next_sid, next_wid, connVars, sweeping>>

\* Unregistered first; then whichever window holds it loses it.
HandleClosePane(k, pid) ==
    /\ Live(k) /\ Owns(k, pid)
    /\ \E w \in wins : pid \in w.panes /\ RemovePane(w, pid, {pid})
    /\ UNCHANGED <<dead, idVars, conn, next_stream, sweeping>>

HandleCloseWindow(k, wid) ==
    /\ Live(k)
    /\ \E w \in SessionWins(attached[k]) :
          w.id = wid /\ EndWindow(w, w.panes, <<>>)
    /\ UNCHANGED <<dead, idVars, conn, next_stream, sweeping>>

\* Any client may name any session.
HandleKillSession(k, sid) ==
    /\ Live(k) /\ sid \in sessions
    /\ CloseSession(sid, PanesOf(sid), <<>>)
    /\ UNCHANGED <<dead, idVars, conn, next_stream, sweeping>>

\* handle_pane_input: the PaneRef remembers who typed last.
HandleInput(k, pid) ==
    /\ Live(k) /\ Owns(k, pid)
    /\ refs' = [refs EXCEPT ![pid].client = k]
    /\ UNCHANGED <<peer, out>>
    /\ UNCHANGED <<sessions, wins, dead, idVars, connVars, sweeping>>

-----------------------------------------------------------------------------
(* SSH agent forwarding.                                                   *)

\* agent_accept: bridge to the most recently connected attached client.
AgentAccept(sid) ==
    /\ ~sweeping /\ sid \in sessions /\ next_stream <= MaxStream
    /\ \E k \in Conns :
          /\ Hears(k, sid) /\ \A j \in (k + 1)..MaxConn : ~Hears(j, sid)
          /\ streams' = streams \cup
                          {[id |-> next_stream, sid |-> sid, client |-> k]}
          /\ UNCHANGED <<peer, out>>
    /\ next_stream' = next_stream + 1
    /\ UNCHANGED <<regVars, idVars, conn, attached, sweeping>>

\* close_agent_stream: EOF on the socket, or AgentClose from its own client.
AgentClose(s) ==
    /\ ~sweeping /\ s \in streams
    /\ streams' = streams \ {s}
    /\ UNCHANGED <<peer, out>>
    /\ UNCHANGED <<regVars, idVars, conn, attached, next_stream, sweeping>>

-----------------------------------------------------------------------------
(* Deferred cleanup.                                                       *)

\* Pane::on_dead: the shell is gone; the window still holds the pane.
PaneDies(pid) ==
    /\ ~sweeping /\ pid \in DOMAIN refs
    /\ refs' = Without(refs, {pid})
    /\ dead' = Append(dead, pid)
    /\ UNCHANGED <<peer, out>>
    /\ UNCHANGED <<sessions, wins, idVars, connVars, sweeping>>

Dying(k) == conn[k] = "dead"

BeginSweep ==
    /\ ~sweeping /\ (dead # <<>> \/ \E k \in Conns : Dying(k))
    /\ sweeping' = TRUE
    /\ UNCHANGED <<peer, out>>
    /\ UNCHANGED <<regVars, idVars, connVars>>

\* remove_dead_pane for the next dead pane; it may be gone with its window.
SweepPane ==
    /\ sweeping /\ dead # <<>>
    /\ dead' = Tail(dead)
    /\ \/ \E w \in wins : Head(dead) \in w.panes /\ RemovePane(w, Head(dead), {})
       \/ /\ \A w \in wins : Head(dead) \notin w.panes
          /\ UNCHANGED <<peer, out>>
          /\ UNCHANGED <<sessions, wins, refs, attached, streams>>
    /\ UNCHANGED <<idVars, conn, next_stream, sweeping>>

\* Mutant: the dead client's agent streams are not closed.
SweepClientsKeepStreams ==
    /\ sweeping /\ dead = <<>>
    /\ conn' = [k \in Conns |-> IF Dying(k) THEN "gone" ELSE conn[k]]
    /\ refs' = [p \in DOMAIN refs |->
                  IF \E k \in Conns : Dying(k) /\ refs[p].client = k
                  THEN [refs[p] EXCEPT !.client = NoClient] ELSE refs[p]]
    /\ sweeping' = FALSE
    /\ UNCHANGED <<peer, out>>
    /\ UNCHANGED <<sessions, wins, dead, idVars, attached, streams, next_stream>>

\* Dead clients are freed; nothing may keep a pointer to them.
SweepClients ==
    /\ sweeping /\ dead = <<>>
    /\ conn' = [k \in Conns |-> IF Dying(k) THEN "gone" ELSE conn[k]]
    /\ refs' = [p \in DOMAIN refs |->
                  IF \E k \in Conns : Dying(k) /\ refs[p].client = k
                  THEN [refs[p] EXCEPT !.client = NoClient] ELSE refs[p]]
    /\ streams' = {s \in streams : ~Dying(s.client)}
    /\ sweeping' = FALSE
    /\ UNCHANGED <<peer, out>>
    /\ UNCHANGED <<sessions, wins, dead, idVars, attached, next_stream>>

Holder(p) == CHOOSE w \in wins : p \in w.panes

\* Mutant: only panes still in m_panes are handed over.
UpgradeDaemonLosesDead ==
    /\ ~sweeping
    /\ conn' = [k \in Conns |-> IF conn[k] = "unused" THEN "unused" ELSE "gone"]
    /\ attached' = [k \in Conns |-> 0]
    /\ streams' = {} /\ next_stream' = 1
    /\ refs' = [p \in DOMAIN refs |-> [refs[p] EXCEPT !.client = NoClient]]
    /\ dead' = <<>>
    /\ UNCHANGED <<peer, out>>
    /\ UNCHANGED <<sessions, wins, idVars, sweeping>>

\* upgrade + restore_handover: ids, sessions, windows and panes are carried
\* over (a shell that just died reports again); clients and streams are not.
UpgradeDaemon ==
    /\ ~sweeping
    /\ conn' = [k \in Conns |-> IF conn[k] = "unused" THEN "unused" ELSE "gone"]
    /\ attached' = [k \in Conns |-> 0]
    /\ streams' = {} /\ next_stream' = 1
    /\ refs' = [p \in UNION {w.panes : w \in wins} |->
                  LET w == Holder(p)
                  IN [sid |-> w.sid, wid |-> w.id, client |-> NoClient]]
    /\ dead' = <<>>
    /\ UNCHANGED <<peer, out>>
    /\ UNCHANGED <<sessions, wins, idVars, sweeping>>

-----------------------------------------------------------------------------
Request(k) ==
    \/ HandleHello(k) \/ HandleListSessions(k) \/ HandleCreateSession(k)
    \/ HandleDetach(k) \/ HandleNewWindow(k)
    \/ \E sid \in 1..MaxSession : HandleAttach(k, sid) \/ HandleKillSession(k, sid)
    \/ \E pid \in DOMAIN refs :
          HandleSplit(k, pid) \/ HandleClosePane(k, pid) \/ HandleInput(k, pid)
    \/ \E wid \in {w.id : w \in wins} : HandleCloseWindow(k, wid)

Background ==
    \/ \E sid \in sessions : AgentAccept(sid)
    \/ \E s \in streams : AgentClose(s)
    \/ \E pid \in DOMAIN refs : PaneDies(pid)
    \/ BeginSweep \/ SweepPane \/ SweepClients \/ UpgradeDaemon

NextRivtd ==
    \/ \E k \in Conns : Accept(k, FALSE) \/ Kill(k) \/ Request(k)
    \/ Background

-----------------------------------------------------------------------------
(* Properties.                                                             *)

RivtdTypeOK ==
    /\ sessions \subseteq Nat /\ wins \subseteq Windows
    /\ DOMAIN refs \subseteq PaneIds /\ \A p \in DOMAIN refs : refs[p] \in Refs
    /\ dead \in Seq(PaneIds) /\ sweeping \in BOOLEAN
    /\ next_sid \in Nat /\ next_wid \in Nat /\ spawned \in Nat
    /\ conn \in [Conns -> {"unused", "new", "open", "dead", "gone"}]
    /\ attached \in [Conns -> Nat]
    /\ streams \subseteq Streams /\ next_stream \in Nat
    /\ peer \in [Conns -> BOOLEAN]

Registered(w) == {p \in DOMAIN refs : refs[p].wid = w.id /\ refs[p].sid = w.sid}

\* m_panes is exact: each entry points into the one window that owns the
\* pane, and a pane that has no entry is waiting for the sweep.  A wrong
\* entry is a dangling Pane pointer; a missing one is a pane nobody can
\* type into, resize or close.
PanesExact ==
    /\ \A p \in DOMAIN refs : \E w \in wins : p \in w.panes /\ p \in Registered(w)
    /\ \A w \in wins : w.panes \ Registered(w) \subseteq ToSet(dead)
    /\ \A v, w \in wins : v # w => (v.id # w.id /\ v.panes \cap w.panes = {})

\* A session never outlives its last window nor a window its last pane,
\* whichever of shell exit, ClosePane, CloseWindow and KillSession comes
\* first: an attached client would be left with nothing and never told.
SessionsPopulated ==
    /\ \A w \in wins : w.panes # {} /\ w.sid \in sessions
    /\ \A sid \in sessions : SessionWins(sid) # {}

ClientsLive ==
    /\ \A p \in DOMAIN refs :
          refs[p].client # NoClient => conn[refs[p].client] \in {"open", "dead"}
    /\ \A s \in streams : conn[s.client] \in {"open", "dead"}

AttachedLive ==
    /\ \A k \in Conns : conn[k] = "open" => attached[k] \in sessions \cup {0}
    /\ \A s \in streams : s.sid \in sessions

\* "valid until sweep() reaps it": no PaneRef and no agent stream keeps a
\* Client that the sweep has freed; and a live client, like a stream, belongs
\* to a session that is still there (m_sessions.at would throw).
RecordsLive == ClientsLive /\ AttachedLive

\* messages.h: pane channels carry "channel = pane id, > 0".
PaneIdPositive == 0 \notin DOMAIN refs

SpecRivtd == InitRivtd /\ [][NextRivtd]_rivtdVars
=============================================================================
