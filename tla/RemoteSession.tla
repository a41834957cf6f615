--------------------------- MODULE RemoteSession -----------------------------
(***************************************************************************)
(* rivtd and its remote windows: each user's RemoteController mirrors the  *)
(* windows and panes of one session (m_windows, m_pane_map) from the       *)
(* control stream, and re-attaches after a lost connection with a          *)
(* SessionList reply as the end mark of the re-announced windows.          *)
(*                                                                         *)
(* Requests and control messages travel in order; a lost connection drops  *)
(* what the client has not read, and the daemon may go on believing in a   *)
(* connection its client has abandoned.                                    *)
(*                                                                         *)
(* Sources: src/src/remote/remote_controller.cpp, remote_client.cpp,       *)
(* src/src/core/window.cpp, and src/src/daemon/rivtd.cpp by way of Rivtd.  *)
(***************************************************************************)
EXTENDS Rivtd

CONSTANTS
    Users,       \* remote windows
    MaxRequest,  \* bound: requests the users make, all together
    MaxDeath,    \* bound: shells that exit
    MaxUpgrade,  \* bound: daemon upgrades
    MaxLocal     \* panes a user closes while reconnecting

ASSUME SessionAssumption ==
    /\ MaxRequest \in Nat /\ MaxDeath \in Nat /\ MaxUpgrade \in Nat
    /\ MaxLocal \in Nat

VARIABLES
    up,            \* per connection: requests not yet served
    link,          \* per user: its connection, 0 when it has none
    mode,          \* idle, connecting, active, reconnecting, exited
    newest,        \* m_target_sid: ATTACH_NEWEST at first, or 0 (create)
    session,       \* m_session_id
    mwins, mpanes, \* m_windows; m_pane_map as pane id -> window id
    resyncing, announced,
    freed,         \* panes and tabs freed behind the maps' back
    requests, deaths, upgrades

mirrorVars == <<mwins, mpanes, resyncing, announced>>
userVars   == <<link, mode, newest, session, mirrorVars, freed>>
countVars  == <<requests, deaths, upgrades>>
vars == <<rivtdVars, up, userVars, countVars>>

Init ==
    /\ InitRivtd
    /\ up = [k \in Conns |-> <<>>]
    /\ link = [u \in Users |-> 0] /\ mode = [u \in Users |-> "idle"]
    /\ newest \in [Users -> BOOLEAN]
    /\ session = [u \in Users |-> 0]
    /\ mwins = [u \in Users |-> {}] /\ mpanes = [u \in Users |-> <<>>]
    /\ resyncing = [u \in Users |-> FALSE] /\ announced = [u \in Users |-> {}]
    /\ freed = [u \in Users |-> {}]
    /\ requests = 0 /\ deaths = 0 /\ upgrades = 0

-----------------------------------------------------------------------------
(* The daemon's side: Rivtd's handlers, fed from `up'.                     *)

\* A request the daemon finds nothing to do for.
Ignored(k, r) ==
    /\ Live(k)
    /\ \/ r.op \in {"Split", "ClosePane"} /\ ~Owns(k, r.id)
       \/ r.op = "NewWindow" /\ attached[k] \notin sessions
       \/ r.op = "CloseWindow" /\ \A w \in SessionWins(attached[k]) : w.id # r.id
       \/ r.op = "KillSession" /\ r.id \notin sessions
    /\ UNCHANGED rivtdVars

Handle(k, r) ==
    \/ r.op = "Hello" /\ HandleHello(k)
    \/ r.op = "ListSessions" /\ HandleListSessions(k)
    \/ r.op = "CreateSession" /\ HandleCreateSession(k)
    \/ r.op = "Attach" /\ HandleAttach(k, r.id)
    \/ r.op = "NewWindow" /\ HandleNewWindow(k)
    \/ r.op = "Split" /\ HandleSplit(k, r.id)
    \/ r.op = "ClosePane" /\ HandleClosePane(k, r.id)
    \/ r.op = "CloseWindow" /\ HandleCloseWindow(k, r.id)
    \/ r.op = "KillSession" /\ HandleKillSession(k, r.id)
    \/ Ignored(k, r)

Serve(k) ==
    /\ up[k] # <<>> /\ Handle(k, Head(up[k]))
    /\ up' = [up EXCEPT ![k] = Tail(@)]
    /\ UNCHANGED <<userVars, countVars>>

ShellExits(pid) ==
    /\ deaths < MaxDeath /\ PaneDies(pid)
    /\ deaths' = deaths + 1
    /\ UNCHANGED <<up, userVars, requests, upgrades>>

Sweep ==
    /\ BeginSweep \/ SweepPane \/ SweepClients
    /\ UNCHANGED <<up, userVars, countVars>>

\* The daemon gives a connection up: idle timeout, full buffer, reset.
Drop(k) ==
    /\ Kill(k)
    /\ UNCHANGED <<up, userVars, countVars>>

Upgrade ==
    /\ upgrades < MaxUpgrade /\ UpgradeDaemon
    /\ upgrades' = upgrades + 1
    /\ UNCHANGED <<up, userVars, requests, deaths>>

-----------------------------------------------------------------------------
(* Requests.                                                               *)

Req(op, id) == [op |-> op, id |-> id]

Send(u, r) == up' = [up EXCEPT ![link[u]] = Append(@, r)]

\* A key binding, the tab bar, a pane's close: whatever the mirror shows.
UserRequest(u, r) ==
    /\ mode[u] = "active" /\ requests < MaxRequest
    /\ Send(u, r)
    /\ requests' = requests + 1
    /\ UNCHANGED <<rivtdVars, userVars, deaths, upgrades>>

AskAny(u) ==
    \/ UserRequest(u, Req("NewWindow", 0))
    \/ \E p \in DOMAIN mpanes[u] : UserRequest(u, Req("Split", p))
    \/ \E p \in DOMAIN mpanes[u] : UserRequest(u, Req("ClosePane", p))
    \/ \E w \in mwins[u] : UserRequest(u, Req("CloseWindow", w))

\* RemoteClient::close: the rest of the control stream is not read.
HangUp(u) ==
    /\ peer' = [peer EXCEPT ![link[u]] = FALSE]
    /\ out' = [out EXCEPT ![link[u]] = <<>>]
    /\ link' = [link EXCEPT ![u] = 0]

\* Mutant: the window goes, its connection stays.
ExitKeepLink(u) ==
    /\ mode' = [mode EXCEPT ![u] = "exited"]
    /\ mwins' = [mwins EXCEPT ![u] = {}]
    /\ mpanes' = [mpanes EXCEPT ![u] = <<>>]
    /\ resyncing' = [resyncing EXCEPT ![u] = FALSE]
    /\ announced' = [announced EXCEPT ![u] = {}]
    /\ freed' = [freed EXCEPT ![u] = {}]
    /\ UNCHANGED <<newest, session, link, peer, out>>

\* exit(): on_exit closes the OS window, and the client with it.
Exit(u) ==
    /\ HangUp(u)
    /\ mode' = [mode EXCEPT ![u] = "exited"]
    /\ mwins' = [mwins EXCEPT ![u] = {}]
    /\ mpanes' = [mpanes EXCEPT ![u] = <<>>]
    /\ resyncing' = [resyncing EXCEPT ![u] = FALSE]
    /\ announced' = [announced EXCEPT ![u] = {}]
    /\ freed' = [freed EXCEPT ![u] = {}]
    /\ UNCHANGED <<newest, session>>

\* notify_window_closing on a throwaway session: KillSession leaves first.
CloseOsWindow(u) ==
    /\ mode[u] = "active" /\ requests < MaxRequest
    /\ Send(u, Req("KillSession", session[u]))
    /\ requests' = requests + 1
    /\ Exit(u)
    /\ UNCHANGED <<serverVars, deaths, upgrades>>

\* initialize() and RemoteClient::connect; later, the reconnect timer.
Connect(u) ==
    /\ mode[u] = "idle" \/ (mode[u] = "reconnecting" /\ link[u] = 0)
    /\ \E k \in Conns :
          /\ Accept(k, TRUE)
          /\ link' = [link EXCEPT ![u] = k]
          /\ up' = [up EXCEPT ![k] = <<Req("Hello", 0)>>]
    /\ mode' = [mode EXCEPT ![u] = IF @ = "idle" THEN "connecting" ELSE @]
    /\ UNCHANGED <<newest, session, mirrorVars, freed, countVars>>

\* RemoteClient::fail, from EOF, a dead path or a closed connection.
Disconnect(u) ==
    /\ link[u] # 0
    /\ \/ /\ mode[u] \in {"active", "reconnecting"}
          /\ HangUp(u)
          /\ mode' = [mode EXCEPT ![u] = "reconnecting"]
          /\ UNCHANGED <<newest, session, mirrorVars, freed>>
       \/ mode[u] = "connecting" /\ Exit(u)
    /\ UNCHANGED <<serverVars, up, countVars>>

\* The daemon no longer serves the user's connection.
Unserved(u) == link[u] # 0 /\ conn[link[u]] \notin {"new", "open"}

\* close_focused_pane_routed and the tab bar ask is_active(), which is false
\* while reconnecting: the local path frees the Pane and keeps the map.
CloseLocally(u) ==
    /\ Cardinality(freed[u]) < MaxLocal /\ mode[u] = "reconnecting"
    /\ \E p \in DOMAIN mpanes[u] : freed' = [freed EXCEPT ![u] = @ \cup {p}]
    /\ UNCHANGED <<rivtdVars, up, link, mode, newest, session,
                   mirrorVars, countVars>>

-----------------------------------------------------------------------------
(* RemoteController's callbacks, one action per message.                   *)

Incoming(u) == Head(out[link[u]])

Gets(u, t) ==
    /\ link[u] # 0 /\ out[link[u]] # <<>> /\ Incoming(u).t = t
    /\ UNCHANGED <<serverVars, countVars>>

Read(u) == out' = [out EXCEPT ![link[u]] = Tail(@)] /\ UNCHANGED peer

OnHelloOk(u) ==
    /\ Gets(u, "HelloOk") /\ Read(u)
    /\ Send(u, IF mode[u] = "reconnecting" THEN Req("Attach", session[u])
               ELSE IF newest[u] THEN Req("ListSessions", 0)
               ELSE Req("CreateSession", 0))
    /\ UNCHANGED userVars

OnSessionCreated(u) ==
    /\ Gets(u, "SessionCreated")
    /\ \/ /\ Incoming(u).pid # 0 /\ Read(u)
          /\ Send(u, Req("Attach", Incoming(u).sid))
          /\ UNCHANGED userVars
       \/ Incoming(u).pid = 0 /\ Exit(u) /\ UNCHANGED up

\* The re-announced windows follow AttachOk; SessionList will mark their end.
OnAttachOk(u) ==
    /\ Gets(u, "AttachOk") /\ Read(u)
    /\ session' = [session EXCEPT ![u] = Incoming(u).sid]
    /\ mode' = [mode EXCEPT ![u] = "active"]
    /\ announced' = [announced EXCEPT ![u] = {}]
    /\ resyncing' = [resyncing EXCEPT ![u] = TRUE]
    /\ Send(u, Req("ListSessions", 0))
    /\ UNCHANGED <<link, newest, mwins, mpanes, freed>>

KeepWindows(u, keep) ==
    /\ mwins' = [mwins EXCEPT ![u] = @ \cap keep]
    /\ mpanes' = [mpanes EXCEPT ![u] =
                    Without(@, {p \in DOMAIN @ : @[p] \in mwins[u] \ keep})]

\* ATTACH_NEWEST, answered: attach to the newest session, or create one.
Choose(u, list) ==
    IF mode[u] = "active" \/ ~newest[u] THEN UNCHANGED up
    ELSE Send(u, IF list = {} THEN Req("CreateSession", 0)
                 ELSE Req("Attach", Max(list)))

\* Mutant: the end mark does not drop what was not announced.
OnSessionListKeep(u) ==
    /\ Gets(u, "SessionList") /\ Read(u)
    /\ IF resyncing[u]
       THEN /\ resyncing' = [resyncing EXCEPT ![u] = FALSE]
            /\ announced' = [announced EXCEPT ![u] = {}]
            /\ UNCHANGED <<up, mwins, mpanes>>
       ELSE Choose(u, Incoming(u).list) /\ UNCHANGED mirrorVars
    /\ UNCHANGED <<link, mode, newest, session, freed>>

\* While resyncing this is the end mark: windows not announced are gone.
OnSessionList(u) ==
    /\ Gets(u, "SessionList") /\ Read(u)
    /\ IF resyncing[u]
       THEN /\ resyncing' = [resyncing EXCEPT ![u] = FALSE]
            /\ announced' = [announced EXCEPT ![u] = {}]
            /\ KeepWindows(u, announced[u])
            /\ UNCHANGED up
       ELSE Choose(u, Incoming(u).list) /\ UNCHANGED mirrorVars
    /\ UNCHANGED <<link, mode, newest, session, freed>>

\* Mutant: windows opened during the resync are not counted as announced.
OnWindowAddedKnown(u) ==
    /\ Gets(u, "WindowAdded") /\ Read(u)
    /\ LET w == Incoming(u).wid
       IN IF Incoming(u).sid = session[u]
          THEN /\ announced' = IF resyncing[u] /\ w \in mwins[u]
                               THEN [announced EXCEPT ![u] = @ \cup {w}]
                               ELSE announced
               /\ mwins' = [mwins EXCEPT ![u] = @ \cup {w}]
          ELSE UNCHANGED <<announced, mwins>>
    /\ UNCHANGED <<up, link, mode, newest, session, mpanes, resyncing, freed>>

OnWindowAdded(u) ==
    /\ Gets(u, "WindowAdded") /\ Read(u)
    /\ LET w == Incoming(u).wid
       IN IF Incoming(u).sid = session[u]
          THEN /\ announced' = IF resyncing[u]
                               THEN [announced EXCEPT ![u] = @ \cup {w}]
                               ELSE announced
               /\ mwins' = [mwins EXCEPT ![u] = @ \cup {w}]
          ELSE UNCHANGED <<announced, mwins>>
    /\ UNCHANGED <<up, link, mode, newest, session, mpanes, resyncing, freed>>

\* Mutant: panes that left the layout are kept.
OnLayoutKeep(u) ==
    /\ Gets(u, "Layout") /\ Read(u)
    /\ LET m == Incoming(u)
           old == DOMAIN mpanes[u]
       IN IF m.sid = session[u] /\ m.wid \in mwins[u]
          THEN mpanes' = [mpanes EXCEPT ![u] = [p \in old \cup m.panes |->
                            IF p \in old THEN @[p] ELSE m.wid]]
          ELSE UNCHANGED mpanes
    /\ UNCHANGED <<up, link, mode, newest, session, mwins, resyncing,
                   announced, freed>>

\* apply_layout: create the panes that are new, drop the window's others.
OnLayout(u) ==
    /\ Gets(u, "Layout") /\ Read(u)
    /\ LET m == Incoming(u)
           old == {p \in DOMAIN mpanes[u] :
                     p \in m.panes \/ mpanes[u][p] # m.wid}
       IN IF m.sid = session[u] /\ m.wid \in mwins[u]
          THEN mpanes' = [mpanes EXCEPT ![u] = [p \in old \cup m.panes |->
                            IF p \in old THEN @[p] ELSE m.wid]]
          ELSE UNCHANGED mpanes
    /\ UNCHANGED <<up, link, mode, newest, session, mwins, resyncing,
                   announced, freed>>

OnWindowClosed(u) ==
    /\ Gets(u, "WindowClosed") /\ Read(u)
    /\ KeepWindows(u, IF Incoming(u).sid = session[u]
                      THEN mwins[u] \ {Incoming(u).wid} ELSE mwins[u])
    /\ UNCHANGED <<up, link, mode, newest, session, resyncing, announced, freed>>

OnPaneExited(u) ==
    /\ Gets(u, "PaneExited") /\ Read(u)
    /\ mpanes' = [mpanes EXCEPT ![u] = Without(@, {Incoming(u).pid})]
    /\ UNCHANGED <<up, link, mode, newest, session, mwins, resyncing,
                   announced, freed>>

OnSessionClosed(u) ==
    /\ Gets(u, "SessionClosed")
    /\ IF Incoming(u).sid = session[u] THEN Exit(u)
       ELSE Read(u) /\ UNCHANGED userVars
    /\ UNCHANGED up

\* "no such session" ends a reconnect; a first attach only logs it.
OnError(u) ==
    /\ Gets(u, "Error")
    /\ \/ mode[u] = "reconnecting" /\ Exit(u)
       \/ mode[u] # "reconnecting" /\ Read(u) /\ UNCHANGED userVars
    /\ UNCHANGED up

Receive(u) ==
    \/ OnHelloOk(u) \/ OnSessionCreated(u) \/ OnAttachOk(u)
    \/ OnSessionList(u) \/ OnWindowAdded(u) \/ OnLayout(u)
    \/ OnWindowClosed(u) \/ OnPaneExited(u) \/ OnSessionClosed(u) \/ OnError(u)

-----------------------------------------------------------------------------
Next ==
    \/ \E k \in Conns : Serve(k) \/ Drop(k)
    \/ \E pid \in DOMAIN refs : ShellExits(pid)
    \/ Sweep \/ Upgrade
    \/ \E u \in Users :
          \/ Connect(u) \/ Disconnect(u) \/ Receive(u)
          \/ AskAny(u) \/ CloseOsWindow(u) \/ CloseLocally(u)

Spec == Init /\ [][Next]_vars

\* The daemon's loop and each window's loop run whatever is ready; a lost
\* connection is noticed, and the reconnect timer fires.
Fairness ==
    /\ \A k \in Conns : WF_vars(Serve(k))
    /\ WF_vars(Sweep)
    /\ \A u \in Users :
          /\ WF_vars(Receive(u))
          /\ WF_vars(mode[u] = "reconnecting" /\ Connect(u))
          /\ WF_vars(Unserved(u) /\ Disconnect(u))

FairSpec == Spec /\ Fairness

-----------------------------------------------------------------------------
(* Properties.                                                             *)

TypeOK ==
    /\ RivtdTypeOK
    /\ link \in [Users -> Conns \cup {0}]
    /\ mode \in [Users -> {"idle", "connecting", "active", "reconnecting",
                           "exited"}]
    /\ session \in [Users -> Nat] /\ newest \in [Users -> BOOLEAN]
    /\ resyncing \in [Users -> BOOLEAN]
    /\ mwins \in [Users -> SUBSET Nat] /\ announced \in [Users -> SUBSET Nat]
    /\ freed \in [Users -> SUBSET PaneIds] /\ DOMAIN mpanes = Users
    /\ \A u \in Users :
          /\ mode[u] \in {"idle", "exited"} => link[u] = 0
          /\ mode[u] \in {"connecting", "active"} => link[u] # 0
          /\ DOMAIN mpanes[u] \subseteq PaneIds

WindowIds(sid) == {w.id : w \in SessionWins(sid)}
Truth(sid)     == UNION {{<<p, w.id>> : p \in w.panes} : w \in SessionWins(sid)}
Mirror(u)      == {<<p, mpanes[u][p]>> : p \in DOMAIN mpanes[u]}

\* The user has read all the daemon sent, and the resync is over.
Drained(u) ==
    /\ mode[u] = "active" /\ ~resyncing[u]
    /\ conn[link[u]] = "open" /\ out[link[u]] = <<>>

Exact(u) ==
    /\ attached[link[u]] = session[u] /\ session[u] \in sessions
    /\ mwins[u] = WindowIds(session[u])
    /\ Mirror(u) = Truth(session[u])

\* A user that has read everything shows exactly the session's windows and
\* panes, whatever happened while it was away or re-attaching.
MirrorExact == \A u \in Users : Drained(u) => Exact(u)

\* The resync never takes down a window that is still open on the daemon:
\* its tab, its panes and their scrollback would be gone from the screen.
NoLiveWindowDropped ==
    [][\A u \in Users : mode'[u] = "active" =>
          \A w \in mwins[u] \ mwins'[u] : w \notin WindowIds(session[u])]_vars

\* No reconnect slot is left for this user (a bound of the model).
Stranded(u) == mode[u] = "reconnecting" /\ \A k \in Conns : conn[k] # "unused"

\* A user that was attached ends up exact again or is told that the session
\* is over: no lost connection, upgrade or closing leaves it hanging.
Follows ==
    \A u \in Users :
        []<>(mode[u] \in {"idle", "connecting", "exited"} \/ Stranded(u)
               \/ (Drained(u) /\ Exact(u)))

\* "Freeing them locally leaves dangling Pane pointers in the controller
\* maps": no attached window maps a pane id to a Pane that is gone.
MapsLive ==
    \A u \in Users : mode[u] = "active" => freed[u] \cap DOMAIN mpanes[u] = {}

\* on_exit is "fired when the session ends": a window that is connecting
\* gets its session or hears that there is none.
ConnectingEnds == \A u \in Users : (mode[u] = "connecting") ~> (mode[u] # "connecting")
=============================================================================
