------------------------ MODULE RemoteSessionProofs --------------------------
(***************************************************************************)
(* The registry of the daemon and its mirror in the windows, for every     *)
(* number of windows, connections, sessions, panes, streams, requests,     *)
(* deaths and upgrades.                                                    *)
(*                                                                         *)
(* The daemon comes first (Rivtd): the types, one lemma for each thing     *)
(* handlers are made of.  SessionsPopulated and RecordsLive are inductive  *)
(* with them.  PanesExact needs more: ids are fresh as long as the 16-bit  *)
(* counter has not wrapped (NoWrap), and what waits for the sweep is not   *)
(* registered.                                                             *)
(*                                                                         *)
(* Then the mirror.  What a window will show once it has read everything   *)
(* is what reading the messages on their way makes of what it shows now.   *)
(* The invariant is about that end: a view that agrees with the daemon     *)
(* (Agrees), and no view on the way there drops a window the daemon still  *)
(* has (Spares).  The daemon extends the way by what it sends, the window  *)
(* walks it.                                                               *)
(***************************************************************************)
EXTENDS RemoteSession, TLAPS, FiniteSetTheorems, SequenceTheorems


-----------------------------------------------------------------------------
(* What is proved of a step does not depend on what a client asks for by   *)
(* id, nor on whether anybody reads what the daemon sends.                 *)

DaemonStep ==
    \/ \E k \in Conns :
          \/ \E read \in BOOLEAN : Accept(k, read)
          \/ Kill(k) \/ HandleHello(k) \/ HandleListSessions(k)
          \/ HandleCreateSession(k) \/ HandleDetach(k) \/ HandleNewWindow(k)
          \/ \E id : HandleAttach(k, id) \/ HandleKillSession(k, id)
                     \/ HandleCloseWindow(k, id)
          \/ \E pid \in DOMAIN refs :
                HandleSplit(k, pid) \/ HandleClosePane(k, pid) \/ HandleInput(k, pid)
    \/ Background

LEMMA NextIsDaemonStep == NextRivtd => DaemonStep
BY DEF NextRivtd, DaemonStep, Request

-----------------------------------------------------------------------------
(* Types.                                                                  *)

\* The part of the types that is about the registry proper.
RegTypes ==
    /\ sessions \subseteq Nat /\ wins \subseteq Windows
    /\ DOMAIN refs \subseteq PaneIds /\ \A p \in DOMAIN refs : refs[p] \in Refs
    /\ attached \in [Conns -> Nat]
    /\ streams \subseteq Streams

\* Ending sessions and windows only takes away.
LEMMA CloseSessionTypes ==
  ASSUME RivtdTypeOK, NEW sid \in Nat, NEW panes, NEW msgs, CloseSession(sid, panes, msgs)
  PROVE  RegTypes' /\ peer' = peer
BY DEF RivtdTypeOK, RegTypes, CloseSession, Without, Transmit

LEMMA EndWindowTypes ==
  ASSUME RivtdTypeOK, NEW w \in wins, NEW panes, NEW msgs, EndWindow(w, panes, msgs)
  PROVE  RegTypes' /\ peer' = peer
<1>1. w.sid \in Nat
  BY DEF RivtdTypeOK, Windows
<1>2. CASE SessionWins(w.sid) = {w}
  BY <1>1, <1>2, CloseSessionTypes DEF EndWindow
<1>3. CASE SessionWins(w.sid) # {w}
  BY <1>3 DEF EndWindow, RivtdTypeOK, RegTypes, Without, Transmit
<1> QED BY <1>2, <1>3

LEMMA RemovePaneTypes ==
  ASSUME RivtdTypeOK, NEW w \in wins, NEW pid, NEW erased, RemovePane(w, pid, erased)
  PROVE  RegTypes' /\ peer' = peer
<1> DEFINE v == [w EXCEPT !.panes = @ \ {pid}]
<1>1. CASE v.panes = {}
  BY <1>1, EndWindowTypes DEF RemovePane
<1>2. CASE v.panes # {}
  <2>1. v \in Windows
    BY DEF RivtdTypeOK, Windows
  <2>2. wins' = (wins \ {w}) \cup {v} /\ refs' = Without(refs, erased)
        /\ UNCHANGED <<sessions, streams, attached>>
    BY <1>2 DEF RemovePane
  <2>3. peer' = peer
    BY <1>2 DEF RemovePane, Transmit
  <2> QED BY <2>1, <2>2, <2>3 DEF RivtdTypeOK, RegTypes, Without
<1> QED BY <1>1, <1>2

\* The counter stays within its width.
LEMMA NextPaneType == ASSUME spawned \in Nat PROVE NextPane \in PaneIds
BY RivtdAssumption DEF NextPane, PaneIds

LEMMA RegisterTypes ==
  ASSUME RivtdTypeOK, NEW pid \in PaneIds, NEW sid \in Nat, NEW wid \in Nat
  PROVE  /\ DOMAIN Register(pid, sid, wid) \subseteq PaneIds
         /\ \A p \in DOMAIN Register(pid, sid, wid) : Register(pid, sid, wid)[p] \in Refs
BY DEF RivtdTypeOK, Register, Refs, NoClient

LEMMA AddWindowTypes ==
  ASSUME RivtdTypeOK, NEW sid \in Nat, NEW kept \in BOOLEAN, AddWindow(sid, kept)
  PROVE  /\ wins' \subseteq Windows
         /\ DOMAIN refs' \subseteq PaneIds /\ \A p \in DOMAIN refs' : refs'[p] \in Refs
         /\ next_wid' \in Nat /\ spawned' \in Nat
<1>1. NextPane \in PaneIds /\ next_wid \in Nat /\ spawned \in Nat
  BY NextPaneType DEF RivtdTypeOK
<1>2. [id |-> next_wid, sid |-> sid, panes |-> {NextPane}] \in Windows
  BY <1>1 DEF Windows
<1>3. wins' \subseteq Windows
  BY <1>2 DEF AddWindow, RivtdTypeOK
<1>4. refs' = Register(NextPane, sid, next_wid)
  BY DEF AddWindow
<1>5. DOMAIN refs' \subseteq PaneIds /\ \A p \in DOMAIN refs' : refs'[p] \in Refs
  BY <1>1, <1>4, RegisterTypes
<1>6. next_wid' \in Nat /\ spawned' \in Nat
  BY <1>1 DEF AddWindow
<1> QED BY <1>3, <1>5, <1>6

LEMMA TypeInductive == RivtdTypeOK /\ [DaemonStep]_rivtdVars => RivtdTypeOK'
<1> SUFFICES ASSUME RivtdTypeOK, [DaemonStep]_rivtdVars PROVE RivtdTypeOK'
  OBVIOUS
<1> USE DEF idVars, connVars, regVars, serverVars
<1>1. ASSUME NEW k \in Conns, NEW read \in BOOLEAN, Accept(k, read) \/ Kill(k) \/ HandleDetach(k) PROVE RivtdTypeOK'
  <2>1. CASE Accept(k, read)
    BY <2>1 DEF Accept, RivtdTypeOK
  <2>2. CASE Kill(k)
    BY <2>2 DEF Kill, RivtdTypeOK
  <2>3. CASE HandleDetach(k)
    BY <2>3 DEF HandleDetach, RivtdTypeOK
  <2> QED BY <1>1, <2>1, <2>2, <2>3
<1>2. ASSUME NEW k \in Conns, HandleHello(k) \/ HandleListSessions(k) PROVE RivtdTypeOK'
  <2>1. CASE HandleHello(k)
    BY <2>1 DEF HandleHello, RivtdTypeOK, Transmit
  <2>2. CASE HandleListSessions(k)
    BY <2>2 DEF HandleListSessions, RivtdTypeOK, Transmit
  <2> QED BY <1>2, <2>1, <2>2
<1>3. ASSUME NEW k \in Conns, HandleCreateSession(k) \/ HandleNewWindow(k) PROVE RivtdTypeOK'
  <2>1. CASE HandleCreateSession(k)
    <3>1. peer' = peer /\ UNCHANGED <<dead, conn, attached, streams, next_stream, sweeping>>
      BY <2>1 DEF HandleCreateSession, Transmit
    <3>2. next_sid' \in Nat /\ next_sid \in Nat
      BY <2>1 DEF HandleCreateSession, RivtdTypeOK
    <3>3. sessions' \subseteq Nat
      BY <2>1, <3>2 DEF HandleCreateSession, RivtdTypeOK
    <3>4. CASE AddWindow(next_sid, NextPane # 0)
      BY <3>1, <3>2, <3>3, <3>4, AddWindowTypes DEF RivtdTypeOK
    <3>5. CASE spawned' = spawned + 1 /\ UNCHANGED <<wins, refs, next_wid>>
      BY <3>1, <3>2, <3>3, <3>5 DEF RivtdTypeOK
    <3> QED BY <2>1, <3>4, <3>5 DEF HandleCreateSession
  <2>2. CASE HandleNewWindow(k)
    <3>1. peer' = peer /\ UNCHANGED <<sessions, dead, next_sid, conn, attached, streams,
                                     next_stream, sweeping>>
      BY <2>2 DEF HandleNewWindow, Transmit
    <3>2. CASE AddWindow(attached[k], TRUE)
      <4>1. attached[k] \in Nat
        BY DEF RivtdTypeOK
      <4> QED BY <3>1, <3>2, <4>1, AddWindowTypes DEF RivtdTypeOK
    <3>3. CASE spawned' = spawned + 1 /\ UNCHANGED <<wins, refs, next_wid>>
      BY <3>1, <3>3 DEF RivtdTypeOK
    <3> QED BY <2>2, <3>2, <3>3 DEF HandleNewWindow
  <2> QED BY <1>3, <2>1, <2>2
<1>4. ASSUME NEW k \in Conns, NEW sid, HandleAttach(k, sid) PROVE RivtdTypeOK'
  BY <1>4, RivtdAssumption DEF HandleAttach, RivtdTypeOK, Transmit
<1>5. ASSUME NEW k \in Conns, NEW sid, HandleKillSession(k, sid) PROVE RivtdTypeOK'
  <2>1. CloseSession(sid, PanesOf(sid), <<>>) /\ sid \in Nat
    BY <1>5 DEF HandleKillSession, RivtdTypeOK
  <2> QED BY <1>5, <2>1, CloseSessionTypes DEF HandleKillSession, RegTypes, RivtdTypeOK
<1>6. ASSUME NEW k \in Conns, NEW pid \in DOMAIN refs, HandleSplit(k, pid) PROVE RivtdTypeOK'
  <2>1. NextPane \in PaneIds
    BY NextPaneType DEF RivtdTypeOK
  <2>2. ASSUME NEW w \in wins,
               wins' = (wins \ {w}) \cup {[w EXCEPT !.panes = @ \cup {NextPane}]},
               refs' = Register(NextPane, w.sid, w.id), peer' = peer
        PROVE  RivtdTypeOK'
    <3>1. [w EXCEPT !.panes = @ \cup {NextPane}] \in Windows /\ w.sid \in Nat /\ w.id \in Nat
      BY <2>1 DEF RivtdTypeOK, Windows
    <3>2. wins' \subseteq Windows
      BY <2>2, <3>1 DEF RivtdTypeOK
    <3>3. /\ DOMAIN refs' \subseteq PaneIds
          /\ \A p \in DOMAIN refs' : refs'[p] \in Refs
      BY <2>1, <2>2, <3>1, RegisterTypes
    <3>4. /\ spawned' = spawned + 1
          /\ UNCHANGED <<sessions, dead, next_sid, next_wid, connVars, sweeping>>
      BY <1>6 DEF HandleSplit
    <3> QED BY <2>2, <3>2, <3>3, <3>4 DEF RivtdTypeOK
  <2>3. CASE UNCHANGED <<peer, wins, refs>>
    BY <1>6, <2>3 DEF HandleSplit, RivtdTypeOK
  <2> QED BY <1>6, <2>2, <2>3 DEF HandleSplit, Transmit
<1>7. ASSUME NEW k \in Conns, NEW pid \in DOMAIN refs, HandleClosePane(k, pid) PROVE RivtdTypeOK'
  BY <1>7, RemovePaneTypes DEF HandleClosePane, RegTypes, RivtdTypeOK
<1>8. ASSUME NEW k \in Conns, NEW pid \in DOMAIN refs, HandleInput(k, pid) PROVE RivtdTypeOK'
  BY <1>8 DEF HandleInput, RivtdTypeOK, Refs
<1>9. ASSUME NEW k \in Conns, NEW wid, HandleCloseWindow(k, wid) PROVE RivtdTypeOK'
  <2>1. PICK w \in wins : EndWindow(w, w.panes, <<>>)
    BY <1>9 DEF HandleCloseWindow, SessionWins
  <2> QED BY <1>9, <2>1, EndWindowTypes DEF HandleCloseWindow, RegTypes, RivtdTypeOK
<1>10. ASSUME NEW sid \in sessions, AgentAccept(sid) PROVE RivtdTypeOK'
  BY <1>10 DEF AgentAccept, RivtdTypeOK, Streams
<1>11. ASSUME NEW s \in streams, AgentClose(s) PROVE RivtdTypeOK'
  BY <1>11 DEF AgentClose, RivtdTypeOK
<1>12. ASSUME NEW pid \in DOMAIN refs, PaneDies(pid) PROVE RivtdTypeOK'
  BY <1>12 DEF PaneDies, RivtdTypeOK, Without
<1>13. CASE BeginSweep
  BY <1>13 DEF BeginSweep, RivtdTypeOK
<1>14. CASE SweepPane
  <2>1. dead' \in Seq(PaneIds)
    BY <1>14 DEF SweepPane, RivtdTypeOK
  <2>2. RegTypes' /\ peer' = peer
    <3>1. CASE \A w \in wins : Head(dead) \notin w.panes
      BY <1>14, <3>1 DEF SweepPane, RivtdTypeOK, RegTypes
    <3>2. CASE \E w \in wins : Head(dead) \in w.panes
      <4>1. PICK w \in wins : RemovePane(w, Head(dead), {})
        BY <1>14, <3>2 DEF SweepPane
      <4> QED BY <4>1, RemovePaneTypes
    <3> QED BY <3>1, <3>2
  <2> QED BY <1>14, <2>1, <2>2 DEF SweepPane, RegTypes, RivtdTypeOK
<1>15. CASE SweepClients
  <2>1. \A p \in DOMAIN refs' : refs'[p] \in Refs
    BY <1>15 DEF SweepClients, RivtdTypeOK, Refs, NoClient
  <2> QED BY <1>15, <2>1 DEF SweepClients, RivtdTypeOK
<1>16. CASE UpgradeDaemon
  <2>1. \A p \in DOMAIN refs' : p \in PaneIds /\ refs'[p] \in Refs
    <3> SUFFICES ASSUME NEW p \in UNION {w.panes : w \in wins}
                 PROVE  p \in PaneIds /\ refs'[p] \in Refs
      BY <1>16 DEF UpgradeDaemon
    <3>1. Holder(p) \in wins
      BY DEF Holder
    <3>2. refs'[p] = [sid |-> Holder(p).sid, wid |-> Holder(p).id, client |-> NoClient]
      BY <1>16 DEF UpgradeDaemon
    <3>3. Holder(p).sid \in Nat /\ Holder(p).id \in Nat
      BY <3>1 DEF RivtdTypeOK, Windows
    <3>4. p \in PaneIds
      BY DEF RivtdTypeOK, Windows
    <3> QED BY <3>2, <3>3, <3>4 DEF Refs, NoClient
  <2>2. DOMAIN refs' \subseteq PaneIds
    BY <2>1
  <2>3. conn' \in [Conns -> {"unused", "new", "open", "dead", "gone"}] /\ attached' \in [Conns -> Nat]
    BY <1>16 DEF UpgradeDaemon, RivtdTypeOK
  <2>4. streams' \subseteq Streams /\ next_stream' \in Nat /\ dead' \in Seq(PaneIds)
    BY <1>16 DEF UpgradeDaemon
  <2>5. UNCHANGED <<sessions, wins, next_sid, next_wid, spawned, sweeping, peer>>
    BY <1>16 DEF UpgradeDaemon
  <2> QED BY <2>1, <2>2, <2>3, <2>4, <2>5 DEF RivtdTypeOK
<1>17. CASE UNCHANGED rivtdVars
  BY <1>17 DEF rivtdVars, RivtdTypeOK
<1> QED BY <1>1, <1>2, <1>3, <1>4, <1>5, <1>6, <1>7, <1>8, <1>9, <1>10, <1>11, <1>12,
           <1>13, <1>14, <1>15, <1>16, <1>17 DEF DaemonStep, Background

\* Every variable of the registry keeps its type, ids their width included.
THEOREM TypeCorrect == SpecRivtd => []RivtdTypeOK
<1>1. ASSUME InitRivtd PROVE RivtdTypeOK
  <2>1. DOMAIN refs = {} /\ dead \in Seq(PaneIds)
    BY <1>1 DEF InitRivtd
  <2> QED BY <1>1, <2>1 DEF InitRivtd, RivtdTypeOK
<1>2. RivtdTypeOK /\ [NextRivtd]_rivtdVars => RivtdTypeOK'
  BY TypeInductive, NextIsDaemonStep
<1> QED BY <1>1, <1>2, PTL DEF SpecRivtd

-----------------------------------------------------------------------------
(* Sessions, windows and clients.                                          *)

\* What a registry without loose ends is: nobody is attached who has not said
\* Hello, besides the two properties.
Greeted == \A k \in Conns : conn[k] \in {"unused", "new"} => attached[k] = 0
LiveInv == SessionsPopulated /\ RecordsLive /\ Greeted

LEMMA CloseSessionLive ==
  ASSUME RivtdTypeOK, LiveInv, NEW sid, NEW panes, NEW msgs,
         CloseSession(sid, panes, msgs), conn' = conn
  PROVE  LiveInv'
<1> USE DEF LiveInv, CloseSession
<1>1. SessionsPopulated'
  BY DEF SessionsPopulated, SessionWins
<1>2. ClientsLive'
  BY DEF RecordsLive, ClientsLive, Without
<1>3. AttachedLive'
  BY DEF RecordsLive, AttachedLive, Hears
<1>4. Greeted'
  BY DEF Greeted
<1> QED BY <1>1, <1>2, <1>3, <1>4 DEF RecordsLive

LEMMA EndWindowLive ==
  ASSUME RivtdTypeOK, LiveInv, NEW w \in wins, NEW panes, NEW msgs,
         EndWindow(w, panes, msgs), conn' = conn
  PROVE  LiveInv'
<1>1. CASE SessionWins(w.sid) = {w}
  BY <1>1, CloseSessionLive DEF EndWindow
<1>2. CASE SessionWins(w.sid) # {w}
  <2>1. wins' = wins \ {w} /\ refs' = Without(refs, panes)
        /\ UNCHANGED <<sessions, streams, attached>>
    BY <1>2 DEF EndWindow
  <2>2. PICK v \in wins : v # w /\ v.sid = w.sid
    BY <1>2 DEF SessionWins
  <2>3. SessionsPopulated'
    BY <2>1, <2>2 DEF LiveInv, SessionsPopulated, SessionWins
  <2>4. ClientsLive' /\ AttachedLive'
    BY <2>1 DEF LiveInv, RecordsLive, ClientsLive, AttachedLive, Greeted, Without
  <2> QED BY <2>1, <2>3, <2>4 DEF LiveInv, RecordsLive, Greeted
<1> QED BY <1>1, <1>2

LEMMA RemovePaneLive ==
  ASSUME RivtdTypeOK, LiveInv, NEW w \in wins, NEW pid, NEW erased,
         RemovePane(w, pid, erased), conn' = conn
  PROVE  LiveInv'
<1> DEFINE v == [w EXCEPT !.panes = @ \ {pid}]
<1>1. CASE v.panes = {}
  BY <1>1, EndWindowLive DEF RemovePane
<1>2. CASE v.panes # {}
  <2>1. wins' = (wins \ {w}) \cup {v} /\ refs' = Without(refs, erased)
        /\ UNCHANGED <<sessions, streams, attached>>
    BY <1>2 DEF RemovePane
  <2>2. v.sid = w.sid
    BY DEF RivtdTypeOK, Windows
  <2>3. SessionsPopulated'
    BY <1>2, <2>1, <2>2 DEF LiveInv, SessionsPopulated, SessionWins
  <2>4. ClientsLive' /\ AttachedLive'
    BY <2>1 DEF LiveInv, RecordsLive, ClientsLive, AttachedLive, Greeted, Without
  <2> QED BY <2>1, <2>3, <2>4 DEF LiveInv, RecordsLive, Greeted
<1> QED BY <1>1, <1>2

\* A new window for a session that is, or becomes, one of the daemon's.
LEMMA AddWindowLive ==
  ASSUME RivtdTypeOK, LiveInv, NEW sid \in Nat, AddWindow(sid, TRUE),
         sessions' = sessions \cup {sid}, UNCHANGED <<conn, attached, streams>>
  PROVE  LiveInv'
<1> DEFINE w == [id |-> next_wid, sid |-> sid, panes |-> {NextPane}]
<1>1. wins' = wins \cup {w}
  BY DEF AddWindow
<1>2. SessionsPopulated'
  <2>1. w \in wins' /\ w.sid = sid /\ w.panes # {}
    BY <1>1
  <2>2. \A x \in wins' : x.panes # {} /\ x.sid \in sessions'
    BY <1>1, <2>1 DEF LiveInv, SessionsPopulated
  <2>3. \A t \in sessions' : \E x \in wins' : x.sid = t
    BY <1>1, <2>1 DEF LiveInv, SessionsPopulated, SessionWins
  <2> QED BY <2>2, <2>3 DEF SessionsPopulated, SessionWins
<1>3. ClientsLive'
  BY DEF AddWindow, Register, LiveInv, RecordsLive, ClientsLive
<1>4. AttachedLive'
  BY DEF LiveInv, RecordsLive, AttachedLive
<1> QED BY <1>2, <1>3, <1>4 DEF LiveInv, RecordsLive, Greeted

LEMMA LiveInductive == RivtdTypeOK /\ LiveInv /\ [DaemonStep]_rivtdVars => LiveInv'
<1> SUFFICES ASSUME RivtdTypeOK, LiveInv, [DaemonStep]_rivtdVars PROVE LiveInv'
  OBVIOUS
<1> USE DEF idVars, connVars, regVars, serverVars
<1> DEFINE Populated == LiveInv /\ UNCHANGED <<sessions, wins>> => SessionsPopulated'
<1>0. Populated
  BY DEF LiveInv, SessionsPopulated, SessionWins
<1>1. ASSUME NEW k \in Conns, NEW read \in BOOLEAN, Accept(k, read) PROVE LiveInv'
  BY <1>0, <1>1 DEF Accept, LiveInv, RecordsLive, ClientsLive, AttachedLive, Greeted, RivtdTypeOK
<1>2. ASSUME NEW k \in Conns, Kill(k) PROVE LiveInv'
  BY <1>0, <1>2 DEF Kill, LiveInv, RecordsLive, ClientsLive, AttachedLive, Greeted, RivtdTypeOK
<1>3. ASSUME NEW k \in Conns, HandleHello(k) PROVE LiveInv'
  BY <1>0, <1>3 DEF HandleHello, LiveInv, RecordsLive, ClientsLive, AttachedLive, Greeted, RivtdTypeOK
<1>4. ASSUME NEW k \in Conns, HandleListSessions(k) PROVE LiveInv'
  BY <1>0, <1>4 DEF HandleListSessions, LiveInv, RecordsLive, ClientsLive, AttachedLive, Greeted
<1>5. ASSUME NEW k \in Conns, HandleCreateSession(k) PROVE LiveInv'
  <2>1. UNCHANGED <<conn, attached, streams>> /\ next_sid \in Nat
    BY <1>5 DEF HandleCreateSession, RivtdTypeOK
  <2>2. CASE AddWindow(next_sid, TRUE) /\ sessions' = sessions \cup {next_sid}
    BY <2>1, <2>2, AddWindowLive
  <2>3. CASE AddWindow(next_sid, FALSE) /\ sessions' = sessions
    <3>1. wins' = wins /\ refs' = Register(NextPane, next_sid, next_wid)
      BY <2>3 DEF AddWindow
    <3> QED BY <1>0, <2>1, <2>3, <3>1
            DEF Register, LiveInv, RecordsLive, ClientsLive, AttachedLive, Greeted
  <2>4. CASE UNCHANGED <<sessions, wins, refs>>
    BY <1>0, <2>1, <2>4 DEF LiveInv, RecordsLive, ClientsLive, AttachedLive, Greeted
  <2> QED BY <1>5, <2>2, <2>3, <2>4 DEF HandleCreateSession
<1>6. ASSUME NEW k \in Conns, HandleNewWindow(k) PROVE LiveInv'
  <2>1. UNCHANGED <<sessions, conn, attached, streams>> /\ attached[k] \in sessions
    BY <1>6 DEF HandleNewWindow
  <2>2. CASE AddWindow(attached[k], TRUE)
    <3>1. attached[k] \in Nat /\ sessions' = sessions \cup {attached[k]}
      BY <2>1 DEF RivtdTypeOK
    <3> QED BY <2>1, <2>2, <3>1, AddWindowLive
  <2>3. CASE UNCHANGED <<wins, refs>>
    BY <1>0, <2>1, <2>3 DEF LiveInv, RecordsLive, ClientsLive, AttachedLive, Greeted
  <2> QED BY <1>6, <2>2, <2>3 DEF HandleNewWindow
<1>7. ASSUME NEW k \in Conns, NEW sid, HandleAttach(k, sid) PROVE LiveInv'
  BY <1>0, <1>7 DEF HandleAttach, Live, LiveInv, RecordsLive, ClientsLive, AttachedLive, Greeted, RivtdTypeOK
<1>8. ASSUME NEW k \in Conns, HandleDetach(k) PROVE LiveInv'
  BY <1>0, <1>8 DEF HandleDetach, LiveInv, RecordsLive, ClientsLive, AttachedLive, Greeted, RivtdTypeOK
<1>9. ASSUME NEW k \in Conns, NEW sid, HandleKillSession(k, sid) PROVE LiveInv'
  BY <1>9, CloseSessionLive DEF HandleKillSession
<1>10. ASSUME NEW k \in Conns, NEW pid \in DOMAIN refs, HandleSplit(k, pid) PROVE LiveInv'
  <2>1. UNCHANGED <<sessions, conn, attached, streams>>
    BY <1>10 DEF HandleSplit
  <2>2. ASSUME NEW w \in wins,
               wins' = (wins \ {w}) \cup {[w EXCEPT !.panes = @ \cup {NextPane}]},
               refs' = Register(NextPane, w.sid, w.id)
        PROVE  LiveInv'
    <3> DEFINE v == [w EXCEPT !.panes = @ \cup {NextPane}]
    <3>1. v.sid = w.sid /\ v.panes # {}
      BY DEF RivtdTypeOK, Windows
    <3>2. SessionsPopulated'
      BY <2>1, <2>2, <3>1 DEF LiveInv, SessionsPopulated, SessionWins
    <3>3. ClientsLive' /\ AttachedLive'
      BY <2>1, <2>2 DEF Register, LiveInv, RecordsLive, ClientsLive, AttachedLive, Greeted
    <3> QED BY <2>1, <3>2, <3>3 DEF LiveInv, RecordsLive, Greeted
  <2>3. CASE UNCHANGED <<wins, refs>>
    BY <1>0, <2>1, <2>3 DEF LiveInv, RecordsLive, ClientsLive, AttachedLive, Greeted
  <2> QED BY <1>10, <2>2, <2>3 DEF HandleSplit
<1>11. ASSUME NEW k \in Conns, NEW pid \in DOMAIN refs, HandleClosePane(k, pid) PROVE LiveInv'
  BY <1>11, RemovePaneLive DEF HandleClosePane
<1>12. ASSUME NEW k \in Conns, NEW pid \in DOMAIN refs, HandleInput(k, pid) PROVE LiveInv'
  BY <1>0, <1>12 DEF HandleInput, Live, LiveInv, RecordsLive, ClientsLive, AttachedLive, Greeted, RivtdTypeOK
<1>13. ASSUME NEW k \in Conns, NEW wid, HandleCloseWindow(k, wid) PROVE LiveInv'
  <2>1. PICK w \in wins : EndWindow(w, w.panes, <<>>)
    BY <1>13 DEF HandleCloseWindow, SessionWins
  <2> QED BY <1>13, <2>1, EndWindowLive DEF HandleCloseWindow
<1>14. ASSUME NEW sid \in sessions, AgentAccept(sid) PROVE LiveInv'
  BY <1>0, <1>14 DEF AgentAccept, Hears, LiveInv, RecordsLive, ClientsLive, AttachedLive, Greeted
<1>15. ASSUME NEW st \in streams, AgentClose(st) PROVE LiveInv'
  BY <1>0, <1>15 DEF AgentClose, LiveInv, RecordsLive, ClientsLive, AttachedLive, Greeted
<1>16. ASSUME NEW pid \in DOMAIN refs, PaneDies(pid) PROVE LiveInv'
  BY <1>0, <1>16 DEF PaneDies, Without, LiveInv, RecordsLive, ClientsLive, AttachedLive, Greeted
<1>17. CASE BeginSweep
  BY <1>0, <1>17 DEF BeginSweep, LiveInv, RecordsLive, ClientsLive, AttachedLive, Greeted
<1>18. CASE SweepPane
  <2>1. CASE \E w \in wins : RemovePane(w, Head(dead), {})
    BY <1>18, <2>1, RemovePaneLive DEF SweepPane
  <2>2. CASE UNCHANGED <<sessions, wins, refs, attached, streams>>
    BY <1>0, <1>18, <2>2 DEF SweepPane, LiveInv, RecordsLive, ClientsLive, AttachedLive, Greeted
  <2> QED BY <1>18, <2>1, <2>2 DEF SweepPane
<1>19. CASE SweepClients
  <2>1. ClientsLive'
    BY <1>19 DEF SweepClients, Dying, LiveInv, RecordsLive, ClientsLive, RivtdTypeOK, Refs, Streams, NoClient
  <2>2. AttachedLive'
    BY <1>19 DEF SweepClients, Dying, LiveInv, RecordsLive, AttachedLive, RivtdTypeOK
  <2> QED BY <1>0, <1>19, <2>1, <2>2 DEF SweepClients, LiveInv, RecordsLive, Greeted, Dying
<1>20. CASE UpgradeDaemon
  BY <1>0, <1>20 DEF UpgradeDaemon, LiveInv, RecordsLive, ClientsLive, AttachedLive, Greeted
<1>21. CASE UNCHANGED rivtdVars
  BY <1>0, <1>21 DEF rivtdVars, LiveInv, RecordsLive, ClientsLive, AttachedLive, Greeted
<1> QED BY <1>1, <1>2, <1>3, <1>4, <1>5, <1>6, <1>7, <1>8, <1>9, <1>10, <1>11, <1>12,
           <1>13, <1>14, <1>15, <1>16, <1>17, <1>18, <1>19, <1>20, <1>21
        DEF DaemonStep, Background

LEMMA LiveStarts == InitRivtd => RivtdTypeOK /\ LiveInv
<1> SUFFICES ASSUME InitRivtd PROVE RivtdTypeOK /\ LiveInv
  OBVIOUS
<1>1. DOMAIN refs = {} /\ dead \in Seq(PaneIds)
  BY DEF InitRivtd
<1>2. RivtdTypeOK
  BY <1>1 DEF InitRivtd, RivtdTypeOK
<1>3. LiveInv
  BY <1>1 DEF InitRivtd, LiveInv, SessionsPopulated, RecordsLive, ClientsLive, AttachedLive, Greeted
<1> QED BY <1>2, <1>3

LEMMA LiveAlways == SpecRivtd => [](RivtdTypeOK /\ LiveInv)
<1>1. RivtdTypeOK /\ LiveInv /\ [NextRivtd]_rivtdVars => RivtdTypeOK' /\ LiveInv'
  <2> SUFFICES ASSUME RivtdTypeOK, LiveInv, [NextRivtd]_rivtdVars
               PROVE  RivtdTypeOK' /\ LiveInv'
    OBVIOUS
  <2>1. [DaemonStep]_rivtdVars
    BY NextIsDaemonStep
  <2> QED BY <2>1, TypeInductive, LiveInductive
<1> QED BY <1>1, LiveStarts, PTL DEF SpecRivtd

\* However windows, panes and sessions are closed, by whom and in what order,
\* no session and no window is left empty, and none is orphaned.
THEOREM SessionsArePopulated == SpecRivtd => []SessionsPopulated
<1>1. LiveInv => SessionsPopulated
  BY DEF LiveInv
<1> QED BY <1>1, LiveAlways, PTL

\* Nothing refers to a client that was freed, nor to a session that is over.
THEOREM RecordsAreLive == SpecRivtd => []RecordsLive
<1>1. LiveInv => RecordsLive
  BY DEF LiveInv
<1> QED BY <1>1, LiveAlways, PTL

-----------------------------------------------------------------------------
(* The index of panes, as long as the id counter does not wrap.            *)

NoWrap == MaxSpawn < PaneMod

\* Every entry points into a window that has the pane.
Pointing == \A p \in DOMAIN refs : \E w \in wins : p \in w.panes /\ p \in Registered(w)

\* A pane without an entry waits for the sweep.
Waiting == \A w \in wins : \A p \in w.panes : p \in Registered(w) \/ \E i \in DOMAIN dead : dead[i] = p

\* Windows share neither their id nor a pane.
Apart == \A v, w \in wins : v # w => v.id # w.id /\ v.panes \cap w.panes = {}

\* What waits for the sweep is not registered.
Unlisted == \A i \in DOMAIN dead : dead[i] \notin DOMAIN refs

\* Ids have been drawn before they are used.
Drawn ==
    /\ spawned <= MaxSpawn
    /\ \A w \in wins : w.id < next_wid /\ \A p \in w.panes : p <= spawned
    /\ \A i \in DOMAIN dead : dead[i] <= spawned
    /\ \A p \in DOMAIN refs : p <= spawned

ExactInv == Pointing /\ Waiting /\ Apart /\ Unlisted /\ Drawn

\* The next id is not in use.
LEMMA NextIsFresh ==
  ASSUME NoWrap, RivtdTypeOK, spawned < MaxSpawn
  PROVE  NextPane = spawned + 1
BY RivtdAssumption DEF NoWrap, NextPane, RivtdTypeOK

\* Taking windows away, with the panes that are registered for them.
LEMMA WindowsGoExact ==
  ASSUME RivtdTypeOK, ExactInv, NEW W \in SUBSET wins, NEW panes,
         wins' = wins \ W, refs' = Without(refs, panes),
         \A w \in W : w.panes \cap DOMAIN refs \subseteq panes,
         panes \subseteq UNION {w.panes : w \in W},
         UNCHANGED <<next_wid, spawned>>,
         \A i \in DOMAIN dead : (\E j \in DOMAIN dead' : dead'[j] = dead[i])
                                 \/ \A v \in wins \ W : dead[i] \notin v.panes,
         \A j \in DOMAIN dead' : \E i \in DOMAIN dead : dead'[j] = dead[i]
  PROVE  ExactInv'
<1> USE DEF ExactInv
<1>1. Pointing'
  <2> SUFFICES ASSUME NEW p \in DOMAIN refs'
               PROVE  \E w \in wins' : p \in w.panes /\ p \in Registered(w)'
    BY DEF Pointing
  <2>1. p \in DOMAIN refs /\ p \notin panes /\ refs'[p] = refs[p]
    BY DEF Without
  <2>2. PICK w \in wins : p \in w.panes /\ p \in Registered(w)
    BY <2>1 DEF Pointing
  <2> QED BY <2>1, <2>2 DEF Registered
<1>2. Waiting'
  <2> SUFFICES ASSUME NEW w \in wins', NEW p \in w.panes, p \notin Registered(w)'
               PROVE  \E i \in DOMAIN dead' : dead'[i] = p
    BY DEF Waiting
  <2>1. w \in wins /\ w \notin W
    OBVIOUS
  <2>2. p \notin panes
    BY <2>1 DEF Apart
  <2>3. p \notin Registered(w)
    BY <2>2 DEF Registered, Without
  <2>4. PICK i \in DOMAIN dead : dead[i] = p
    BY <2>1, <2>3 DEF Waiting
  <2> QED BY <2>1, <2>4
<1>3. Apart' /\ Unlisted' /\ Drawn'
  BY DEF Apart, Unlisted, Drawn, Without
<1> QED BY <1>1, <1>2, <1>3

LEMMA CloseSessionExact ==
  ASSUME RivtdTypeOK, ExactInv, NEW sid, NEW panes, NEW msgs,
         CloseSession(sid, panes, msgs),
         \A w \in SessionWins(sid) : w.panes \cap DOMAIN refs \subseteq panes,
         panes \subseteq UNION {w.panes : w \in SessionWins(sid)},
         UNCHANGED <<next_wid, spawned>>,
         \A i \in DOMAIN dead : (\E j \in DOMAIN dead' : dead'[j] = dead[i])
                                 \/ \A v \in wins \ SessionWins(sid) : dead[i] \notin v.panes,
         \A j \in DOMAIN dead' : \E i \in DOMAIN dead : dead'[j] = dead[i]
  PROVE  ExactInv'
<1>1. SessionWins(sid) \in SUBSET wins
  BY DEF SessionWins
<1>2. wins' = wins \ SessionWins(sid) /\ refs' = Without(refs, panes)
  BY DEF CloseSession
<1> QED BY <1>1, <1>2, WindowsGoExact

LEMMA EndWindowExact ==
  ASSUME RivtdTypeOK, ExactInv, NEW w \in wins, NEW panes, NEW msgs,
         EndWindow(w, panes, msgs),
         w.panes \cap DOMAIN refs \subseteq panes, panes \subseteq w.panes,
         UNCHANGED <<next_wid, spawned>>,
         \A i \in DOMAIN dead : (\E j \in DOMAIN dead' : dead'[j] = dead[i])
                                 \/ \A v \in wins \ {w} : dead[i] \notin v.panes,
         \A j \in DOMAIN dead' : \E i \in DOMAIN dead : dead'[j] = dead[i]
  PROVE  ExactInv'
<1>1. CASE SessionWins(w.sid) = {w}
  <2>1. CloseSession(w.sid, panes, msgs \o <<WindowClosed(w)>>)
    BY <1>1 DEF EndWindow
  <2> QED BY <1>1, <2>1, CloseSessionExact
<1>2. CASE SessionWins(w.sid) # {w}
  <2>1. wins' = wins \ {w} /\ refs' = Without(refs, panes)
    BY <1>2 DEF EndWindow
  <2>2. {w} \in SUBSET wins /\ \A u \in {w} : u.panes \cap DOMAIN refs \subseteq panes
    OBVIOUS
  <2>3. panes \subseteq UNION {u.panes : u \in {w}}
    OBVIOUS
  <2> DEFINE W == {w}
  <2> HIDE DEF W
  <2>4. /\ W \in SUBSET wins /\ wins' = wins \ W
        /\ \A u \in W : u.panes \cap DOMAIN refs \subseteq panes
        /\ panes \subseteq UNION {u.panes : u \in W}
        /\ \A i \in DOMAIN dead : (\E j \in DOMAIN dead' : dead'[j] = dead[i])
                                   \/ \A x \in wins \ W : dead[i] \notin x.panes
    BY <2>1, <2>2, <2>3 DEF W
  <2> QED BY <2>1, <2>4, WindowsGoExact
<1> QED BY <1>1, <1>2

\* A pane leaves its window: unregistered with it by a request, or by its
\* death before the sweep.
LEMMA RemovePaneExact ==
  ASSUME RivtdTypeOK, ExactInv, NEW w \in wins, NEW pid \in w.panes, NEW erased,
         RemovePane(w, pid, erased),
         erased = {pid} \/ (erased = {} /\ pid \notin DOMAIN refs),
         UNCHANGED <<next_wid, spawned>>,
         \A i \in DOMAIN dead : (\E j \in DOMAIN dead' : dead'[j] = dead[i]) \/ dead[i] = pid,
         \A j \in DOMAIN dead' : \E i \in DOMAIN dead : dead'[j] = dead[i]
  PROVE  ExactInv'
<1> DEFINE v == [w EXCEPT !.panes = @ \ {pid}]
<1>0. v.id = w.id /\ v.sid = w.sid /\ v.panes = w.panes \ {pid}
  BY DEF RivtdTypeOK, Windows
<1>1. CASE v.panes = {}
  <2>1. EndWindow(w, erased, <<PaneExited(pid)>>)
    BY <1>1 DEF RemovePane
  <2>2. w.panes = {pid}
    BY <1>0, <1>1
  <2>3. \A u \in wins \ {w} : pid \notin u.panes
    BY DEF ExactInv, Apart
  <2> QED BY <2>1, <2>2, <2>3, EndWindowExact
<1>2. CASE v.panes # {}
  <2>1. wins' = (wins \ {w}) \cup {v} /\ refs' = Without(refs, erased)
    BY <1>2 DEF RemovePane
  <2>2. Pointing'
    <3> SUFFICES ASSUME NEW p \in DOMAIN refs'
                 PROVE  \E u \in wins' : p \in u.panes /\ p \in Registered(u)'
      BY DEF Pointing
    <3>1. p \in DOMAIN refs /\ p # pid /\ refs'[p] = refs[p]
      BY <2>1 DEF Without
    <3>2. PICK u \in wins : p \in u.panes /\ p \in Registered(u)
      BY <3>1 DEF ExactInv, Pointing
    <3>3. CASE u = w
      <4>1. v \in wins' /\ p \in v.panes /\ p \in Registered(v)'
        BY <1>0, <2>1, <3>1, <3>2, <3>3 DEF Registered
      <4> QED BY <4>1
    <3>4. CASE u # w
      <4>1. u \in wins' /\ p \in u.panes /\ p \in Registered(u)'
        BY <2>1, <3>1, <3>2, <3>4 DEF Registered
      <4> QED BY <4>1
    <3> QED BY <3>3, <3>4
  <2>3. Waiting'
    <3> SUFFICES ASSUME NEW u \in wins', NEW p \in u.panes, p \notin Registered(u)'
                 PROVE  \E i \in DOMAIN dead' : dead'[i] = p
      BY DEF Waiting
    <3> DEFINE o == IF u = v THEN w ELSE u
    <3>1. o \in wins /\ p \in o.panes /\ o.id = u.id /\ o.sid = u.sid
      BY <1>0, <2>1
    <3>2. p # pid
      <4>1. CASE u = v
        BY <4>1, <1>0
      <4>2. CASE u # v
        BY <4>2, <2>1 DEF ExactInv, Apart
      <4> QED BY <4>1, <4>2
    <3>3. p \notin Registered(o)
      BY <2>1, <3>1, <3>2 DEF Registered, Without
    <3>4. PICK i \in DOMAIN dead : dead[i] = p
      BY <3>1, <3>3 DEF ExactInv, Waiting
    <3> QED BY <3>2, <3>4
  <2>4. Apart'
    <3> SUFFICES ASSUME NEW a \in wins', NEW b \in wins', a # b
                 PROVE  a.id # b.id /\ a.panes \cap b.panes = {}
      BY DEF Apart
    <3> DEFINE o(x) == IF x = v THEN w ELSE x
    <3>1. \A x \in wins' : o(x) \in wins /\ x.id = o(x).id /\ x.panes \subseteq o(x).panes
      BY <1>0, <2>1
    <3>2. o(a) # o(b)
      BY <2>1
    <3> HIDE DEF o
    <3> QED BY <3>1, <3>2 DEF ExactInv, Apart
  <2>5. Unlisted'
    BY <2>1 DEF ExactInv, Unlisted, Without
  <2>6. Drawn'
    BY <1>0, <2>1 DEF ExactInv, Drawn, Without
  <2> QED BY <2>2, <2>3, <2>4, <2>5, <2>6 DEF ExactInv
<1> QED BY <1>1, <1>2

\* A pane comes: into a new window, or beside another one.
LEMMA PaneComesExact ==
  ASSUME NoWrap, RivtdTypeOK, ExactInv, spawned < MaxSpawn, spawned' = spawned + 1,
         NEW V \in SUBSET wins, NEW v,
         wins' = (wins \ V) \cup {v},
         \A w \in V : w.id = v.id /\ w.sid = v.sid,
         v.panes = (UNION {w.panes : w \in V}) \cup {NextPane},
         refs' = Register(NextPane, v.sid, v.id),
         \A w \in wins \ V : w.id # v.id,
         v.id < next_wid', next_wid' \in Nat, next_wid <= next_wid', dead' = dead
  PROVE  ExactInv'
<1> USE DEF ExactInv
<1>1. NextPane = spawned + 1 /\ spawned \in Nat /\ next_wid \in Nat
  BY NextIsFresh DEF RivtdTypeOK
<1>2. /\ \A w \in wins : NextPane \notin w.panes
      /\ NextPane \notin DOMAIN refs
      /\ \A i \in DOMAIN dead : dead[i] # NextPane
  BY <1>1 DEF Drawn
<1>3. /\ DOMAIN refs' = DOMAIN refs \cup {NextPane}
      /\ \A p \in DOMAIN refs : refs'[p] = refs[p]
      /\ refs'[NextPane].sid = v.sid /\ refs'[NextPane].wid = v.id
  BY <1>2 DEF Register
<1>4. Pointing'
  <2> SUFFICES ASSUME NEW p \in DOMAIN refs'
               PROVE  \E w \in wins' : p \in w.panes /\ p \in Registered(w)'
    BY DEF Pointing
  <2>1. CASE p = NextPane
    <3>1. v \in wins' /\ p \in v.panes /\ p \in Registered(v)'
      BY <1>3, <2>1 DEF Registered
    <3> QED BY <3>1
  <2>2. CASE p \in DOMAIN refs
    <3>1. PICK w \in wins : p \in w.panes /\ p \in Registered(w)
      BY <2>2 DEF Pointing
    <3>2. CASE w \in V
      <4>1. v \in wins' /\ p \in v.panes /\ p \in Registered(v)'
        BY <1>3, <2>2, <3>1, <3>2 DEF Registered
      <4> QED BY <4>1
    <3>3. CASE w \notin V
      <4>1. w \in wins' /\ p \in w.panes /\ p \in Registered(w)'
        BY <1>3, <2>2, <3>1, <3>3 DEF Registered
      <4> QED BY <4>1
    <3> QED BY <3>2, <3>3
  <2> QED BY <1>3, <2>1, <2>2
<1>5. Waiting'
  <2> SUFFICES ASSUME NEW w \in wins', NEW p \in w.panes, p \notin Registered(w)'
               PROVE  \E i \in DOMAIN dead' : dead'[i] = p
    BY DEF Waiting
  <2>1. CASE w = v
    <3>1. p # NextPane
      BY <1>3, <2>1 DEF Registered
    <3>2. PICK u \in V : p \in u.panes
      BY <2>1, <3>1
    <3>3. p \notin Registered(u)
      BY <1>3, <2>1, <3>2 DEF Registered
    <3> QED BY <3>2, <3>3 DEF Waiting
  <2>2. CASE w # v
    <3>1. w \in wins /\ p \notin Registered(w)
      BY <1>3, <2>2 DEF Registered
    <3> QED BY <3>1 DEF Waiting
  <2> QED BY <2>1, <2>2
<1>6. Apart'
  <2> SUFFICES ASSUME NEW u \in wins', NEW w \in wins', u # w
               PROVE  u.id # w.id /\ u.panes \cap w.panes = {}
    BY DEF Apart
  <2>1. ASSUME NEW x \in wins \ V PROVE x.id # v.id /\ x.panes \cap v.panes = {}
    BY <1>2, <2>1 DEF Apart
  <2> QED BY <2>1 DEF Apart
<1>7. Unlisted'
  BY <1>2, <1>3 DEF Unlisted
<1>8. Drawn'
  <2>1. spawned' <= MaxSpawn
    BY <1>1, RivtdAssumption
  <2>2. ASSUME NEW w \in wins' PROVE w.id < next_wid' /\ \A p \in w.panes : p <= spawned'
    <3>1. CASE w = v
      <4>1. ASSUME NEW p \in v.panes PROVE p <= spawned'
        <5>1. CASE p = NextPane
          BY <1>1, <5>1
        <5>2. CASE p # NextPane
          <6>1. PICK u \in V : p \in u.panes
            BY <5>2
          <6>2. p \in Nat /\ p <= spawned
            BY <6>1, RivtdAssumption DEF Drawn, RivtdTypeOK, Windows, PaneIds
          <6> QED BY <1>1, <6>2
        <5> QED BY <5>1, <5>2
      <4> QED BY <3>1, <4>1
    <3>2. CASE w # v
      <4>1. w \in wins /\ w.id \in Nat /\ w.panes \subseteq PaneIds
        BY <3>2 DEF RivtdTypeOK, Windows
      <4>2. w.id < next_wid /\ \A p \in w.panes : p \in Nat /\ p <= spawned
        BY <4>1, RivtdAssumption DEF Drawn, PaneIds
      <4> QED BY <1>1, <4>1, <4>2
    <3> QED BY <3>1, <3>2
  <2>3. \A i \in DOMAIN dead' : dead'[i] <= spawned'
    <3>1. \A i \in DOMAIN dead : dead[i] \in Nat
      BY RivtdAssumption DEF RivtdTypeOK, PaneIds
    <3> QED BY <1>1, <3>1 DEF Drawn
  <2>4. \A p \in DOMAIN refs' : p <= spawned'
    <3>1. \A p \in DOMAIN refs : p \in Nat
      BY RivtdAssumption DEF RivtdTypeOK, PaneIds
    <3> QED BY <1>1, <1>3, <3>1 DEF Drawn
  <2> QED BY <2>1, <2>2, <2>3, <2>4 DEF Drawn
<1> QED BY <1>4, <1>5, <1>6, <1>7, <1>8

LEMMA ExactInductive ==
  ASSUME NoWrap, RivtdTypeOK, ExactInv, [DaemonStep]_rivtdVars
  PROVE  ExactInv'
<1> USE DEF idVars, connVars, regVars, serverVars
<1>0. UNCHANGED <<wins, refs, dead, next_wid, spawned>> => ExactInv'
  BY DEF ExactInv, Pointing, Waiting, Apart, Unlisted, Drawn, Registered
<1>a. UNCHANGED <<wins, refs, dead, next_wid>> /\ spawned < MaxSpawn /\ spawned' = spawned + 1
        => ExactInv'
  <2> SUFFICES ASSUME UNCHANGED <<wins, refs, dead, next_wid>>, spawned < MaxSpawn,
                      spawned' = spawned + 1
               PROVE  ExactInv'
    OBVIOUS
  <2>1. Pointing' /\ Waiting' /\ Apart' /\ Unlisted'
    BY DEF ExactInv, Pointing, Waiting, Apart, Unlisted, Registered
  <2>2. spawned \in Nat /\ DOMAIN refs \subseteq Nat /\ (\A i \in DOMAIN dead : dead[i] \in Nat)
        /\ \A w \in wins : w.panes \subseteq Nat
    BY RivtdAssumption DEF RivtdTypeOK, PaneIds, Windows
  <2>3. Drawn'
    BY <2>2, RivtdAssumption DEF ExactInv, Drawn
  <2> QED BY <2>1, <2>3 DEF ExactInv
<1>1. ASSUME NEW k \in Conns, NEW read \in BOOLEAN, Accept(k, read) \/ Kill(k) \/ HandleHello(k)
             \/ HandleListSessions(k) \/ HandleDetach(k)
      PROVE  ExactInv'
  BY <1>0, <1>1 DEF Accept, Kill, HandleHello, HandleListSessions, HandleDetach
<1>2. ASSUME NEW k \in Conns, NEW sid, HandleAttach(k, sid) PROVE ExactInv'
  BY <1>0, <1>2 DEF HandleAttach
<1>3. ASSUME NEW sid \in sessions, AgentAccept(sid) PROVE ExactInv'
  BY <1>0, <1>3 DEF AgentAccept
<1>4. ASSUME NEW s \in streams, AgentClose(s) PROVE ExactInv'
  BY <1>0, <1>4 DEF AgentClose
<1>5. ASSUME NEW k \in Conns, NEW sid \in Nat, AddWindow(sid, TRUE), dead' = dead,
             spawned < MaxSpawn
      PROVE  ExactInv'
  <2> DEFINE w == [id |-> next_wid, sid |-> sid, panes |-> {NextPane}]
             V == {}
  <2>1. /\ wins' = (wins \ V) \cup {w} /\ refs' = Register(NextPane, w.sid, w.id)
        /\ next_wid' = next_wid + 1 /\ spawned' = spawned + 1
    BY <1>5 DEF AddWindow
  <2>2. next_wid \in Nat /\ \A u \in wins : u.id \in Nat /\ u.id < next_wid
    BY DEF RivtdTypeOK, Windows, ExactInv, Drawn
  <2>3. V \in SUBSET wins /\ w.panes = (UNION {u.panes : u \in V}) \cup {NextPane}
    OBVIOUS
  <2>4. /\ \A u \in wins \ V : u.id # w.id
        /\ w.id < next_wid' /\ next_wid' \in Nat /\ next_wid <= next_wid'
        /\ \A u \in V : u.id = w.id /\ u.sid = w.sid
    BY <2>1, <2>2
  <2> HIDE DEF w, V
  <2> QED BY <1>5, <2>1, <2>3, <2>4, PaneComesExact
<1>6. ASSUME NEW k \in Conns, HandleCreateSession(k) PROVE ExactInv'
  <2>1. /\ spawned < MaxSpawn /\ dead' = dead /\ next_sid \in Nat
        /\ \/ AddWindow(next_sid, NextPane # 0)
           \/ spawned' = spawned + 1 /\ UNCHANGED <<wins, refs, next_wid>>
    BY <1>6 DEF HandleCreateSession, RivtdTypeOK
  <2>2. NextPane # 0
    BY <2>1, NextIsFresh DEF RivtdTypeOK
  <2>3. (NextPane # 0) = TRUE
    BY <2>2
  <2>4. CASE AddWindow(next_sid, NextPane # 0)
    <3>1. AddWindow(next_sid, TRUE)
      BY <2>3, <2>4
    <3> QED BY <1>5, <2>1, <3>1
  <2>5. CASE spawned' = spawned + 1 /\ UNCHANGED <<wins, refs, next_wid>>
    BY <1>a, <2>1, <2>5
  <2> QED BY <2>1, <2>4, <2>5
<1>7. ASSUME NEW k \in Conns, HandleNewWindow(k) PROVE ExactInv'
  <2>1. /\ spawned < MaxSpawn /\ dead' = dead /\ attached[k] \in Nat
        /\ \/ AddWindow(attached[k], TRUE)
           \/ spawned' = spawned + 1 /\ UNCHANGED <<wins, refs, next_wid>>
    BY <1>7 DEF HandleNewWindow, RivtdTypeOK
  <2> QED BY <1>a, <1>5, <2>1
<1>8. ASSUME NEW k \in Conns, NEW pid \in DOMAIN refs, HandleSplit(k, pid) PROVE ExactInv'
  <2>1. spawned < MaxSpawn /\ spawned' = spawned + 1 /\ dead' = dead /\ next_wid' = next_wid
    BY <1>8 DEF HandleSplit
  <2>2. ASSUME NEW w \in wins,
               wins' = (wins \ {w}) \cup {[w EXCEPT !.panes = @ \cup {NextPane}]},
               refs' = Register(NextPane, w.sid, w.id)
        PROVE  ExactInv'
    <3> DEFINE v == [w EXCEPT !.panes = @ \cup {NextPane}]
               V == {w}
    <3>1. v.id = w.id /\ v.sid = w.sid /\ v.panes = w.panes \cup {NextPane} /\ w.id \in Nat
          /\ next_wid \in Nat
      BY DEF RivtdTypeOK, Windows
    <3>2. V \in SUBSET wins /\ v.panes = (UNION {u.panes : u \in V}) \cup {NextPane}
      BY <3>1
    <3>3. \A u \in wins \ V : u.id # v.id
      BY <3>1 DEF ExactInv, Apart
    <3>4. v.id < next_wid' /\ next_wid' \in Nat /\ next_wid <= next_wid'
      BY <2>1, <3>1 DEF ExactInv, Drawn
    <3>5. wins' = (wins \ V) \cup {v} /\ refs' = Register(NextPane, v.sid, v.id)
          /\ \A u \in V : u.id = v.id /\ u.sid = v.sid
      BY <2>2, <3>1
    <3> HIDE DEF v, V
    <3> QED BY <2>1, <3>2, <3>3, <3>4, <3>5, PaneComesExact
  <2>3. CASE UNCHANGED <<wins, refs>>
    BY <1>a, <2>1, <2>3
  <2> QED BY <1>8, <2>2, <2>3 DEF HandleSplit
<1>9. ASSUME NEW k \in Conns, NEW sid, HandleKillSession(k, sid) PROVE ExactInv'
  <2>1. CloseSession(sid, PanesOf(sid), <<>>) /\ UNCHANGED <<dead, next_wid, spawned>>
    BY <1>9 DEF HandleKillSession
  <2>2. PanesOf(sid) = UNION {w.panes : w \in SessionWins(sid)}
    BY DEF PanesOf
  <2> QED BY <2>1, <2>2, CloseSessionExact
<1>10. ASSUME NEW k \in Conns, NEW pid \in DOMAIN refs, HandleClosePane(k, pid) PROVE ExactInv'
  <2>1. PICK w \in wins : pid \in w.panes /\ RemovePane(w, pid, {pid})
    BY <1>10 DEF HandleClosePane
  <2>2. UNCHANGED <<dead, next_wid, spawned>>
    BY <1>10 DEF HandleClosePane
  <2> QED BY <2>1, <2>2, RemovePaneExact
<1>11. ASSUME NEW k \in Conns, NEW pid \in DOMAIN refs, HandleInput(k, pid) PROVE ExactInv'
  <2>1. /\ refs' = [refs EXCEPT ![pid].client = k]
        /\ UNCHANGED <<wins, dead, next_wid, spawned>>
    BY <1>11 DEF HandleInput, idVars
  <2>2. DOMAIN refs' = DOMAIN refs /\ \A p \in DOMAIN refs : refs[p] \in Refs
    BY <2>1 DEF RivtdTypeOK
  <2>3. \A p \in DOMAIN refs : refs'[p].wid = refs[p].wid /\ refs'[p].sid = refs[p].sid
    BY <2>1, <2>2 DEF Refs
  <2>4. \A w : Registered(w)' = Registered(w)
    BY <2>2, <2>3 DEF Registered
  <2> QED BY <2>1, <2>2, <2>4 DEF ExactInv, Pointing, Waiting, Apart, Unlisted, Drawn
<1>12. ASSUME NEW k \in Conns, NEW wid, HandleCloseWindow(k, wid) PROVE ExactInv'
  <2>1. PICK w \in wins : EndWindow(w, w.panes, <<>>)
    BY <1>12 DEF HandleCloseWindow, SessionWins
  <2>2. UNCHANGED <<dead, next_wid, spawned>>
    BY <1>12 DEF HandleCloseWindow
  <2> QED BY <2>1, <2>2, EndWindowExact
<1>13. ASSUME NEW pid \in DOMAIN refs, PaneDies(pid) PROVE ExactInv'
  <2>1. /\ refs' = Without(refs, {pid}) /\ dead' = Append(dead, pid)
        /\ UNCHANGED <<wins, next_wid, spawned>>
    BY <1>13 DEF PaneDies
  <2>2. /\ DOMAIN dead' = DOMAIN dead \cup {Len(dead) + 1} /\ dead'[Len(dead) + 1] = pid
        /\ \A i \in DOMAIN dead : dead'[i] = dead[i]
    BY <2>1 DEF RivtdTypeOK
  <2>3. Pointing'
    BY <2>1 DEF ExactInv, Pointing, Registered, Without
  <2>4. Waiting'
    BY <2>1, <2>2 DEF ExactInv, Waiting, Registered, Without
  <2>5. Apart' /\ Unlisted' /\ Drawn'
    BY <2>1, <2>2 DEF ExactInv, Apart, Unlisted, Drawn, Without
  <2> QED BY <2>3, <2>4, <2>5 DEF ExactInv
<1>14. CASE BeginSweep
  BY <1>0, <1>14 DEF BeginSweep
<1>15. CASE SweepPane
  <2>1. dead # <<>> /\ dead' = Tail(dead) /\ UNCHANGED <<next_wid, spawned>>
    BY <1>15 DEF SweepPane
  <2>2. \A i \in DOMAIN dead : dead[i] = Head(dead) \/ \E j \in DOMAIN dead' : dead'[j] = dead[i]
    <3> SUFFICES ASSUME NEW i \in DOMAIN dead, i # 1
                 PROVE  i - 1 \in DOMAIN dead' /\ dead'[i - 1] = dead[i]
      BY DEF RivtdTypeOK
    <3> QED BY <2>1 DEF RivtdTypeOK
  <2>3. \A j \in DOMAIN dead' : j + 1 \in DOMAIN dead /\ dead'[j] = dead[j + 1]
    BY <2>1 DEF RivtdTypeOK
  <2>4. Head(dead) \notin DOMAIN refs
    BY <2>1 DEF RivtdTypeOK, ExactInv, Unlisted
  <2>5. ASSUME NEW w \in wins, Head(dead) \in w.panes, RemovePane(w, Head(dead), {})
        PROVE  ExactInv'
    BY <2>1, <2>2, <2>3, <2>4, <2>5, RemovePaneExact
  <2>6. CASE (\A w \in wins : Head(dead) \notin w.panes) /\ UNCHANGED <<wins, refs>>
    <3>1. Pointing' /\ Apart'
      BY <2>6 DEF ExactInv, Pointing, Apart, Registered
    <3>2. Waiting'
      BY <2>2, <2>6 DEF ExactInv, Waiting, Registered
    <3>3. Unlisted' /\ Drawn'
      BY <2>1, <2>3, <2>6 DEF ExactInv, Unlisted, Drawn
    <3> QED BY <3>1, <3>2, <3>3 DEF ExactInv
  <2> QED BY <1>15, <2>5, <2>6 DEF SweepPane
<1>16. CASE SweepClients
  <2>1. /\ DOMAIN refs' = DOMAIN refs
        /\ \A p \in DOMAIN refs : refs'[p].wid = refs[p].wid /\ refs'[p].sid = refs[p].sid
        /\ UNCHANGED <<wins, dead, next_wid, spawned>>
    BY <1>16 DEF SweepClients, RivtdTypeOK, Refs
  <2> QED BY <2>1 DEF ExactInv, Pointing, Waiting, Apart, Unlisted, Drawn, Registered
<1>17. CASE UpgradeDaemon
  <2>1. /\ DOMAIN refs' = UNION {w.panes : w \in wins} /\ dead' = <<>>
        /\ \A p \in UNION {w.panes : w \in wins} :
              refs'[p].sid = Holder(p).sid /\ refs'[p].wid = Holder(p).id
        /\ UNCHANGED <<wins, next_wid, spawned>>
    BY <1>17 DEF UpgradeDaemon
  <2>2. ASSUME NEW w \in wins, NEW p \in w.panes PROVE Holder(p) = w
    BY DEF Holder, ExactInv, Apart
  <2>3. Pointing' /\ Waiting'
    BY <2>1, <2>2 DEF Pointing, Waiting, Registered
  <2>4. Apart' /\ Unlisted' /\ Drawn'
    BY <2>1 DEF ExactInv, Apart, Unlisted, Drawn
  <2> QED BY <2>3, <2>4 DEF ExactInv
<1>18. CASE UNCHANGED rivtdVars
  BY <1>0, <1>18 DEF rivtdVars
<1> QED BY <1>1, <1>2, <1>3, <1>4, <1>6, <1>7, <1>8, <1>9, <1>10, <1>11, <1>12,
           <1>13, <1>14, <1>15, <1>16, <1>17, <1>18 DEF DaemonStep, Background

\* m_panes is exact in every execution in which the counter does not wrap:
\* every entry points into the one window that has the pane, and what has no
\* entry waits for the sweep.  PanesExact fails once ids wrap into use.
THEOREM IndexIsExact == NoWrap => (SpecRivtd => []PanesExact)
<1> SUFFICES ASSUME NoWrap PROVE SpecRivtd => []PanesExact
  OBVIOUS
<1>1. InitRivtd => ExactInv
  <2> SUFFICES ASSUME InitRivtd PROVE ExactInv
    OBVIOUS
  <2>1. DOMAIN refs = {} /\ DOMAIN dead = {}
    BY DEF InitRivtd
  <2> QED BY <2>1, RivtdAssumption
          DEF InitRivtd, ExactInv, Pointing, Waiting, Apart, Unlisted, Drawn
<1>2. RivtdTypeOK /\ ExactInv /\ [NextRivtd]_rivtdVars => ExactInv'
  BY ExactInductive, NextIsDaemonStep
<1>3. RivtdTypeOK /\ ExactInv => PanesExact
  <2> SUFFICES ASSUME RivtdTypeOK, ExactInv PROVE PanesExact
    OBVIOUS
  <2>1. \A w \in wins : w.panes \ Registered(w) \subseteq ToSet(dead)
    BY DEF ExactInv, Waiting, ToSet
  <2> QED BY <2>1 DEF ExactInv, Pointing, Apart, PanesExact
<1> QED BY <1>1, <1>2, <1>3, TypeCorrect, PTL DEF SpecRivtd


-----------------------------------------------------------------------------
(* Views, and what a message makes of one.                                 *)

Messages ==
    [t : {"HelloOk", "Error"}]
      \cup [t : {"SessionList"}, list : SUBSET Nat]
      \cup [t : {"SessionCreated"}, sid : Nat, pid : PaneIds]
      \cup [t : {"AttachOk", "SessionClosed"}, sid : Nat]
      \cup [t : {"WindowAdded", "WindowClosed"}, sid : Nat, wid : Nat]
      \cup [t : {"Layout"}, sid : Nat, wid : Nat, panes : SUBSET PaneIds]
      \cup [t : {"PaneExited"}, pid : PaneIds]

View(mo, se, ws, ps, re, an) ==
    [mode |-> mo, sess |-> se, wins |-> ws, panes |-> ps, res |-> re, ann |-> an]

Seen(u) == View(mode[u], session[u], mwins[u], mpanes[u], resyncing[u], announced[u])

Gone(c) == View("exited", c.sess, {}, <<>>, FALSE, {})

Cut(c, lost) == Without(c.panes, {p \in DOMAIN c.panes : c.panes[p] \in lost})

Kept(c, m) == {p \in DOMAIN c.panes : p \in m.panes \/ c.panes[p] # m.wid}
Laid(c, m) == [p \in Kept(c, m) \cup m.panes |->
                 IF p \in Kept(c, m) THEN c.panes[p] ELSE m.wid]

Staying(c, m) == IF m.sid = c.sess THEN c.wins \ {m.wid} ELSE c.wins

\* What the window's callbacks, taken together, make of a message.
Effect(c, m) ==
    IF c.mode = "exited" THEN c
    ELSE CASE m.t = "AttachOk" ->
                View("active", m.sid, c.wins, c.panes, TRUE, {})
           [] m.t = "SessionList" ->
                IF c.res
                THEN View(c.mode, c.sess, c.wins \cap c.ann, Cut(c, c.wins \ c.ann),
                          FALSE, {})
                ELSE c
           [] m.t = "WindowAdded" ->
                IF m.sid = c.sess
                THEN View(c.mode, c.sess, c.wins \cup {m.wid}, c.panes, c.res,
                          IF c.res THEN c.ann \cup {m.wid} ELSE c.ann)
                ELSE c
           [] m.t = "Layout" ->
                IF m.sid = c.sess /\ m.wid \in c.wins
                THEN View(c.mode, c.sess, c.wins, Laid(c, m), c.res, c.ann)
                ELSE c
           [] m.t = "WindowClosed" ->
                View(c.mode, c.sess, c.wins \cap Staying(c, m),
                     Cut(c, c.wins \ Staying(c, m)), c.res, c.ann)
           [] m.t = "PaneExited" ->
                View(c.mode, c.sess, c.wins, Without(c.panes, {m.pid}), c.res, c.ann)
           [] m.t = "SessionClosed" -> IF m.sid = c.sess THEN Gone(c) ELSE c
           [] m.t = "Error" -> IF c.mode = "reconnecting" THEN Gone(c) ELSE c
           [] m.t = "SessionCreated" -> IF m.pid = 0 THEN Gone(c) ELSE c
           [] OTHER -> c

-----------------------------------------------------------------------------
(* The daemon as views are compared with it.  `home' is the window each    *)
(* pane was opened in: a pane never moves, and pane ids are not reused.    *)

Registry(H) == [wins |-> wins, sessions |-> sessions, next |-> next_wid,
                drawn |-> spawned, home |-> H]

Sound(R) ==
    /\ R.wins \subseteq Windows /\ R.next \in Nat /\ R.drawn \in Nat
    /\ R.home \in [PaneIds -> Nat]
    /\ \A w \in R.wins :
          w.id < R.next /\ \A p \in w.panes : p <= R.drawn /\ R.home[p] = w.id
    /\ \A v, w \in R.wins : v.id = w.id => v = w

\* What the daemon did between two registries: ids are only ever drawn.
Grows(R, Q) ==
    /\ R.next <= Q.next /\ R.drawn <= Q.drawn
    /\ \A w \in Q.wins : w.id < R.next => \E v \in R.wins : v.id = w.id /\ v.sid = w.sid
    /\ \A p \in PaneIds : p <= R.drawn => Q.home[p] = R.home[p]

\* A view names windows that were opened, and panes where they belong.
Fits(c, R) ==
    /\ c.wins \subseteq Nat /\ \A w \in c.wins : w < R.next
    /\ c.panes \in [DOMAIN c.panes -> c.wins] /\ DOMAIN c.panes \subseteq PaneIds
    /\ \A p \in DOMAIN c.panes : p <= R.drawn /\ c.panes[p] = R.home[p]

\* The step from c to d drops no window the daemon still has.
Spares(c, d, R) ==
    d.mode = "active" =>
        \A w \in R.wins : w.sid = c.sess /\ w.id \in c.wins => w.id \in d.wins

\* The windows that remain when the resync ends, and their panes.
Shown(c)      == IF c.res THEN c.ann \cap c.wins ELSE c.wins
ShownPanes(c) == {p \in DOMAIN c.panes : c.panes[p] \in Shown(c)}

Ids(R, a)     == {w.id : w \in {v \in R.wins : v.sid = a}}
PanesIn(R, a) == UNION {w.panes : w \in {v \in R.wins : v.sid = a}}

\* An attached view shows session a as the daemon has it, but for the panes
\* of the windows in X.
AgreesBut(c, a, R, X) ==
    c.mode = "active" =>
        /\ a = c.sess /\ a \in R.sessions
        /\ Shown(c) = Ids(R, a)
        /\ \A p \in PaneIds : R.home[p] \notin X =>
              (p \in ShownPanes(c) <=> p \in PanesIn(R, a))

Agrees(c, a, R) == AgreesBut(c, a, R, {})

\* Reading q takes view c to view d.
Leads(c, q, d, R) ==
    \E path :
        /\ path[1] = c /\ path[Len(q) + 1] = d
        /\ \A i \in 1..(Len(q) + 1) : Fits(path[i], R)
        /\ \A i \in 1..Len(q) : /\ path[i + 1] = Effect(path[i], q[i])
                                /\ Spares(path[i], path[i + 1], R)

-----------------------------------------------------------------------------
(* Ways.                                                                   *)

LEMMA LeadsNowhere == ASSUME NEW c, NEW R, Fits(c, R) PROVE Leads(c, <<>>, c, R)
<1> DEFINE path == [i \in {1} |-> c]
<1>1. path[1] = c /\ path[Len(<<>>) + 1] = c
  OBVIOUS
<1>2. \A i \in 1..(Len(<<>>) + 1) : Fits(path[i], R)
  BY <1>1
<1>3. 1..Len(<<>>) = {}
  OBVIOUS
<1> HIDE DEF path
<1> QED BY <1>1, <1>2, <1>3 DEF Leads

LEMMA LeadsOne ==
  ASSUME NEW c, NEW m, NEW R, Fits(c, R), Fits(Effect(c, m), R), Spares(c, Effect(c, m), R)
  PROVE  Leads(c, <<m>>, Effect(c, m), R)
<1> DEFINE path == [i \in 1..2 |-> IF i = 1 THEN c ELSE Effect(c, m)]
<1>1. path[1] = c /\ path[2] = Effect(c, m)
  OBVIOUS
<1> HIDE DEF path
<1>2. Len(<<m>>) = 1 /\ <<m>>[1] = m /\ 1..1 = {1} /\ 1..2 = {1, 2}
  OBVIOUS
<1>3. \A i \in 1..2 : Fits(path[i], R)
  BY <1>1, <1>2
<1> QED BY <1>1, <1>2, <1>3 DEF Leads

LEMMA LeadsConcat ==
  ASSUME NEW c, NEW d, NEW e, NEW R, NEW q \in Seq(Messages), NEW r \in Seq(Messages),
         Leads(c, q, d, R), Leads(d, r, e, R)
  PROVE  Leads(c, q \o r, e, R)
<1>1. PICK f : /\ f[1] = c /\ f[Len(q) + 1] = d
               /\ \A i \in 1..(Len(q) + 1) : Fits(f[i], R)
               /\ \A i \in 1..Len(q) : f[i + 1] = Effect(f[i], q[i]) /\ Spares(f[i], f[i + 1], R)
  BY DEF Leads
<1>2. PICK g : /\ g[1] = d /\ g[Len(r) + 1] = e
               /\ \A i \in 1..(Len(r) + 1) : Fits(g[i], R)
               /\ \A i \in 1..Len(r) : g[i + 1] = Effect(g[i], r[i]) /\ Spares(g[i], g[i + 1], R)
  BY DEF Leads
<1> DEFINE n == Len(q)
           k == Len(r)
           path == [i \in 1..(n + k + 1) |-> IF i <= n + 1 THEN f[i] ELSE g[i - n]]
<1>3. n \in Nat /\ k \in Nat /\ Len(q \o r) = n + k
  OBVIOUS
<1>4. /\ \A i \in 1..n : (q \o r)[i] = q[i]
      /\ \A i \in 1..k : (q \o r)[n + i] = r[i]
  OBVIOUS
<1>5. /\ \A i \in 1..(n + 1) : path[i] = f[i]
      /\ \A i \in 1..(k + 1) : path[n + i] = g[i]
  <2>1. \A i \in 1..(n + 1) : path[i] = f[i]
    BY <1>3
  <2>2. ASSUME NEW i \in 1..(k + 1) PROVE path[n + i] = g[i]
    <3>1. CASE i = 1
      BY <1>1, <1>2, <1>3, <3>1
    <3>2. CASE i # 1
      BY <1>3, <3>2
    <3> QED BY <3>1, <3>2
  <2> QED BY <2>1, <2>2
<1> HIDE DEF path
<1>6. path[1] = c /\ path[Len(q \o r) + 1] = e
  <2>1. path[1] = c
    BY <1>1, <1>3, <1>5
  <2>2. k + 1 \in 1..(k + 1) /\ g[k + 1] = e
    BY <1>2, <1>3
  <2> HIDE DEF n, k
  <2>3. path[n + (k + 1)] = e
    BY <1>5, <2>2
  <2> QED BY <1>3, <2>1, <2>3
<1> HIDE DEF n, k
<1>7. ASSUME NEW i \in 1..(n + k + 1) PROVE Fits(path[i], R)
  <2>1. CASE i <= n + 1
    BY <1>1, <1>3, <1>5, <2>1 DEF n
  <2>2. CASE i > n + 1
    <3>1. i - n \in 1..(k + 1) /\ i = n + (i - n)
      BY <1>3, <2>2
    <3>2. path[i] = g[i - n]
      BY <1>5, <3>1
    <3> QED BY <1>2, <3>1, <3>2 DEF k
  <2> QED BY <1>3, <2>1, <2>2
<1>8. ASSUME NEW i \in 1..(n + k)
      PROVE  path[i + 1] = Effect(path[i], (q \o r)[i]) /\ Spares(path[i], path[i + 1], R)
  <2>1. CASE i <= n
    <3>1. i \in 1..n /\ i \in 1..(n + 1) /\ i + 1 \in 1..(n + 1)
      BY <1>3, <2>1
    <3> QED BY <1>1, <1>4, <1>5, <3>1 DEF n
  <2>2. CASE i > n
    <3> DEFINE j == i - n
    <3>1. j \in 1..k /\ j \in 1..(k + 1) /\ j + 1 \in 1..(k + 1) /\ i = n + j /\ i + 1 = n + (j + 1)
      BY <1>3, <2>2
    <3> HIDE DEF j
    <3>2. g[j + 1] = Effect(g[j], r[j]) /\ Spares(g[j], g[j + 1], R)
      BY <1>2, <3>1 DEF k
    <3>3. path[i] = g[j] /\ path[i + 1] = g[j + 1] /\ (q \o r)[i] = r[j]
      BY <1>4, <1>5, <3>1
    <3> QED BY <3>2, <3>3
  <2> QED BY <1>3, <2>1, <2>2
<1> QED BY <1>3, <1>6, <1>7, <1>8 DEF Leads

\* The window reads one message: the first step of the way is behind it.
LEMMA LeadsTail ==
  ASSUME NEW c, NEW d, NEW R, NEW q \in Seq(Messages), q # <<>>, Leads(c, q, d, R)
  PROVE  Leads(Effect(c, Head(q)), Tail(q), d, R) /\ Spares(c, Effect(c, Head(q)), R)
<1>1. PICK f : /\ f[1] = c /\ f[Len(q) + 1] = d
               /\ \A i \in 1..(Len(q) + 1) : Fits(f[i], R)
               /\ \A i \in 1..Len(q) : f[i + 1] = Effect(f[i], q[i]) /\ Spares(f[i], f[i + 1], R)
  BY DEF Leads
<1>2. /\ Len(q) \in Nat \ {0} /\ Head(q) = q[1] /\ Len(Tail(q)) = Len(q) - 1
      /\ \A i \in 1..(Len(q) - 1) : Tail(q)[i] = q[i + 1]
  OBVIOUS
<1> DEFINE n == Len(q)
           path == [i \in 1..n |-> f[i + 1]]
<1>3. \A i \in 1..n : path[i] = f[i + 1]
  OBVIOUS
<1> HIDE DEF path
<1>4. f[2] = Effect(c, Head(q)) /\ Spares(c, f[2], R)
  BY <1>1, <1>2
<1>5. path[1] = f[2] /\ path[n] = d
  BY <1>1, <1>2, <1>3
<1>6. \A i \in 1..n : Fits(path[i], R)
  BY <1>1, <1>2, <1>3
<1>7. ASSUME NEW i \in 1..(n - 1)
      PROVE  path[i + 1] = Effect(path[i], Tail(q)[i]) /\ Spares(path[i], path[i + 1], R)
  <2>1. i \in 1..n /\ i + 1 \in 1..n /\ Tail(q)[i] = q[i + 1]
    BY <1>2
  <2>2. f[(i + 1) + 1] = Effect(f[i + 1], q[i + 1]) /\ Spares(f[i + 1], f[(i + 1) + 1], R)
    BY <1>1, <2>1
  <2>3. path[i] = f[i + 1] /\ path[i + 1] = f[(i + 1) + 1]
    BY <1>3, <2>1
  <2> QED BY <2>1, <2>2, <2>3
<1>8. Len(Tail(q)) + 1 = n
  BY <1>2
<1>9. Leads(f[2], Tail(q), d, R)
  BY <1>2, <1>5, <1>6, <1>7, <1>8 DEF Leads
<1> QED BY <1>4, <1>9

\* A view that fitted goes on fitting, and a step that spared goes on sparing.
LEMMA FitsGrows ==
  ASSUME NEW R, NEW Q, Sound(R), Sound(Q), Grows(R, Q), NEW c, Fits(c, R)
  PROVE  Fits(c, Q)
<1>1. \A p \in DOMAIN c.panes : p \in Nat
  BY RivtdAssumption DEF Fits, PaneIds
<1> QED BY <1>1 DEF Sound, Grows, Fits

LEMMA SparesGrows ==
  ASSUME NEW R, NEW Q, Grows(R, Q), NEW c, NEW d, Fits(c, R), Spares(c, d, R)
  PROVE  Spares(c, d, Q)
BY DEF Grows, Fits, Spares

LEMMA LeadsGrows ==
  ASSUME NEW R, NEW Q, Sound(R), Sound(Q), Grows(R, Q), NEW q \in Seq(Messages),
         NEW c, NEW d, Leads(c, q, d, R)
  PROVE  Leads(c, q, d, Q)
<1>1. PICK f : /\ f[1] = c /\ f[Len(q) + 1] = d
               /\ \A i \in 1..(Len(q) + 1) : Fits(f[i], R)
               /\ \A i \in 1..Len(q) : f[i + 1] = Effect(f[i], q[i]) /\ Spares(f[i], f[i + 1], R)
  BY DEF Leads
<1>2. \A i \in 1..(Len(q) + 1) : Fits(f[i], Q)
  BY <1>1, FitsGrows
<1>3. \A i \in 1..Len(q) : Spares(f[i], f[i + 1], Q)
  BY <1>1, SparesGrows
<1> QED BY <1>1, <1>2, <1>3 DEF Leads

-----------------------------------------------------------------------------
(* One message at a time.                                                  *)

LEMMA GoneFits == ASSUME NEW c, NEW R PROVE Fits(Gone(c), R)
<1>1. DOMAIN <<>> = {} /\ <<>> \in [{} -> {}]
  OBVIOUS
<1> QED BY <1>1 DEF Gone, View, Fits

\* Cutting panes off with their windows, or one by one.
LEMMA CutFits ==
  ASSUME NEW R, NEW c, Fits(c, R), NEW mo, NEW se, NEW stay, NEW re, NEW an
  PROVE  Fits(View(mo, se, c.wins \cap stay, Cut(c, c.wins \ stay), re, an), R)
<1> DEFINE f == Cut(c, c.wins \ stay)
<1>1. /\ f = [p \in DOMAIN f |-> c.panes[p]] /\ DOMAIN f \subseteq DOMAIN c.panes
      /\ \A p \in DOMAIN f : c.panes[p] \in c.wins \cap stay
  BY DEF Cut, Without, Fits
<1> HIDE DEF f
<1>2. f \in [DOMAIN f -> c.wins \cap stay] /\ \A p \in DOMAIN f : f[p] = c.panes[p]
  BY <1>1
<1> QED BY <1>1, <1>2 DEF f, View, Fits

LEMMA WithoutFits ==
  ASSUME NEW R, NEW c, Fits(c, R), NEW mo, NEW se, NEW S, NEW re, NEW an
  PROVE  Fits(View(mo, se, c.wins, Without(c.panes, S), re, an), R)
<1> DEFINE f == Without(c.panes, S)
<1>1. /\ f = [p \in DOMAIN f |-> c.panes[p]] /\ DOMAIN f \subseteq DOMAIN c.panes
  BY DEF Without
<1> HIDE DEF f
<1>2. f \in [DOMAIN f -> c.wins] /\ \A p \in DOMAIN f : f[p] = c.panes[p]
  BY <1>1 DEF Fits
<1> QED BY <1>1, <1>2 DEF f, View, Fits

LEMMA LaidPanes ==
  ASSUME NEW R, NEW c, Fits(c, R), NEW m, m.wid \in c.wins,
         \A p \in m.panes : p <= R.drawn /\ R.home[p] = m.wid
  PROVE  /\ DOMAIN Laid(c, m) = {p \in DOMAIN c.panes : R.home[p] # m.wid} \cup m.panes
         /\ \A p \in DOMAIN Laid(c, m) : Laid(c, m)[p] = R.home[p]
         /\ Laid(c, m) \in [DOMAIN Laid(c, m) -> c.wins]
<1>1. DOMAIN Laid(c, m) = Kept(c, m) \cup m.panes
  BY DEF Laid
<1>2. \A p \in DOMAIN Laid(c, m) : Laid(c, m)[p] = R.home[p] /\ Laid(c, m)[p] \in c.wins
  BY DEF Laid, Kept, Fits
<1>3. Kept(c, m) \cup m.panes = {p \in DOMAIN c.panes : R.home[p] # m.wid} \cup m.panes
  BY DEF Kept, Fits
<1>4. Laid(c, m) = [p \in DOMAIN Laid(c, m) |-> Laid(c, m)[p]]
  BY DEF Laid
<1> QED BY <1>1, <1>2, <1>3, <1>4

\* Answers that are not about windows: at most they end the window's wait.
LEMMA AnswerRead ==
  ASSUME NEW R, Sound(R), NEW c, Fits(c, R), NEW a, Agrees(c, a, R), NEW m,
         m = HelloOk \/ m = Error \/ (\E s, p : m = SessionCreated(s, p))
           \/ \E S : m = SessionList(S)
  PROVE  /\ Fits(Effect(c, m), R) /\ Spares(c, Effect(c, m), R)
         /\ Agrees(Effect(c, m), a, R)
         /\ c.mode # "active" => Effect(c, m).mode # "active"
<1>1. CASE Effect(c, m) = c
  BY <1>1 DEF Spares
<1>2. CASE Effect(c, m) = Gone(c)
  <2>1. Gone(c).mode = "exited"
    BY DEF Gone, View
  <2> QED BY <1>2, <2>1, GoneFits DEF Spares, Agrees, AgreesBut
<1>3. CASE m.t = "SessionList" /\ c.res /\ c.mode # "exited"
  <2> DEFINE d == Effect(c, m)
  <2>1. d = View(c.mode, c.sess, c.wins \cap c.ann, Cut(c, c.wins \ c.ann), FALSE, {})
    BY <1>3 DEF Effect
  <2>2. Fits(d, R)
    <3>1. Fits(View(c.mode, c.sess, c.wins \cap c.ann, Cut(c, c.wins \ c.ann), FALSE, {}), R)
      BY CutFits
    <3> QED BY <2>1, <3>1
  <2>3. /\ d.mode = c.mode /\ d.sess = c.sess /\ Shown(d) = Shown(c) /\ d.wins = Shown(c)
        /\ d.panes = Cut(c, c.wins \ c.ann)
    BY <1>3, <2>1 DEF View, Shown
  <2> HIDE DEF d
  <2>4. ShownPanes(d) = ShownPanes(c)
    BY <1>3, <2>3 DEF ShownPanes, Cut, Without, Shown, Fits
  <2>5. Agrees(d, a, R)
    BY <2>3, <2>4 DEF Agrees, AgreesBut
  <2>6. Spares(c, d, R)
    BY <2>3 DEF Spares, Agrees, AgreesBut, Ids
  <2> QED BY <2>2, <2>3, <2>5, <2>6 DEF d
<1>4. m.t \in {"HelloOk", "Error", "SessionCreated", "SessionList"}
  BY DEF HelloOk, Error, SessionCreated, SessionList
<1> QED BY <1>1, <1>2, <1>3, <1>4 DEF Effect

\* A window that is new to the view: its panes are not yet to be trusted.
LEMMA AddedRead ==
  ASSUME NEW R, Sound(R), NEW Q, Sound(Q), Grows(R, Q),
         NEW w \in Q.wins, Q.wins = R.wins \cup {w}, Q.sessions = R.sessions \cup {w.sid},
         NEW c, Fits(c, R), NEW a, Agrees(c, a, R), w.sid = a
  PROVE  /\ Fits(Effect(c, WindowAdded(w)), Q) /\ Spares(c, Effect(c, WindowAdded(w)), Q)
         /\ AgreesBut(Effect(c, WindowAdded(w)), a, Q, {w.id})
<1> DEFINE m == WindowAdded(w)
           d == Effect(c, m)
<1>0. Fits(c, Q) /\ w.id \in Nat /\ w.id < Q.next
  BY FitsGrows DEF Sound, Windows
<1>1. m.t = "WindowAdded" /\ m.sid = w.sid /\ m.wid = w.id
  BY DEF WindowAdded
<1> HIDE DEF m
<1>2. CASE c.mode = "exited" \/ m.sid # c.sess
  <2>1. c.mode # "active" /\ d = c
    BY <1>1, <1>2 DEF Effect, Agrees, AgreesBut
  <2> QED BY <1>0, <2>1 DEF m, Spares, AgreesBut
<1>3. CASE c.mode # "exited" /\ m.sid = c.sess
  <2>0. d = View(c.mode, c.sess, c.wins \cup {w.id}, c.panes, c.res,
                 IF c.res THEN c.ann \cup {w.id} ELSE c.ann)
    BY <1>1, <1>3 DEF Effect
  <2>1. /\ d.mode = c.mode /\ d.sess = c.sess /\ d.wins = c.wins \cup {w.id}
        /\ d.panes = c.panes /\ d.res = c.res
        /\ d.ann = IF c.res THEN c.ann \cup {w.id} ELSE c.ann
    BY <2>0 DEF View
  <2> HIDE DEF d
  <2>2. d.panes \in [DOMAIN d.panes -> d.wins]
    BY <2>1 DEF Fits
  <2>3. Fits(d, Q)
    BY <1>0, <2>1, <2>2 DEF Fits
  <2>4. Spares(c, d, Q)
    BY <2>1 DEF Spares
  <2>5. ASSUME c.mode = "active" PROVE AgreesBut(d, a, Q, {w.id})
    <3>1. Shown(d) = Shown(c) \cup {w.id}
      BY <2>1 DEF Shown
    <3>2. Ids(Q, a) = Ids(R, a) \cup {w.id}
      BY DEF Ids
    <3>3. \A p \in PaneIds : Q.home[p] # w.id =>
             /\ p \in PanesIn(Q, a) <=> p \in PanesIn(R, a)
             /\ p \in ShownPanes(d) <=> p \in ShownPanes(c)
      BY <1>0, <2>1, <3>1 DEF PanesIn, ShownPanes, Sound, Fits
    <3>4. Agrees(c, a, R)
      OBVIOUS
    <3> QED BY <2>1, <2>5, <3>1, <3>2, <3>3, <3>4 DEF Agrees, AgreesBut
  <2>6. c.mode # "active" => AgreesBut(d, a, Q, {w.id})
    BY <2>1 DEF AgreesBut
  <2> QED BY <2>3, <2>4, <2>5, <2>6 DEF d, m
<1> QED BY <1>2, <1>3

\* The layout of a window settles its panes.
LEMMA LayoutRead ==
  ASSUME NEW R, Sound(R), NEW v \in R.wins, NEW c, Fits(c, R), NEW a, v.sid = a,
         AgreesBut(c, a, R, {v.id})
  PROVE  /\ Fits(Effect(c, Layout(v)), R) /\ Spares(c, Effect(c, Layout(v)), R)
         /\ Agrees(Effect(c, Layout(v)), a, R)
<1> DEFINE m == Layout(v)
           d == Effect(c, m)
<1>1. m.t = "Layout" /\ m.sid = v.sid /\ m.wid = v.id /\ m.panes = v.panes
  BY DEF Layout
<1>2. /\ m.panes \subseteq PaneIds /\ v.id \in Nat
      /\ \A p \in m.panes : p <= R.drawn /\ R.home[p] = m.wid
  BY <1>1 DEF Sound, Windows
<1> HIDE DEF m
<1>3. CASE c.mode = "exited" \/ v.sid # c.sess \/ v.id \notin c.wins
  <2>1. c.mode # "active" /\ d = c
    BY <1>1, <1>3 DEF Effect, AgreesBut, Ids, Shown
  <2> QED BY <2>1 DEF m, Spares, Agrees, AgreesBut
<1>4. CASE c.mode # "exited" /\ v.sid = c.sess /\ v.id \in c.wins
  <2>0. d = View(c.mode, c.sess, c.wins, Laid(c, m), c.res, c.ann)
    BY <1>1, <1>4 DEF Effect
  <2>1. /\ DOMAIN Laid(c, m) = {p \in DOMAIN c.panes : R.home[p] # m.wid} \cup m.panes
        /\ \A p \in DOMAIN Laid(c, m) : Laid(c, m)[p] = R.home[p]
        /\ Laid(c, m) \in [DOMAIN Laid(c, m) -> c.wins]
    <3>1. m.wid \in c.wins
      BY <1>1, <1>4
    <3> QED BY <1>2, <3>1, LaidPanes
  <2>2. /\ d.mode = c.mode /\ d.sess = c.sess /\ d.wins = c.wins
        /\ d.panes = Laid(c, m) /\ d.res = c.res /\ d.ann = c.ann
    BY <2>0 DEF View
  <2> HIDE DEF d
  <2>3. Fits(d, R)
    BY <1>1, <1>2, <2>1, <2>2 DEF Fits
  <2>4. Spares(c, d, R)
    BY <2>2 DEF Spares
  <2>5. ASSUME c.mode = "active" PROVE Agrees(d, a, R)
    <3>1. Shown(d) = Shown(c) /\ Shown(c) = Ids(R, a) /\ v.id \in Ids(R, a)
      BY <2>2, <2>5 DEF Shown, AgreesBut, Ids
    <3>2. \A p \in PaneIds : R.home[p] = v.id => (p \in ShownPanes(d) <=> p \in v.panes)
      BY <1>1, <1>2, <2>1, <2>2, <3>1 DEF ShownPanes
    <3>3. \A p \in PaneIds : R.home[p] = v.id => (p \in PanesIn(R, a) <=> p \in v.panes)
      BY DEF PanesIn, Sound
    <3>4. \A p \in PaneIds : R.home[p] # v.id => (p \in ShownPanes(d) <=> p \in ShownPanes(c))
      BY <1>1, <1>2, <2>1, <2>2, <3>1 DEF ShownPanes, Fits
    <3> QED BY <2>2, <2>5, <3>1, <3>2, <3>3, <3>4 DEF Agrees, AgreesBut
  <2>6. c.mode # "active" => Agrees(d, a, R)
    BY <2>2 DEF Agrees, AgreesBut
  <2> QED BY <2>3, <2>4, <2>5, <2>6 DEF d, m
<1> QED BY <1>3, <1>4

\* A pane that exited is gone from its window, and from nowhere else.
LEMMA ExitedRead ==
  ASSUME NEW R, Sound(R), NEW c, Fits(c, R), NEW a, Agrees(c, a, R), NEW p \in PaneIds
  PROVE  /\ Fits(Effect(c, PaneExited(p)), R)
         /\ \A Q : Spares(c, Effect(c, PaneExited(p)), Q)
         /\ AgreesBut(Effect(c, PaneExited(p)), a, R, {R.home[p]})
         /\ Effect(c, PaneExited(p)).mode = c.mode /\ Effect(c, PaneExited(p)).sess = c.sess
<1> DEFINE m == PaneExited(p)
           d == Effect(c, m)
<1>1. m.t = "PaneExited" /\ m.pid = p
  BY DEF PaneExited
<1> HIDE DEF m
<1>2. CASE c.mode = "exited"
  <2>1. c.mode # "active" /\ d = c
    BY <1>2 DEF Effect
  <2> QED BY <2>1 DEF m, Spares, AgreesBut
<1>3. CASE c.mode # "exited"
  <2>1. d = View(c.mode, c.sess, c.wins, Without(c.panes, {p}), c.res, c.ann)
    BY <1>1, <1>3 DEF Effect
  <2>2. Fits(d, R)
    BY <2>1, WithoutFits
  <2>3. /\ d.mode = c.mode /\ d.sess = c.sess /\ d.wins = c.wins
        /\ d.panes = Without(c.panes, {p}) /\ d.res = c.res /\ d.ann = c.ann
    BY <2>1 DEF View
  <2> HIDE DEF d
  <2>4. \A Q : Spares(c, d, Q)
    BY <2>3 DEF Spares
  <2>5. Shown(d) = Shown(c)
    BY <2>3 DEF Shown
  <2>6. \A x \in PaneIds : R.home[x] # R.home[p] => (x \in ShownPanes(d) <=> x \in ShownPanes(c))
    BY <2>3, <2>5 DEF ShownPanes, Without
  <2>7. AgreesBut(d, a, R, {R.home[p]})
    BY <2>3, <2>5, <2>6 DEF Agrees, AgreesBut
  <2> QED BY <2>2, <2>3, <2>4, <2>7 DEF d, m
<1> QED BY <1>2, <1>3

\* A window that closed is gone with its panes.
LEMMA ClosedRead ==
  ASSUME NEW R, Sound(R), NEW Q, Sound(Q), NEW w \in R.wins, Q.wins = R.wins \ {w},
         Q.home = R.home, Q.sessions = R.sessions, NEW c, Fits(c, R), Fits(c, Q),
         NEW a, AgreesBut(c, a, R, {w.id}), w.sid = a
  PROVE  /\ Fits(Effect(c, WindowClosed(w)), Q) /\ Spares(c, Effect(c, WindowClosed(w)), Q)
         /\ Agrees(Effect(c, WindowClosed(w)), a, Q)
<1> DEFINE m == WindowClosed(w)
           d == Effect(c, m)
<1>1. m.t = "WindowClosed" /\ m.sid = w.sid /\ m.wid = w.id
  BY DEF WindowClosed
<1> HIDE DEF m
<1>2. CASE c.mode = "exited"
  <2>1. c.mode # "active" /\ d = c
    BY <1>2 DEF Effect
  <2> QED BY <2>1 DEF m, Spares, Agrees, AgreesBut
<1>3. CASE c.mode # "exited"
  <2>1. d = View(c.mode, c.sess, c.wins \cap Staying(c, m), Cut(c, c.wins \ Staying(c, m)),
                 c.res, c.ann)
    BY <1>1, <1>3 DEF Effect
  <2>2. Fits(d, Q)
    <3>1. Fits(View(c.mode, c.sess, c.wins \cap Staying(c, m), Cut(c, c.wins \ Staying(c, m)),
                    c.res, c.ann), Q)
      BY CutFits
    <3> QED BY <2>1, <3>1
  <2>3. /\ d.mode = c.mode /\ d.sess = c.sess /\ d.wins = c.wins \cap Staying(c, m)
        /\ d.panes = Cut(c, c.wins \ Staying(c, m)) /\ d.res = c.res /\ d.ann = c.ann
    BY <2>1 DEF View
  <2> HIDE DEF d
  <2>4. ASSUME c.mode = "active" PROVE Spares(c, d, Q) /\ Agrees(d, a, Q)
    <3>1. Staying(c, m) = c.wins \ {w.id} /\ c.sess = a
      BY <1>1, <2>4 DEF Staying, AgreesBut
    <3>2. Shown(d) = Shown(c) \ {w.id} /\ d.wins = c.wins \ {w.id}
      BY <2>3, <3>1 DEF Shown
    <3>3. Ids(Q, a) = Ids(R, a) \ {w.id}
      BY DEF Ids, Sound
    <3>4. Spares(c, d, Q)
      BY <3>2 DEF Spares, Sound
    <3>5. \A p \in PaneIds : R.home[p] # w.id =>
             /\ p \in ShownPanes(d) <=> p \in ShownPanes(c)
             /\ p \in PanesIn(Q, a) <=> p \in PanesIn(R, a)
      BY <2>3, <3>1, <3>2 DEF ShownPanes, Cut, Without, PanesIn, Fits, Sound
    <3>6. \A p \in PaneIds : R.home[p] = w.id => p \notin ShownPanes(d) /\ p \notin PanesIn(Q, a)
      BY <2>3, <3>1, <3>2 DEF ShownPanes, Cut, Without, PanesIn, Fits, Sound
    <3> QED BY <2>3, <2>4, <3>2, <3>3, <3>4, <3>5, <3>6 DEF Agrees, AgreesBut
  <2>5. c.mode # "active" => Spares(c, d, Q) /\ Agrees(d, a, Q)
    BY <2>3 DEF Spares, Agrees, AgreesBut
  <2> QED BY <2>2, <2>4, <2>5 DEF d, m
<1> QED BY <1>2, <1>3

\* The end of the session takes the window with it.  Nothing has to be
\* spared: the daemon has none of the session's windows any more.
LEMMA OverRead ==
  ASSUME NEW Q, NEW c, Fits(c, Q), NEW a, c.mode = "active" => c.sess = a
  PROVE  /\ Fits(Effect(c, SessionClosed(a)), Q) /\ Spares(c, Effect(c, SessionClosed(a)), Q)
         /\ Effect(c, SessionClosed(a)).mode # "active"
<1> DEFINE m == SessionClosed(a)
<1>1. m.t = "SessionClosed" /\ m.sid = a
  BY DEF SessionClosed
<1> HIDE DEF m
<1>2. CASE c.mode = "exited" \/ a # c.sess
  <2>1. c.mode # "active" /\ Effect(c, m) = c
    BY <1>1, <1>2 DEF Effect
  <2> QED BY <2>1 DEF m, Spares
<1>3. CASE c.mode # "exited" /\ a = c.sess
  <2>1. Effect(c, m) = Gone(c) /\ Gone(c).mode = "exited"
    BY <1>1, <1>3 DEF Effect, Gone, View
  <2> QED BY <2>1, GoneFits DEF m, Spares
<1> QED BY <1>2, <1>3

\* On the way to the end of the session, closed windows only cut.
LEMMA ClosedFits ==
  ASSUME NEW Q, NEW c, Fits(c, Q), NEW w,
         c.mode = "active" => \A v \in Q.wins : v.sid # c.sess
  PROVE  /\ Fits(Effect(c, WindowClosed(w)), Q) /\ Spares(c, Effect(c, WindowClosed(w)), Q)
         /\ Effect(c, WindowClosed(w)).mode = c.mode /\ Effect(c, WindowClosed(w)).sess = c.sess
<1> DEFINE m == WindowClosed(w)
           d == Effect(c, m)
<1>1. m.t = "WindowClosed"
  BY DEF WindowClosed
<1> HIDE DEF m
<1>2. CASE c.mode = "exited"
  BY <1>2 DEF Effect, m, Spares
<1>3. CASE c.mode # "exited"
  <2>1. d = View(c.mode, c.sess, c.wins \cap Staying(c, m), Cut(c, c.wins \ Staying(c, m)),
                 c.res, c.ann)
    BY <1>1, <1>3 DEF Effect
  <2>2. Fits(d, Q)
    <3>1. Fits(View(c.mode, c.sess, c.wins \cap Staying(c, m), Cut(c, c.wins \ Staying(c, m)),
                    c.res, c.ann), Q)
      BY CutFits
    <3> QED BY <2>1, <3>1
  <2>3. d.mode = c.mode /\ d.sess = c.sess
    BY <2>1 DEF View
  <2> HIDE DEF d
  <2>4. Spares(c, d, Q)
    BY <2>3 DEF Spares
  <2> QED BY <2>2, <2>3, <2>4 DEF d, m
<1> QED BY <1>2, <1>3

-----------------------------------------------------------------------------
(* What answers Attach: every window, in the order they were opened.       *)

\* Nth lists the windows of a session, each of them once.
LEMMA NthLists ==
  ASSUME IsFiniteSet(wins), \A w \in wins : w.id \in Nat,
         \A v, w \in wins : v.id = w.id => v = w, NEW sid
  PROVE  /\ Cardinality(SessionWins(sid)) \in Nat
         /\ \A i \in 1..Cardinality(SessionWins(sid)) : Nth(sid, i) \in SessionWins(sid)
         /\ \A i, j \in 1..Cardinality(SessionWins(sid)) : Nth(sid, i) = Nth(sid, j) => i = j
         /\ \A w \in SessionWins(sid) :
               \E i \in 1..Cardinality(SessionWins(sid)) : Nth(sid, i) = w
<1> DEFINE W == SessionWins(sid)
           n == Cardinality(W)
           Upto(w) == {v \in W : v.id <= w.id}
           rank == [w \in W |-> Cardinality(Upto(w))]
<1>1. IsFiniteSet(W) /\ n \in Nat
  BY FS_Subset, FS_CardinalityType DEF SessionWins
<1>2. \A w \in W : w.id \in Nat
  BY DEF SessionWins
<1>3. ASSUME NEW w \in W
      PROVE  IsFiniteSet(Upto(w)) /\ Cardinality(Upto(w)) \in 1..n
  <2>1. Upto(w) \in SUBSET W
    OBVIOUS
  <2> HIDE DEF W
  <2>2. IsFiniteSet(Upto(w)) /\ Cardinality(Upto(w)) <= n
    BY <1>1, <2>1, FS_Subset
  <2>3. Cardinality(Upto(w)) \in Nat /\ (Cardinality(Upto(w)) = 0 <=> Upto(w) = {})
    BY <2>2, FS_CardinalityType, FS_EmptySet
  <2>4. w \in Upto(w)
    BY <1>2
  <2> QED BY <1>1, <2>2, <2>3, <2>4
<1>4. ASSUME NEW v \in W, NEW w \in W, v.id < w.id PROVE rank[v] # rank[w]
  <2>1. Upto(v) \in SUBSET Upto(w) /\ w \in Upto(w) /\ w \notin Upto(v)
    BY <1>2, <1>4
  <2>2. Upto(v) # Upto(w)
    BY <2>1
  <2> HIDE DEF W, Upto
  <2>3. Cardinality(Upto(v)) # Cardinality(Upto(w))
    BY <1>3, <2>1, <2>2, FS_Subset
  <2> QED BY <2>3
<1>5. ASSUME NEW v \in W, NEW w \in W, rank[v] = rank[w] PROVE v = w
  <2>1. ~(v.id < w.id) /\ ~(w.id < v.id)
    BY <1>4, <1>5
  <2>2. v.id = w.id
    BY <1>2, <2>1
  <2> QED BY <2>2 DEF SessionWins
<1>6. rank \in [W -> 1..n]
  BY <1>3
<1>7. IsFiniteSet(1..n) /\ Cardinality(1..n) = n
  BY <1>1, FS_Interval
<1> HIDE DEF W, rank
<1>8. rank \in Injection(W, 1..n)
  BY <1>5, <1>6 DEF Injection, IsInjective
<1>9. rank \in Surjection(W, 1..n)
  BY <1>1, <1>7, <1>8, FS_Injection
<1>10. \A i \in 1..n : \E w \in W : rank[w] = i
  BY <1>9 DEF Surjection
<1>11. ASSUME NEW i \in 1..n PROVE Nth(sid, i) \in W /\ rank[Nth(sid, i)] = i
  <2>1. \E w \in W : Cardinality(Upto(w)) = i
    BY <1>10 DEF rank
  <2>2. Nth(sid, i) = CHOOSE w \in W : Cardinality(Upto(w)) = i
    BY DEF Nth, W
  <2>3. Nth(sid, i) \in W /\ Cardinality(Upto(Nth(sid, i))) = i
    BY <2>1, <2>2
  <2> QED BY <2>3 DEF rank
<1>12. ASSUME NEW w \in W PROVE \E i \in 1..n : Nth(sid, i) = w
  <2>1. rank[w] \in 1..n
    BY <1>6
  <2>2. Nth(sid, rank[w]) = w
    BY <1>5, <1>11, <2>1
  <2> QED BY <2>1, <2>2
<1>13. \A i, j \in 1..n : Nth(sid, i) = Nth(sid, j) => i = j
  BY <1>11
<1> QED BY <1>1, <1>11, <1>12, <1>13 DEF W

\* The windows listed so far, and the view between two of them: the panes of
\* those windows are settled, the others are what the view came with.
Listed(f, j)     == {f[i].id : i \in 1..j}
ListedPanes(f, j) == UNION {f[i].panes : i \in 1..j}

Settled(c, f, j, R) ==
    [p \in {x \in DOMAIN c.panes : R.home[x] \notin Listed(f, j)} \cup ListedPanes(f, j) |->
        R.home[p]]

Between(c, f, j, k, R) ==
    View("active", c.sess, c.wins \cup Listed(f, j), Settled(c, f, k, R), TRUE, Listed(f, j))

\* f lists the windows of session a.
Lists(f, n, a, R) ==
    /\ n \in Nat
    /\ \A i \in 1..n : f[i] \in R.wins /\ f[i].sid = a
    /\ \A i, j \in 1..n : f[i] = f[j] => i = j
    /\ \A w \in R.wins : w.sid = a => \E i \in 1..n : f[i] = w

LEMMA BetweenFits ==
  ASSUME NEW R, Sound(R), NEW c, Fits(c, R), NEW f, NEW n, NEW a, Lists(f, n, a, R),
         NEW j \in 0..n, NEW k \in 0..n, k <= j
  PROVE  Fits(Between(c, f, j, k, R), R)
<1> DEFINE ws == c.wins \cup Listed(f, j)
           g == Settled(c, f, k, R)
<1>1. n \in Nat /\ \A i \in 1..j : /\ f[i].id \in Nat /\ f[i].id < R.next
                                   /\ f[i].panes \subseteq PaneIds
                                   /\ \A p \in f[i].panes : p <= R.drawn /\ R.home[p] = f[i].id
  BY DEF Lists, Sound, Windows
<1>2. ws \subseteq Nat /\ \A w \in ws : w < R.next
  BY <1>1 DEF Listed, Fits
<1>3. ASSUME NEW p \in DOMAIN g PROVE p \in PaneIds /\ p <= R.drawn /\ R.home[p] \in ws
  <2>1. CASE p \in DOMAIN c.panes
    BY <2>1 DEF Fits
  <2>2. CASE p \in ListedPanes(f, k)
    <3>1. PICK i \in 1..k : p \in f[i].panes
      BY <2>2 DEF ListedPanes
    <3>2. i \in 1..j
      BY <1>1
    <3> QED BY <1>1, <3>1, <3>2 DEF Listed
  <2> QED BY <1>3, <2>1, <2>2 DEF Settled
<1>4. \A p \in DOMAIN g : g[p] = R.home[p]
  BY DEF Settled
<1>5. g = [p \in DOMAIN g |-> g[p]]
  BY DEF Settled
<1> HIDE DEF ws, g
<1>6. g \in [DOMAIN g -> ws]
  BY <1>3, <1>4, <1>5
<1>7. Fits(View("active", c.sess, ws, g, TRUE, Listed(f, j)), R)
  BY <1>2, <1>3, <1>4, <1>6 DEF Fits, View
<1> QED BY <1>7 DEF Between, ws, g

\* Reading WindowAdded, then Layout, for the j-th window.
LEMMA AddedStep ==
  ASSUME NEW R, NEW c, NEW f, NEW n \in Nat, NEW j \in 1..n, f[j].sid = c.sess
  PROVE  Effect(Between(c, f, j - 1, j - 1, R), WindowAdded(f[j])) = Between(c, f, j, j - 1, R)
<1> DEFINE m == WindowAdded(f[j])
           b == Between(c, f, j - 1, j - 1, R)
<1>1. m.t = "WindowAdded" /\ m.sid = c.sess /\ m.wid = f[j].id
  BY DEF WindowAdded
<1>2. /\ b.mode = "active" /\ b.sess = c.sess /\ b.wins = c.wins \cup Listed(f, j - 1)
      /\ b.panes = Settled(c, f, j - 1, R) /\ b.res = TRUE /\ b.ann = Listed(f, j - 1)
  BY DEF Between, View
<1>3. 1..j = (1..(j - 1)) \cup {j}
  OBVIOUS
<1>4. Listed(f, j) = Listed(f, j - 1) \cup {f[j].id}
  BY <1>3 DEF Listed
<1> HIDE DEF m, b
<1>5. Effect(b, m) = View(b.mode, b.sess, b.wins \cup {m.wid}, b.panes, b.res, b.ann \cup {m.wid})
  BY <1>1, <1>2 DEF Effect
<1>6. b.wins \cup {m.wid} = c.wins \cup Listed(f, j) /\ b.ann \cup {m.wid} = Listed(f, j)
  BY <1>1, <1>2, <1>4
<1>7. Effect(b, m) = Between(c, f, j, j - 1, R)
  BY <1>2, <1>5, <1>6 DEF Between
<1> QED BY <1>7 DEF m, b

LEMMA LayoutStep ==
  ASSUME NEW R, Sound(R), NEW c, Fits(c, R), NEW f, NEW n, Lists(f, n, c.sess, R), NEW j \in 1..n
  PROVE  Effect(Between(c, f, j, j - 1, R), Layout(f[j])) = Between(c, f, j, j, R)
<1> DEFINE m == Layout(f[j])
           b == Between(c, f, j, j - 1, R)
<1>1. m.t = "Layout" /\ m.sid = c.sess /\ m.wid = f[j].id /\ m.panes = f[j].panes
  BY DEF Layout, Lists
<1>2. /\ b.mode = "active" /\ b.sess = c.sess /\ b.wins = c.wins \cup Listed(f, j)
      /\ b.panes = Settled(c, f, j - 1, R) /\ b.res = TRUE /\ b.ann = Listed(f, j)
  BY DEF Between, View
<1>3. n \in Nat /\ j - 1 \in 0..n /\ j \in 0..n /\ j - 1 <= j
  BY DEF Lists
<1>4. Fits(b, R)
  BY <1>3, BetweenFits
<1>5. m.wid \in b.wins
  BY <1>1, <1>2, <1>3 DEF Listed
<1>6. \A p \in m.panes : p <= R.drawn /\ R.home[p] = m.wid
  BY <1>1 DEF Lists, Sound
<1>7. 1..j = (1..(j - 1)) \cup {j}
  BY <1>3
<1>8. /\ Listed(f, j) = Listed(f, j - 1) \cup {f[j].id}
      /\ ListedPanes(f, j) = ListedPanes(f, j - 1) \cup f[j].panes
  BY <1>7 DEF Listed, ListedPanes
<1>9. \A p \in ListedPanes(f, j - 1) : R.home[p] # f[j].id
  <2> SUFFICES ASSUME NEW i \in 1..(j - 1), NEW p \in f[i].panes PROVE R.home[p] # f[j].id
    BY DEF ListedPanes
  <2>1. i \in 1..n /\ i # j
    BY <1>3
  <2>2. f[i] \in R.wins /\ f[j] \in R.wins /\ f[i] # f[j]
    BY <2>1 DEF Lists
  <2> QED BY <2>2 DEF Sound
<1> HIDE DEF m, b
<1>10. Effect(b, m) = View(b.mode, b.sess, b.wins, Laid(b, m), b.res, b.ann)
  BY <1>1, <1>2, <1>5 DEF Effect
<1>11. /\ DOMAIN Laid(b, m) = {p \in DOMAIN b.panes : R.home[p] # m.wid} \cup m.panes
       /\ \A p \in DOMAIN Laid(b, m) : Laid(b, m)[p] = R.home[p]
       /\ Laid(b, m) \in [DOMAIN Laid(b, m) -> b.wins]
  BY <1>4, <1>5, <1>6, LaidPanes
<1>12. DOMAIN b.panes = {x \in DOMAIN c.panes : R.home[x] \notin Listed(f, j - 1)}
                          \cup ListedPanes(f, j - 1)
  BY <1>2 DEF Settled
<1>13. DOMAIN Laid(b, m) = {x \in DOMAIN c.panes : R.home[x] \notin Listed(f, j)}
                             \cup ListedPanes(f, j)
  <2>1. ASSUME NEW p
        PROVE  p \in DOMAIN Laid(b, m)
                 <=> \/ p \in DOMAIN c.panes /\ R.home[p] \notin Listed(f, j)
                     \/ p \in ListedPanes(f, j)
    <3>1. p \in f[j].panes => R.home[p] = f[j].id
      BY <1>1, <1>6
    <3> QED BY <1>1, <1>8, <1>9, <1>11, <1>12, <3>1
  <2> QED BY <2>1
<1>14. Laid(b, m) = Settled(c, f, j, R)
  BY <1>11, <1>13 DEF Settled
<1>15. Effect(b, m) = Between(c, f, j, j, R)
  BY <1>2, <1>10, <1>14 DEF Between
<1> QED BY <1>15 DEF m, b

LEMMA Parity ==
  ASSUME NEW i \in Nat
  PROVE  (\E j \in Nat : i = 2 * j + 1) \/ (\E j \in Nat : i = 2 * j)
<1>1. i \div 2 \in Nat /\ (i = 2 * (i \div 2) \/ i = 2 * (i \div 2) + 1)
  OBVIOUS
<1> QED BY <1>1

\* All of them: what is shown in the end is the session, whatever the view
\* came with.
LEMMA AnnounceRead ==
  ASSUME NEW R, Sound(R), NEW c, Fits(c, R), NEW f, NEW n, Lists(f, n, c.sess, R),
         c = View("active", c.sess, c.wins, c.panes, TRUE, {}), c.sess \in R.sessions,
         NEW q \in Seq(Messages), Len(q) = 2 * n,
         \A j \in 1..n : q[2 * j - 1] = WindowAdded(f[j]) /\ q[2 * j] = Layout(f[j])
  PROVE  \E d : Leads(c, q, d, R) /\ Agrees(d, c.sess, R)
<1> DEFINE B(j, k) == Between(c, f, j, k, R)
           path == [i \in 1..(2 * n + 1) |->
                      IF i % 2 = 1 THEN B((i - 1) \div 2, (i - 1) \div 2)
                      ELSE B(i \div 2, i \div 2 - 1)]
<1>1. n \in Nat
  BY DEF Lists
<1>2. /\ \A j \in 0..n : path[2 * j + 1] = B(j, j)
      /\ \A j \in 1..n : path[2 * j] = B(j, j - 1)
  <2>1. ASSUME NEW j \in 0..n PROVE path[2 * j + 1] = B(j, j)
    <3>1. 2 * j + 1 \in 1..(2 * n + 1) /\ (2 * j + 1) % 2 = 1 /\ ((2 * j + 1) - 1) \div 2 = j
      BY <1>1
    <3> HIDE DEF B
    <3> QED BY <3>1
  <2>2. ASSUME NEW j \in 1..n PROVE path[2 * j] = B(j, j - 1)
    <3>1. 2 * j \in 1..(2 * n + 1) /\ (2 * j) % 2 = 0 /\ (2 * j) \div 2 = j
      BY <1>1
    <3> HIDE DEF B
    <3> QED BY <3>1
  <2> QED BY <2>1, <2>2
<1> HIDE DEF path
<1>3. ASSUME NEW i \in 1..(2 * n + 1)
      PROVE  \/ \E j \in 0..n : i = 2 * j + 1
             \/ \E j \in 1..n : i = 2 * j
  <2>1. ASSUME NEW j \in Nat, i = 2 * j + 1 PROVE j \in 0..n
    BY <1>1, <2>1
  <2>2. ASSUME NEW j \in Nat, i = 2 * j PROVE j \in 1..n
    BY <1>1, <2>2
  <2>3. i \in Nat
    BY <1>1
  <2> QED BY <2>1, <2>2, <2>3, Parity
<1>4. path[1] = c
  <2>1. 1..0 = {}
    OBVIOUS
  <2>2. Listed(f, 0) = {} /\ ListedPanes(f, 0) = {}
    BY <2>1 DEF Listed, ListedPanes
  <2>3. Settled(c, f, 0, R) = c.panes
    BY <2>2 DEF Settled, Fits
  <2>4. B(0, 0) = View("active", c.sess, c.wins, c.panes, TRUE, {})
    BY <2>2, <2>3 DEF Between
  <2>5. path[2 * 0 + 1] = B(0, 0)
    BY <1>1, <1>2
  <2>6. 2 * 0 + 1 = 1
    OBVIOUS
  <2> HIDE DEF B
  <2> QED BY <2>4, <2>5, <2>6
<1>5. path[Len(q) + 1] = B(n, n)
  BY <1>1, <1>2
<1>6. ASSUME NEW i \in 1..(Len(q) + 1) PROVE Fits(path[i], R)
  <2>1. CASE \E j \in 0..n : i = 2 * j + 1
    <3>1. PICK j \in 0..n : i = 2 * j + 1
      BY <2>1
    <3>2. path[i] = B(j, j) /\ j <= j
      BY <1>1, <1>2, <3>1
    <3> QED BY <3>2, BetweenFits
  <2>2. CASE \E j \in 1..n : i = 2 * j
    <3>1. PICK j \in 1..n : i = 2 * j
      BY <2>2
    <3>2. j \in 0..n /\ j - 1 \in 0..n /\ j - 1 <= j
      BY <1>1
    <3>3. path[i] = B(j, j - 1)
      BY <1>2, <3>1
    <3> QED BY <3>2, <3>3, BetweenFits
  <2> QED BY <1>3, <2>1, <2>2
<1>7. \A j \in 0..n, k \in 0..n : B(j, k).sess = c.sess /\ B(j, k).wins = c.wins \cup Listed(f, j)
  BY DEF Between, View
<1>8. ASSUME NEW j \in 1..n
      PROVE  /\ path[2 * j] = Effect(path[2 * j - 1], q[2 * j - 1])
             /\ path[2 * j + 1] = Effect(path[2 * j], q[2 * j])
             /\ Spares(path[2 * j - 1], path[2 * j], R)
             /\ Spares(path[2 * j], path[2 * j + 1], R)
  <2>1. j - 1 \in 0..n /\ j \in 0..n /\ 2 * (j - 1) + 1 = 2 * j - 1 /\ f[j].sid = c.sess
    BY <1>1 DEF Lists
  <2>2. path[2 * j - 1] = B(j - 1, j - 1) /\ path[2 * j] = B(j, j - 1) /\ path[2 * j + 1] = B(j, j)
    BY <1>2, <2>1
  <2>3. Effect(B(j - 1, j - 1), WindowAdded(f[j])) = B(j, j - 1)
    BY <1>1, <2>1, AddedStep
  <2>4. Effect(B(j, j - 1), Layout(f[j])) = B(j, j)
    BY LayoutStep
  <2>5. Listed(f, j - 1) \subseteq Listed(f, j)
    BY <2>1 DEF Listed
  <2>6. /\ B(j - 1, j - 1).wins \subseteq B(j, j - 1).wins
        /\ B(j, j - 1).wins \subseteq B(j, j).wins
    BY <1>7, <2>1, <2>5
  <2> HIDE DEF B
  <2>7. Spares(B(j - 1, j - 1), B(j, j - 1), R) /\ Spares(B(j, j - 1), B(j, j), R)
    BY <2>6 DEF Spares
  <2> QED BY <2>2, <2>3, <2>4, <2>7
<1>9. ASSUME NEW i \in 1..Len(q)
      PROVE  path[i + 1] = Effect(path[i], q[i]) /\ Spares(path[i], path[i + 1], R)
  <2>1. i \in 1..(2 * n + 1)
    BY <1>1
  <2>2. CASE \E j \in 0..n : i = 2 * j + 1
    <3>1. PICK j \in 0..n : i = 2 * j + 1
      BY <2>2
    <3> DEFINE k == j + 1
    <3>2. k \in 1..n /\ i = 2 * k - 1 /\ i + 1 = 2 * k
      BY <1>1, <3>1
    <3> HIDE DEF k
    <3> QED BY <1>8, <3>2
  <2>3. CASE \E j \in 1..n : i = 2 * j
    BY <1>8, <2>3
  <2> QED BY <1>3, <2>1, <2>2, <2>3
<1>10. Leads(c, q, B(n, n), R)
  BY <1>4, <1>5, <1>6, <1>9 DEF Leads
<1>11. Agrees(B(n, n), c.sess, R)
  <2> DEFINE d == B(n, n)
  <2>1. /\ d.mode = "active" /\ d.sess = c.sess /\ d.wins = c.wins \cup Listed(f, n)
        /\ d.panes = Settled(c, f, n, R) /\ d.res = TRUE /\ d.ann = Listed(f, n)
    BY DEF Between, View
  <2> HIDE DEF d
  <2>2. Shown(d) = Listed(f, n)
    BY <2>1 DEF Shown
  <2>3. Listed(f, n) = Ids(R, c.sess)
    <3>1. ASSUME NEW i \in 1..n PROVE f[i].id \in Ids(R, c.sess)
      BY DEF Lists, Ids
    <3>2. ASSUME NEW w \in R.wins, w.sid = c.sess PROVE w.id \in Listed(f, n)
      BY <3>2 DEF Lists, Listed
    <3> QED BY <3>1, <3>2 DEF Listed, Ids
  <2>4. ListedPanes(f, n) = PanesIn(R, c.sess)
    BY DEF ListedPanes, Lists, PanesIn
  <2>5. \A p \in ListedPanes(f, n) : R.home[p] \in Listed(f, n)
    <3> SUFFICES ASSUME NEW i \in 1..n, NEW p \in f[i].panes
                 PROVE  R.home[p] \in Listed(f, n)
      BY DEF ListedPanes
    <3>1. R.home[p] = f[i].id
      BY DEF Lists, Sound
    <3> QED BY <3>1 DEF Listed
  <2>6. \A p : p \in ShownPanes(d) <=> p \in PanesIn(R, c.sess)
    BY <2>1, <2>2, <2>4, <2>5 DEF ShownPanes, Settled
  <2> QED BY <2>1, <2>2, <2>3, <2>6 DEF d, Agrees, AgreesBut
<1> QED BY <1>10, <1>11

-----------------------------------------------------------------------------
(* Types.                                                                  *)

OutTypes == out \in [Conns -> Seq(Messages)]

LEMMA MessageTypes ==
  /\ HelloOk \in Messages /\ Error \in Messages
  /\ \A S \in SUBSET Nat : SessionList(S) \in Messages
  /\ \A s \in Nat, p \in PaneIds : SessionCreated(s, p) \in Messages
  /\ \A s \in Nat : AttachOk(s) \in Messages /\ SessionClosed(s) \in Messages
  /\ \A w \in Windows : /\ WindowAdded(w) \in Messages /\ WindowClosed(w) \in Messages
                        /\ Layout(w) \in Messages
  /\ \A p \in PaneIds : PaneExited(p) \in Messages
<1>1. HelloOk \in Messages /\ Error \in Messages
  BY DEF HelloOk, Error, Messages
<1>2. ASSUME NEW S \in SUBSET Nat PROVE SessionList(S) \in Messages
  BY DEF SessionList, Messages
<1>3. ASSUME NEW s \in Nat, NEW p \in PaneIds PROVE SessionCreated(s, p) \in Messages
  BY DEF SessionCreated, Messages
<1>4. ASSUME NEW s \in Nat PROVE AttachOk(s) \in Messages /\ SessionClosed(s) \in Messages
  BY DEF AttachOk, SessionClosed, Messages
<1>5. ASSUME NEW w \in Windows
      PROVE  WindowAdded(w) \in Messages /\ WindowClosed(w) \in Messages /\ Layout(w) \in Messages
  BY DEF WindowAdded, WindowClosed, Layout, Messages, Windows
<1>6. ASSUME NEW p \in PaneIds PROVE PaneExited(p) \in Messages
  BY DEF PaneExited, Messages
<1> QED BY <1>1, <1>2, <1>3, <1>4, <1>5, <1>6

LEMMA TransmitTypes ==
  ASSUME OutTypes, NEW msgs \in [Conns -> Seq(Messages)], Transmit(msgs)
  PROVE  OutTypes'
<1>1. \A k \in Conns : out[k] \o msgs[k] \in Seq(Messages)
  BY ConcatProperties DEF OutTypes
<1> QED BY <1>1 DEF Transmit, OutTypes

LEMMA BroadcastTypes ==
  ASSUME NEW q \in Seq(Messages), NEW sid
  PROVE  Broadcast(sid, q) \in [Conns -> Seq(Messages)]
BY DEF Broadcast

LEMMA ReplyTypes ==
  ASSUME NEW q \in Seq(Messages), NEW k
  PROVE  Reply(k, q) \in [Conns -> Seq(Messages)]
BY DEF Reply

LEMMA CloseSessionSends ==
  ASSUME RivtdTypeOK, OutTypes, NEW sid \in Nat, NEW panes, NEW q \in Seq(Messages),
         CloseSession(sid, panes, q)
  PROVE  OutTypes'
<1>1. SessionClosed(sid) \in Messages
  BY MessageTypes
<1>2. q \o <<SessionClosed(sid)>> \in Seq(Messages)
  BY <1>1
<1> QED BY <1>2, BroadcastTypes, TransmitTypes DEF CloseSession

LEMMA EndWindowSends ==
  ASSUME RivtdTypeOK, OutTypes, NEW w \in wins, NEW panes, NEW q \in Seq(Messages),
         EndWindow(w, panes, q)
  PROVE  OutTypes'
<1>1. w \in Windows /\ w.sid \in Nat
  BY DEF RivtdTypeOK, Windows
<1>2. WindowClosed(w) \in Messages
  BY <1>1, MessageTypes
<1>3. q \o <<WindowClosed(w)>> \in Seq(Messages)
  BY <1>2
<1>4. CASE CloseSession(w.sid, panes, q \o <<WindowClosed(w)>>)
  BY <1>1, <1>3, <1>4, CloseSessionSends
<1>5. CASE Transmit(Broadcast(w.sid, q \o <<WindowClosed(w)>>))
  BY <1>3, <1>5, BroadcastTypes, TransmitTypes
<1> QED BY <1>4, <1>5 DEF EndWindow

LEMMA RemovePaneSends ==
  ASSUME RivtdTypeOK, OutTypes, NEW w \in wins, NEW pid \in PaneIds, NEW erased,
         RemovePane(w, pid, erased)
  PROVE  OutTypes'
<1> DEFINE v == [w EXCEPT !.panes = @ \ {pid}]
<1>1. v \in Windows
  BY DEF RivtdTypeOK, Windows
<1>2. PaneExited(pid) \in Messages /\ Layout(v) \in Messages
  BY <1>1, MessageTypes
<1>3. <<PaneExited(pid)>> \in Seq(Messages) /\ <<PaneExited(pid), Layout(v)>> \in Seq(Messages)
  BY <1>2
<1>4. CASE EndWindow(w, erased, <<PaneExited(pid)>>)
  BY <1>3, <1>4, EndWindowSends
<1>5. CASE Transmit(Broadcast(w.sid, <<PaneExited(pid), Layout(v)>>))
  BY <1>3, <1>5, BroadcastTypes, TransmitTypes
<1> QED BY <1>4, <1>5 DEF RemovePane

\* Announce is a sequence of messages, whatever CHOOSE picks.
LEMMA AnnounceTypes ==
  ASSUME RivtdTypeOK, IsFiniteSet(wins), \A v, w \in wins : v.id = w.id => v = w, NEW sid
  PROVE  /\ Announce(sid) \in Seq(Messages)
         /\ Len(Announce(sid)) = 2 * Cardinality(SessionWins(sid))
         /\ Cardinality(SessionWins(sid)) \in Nat
         /\ \A j \in 1..Cardinality(SessionWins(sid)) :
               /\ Announce(sid)[2 * j - 1] = WindowAdded(Nth(sid, j))
               /\ Announce(sid)[2 * j] = Layout(Nth(sid, j))
<1> DEFINE n == Cardinality(SessionWins(sid))
<1>1. \A w \in wins : w.id \in Nat
  BY DEF RivtdTypeOK, Windows
<1>2. n \in Nat /\ \A i \in 1..n : Nth(sid, i) \in SessionWins(sid)
  BY <1>1, NthLists
<1>3. \A i \in 1..n : WindowAdded(Nth(sid, i)) \in Messages /\ Layout(Nth(sid, i)) \in Messages
  BY <1>2, MessageTypes DEF SessionWins, RivtdTypeOK
<1> HIDE DEF n
<1> DEFINE A == [i \in 1..(2 * n) |-> IF i % 2 = 1 THEN WindowAdded(Nth(sid, (i + 1) \div 2))
                                      ELSE Layout(Nth(sid, (i + 1) \div 2))]
<1>4. Announce(sid) = A
  BY DEF Announce, n
<1>5. ASSUME NEW j \in 1..n
      PROVE  A[2 * j - 1] = WindowAdded(Nth(sid, j)) /\ A[2 * j] = Layout(Nth(sid, j))
  <2>1. /\ 2 * j - 1 \in 1..(2 * n) /\ (2 * j - 1) % 2 = 1 /\ ((2 * j - 1) + 1) \div 2 = j
        /\ 2 * j \in 1..(2 * n) /\ (2 * j) % 2 = 0 /\ ((2 * j) + 1) \div 2 = j
    BY <1>2
  <2> QED BY <2>1
<1>6. ASSUME NEW i \in 1..(2 * n) PROVE A[i] \in Messages
  <2>1. (i + 1) \div 2 \in 1..n
    BY <1>2
  <2> QED BY <1>3, <2>1
<1>7. A \in Seq(Messages) /\ Len(A) = 2 * n
  <2>1. 2 * n \in Nat /\ A \in [1..(2 * n) -> Messages]
    BY <1>2, <1>6
  <2> HIDE DEF A
  <2> QED BY <2>1
<1> HIDE DEF A
<1> QED BY <1>2, <1>4, <1>5, <1>7 DEF n

\* Windows and sessions are numbered as they come, whatever pane ids do.
Numbered ==
    /\ IsFiniteSet(wins)
    /\ \A w \in wins : w.id < next_wid
    /\ \A v, w \in wins : v.id = w.id => v = w
    /\ \A s \in sessions : s < next_sid

LEMMA FewerNumbered ==
  ASSUME Numbered, wins' \subseteq wins, sessions' \subseteq sessions,
         UNCHANGED <<next_wid, next_sid>>
  PROVE  Numbered'
<1>1. IsFiniteSet(wins')
  BY FS_Subset DEF Numbered
<1> QED BY <1>1 DEF Numbered

\* A window changes its panes, not its number.
LEMMA SwapNumbered ==
  ASSUME Numbered, NEW w \in wins, NEW v, v.id = w.id, wins' = (wins \ {w}) \cup {v},
         UNCHANGED <<sessions, next_wid, next_sid>>
  PROVE  Numbered'
<1>1. IsFiniteSet(wins')
  <2>1. IsFiniteSet(wins \ {w})
    BY FS_RemoveElement DEF Numbered
  <2> QED BY <2>1, FS_AddElement
<1> QED BY <1>1 DEF Numbered

LEMMA MoreNumbered ==
  ASSUME RivtdTypeOK, Numbered, NEW sid, NEW kept \in BOOLEAN, AddWindow(sid, kept),
         next_sid' \in Nat, next_sid <= next_sid',
         \A s \in sessions' : s \in sessions \/ (s \in Nat /\ s < next_sid')
  PROVE  Numbered'
<1> DEFINE w == [id |-> next_wid, sid |-> sid, panes |-> {NextPane}]
<1>1. next_wid \in Nat /\ next_sid \in Nat /\ sessions \subseteq Nat
      /\ \A v \in wins : v.id \in Nat /\ v.id < next_wid
  BY DEF RivtdTypeOK, Windows, Numbered
<1>2. next_wid' = next_wid + 1 /\ wins' \subseteq wins \cup {w} /\ w.id = next_wid
  BY DEF AddWindow
<1>3. IsFiniteSet(wins')
  <2>1. IsFiniteSet(wins \cup {w})
    BY FS_AddElement DEF Numbered
  <2> QED BY <1>2, <2>1, FS_Subset
<1> HIDE DEF w
<1>4. ASSUME NEW s \in sessions' PROVE s < next_sid'
  <2>1. CASE s \in sessions
    <3>1. s \in Nat /\ s < next_sid
      BY <1>1, <2>1 DEF Numbered
    <3> QED BY <1>1, <3>1
  <2>2. CASE s \notin sessions
    BY <1>4, <2>2
  <2> QED BY <2>1, <2>2
<1>5. /\ \A v \in wins' : v.id < next_wid'
      /\ \A u, v \in wins' : u.id = v.id => u = v
  BY <1>1, <1>2 DEF Numbered
<1> QED BY <1>3, <1>4, <1>5 DEF Numbered

LEMMA EndWindowNumbered ==
  ASSUME Numbered, NEW w, NEW panes, NEW q, EndWindow(w, panes, q),
         UNCHANGED <<next_wid, next_sid>>
  PROVE  Numbered'
BY FewerNumbered DEF EndWindow, CloseSession

LEMMA RemovePaneNumbered ==
  ASSUME RivtdTypeOK, Numbered, NEW w \in wins, NEW pid, NEW erased, RemovePane(w, pid, erased),
         UNCHANGED <<next_wid, next_sid>>
  PROVE  Numbered'
<1> DEFINE v == [w EXCEPT !.panes = @ \ {pid}]
<1>1. v.id = w.id
  BY DEF RivtdTypeOK, Windows
<1> QED BY <1>1, EndWindowNumbered, SwapNumbered DEF RemovePane

LEMMA NumberedInductive ==
  ASSUME RivtdTypeOK, Numbered, [DaemonStep]_rivtdVars
  PROVE  Numbered'
<1> USE DEF idVars, connVars, regVars, serverVars
<1>0. UNCHANGED <<sessions, wins, next_wid, next_sid>> => Numbered'
  BY FewerNumbered
<1>1. ASSUME NEW k \in Conns, NEW read \in BOOLEAN,
             Accept(k, read) \/ Kill(k) \/ HandleHello(k) \/ HandleListSessions(k) \/ HandleDetach(k)
      PROVE  Numbered'
  BY <1>0, <1>1 DEF Accept, Kill, HandleHello, HandleListSessions, HandleDetach
<1>2. ASSUME NEW k \in Conns, NEW sid, HandleAttach(k, sid) PROVE Numbered'
  BY <1>0, <1>2 DEF HandleAttach
<1>3. ASSUME NEW k \in Conns, HandleCreateSession(k) PROVE Numbered'
  <2>1. next_sid \in Nat /\ next_sid' = next_sid + 1
    BY <1>3 DEF HandleCreateSession, RivtdTypeOK
  <2>2. CASE AddWindow(next_sid, NextPane # 0)
              /\ sessions' = sessions \cup (IF NextPane # 0 THEN {next_sid} ELSE {})
    <3>1. /\ next_sid' \in Nat /\ next_sid <= next_sid' /\ (NextPane # 0) \in BOOLEAN
          /\ \A s \in sessions' : s \in sessions \/ (s \in Nat /\ s < next_sid')
      BY <2>1, <2>2
    <3> QED BY <2>2, <3>1, MoreNumbered
  <2>3. CASE UNCHANGED <<sessions, wins, refs, next_wid>>
    <3>1. \A s \in sessions : s \in Nat /\ s < next_sid'
      BY <2>1 DEF Numbered, RivtdTypeOK
    <3> QED BY <2>3, <3>1 DEF Numbered
  <2> QED BY <1>3, <2>2, <2>3 DEF HandleCreateSession
<1>4. ASSUME NEW k \in Conns, HandleNewWindow(k) PROVE Numbered'
  <2>1. UNCHANGED <<sessions, next_sid>> /\ next_sid \in Nat
    BY <1>4 DEF HandleNewWindow, RivtdTypeOK
  <2>2. CASE AddWindow(attached[k], TRUE)
    <3>1. /\ next_sid' \in Nat /\ next_sid <= next_sid' /\ TRUE \in BOOLEAN
          /\ \A s \in sessions' : s \in sessions \/ (s \in Nat /\ s < next_sid')
      BY <2>1
    <3> QED BY <2>2, <3>1, MoreNumbered
  <2>3. CASE UNCHANGED <<wins, next_wid>>
    BY <1>0, <2>1, <2>3
  <2> QED BY <1>4, <2>2, <2>3 DEF HandleNewWindow
<1>5. ASSUME NEW k \in Conns, NEW pid \in DOMAIN refs, HandleSplit(k, pid) PROVE Numbered'
  <2>1. UNCHANGED <<sessions, next_sid, next_wid>>
    BY <1>5 DEF HandleSplit
  <2>2. ASSUME NEW w \in wins, wins' = (wins \ {w}) \cup {[w EXCEPT !.panes = @ \cup {NextPane}]}
        PROVE  Numbered'
    <3>1. [w EXCEPT !.panes = @ \cup {NextPane}].id = w.id
      BY DEF RivtdTypeOK, Windows
    <3> QED BY <2>1, <2>2, <3>1, SwapNumbered
  <2> QED BY <1>0, <1>5, <2>1, <2>2 DEF HandleSplit
<1>6. ASSUME NEW k \in Conns, NEW pid \in DOMAIN refs, HandleClosePane(k, pid) PROVE Numbered'
  BY <1>6, RemovePaneNumbered DEF HandleClosePane
<1>7. ASSUME NEW k \in Conns, NEW pid \in DOMAIN refs, HandleInput(k, pid) PROVE Numbered'
  BY <1>0, <1>7 DEF HandleInput
<1>8. ASSUME NEW k \in Conns, NEW wid, HandleCloseWindow(k, wid) PROVE Numbered'
  BY <1>8, EndWindowNumbered DEF HandleCloseWindow
<1>9. ASSUME NEW k \in Conns, NEW sid, HandleKillSession(k, sid) PROVE Numbered'
  BY <1>9, FewerNumbered DEF HandleKillSession, CloseSession
<1>10. CASE Background
  <2>1. CASE SweepPane
    BY <1>0, <2>1, RemovePaneNumbered DEF SweepPane
  <2>2. ASSUME NEW sid, AgentAccept(sid) PROVE Numbered'
    BY <1>0, <2>2 DEF AgentAccept
  <2>3. ASSUME NEW s, AgentClose(s) PROVE Numbered'
    BY <1>0, <2>3 DEF AgentClose
  <2>4. ASSUME NEW pid, PaneDies(pid) PROVE Numbered'
    BY <1>0, <2>4 DEF PaneDies
  <2>5. CASE BeginSweep \/ SweepClients \/ UpgradeDaemon
    BY <1>0, <2>5 DEF BeginSweep, SweepClients, UpgradeDaemon
  <2> QED BY <1>10, <2>1, <2>2, <2>3, <2>4, <2>5 DEF Background
<1>11. CASE UNCHANGED rivtdVars
  BY <1>0, <1>11 DEF rivtdVars
<1> QED BY <1>1, <1>2, <1>3, <1>4, <1>5, <1>6, <1>7, <1>8, <1>9, <1>10, <1>11 DEF DaemonStep

LEMMA OutInductive ==
  ASSUME RivtdTypeOK, Numbered, OutTypes, [DaemonStep]_rivtdVars
  PROVE  OutTypes'
<1> USE DEF idVars, connVars, regVars, serverVars
<1>0. out' = out => OutTypes'
  BY DEF OutTypes
<1>1. ASSUME NEW k, NEW m \in Messages, Transmit(Reply(k, <<m>>)) PROVE OutTypes'
  <2>1. <<m>> \in Seq(Messages)
    OBVIOUS
  <2> QED BY <1>1, <2>1, ReplyTypes, TransmitTypes
<1>2. ASSUME NEW k \in Conns, HandleHello(k) PROVE OutTypes'
  BY <1>1, <1>2, MessageTypes DEF HandleHello
<1>3. ASSUME NEW k \in Conns, HandleListSessions(k) PROVE OutTypes'
  <2>1. SessionList(sessions) \in Messages
    BY MessageTypes DEF RivtdTypeOK
  <2> QED BY <1>1, <1>3, <2>1 DEF HandleListSessions
<1>4. ASSUME NEW k \in Conns, HandleCreateSession(k) PROVE OutTypes'
  <2>1. NextPane \in PaneIds /\ 0 \in PaneIds /\ next_sid \in Nat
    BY RivtdAssumption, NextPaneType DEF RivtdTypeOK, PaneIds
  <2>2. SessionCreated(0, 0) \in Messages /\ SessionCreated(0, NextPane) \in Messages
        /\ SessionCreated(next_sid, NextPane) \in Messages
    BY <2>1, MessageTypes
  <2>3. SessionCreated(IF NextPane # 0 THEN next_sid ELSE 0, NextPane) \in Messages
    BY <2>2
  <2> QED BY <1>1, <1>4, <2>2, <2>3 DEF HandleCreateSession
<1>5. ASSUME NEW k \in Conns, NEW sid, HandleAttach(k, sid) PROVE OutTypes'
  <2>1. CASE sid \in sessions
    <3>1. AttachOk(sid) \in Messages
      BY <2>1, MessageTypes DEF RivtdTypeOK
    <3>2. <<AttachOk(sid)>> \in Seq(Messages) /\ Announce(sid) \in Seq(Messages)
      BY <3>1, AnnounceTypes DEF Numbered
    <3>3. <<AttachOk(sid)>> \o Announce(sid) \in Seq(Messages)
      BY <3>2, ConcatProperties
    <3> QED BY <1>5, <2>1, <3>3, ReplyTypes, TransmitTypes DEF HandleAttach
  <2>2. CASE sid \notin sessions
    BY <1>1, <1>5, <2>2, MessageTypes DEF HandleAttach
  <2> QED BY <2>1, <2>2
<1>6. ASSUME NEW k \in Conns, HandleNewWindow(k) PROVE OutTypes'
  <2> DEFINE w == [id |-> next_wid, sid |-> attached[k], panes |-> {NextPane}]
  <2>1. w \in Windows
    BY NextPaneType DEF RivtdTypeOK, Windows
  <2>2. WindowAdded(w) \in Messages /\ Layout(w) \in Messages
    BY <2>1, MessageTypes
  <2>3. <<WindowAdded(w), Layout(w)>> \in Seq(Messages)
    BY <2>2
  <2>4. CASE Transmit(Broadcast(attached[k], <<WindowAdded(w), Layout(w)>>))
    BY <2>3, <2>4, BroadcastTypes, TransmitTypes
  <2> QED BY <1>0, <1>6, <2>4 DEF HandleNewWindow
<1>7. ASSUME NEW k \in Conns, NEW pid \in DOMAIN refs, HandleSplit(k, pid) PROVE OutTypes'
  <2>1. ASSUME NEW w \in wins,
               Transmit(Broadcast(w.sid, <<Layout([w EXCEPT !.panes = @ \cup {NextPane}])>>))
        PROVE  OutTypes'
    <3>1. [w EXCEPT !.panes = @ \cup {NextPane}] \in Windows
      BY NextPaneType DEF RivtdTypeOK, Windows
    <3>2. Layout([w EXCEPT !.panes = @ \cup {NextPane}]) \in Messages
      BY <3>1, MessageTypes
    <3>3. <<Layout([w EXCEPT !.panes = @ \cup {NextPane}])>> \in Seq(Messages)
      BY <3>2
    <3> QED BY <2>1, <3>3, BroadcastTypes, TransmitTypes
  <2> QED BY <1>0, <1>7, <2>1 DEF HandleSplit
<1>8. ASSUME NEW k \in Conns, NEW pid \in DOMAIN refs, HandleClosePane(k, pid) PROVE OutTypes'
  BY <1>8, RemovePaneSends DEF HandleClosePane, RivtdTypeOK
<1>9. ASSUME NEW k \in Conns, NEW wid, HandleCloseWindow(k, wid) PROVE OutTypes'
  <2>1. PICK w \in wins : EndWindow(w, w.panes, <<>>)
    BY <1>9 DEF HandleCloseWindow, SessionWins
  <2>2. <<>> \in Seq(Messages)
    OBVIOUS
  <2> QED BY <2>1, <2>2, EndWindowSends
<1>10. ASSUME NEW k \in Conns, NEW sid, HandleKillSession(k, sid) PROVE OutTypes'
  <2>1. CloseSession(sid, PanesOf(sid), <<>>) /\ sid \in Nat /\ <<>> \in Seq(Messages)
    BY <1>10 DEF HandleKillSession, RivtdTypeOK
  <2> QED BY <2>1, CloseSessionSends
<1>11. ASSUME NEW k \in Conns, NEW read \in BOOLEAN, Accept(k, read) \/ Kill(k) \/ HandleDetach(k)
       PROVE  OutTypes'
  BY <1>0, <1>11 DEF Accept, Kill, HandleDetach
<1>12. ASSUME NEW k \in Conns, NEW pid \in DOMAIN refs, HandleInput(k, pid) PROVE OutTypes'
  BY <1>0, <1>12 DEF HandleInput
<1>13. CASE Background
  <2>1. CASE SweepPane
    <3>1. dead # <<>> /\ Head(dead) \in PaneIds
      BY <2>1 DEF SweepPane, RivtdTypeOK
    <3> QED BY <1>0, <2>1, <3>1, RemovePaneSends DEF SweepPane
  <2>2. ASSUME NEW sid, AgentAccept(sid) PROVE OutTypes'
    BY <1>0, <2>2 DEF AgentAccept
  <2>3. ASSUME NEW s, AgentClose(s) PROVE OutTypes'
    BY <1>0, <2>3 DEF AgentClose
  <2>4. ASSUME NEW pid, PaneDies(pid) PROVE OutTypes'
    BY <1>0, <2>4 DEF PaneDies
  <2>5. CASE BeginSweep \/ SweepClients \/ UpgradeDaemon
    BY <1>0, <2>5 DEF BeginSweep, SweepClients, UpgradeDaemon
  <2> QED BY <1>13, <2>1, <2>2, <2>3, <2>4, <2>5 DEF Background
<1>14. CASE UNCHANGED rivtdVars
  BY <1>0, <1>14 DEF rivtdVars
<1> QED BY <1>2, <1>3, <1>4, <1>5, <1>6, <1>7, <1>8, <1>9, <1>10, <1>11, <1>12, <1>13, <1>14
        DEF DaemonStep

-----------------------------------------------------------------------------
(* The two kinds of steps.                                                 *)

\* The steps of the daemon in this system: it never detaches, types or
\* forwards an agent here.
Works ==
    \/ \E k \in Conns : Accept(k, TRUE) \/ Kill(k) \/ \E r : Handle(k, r)
    \/ \E pid : PaneDies(pid)
    \/ BeginSweep \/ SweepPane \/ SweepClients \/ UpgradeDaemon

\* Serving requests, losing clients and shells, sweeping, upgrading, and
\* asking: what the windows show and which connection they use stays.
DaemonMoves == [Works]_rivtdVars /\ UNCHANGED userVars

UserMoves(u) == Connect(u) \/ Disconnect(u) \/ Receive(u) \/ CloseOsWindow(u) \/ CloseLocally(u)

\* Whatever the daemon makes of a request is one of its handlers.
LEMMA WorksSteps == ASSUME [Works]_rivtdVars PROVE [DaemonStep]_rivtdVars
<1>1. ASSUME NEW k \in Conns, NEW r, Handle(k, r) PROVE [DaemonStep]_rivtdVars
  <2>1. ASSUME NEW id, HandleSplit(k, id) \/ HandleClosePane(k, id)
        PROVE  id \in DOMAIN refs
    BY <2>1 DEF HandleSplit, HandleClosePane, Owns
  <2> QED BY <1>1, <2>1 DEF Handle, Ignored, DaemonStep
<1>2. ASSUME NEW pid, PaneDies(pid) PROVE pid \in DOMAIN refs
  BY <1>2 DEF PaneDies
<1>3. ASSUME NEW k \in Conns, Accept(k, TRUE) \/ Kill(k) PROVE DaemonStep
  BY <1>3 DEF DaemonStep
<1> QED BY <1>1, <1>2, <1>3 DEF Works, DaemonStep, Background

LEMMA StepKinds == ASSUME [Next]_vars PROVE DaemonMoves \/ \E u \in Users : UserMoves(u)
<1>1. ASSUME NEW k \in Conns, Serve(k) PROVE DaemonMoves
  BY <1>1 DEF Serve, DaemonMoves, Works
<1>2. ASSUME NEW k \in Conns, Drop(k) PROVE DaemonMoves
  BY <1>2 DEF Drop, DaemonMoves, Works
<1>3. ASSUME NEW pid \in DOMAIN refs, ShellExits(pid) PROVE DaemonMoves
  BY <1>3 DEF ShellExits, DaemonMoves, Works
<1>4. CASE Sweep
  BY <1>4 DEF Sweep, DaemonMoves, Works
<1>5. CASE Upgrade
  BY <1>5 DEF Upgrade, DaemonMoves, Works
<1>6. ASSUME NEW u \in Users, AskAny(u) PROVE DaemonMoves
  BY <1>6 DEF AskAny, UserRequest, DaemonMoves
<1>7. CASE UNCHANGED vars
  BY <1>7 DEF vars, DaemonMoves
<1> QED BY <1>1, <1>2, <1>3, <1>4, <1>5, <1>6, <1>7 DEF Next, UserMoves

-----------------------------------------------------------------------------
(* Types of the windows.                                                   *)

\* The part of the types that is about the windows.
UserTypes ==
    /\ link \in [Users -> Conns \cup {0}]
    /\ mode \in [Users -> {"idle", "connecting", "active", "reconnecting", "exited"}]
    /\ session \in [Users -> Nat] /\ newest \in [Users -> BOOLEAN]
    /\ resyncing \in [Users -> BOOLEAN]
    /\ mwins \in [Users -> SUBSET Nat] /\ announced \in [Users -> SUBSET Nat]
    /\ freed \in [Users -> SUBSET PaneIds] /\ DOMAIN mpanes = Users
    /\ \A u \in Users :
          /\ mode[u] \in {"idle", "exited"} => link[u] = 0
          /\ mode[u] \in {"connecting", "active"} => link[u] # 0
          /\ DOMAIN mpanes[u] \subseteq PaneIds

LEMMA TypeParts == TypeOK <=> RivtdTypeOK /\ UserTypes
BY DEF TypeOK, UserTypes

LEMMA ReadingTypes ==
  ASSUME NEW m \in Messages
  PROVE  /\ m.t = "AttachOk" => m.sid \in Nat
         /\ m.t = "WindowAdded" => m.wid \in Nat
         /\ m.t = "Layout" => m.panes \subseteq PaneIds
BY DEF Messages

\* Closing the connection, and with it the window.
LEMMA ExitTypes ==
  ASSUME UserTypes, NEW u \in Users, link[u] # 0, Exit(u) PROVE UserTypes'
BY DEF UserTypes, Exit, HangUp

LEMMA ReceiveTypes ==
  ASSUME UserTypes, OutTypes, NEW u \in Users, Receive(u) PROVE UserTypes'
<1>0. ASSUME link[u] # 0, out[link[u]] # <<>> PROVE Incoming(u) \in Messages
  BY <1>0 DEF UserTypes, OutTypes, Incoming
<1>1. CASE OnHelloOk(u)
  BY <1>1 DEF OnHelloOk, UserTypes, userVars, mirrorVars
<1>2. CASE OnSessionCreated(u)
  BY <1>2, ExitTypes DEF OnSessionCreated, Gets, UserTypes, userVars, mirrorVars
<1>3. CASE OnAttachOk(u)
  <2>1. Incoming(u).sid \in Nat /\ link[u] # 0
    BY <1>0, <1>3, ReadingTypes DEF OnAttachOk, Gets
  <2> QED BY <1>3, <2>1 DEF OnAttachOk, UserTypes
<1>4. CASE OnSessionList(u)
  <2>1. CASE UNCHANGED mirrorVars
    BY <1>4, <2>1 DEF OnSessionList, UserTypes, mirrorVars
  <2>2. CASE KeepWindows(u, announced[u]) /\ resyncing' = [resyncing EXCEPT ![u] = FALSE]
             /\ announced' = [announced EXCEPT ![u] = {}]
    BY <1>4, <2>2 DEF OnSessionList, KeepWindows, Without, UserTypes
  <2> QED BY <1>4, <2>1, <2>2 DEF OnSessionList
<1>5. CASE OnWindowAdded(u)
  <2>1. Incoming(u).wid \in Nat
    BY <1>0, <1>5, ReadingTypes DEF OnWindowAdded, Gets
  <2> QED BY <1>5, <2>1 DEF OnWindowAdded, UserTypes
<1>6. CASE OnLayout(u)
  <2>1. Incoming(u).panes \subseteq PaneIds
    BY <1>0, <1>6, ReadingTypes DEF OnLayout, Gets
  <2> QED BY <1>6, <2>1 DEF OnLayout, UserTypes
<1>7. CASE OnWindowClosed(u)
  BY <1>7 DEF OnWindowClosed, KeepWindows, Without, UserTypes
<1>8. CASE OnPaneExited(u)
  BY <1>8 DEF OnPaneExited, Without, UserTypes
<1>9. CASE OnSessionClosed(u)
  BY <1>9, ExitTypes DEF OnSessionClosed, Gets, UserTypes, userVars, mirrorVars
<1>10. CASE OnError(u)
  BY <1>10, ExitTypes DEF OnError, Gets, UserTypes, userVars, mirrorVars
<1> QED BY <1>1, <1>2, <1>3, <1>4, <1>5, <1>6, <1>7, <1>8, <1>9, <1>10 DEF Receive

LEMMA UserMovesTypes ==
  ASSUME UserTypes, OutTypes, NEW u \in Users, UserMoves(u) PROVE UserTypes'
<1>1. CASE Connect(u)
  BY <1>1 DEF Connect, UserTypes, mirrorVars, Conns
<1>2. CASE Disconnect(u)
  <2>1. CASE Exit(u)
    BY <1>2, <2>1, ExitTypes DEF Disconnect
  <2>2. CASE HangUp(u) /\ mode' = [mode EXCEPT ![u] = "reconnecting"]
             /\ UNCHANGED <<newest, session, mirrorVars, freed>>
    BY <1>2, <2>2 DEF HangUp, UserTypes, mirrorVars
  <2> QED BY <1>2, <2>1, <2>2 DEF Disconnect
<1>3. CASE Receive(u)
  BY <1>3, ReceiveTypes
<1>4. CASE CloseOsWindow(u)
  BY <1>4, ExitTypes DEF CloseOsWindow, UserTypes
<1>5. CASE CloseLocally(u)
  BY <1>5 DEF CloseLocally, UserTypes, mirrorVars
<1> QED BY <1>1, <1>2, <1>3, <1>4, <1>5 DEF UserMoves

\* What a window's step does to the daemon: it connects, or it reads.
LEMMA UserMovesReads ==
  ASSUME UserTypes, OutTypes, NEW u \in Users, UserMoves(u)
  PROVE  \/ \E k \in Conns : Accept(k, TRUE)
         \/ /\ UNCHANGED serverVars /\ link[u] # 0
            /\ \/ HangUp(u)
               \/ Read(u) /\ out[link[u]] # <<>> /\ link' = link
         \/ UNCHANGED rivtdVars
<1>1. CASE Connect(u)
  BY <1>1 DEF Connect
<1>2. CASE Disconnect(u)
  BY <1>2 DEF Disconnect, Exit
<1>3. CASE Receive(u)
  <2> USE DEF Gets, Exit, userVars
  <2>1. CASE OnHelloOk(u) \/ OnSessionCreated(u) \/ OnAttachOk(u) \/ OnSessionClosed(u) \/ OnError(u)
    BY <2>1 DEF OnHelloOk, OnSessionCreated, OnAttachOk, OnSessionClosed, OnError
  <2>2. CASE OnSessionList(u) \/ OnWindowAdded(u) \/ OnLayout(u) \/ OnWindowClosed(u) \/ OnPaneExited(u)
    BY <2>2 DEF OnSessionList, OnWindowAdded, OnLayout, OnWindowClosed, OnPaneExited
  <2> QED BY <1>3, <2>1, <2>2 DEF Receive
<1>4. CASE CloseOsWindow(u)
  <2>1. link[u] # 0
    BY <1>4 DEF CloseOsWindow, UserTypes
  <2> QED BY <1>4, <2>1 DEF CloseOsWindow, Exit
<1>5. CASE CloseLocally(u)
  BY <1>5 DEF CloseLocally
<1> QED BY <1>1, <1>2, <1>3, <1>4, <1>5 DEF UserMoves

\* Reading and hanging up leave the registry alone.
LEMMA ReadsKeepTypes ==
  ASSUME RivtdTypeOK, Numbered, OutTypes, UserTypes, NEW u \in Users, link[u] # 0,
         UNCHANGED serverVars, HangUp(u) \/ (Read(u) /\ out[link[u]] # <<>>)
  PROVE  RivtdTypeOK' /\ Numbered' /\ OutTypes'
<1>1. link[u] \in Conns
  BY DEF UserTypes
<1>2. peer' \in [Conns -> BOOLEAN]
  BY <1>1 DEF HangUp, Read, RivtdTypeOK
<1>3. RivtdTypeOK' /\ Numbered'
  BY <1>2 DEF RivtdTypeOK, Numbered, serverVars, regVars, idVars, connVars
<1>4. <<>> \in Seq(Messages) /\ (out[link[u]] # <<>> => Tail(out[link[u]]) \in Seq(Messages))
  BY <1>1 DEF OutTypes
<1>5. OutTypes'
  BY <1>1, <1>4 DEF OutTypes, HangUp, Read
<1> QED BY <1>3, <1>5

\* Types, numbers and messages are kept by every step.
Basics == TypeOK /\ Numbered /\ OutTypes

LEMMA BasicsStart == Init => Basics
<1> SUFFICES ASSUME Init PROVE Basics
  OBVIOUS
<1>1. RivtdTypeOK
  BY LiveStarts DEF Init
<1>2. UserTypes
  BY DEF Init, UserTypes
<1>3. Numbered /\ OutTypes
  <2>1. IsFiniteSet({}) /\ <<>> \in Seq(Messages)
    BY FS_EmptySet
  <2> QED BY <2>1 DEF Init, InitRivtd, Numbered, OutTypes, Silence
<1> QED BY <1>1, <1>2, <1>3, TypeParts DEF Basics

LEMMA BasicsInductive == Basics /\ [Next]_vars => Basics'
<1> SUFFICES ASSUME Basics, [Next]_vars PROVE RivtdTypeOK' /\ UserTypes' /\ Numbered' /\ OutTypes'
  BY DEF Basics, TypeOK, UserTypes
<1>1. RivtdTypeOK /\ UserTypes /\ Numbered /\ OutTypes
  BY TypeParts DEF Basics
<1>2. CASE DaemonMoves
  <2>1. [DaemonStep]_rivtdVars /\ UNCHANGED userVars
    BY <1>2, WorksSteps DEF DaemonMoves
  <2>2. UserTypes'
    BY <1>1, <2>1 DEF userVars, mirrorVars, UserTypes
  <2> QED BY <1>1, <2>1, <2>2, TypeInductive, NumberedInductive, OutInductive
<1>3. ASSUME NEW u \in Users, UserMoves(u) PROVE RivtdTypeOK' /\ UserTypes' /\ Numbered' /\ OutTypes'
  <2>1. UserTypes'
    BY <1>1, <1>3, UserMovesTypes
  <2>2. ASSUME [DaemonStep]_rivtdVars PROVE RivtdTypeOK' /\ Numbered' /\ OutTypes'
    BY <1>1, <2>2, TypeInductive, NumberedInductive, OutInductive
  <2>3. ASSUME NEW k \in Conns, Accept(k, TRUE) PROVE DaemonStep
    BY <2>3 DEF DaemonStep
  <2>4. CASE UNCHANGED serverVars /\ link[u] # 0
             /\ (HangUp(u) \/ (Read(u) /\ out[link[u]] # <<>>))
    BY <1>1, <2>1, <2>4, ReadsKeepTypes
  <2> QED BY <1>1, <1>3, <2>1, <2>2, <2>3, <2>4, UserMovesReads
<1> QED BY <1>2, <1>3, StepKinds

\* The mirror of a session is a mirror: every variable of every window keeps
\* its type, whatever is sent, lost, closed or upgraded, and a window that is
\* connected or shows a session has a connection.
THEOREM MirrorTypeCorrect == Spec => []TypeOK
<1>1. Basics => TypeOK
  BY DEF Basics
<1> QED BY <1>1, BasicsStart, BasicsInductive, PTL DEF Spec

-----------------------------------------------------------------------------
(* What the daemon sends carries the views over to its new registry.       *)

\* A view at the end of the way of a connection in state co, attached to at.
Fine(co, at, d, R) ==
    /\ co = "new" => d.mode # "active"
    /\ co = "open" => Agrees(d, at, R)

\* Session a, if there is one, is what it was.
Same(a, R, Q) ==
    a \in R.sessions =>
        a \in Q.sessions /\ \A w : w.sid = a => (w \in Q.wins <=> w \in R.wins)

LEMMA LeadsEnds ==
  ASSUME NEW c, NEW d, NEW R, NEW q \in Seq(Messages), Leads(c, q, d, R)
  PROVE  Fits(c, R) /\ Fits(d, R) /\ (q = <<>> => c = d)
<1>1. PICK f : /\ f[1] = c /\ f[Len(q) + 1] = d
               /\ \A i \in 1..(Len(q) + 1) : Fits(f[i], R)
  BY DEF Leads
<1>2. Len(q) \in Nat /\ 1 \in 1..(Len(q) + 1) /\ Len(q) + 1 \in 1..(Len(q) + 1)
      /\ (q = <<>> => Len(q) + 1 = 1)
  OBVIOUS
<1> QED BY <1>1, <1>2

LEMMA LeadsOn ==
  ASSUME NEW R, NEW Q, Sound(R), Sound(Q), Grows(R, Q), NEW c, NEW d, NEW e,
         NEW q \in Seq(Messages), NEW r \in Seq(Messages),
         Leads(c, q, d, R), Leads(d, r, e, Q)
  PROVE  Leads(c, q \o r, e, Q)
<1>1. Leads(c, q, d, Q)
  BY LeadsGrows
<1> QED BY <1>1, LeadsConcat

LEMMA LeadsTwo ==
  ASSUME NEW R, NEW c, NEW d, NEW m \in Messages, NEW k \in Messages, NEW q \in Seq(Messages),
         Leads(c, q, d, R), Fits(Effect(d, m), R), Spares(d, Effect(d, m), R)
  PROVE  Leads(c, q \o <<m>>, Effect(d, m), R)
<1>1. Fits(d, R) /\ <<m>> \in Seq(Messages)
  BY LeadsEnds
<1>2. Leads(d, <<m>>, Effect(d, m), R)
  BY <1>1, LeadsOne
<1> QED BY <1>1, <1>2, LeadsConcat

LEMMA Pairs == ASSUME NEW x, NEW y PROVE <<x>> \o <<y>> = <<x, y>>
<1> DEFINE S == {x, y}
           q == <<x>>
           r == <<y>>
           t == <<x, y>>
<1>1. q \in Seq(S) /\ r \in Seq(S) /\ t \in Seq(S)
  OBVIOUS
<1>2. /\ Len(q) = 1 /\ Len(r) = 1 /\ Len(t) = 2
      /\ q[1] = x /\ r[1] = y /\ t[1] = x /\ t[2] = y
  OBVIOUS
<1> HIDE DEF q, r, t, S
<1>3. /\ q \o r \in Seq(S) /\ Len(q \o r) = 2
      /\ \A i \in 1..2 : (q \o r)[i] = IF i <= 1 THEN q[i] ELSE r[i - 1]
  BY <1>1, <1>2, ConcatProperties
<1>4. \A i \in 1..Len(q \o r) : (q \o r)[i] = t[i]
  BY <1>2, <1>3
<1>5. q \o r = t
  BY <1>1, <1>2, <1>3, <1>4, SeqEqual
<1> QED BY <1>5 DEF q, r, t

\* A window that is gone reads nothing into anything.
LEMMA LeadsGone ==
  ASSUME NEW R, NEW c, Fits(c, R), c.mode = "exited", NEW q \in Seq(Messages)
  PROVE  Leads(c, q, c, R)
<1> DEFINE path == [i \in 1..(Len(q) + 1) |-> c]
<1>1. \A i \in 1..(Len(q) + 1) : path[i] = c
  OBVIOUS
<1> HIDE DEF path
<1>2. Len(q) \in Nat
  OBVIOUS
<1>3. path[1] = c /\ path[Len(q) + 1] = c
  BY <1>1, <1>2
<1>4. \A i \in 1..Len(q) : path[i] = c /\ path[i + 1] = c
  BY <1>1, <1>2
<1>5. \A m : Effect(c, m) = c
  BY DEF Effect
<1>6. Spares(c, c, R)
  BY DEF Spares
<1> QED BY <1>1, <1>3, <1>4, <1>5, <1>6 DEF Leads

\* Connections to which nothing is sent, because nothing concerns them.
LEMMA Unaffected ==
  ASSUME NEW R, NEW Q, Sound(R), Sound(Q), Grows(R, Q), NEW co, NEW at, NEW d,
         Fits(d, R), Fine(co, at, d, R), NEW co2, NEW at2,
         co2 = "new" => co = "new",
         co2 = "open" => co = "open" /\ at2 = at /\ Same(at, R, Q)
  PROVE  Leads(d, <<>>, d, Q) /\ Fine(co2, at2, d, Q)
<1>1. Leads(d, <<>>, d, Q)
  BY FitsGrows, LeadsNowhere
<1>2. ASSUME co2 = "open", d.mode = "active" PROVE Agrees(d, at, Q)
  <2>1. at \in R.sessions /\ Agrees(d, at, R)
    BY <1>2 DEF Fine, Agrees, AgreesBut
  <2>2. Ids(Q, at) = Ids(R, at) /\ PanesIn(Q, at) = PanesIn(R, at) /\ at \in Q.sessions
    BY <1>2, <2>1 DEF Same, Ids, PanesIn
  <2> QED BY <2>1, <2>2 DEF Agrees, AgreesBut
<1> QED BY <1>1, <1>2 DEF Fine, Agrees, AgreesBut

\* The one who asked gets the answer.
LEMMA Answered ==
  ASSUME NEW R, NEW Q, Sound(R), Sound(Q), Grows(R, Q), NEW co, NEW at, NEW d,
         Fits(d, R), Fine(co, at, d, R), co \in {"new", "open"},
         co = "open" => Same(at, R, Q), NEW m \in Messages,
         m = HelloOk \/ m = Error \/ (\E s, p : m = SessionCreated(s, p))
           \/ \E S : m = SessionList(S)
  PROVE  \E e : Leads(d, <<m>>, e, Q) /\ Agrees(e, at, Q)
<1>1. Fine(co, at, d, Q) /\ Fits(d, Q)
  BY Unaffected, FitsGrows
<1>2. Agrees(d, at, Q)
  BY <1>1 DEF Fine, Agrees, AgreesBut
<1>3. Fits(Effect(d, m), Q) /\ Spares(d, Effect(d, m), Q) /\ Agrees(Effect(d, m), at, Q)
  BY <1>1, <1>2, AnswerRead
<1> QED BY <1>1, <1>3, LeadsOne

\* A window that changes its panes, while its layout is on the way.
LEMMA Swapped ==
  ASSUME NEW R, NEW Q, Sound(R), Sound(Q), NEW w \in R.wins, NEW v, NEW a, v.id = w.id,
         v.sid = a, w.sid = a, Q.wins = (R.wins \ {w}) \cup {v}, Q.sessions = R.sessions,
         \A p \in w.panes : Q.home[p] = v.id,
         NEW d, AgreesBut(d, a, R, {w.id}),
         d.mode = "active" => \A p \in PaneIds : Q.home[p] # v.id =>
                                 (p \in ShownPanes(d) <=> p \in PanesIn(R, a))
  PROVE  AgreesBut(d, a, Q, {v.id})
<1>1. Ids(Q, a) = Ids(R, a)
  BY DEF Ids
<1>2. ASSUME NEW p \in PaneIds, Q.home[p] # v.id
      PROVE  p \in PanesIn(Q, a) <=> p \in PanesIn(R, a)
  <2>1. p \notin v.panes /\ p \notin w.panes
    BY <1>2 DEF Sound
  <2> QED BY <2>1 DEF PanesIn
<1> QED BY <1>1, <1>2 DEF AgreesBut

-----------------------------------------------------------------------------
(* The shapes of the daemon's steps.                                       *)

\* The registry behind the step, with pane homes J.
Later(J) == [wins |-> wins', sessions |-> sessions', next |-> next_wid',
             drawn |-> spawned', home |-> J]

\* The step sends msgs, and they take any view that was fine to one that is.
Delivers(H, J, msgs) ==
    /\ Sound(Later(J)) /\ Grows(Registry(H), Later(J))
    /\ msgs \in [Conns -> Seq(Messages)]
    /\ \A k \in Conns : conn'[k] = "unused" =>
          conn[k] = "unused" /\ (out[k] = <<>> => out'[k] = <<>>)
    /\ \A k \in Conns : peer[k] /\ conn[k] # "unused" =>
          /\ peer'[k] /\ conn'[k] # "unused" /\ out'[k] = out[k] \o msgs[k]
          /\ \A d : Fits(d, Registry(H)) /\ Fine(conn[k], attached[k], d, Registry(H)) =>
                \E e : /\ Leads(d, msgs[k], e, Later(J))
                       /\ Fine(conn'[k], attached'[k], e, Later(J))

Carried(H) == \E J, msgs : Delivers(H, J, msgs)

LEMMA Shrinks ==
  ASSUME NEW H, Sound(Registry(H)), spawned' \in Nat, spawned <= spawned', next_wid' = next_wid,
         wins' \subseteq Windows,
         \A w \in wins' : \E v \in wins : v.id = w.id /\ v.sid = w.sid /\ w.panes \subseteq v.panes,
         \A v, w \in wins' : v.id = w.id => v = w
  PROVE  Sound(Later(H)) /\ Grows(Registry(H), Later(H))
<1>1. /\ next_wid \in Nat /\ spawned \in Nat /\ H \in [PaneIds -> Nat]
      /\ \A w \in wins : w.id < next_wid /\ \A p \in w.panes : p <= spawned /\ H[p] = w.id
  BY DEF Sound, Registry
<1>2. ASSUME NEW w \in wins'
      PROVE  w.id < next_wid' /\ \A p \in w.panes : p <= spawned' /\ H[p] = w.id
  <2>1. PICK v \in wins : v.id = w.id /\ v.sid = w.sid /\ w.panes \subseteq v.panes
    OBVIOUS
  <2>2. \A p \in w.panes : p \in Nat
    BY RivtdAssumption DEF Windows, PaneIds
  <2> QED BY <1>1, <2>1, <2>2
<1>3. Sound(Later(H))
  BY <1>1, <1>2 DEF Sound, Later
<1>4. Grows(Registry(H), Later(H))
  BY <1>1 DEF Grows, Registry, Later
<1> QED BY <1>3, <1>4

LEMMA OpensPane ==
  ASSUME NoWrap, RivtdTypeOK, NEW H, Sound(Registry(H)), spawned < MaxSpawn,
         spawned' = spawned + 1, NEW V \in SUBSET wins, NEW v \in Windows,
         wins' = (wins \ V) \cup {v},
         \A w \in V : w.id = v.id /\ w.sid = v.sid,
         \A p \in v.panes : p = NextPane \/ \E w \in V : p \in w.panes,
         \A w \in wins \ V : w.id # v.id,
         v.id < next_wid', next_wid' \in Nat, next_wid <= next_wid',
         v.id < next_wid => V # {}
  PROVE  /\ Sound(Later([H EXCEPT ![NextPane] = v.id]))
         /\ Grows(Registry(H), Later([H EXCEPT ![NextPane] = v.id]))
<1> DEFINE J == [H EXCEPT ![NextPane] = v.id]
<1>1. /\ next_wid \in Nat /\ spawned \in Nat /\ H \in [PaneIds -> Nat] /\ wins \subseteq Windows
      /\ \A w \in wins : w.id < next_wid /\ \A p \in w.panes : p <= spawned /\ H[p] = w.id
      /\ \A x, w \in wins : x.id = w.id => x = w
  BY DEF Sound, Registry
<1>2. NextPane = spawned + 1 /\ NextPane \in PaneIds
  BY <1>1, NextIsFresh, NextPaneType
<1>3. v.id \in Nat
  BY DEF Windows
<1>4. J \in [PaneIds -> Nat] /\ J[NextPane] = v.id
  BY <1>1, <1>2, <1>3
<1>5. ASSUME NEW p \in PaneIds, p <= spawned PROVE J[p] = H[p]
  <2>1. p # NextPane
    BY <1>1, <1>2, <1>5, RivtdAssumption DEF PaneIds
  <2> QED BY <1>1, <2>1
<1> HIDE DEF J
<1>6. ASSUME NEW w \in wins
      PROVE  w.id < next_wid' /\ \A p \in w.panes : p <= spawned' /\ J[p] = w.id
  <2>1. \A p \in w.panes : p \in PaneIds /\ p \in Nat
    BY <1>1, RivtdAssumption DEF Windows, PaneIds
  <2>2. w.id \in Nat
    BY <1>1 DEF Windows
  <2> QED BY <1>1, <1>5, <2>1, <2>2
<1>7. v.id < next_wid' /\ \A p \in v.panes : p <= spawned' /\ J[p] = v.id
  BY <1>1, <1>2, <1>4, <1>6
<1>8. \A x, w \in wins' : x.id = w.id => x = w
  BY <1>1
<1>9. wins' \subseteq Windows /\ spawned' \in Nat
  BY <1>1
<1>10. \A w \in wins' : w.id < next_wid' /\ \A p \in w.panes : p <= spawned' /\ J[p] = w.id
  BY <1>6, <1>7
<1>11. Sound(Later(J))
  BY <1>4, <1>8, <1>9, <1>10 DEF Sound, Later
<1>12. \A w \in wins' : w.id < next_wid => \E x \in wins : x.id = w.id /\ x.sid = w.sid
  <2>1. v.id < next_wid => \E x \in wins : x.id = v.id /\ x.sid = v.sid
    OBVIOUS
  <2> QED BY <2>1
<1>13. Grows(Registry(H), Later(J))
  BY <1>1, <1>5, <1>12 DEF Grows, Registry, Later
<1> QED BY <1>11, <1>13 DEF J

\* Nothing is sent.
LEMMA QuietCarried ==
  ASSUME OutTypes, NEW H, Sound(Registry(H)), UNCHANGED <<sessions, wins, next_wid, out>>,
         spawned' \in Nat, spawned <= spawned',
         \A k \in Conns : conn'[k] = "unused" => conn[k] = "unused",
         \A k \in Conns : conn[k] # "unused" =>
            /\ peer'[k] = peer[k] /\ conn'[k] # "unused"
            /\ conn'[k] = "new" => conn[k] = "new"
            /\ conn'[k] = "open" => conn[k] = "open" /\ attached'[k] = attached[k]
  PROVE  Carried(H)
<1> DEFINE R == Registry(H)
           Q == Later(H)
<1>1. /\ wins \subseteq Windows /\ \A v, w \in wins : v.id = w.id => v = w
  BY DEF Sound, Registry
<1>2. Sound(Q) /\ Grows(R, Q)
  BY <1>1, Shrinks
<1>3. \A a : Same(a, R, Q)
  BY DEF Same, Registry, Later
<1>4. Silence \in [Conns -> Seq(Messages)] /\ \A k \in Conns : Silence[k] = <<>>
  BY DEF Silence
<1>5. \A k \in Conns : out'[k] = out[k] \o Silence[k]
  BY <1>4, ConcatEmptySeq DEF OutTypes
<1> HIDE DEF R, Q
<1>6. ASSUME NEW k \in Conns, conn[k] # "unused", NEW d, Fits(d, R),
             Fine(conn[k], attached[k], d, R)
      PROVE  Leads(d, <<>>, d, Q) /\ Fine(conn'[k], attached'[k], d, Q)
  BY <1>2, <1>3, <1>6, Unaffected DEF R
<1>7. Delivers(H, H, Silence)
  BY <1>2, <1>4, <1>5, <1>6 DEF Delivers, R, Q
<1> QED BY <1>7 DEF Carried

\* One connection is answered.
LEMMA ReplyCarried ==
  ASSUME RivtdTypeOK, OutTypes, NEW H, NEW J, Sound(Registry(H)), Sound(Later(J)),
         Grows(Registry(H), Later(J)), NEW k \in Conns, NEW q \in Seq(Messages),
         Transmit(Reply(k, q)), conn[k] \in {"new", "open"}, conn' = [conn EXCEPT ![k] = "open"],
         \A j \in Conns \ {k} : /\ attached'[j] = attached[j]
                                /\ conn[j] = "open" => Same(attached[j], Registry(H), Later(J)),
         \A d : Fits(d, Registry(H)) /\ Fine(conn[k], attached[k], d, Registry(H)) =>
            \E e : Leads(d, q, e, Later(J)) /\ Agrees(e, attached'[k], Later(J))
  PROVE  Carried(H)
<1> DEFINE R == Registry(H)
           Q == Later(J)
           msgs == Reply(k, q)
<1>1. msgs \in [Conns -> Seq(Messages)]
  BY ReplyTypes
<1>2. msgs[k] = q /\ \A j \in Conns \ {k} : msgs[j] = <<>>
  BY DEF Reply
<1>3. /\ conn'[k] = "open" /\ \A j \in Conns \ {k} : conn'[j] = conn[j]
      /\ \A j \in Conns : conn[j] # "unused" => conn'[j] # "unused"
      /\ \A j \in Conns : conn'[j] = "unused" => conn[j] = "unused" /\ j # k
  BY DEF RivtdTypeOK
<1>4. \A j \in Conns \ {k} : out[j] = <<>> => out'[j] = <<>>
  BY <1>2, ConcatEmptySeq DEF Transmit, OutTypes
<1>5. \A j \in Conns : peer[j] => peer'[j] /\ out'[j] = out[j] \o msgs[j]
  BY DEF Transmit
<1> HIDE DEF R, Q, msgs
<1>6. ASSUME NEW j \in Conns, NEW d, Fits(d, R), Fine(conn[j], attached[j], d, R)
      PROVE  \E e : Leads(d, msgs[j], e, Q) /\ Fine(conn'[j], attached'[j], e, Q)
  <2>1. CASE j = k
    <3>1. PICK e : Leads(d, q, e, Q) /\ Agrees(e, attached'[k], Q)
      BY <1>6, <2>1 DEF R, Q
    <3> QED BY <1>2, <1>3, <2>1, <3>1 DEF Fine
  <2>2. CASE j # k
    <3>1. /\ conn'[j] = conn[j] /\ attached'[j] = attached[j]
          /\ conn[j] = "open" => Same(attached[j], R, Q)
      BY <1>3, <2>2 DEF R, Q
    <3>2. Leads(d, <<>>, d, Q) /\ Fine(conn'[j], attached'[j], d, Q)
      BY <1>6, <3>1, Unaffected DEF R, Q
    <3> QED BY <1>2, <2>2, <3>2
  <2> QED BY <2>1, <2>2
<1>7. Delivers(H, J, msgs)
  BY <1>1, <1>3, <1>4, <1>5, <1>6 DEF Delivers, R, Q
<1> QED BY <1>7 DEF Carried

\* Everyone attached to a session is told.
LEMMA BroadcastCarried ==
  ASSUME RivtdTypeOK, OutTypes, NEW H, NEW J, Sound(Registry(H)), Sound(Later(J)),
         Grows(Registry(H), Later(J)), NEW sid, NEW q \in Seq(Messages),
         Transmit(Broadcast(sid, q)), conn' = conn,
         \A k \in Conns : ~Hears(k, sid) => attached'[k] = attached[k],
         \A a : a # sid => Same(a, Registry(H), Later(J)),
         \A k \in Conns : Hears(k, sid) =>
            \A d : Fits(d, Registry(H)) /\ Agrees(d, sid, Registry(H)) =>
               \E e : Leads(d, q, e, Later(J)) /\ Agrees(e, attached'[k], Later(J))
  PROVE  Carried(H)
<1> DEFINE R == Registry(H)
           Q == Later(J)
           msgs == Broadcast(sid, q)
<1>1. msgs \in [Conns -> Seq(Messages)]
  BY BroadcastTypes
<1>2. \A k \in Conns : msgs[k] = IF Hears(k, sid) THEN q ELSE <<>>
  BY DEF Broadcast
<1>3. \A k \in Conns : conn'[k] = "unused" =>
         conn[k] = "unused" /\ (out[k] = <<>> => out'[k] = <<>>)
  BY <1>2, ConcatEmptySeq DEF Transmit, OutTypes, Hears
<1>4. \A k \in Conns : peer[k] => peer'[k] /\ out'[k] = out[k] \o msgs[k]
  BY DEF Transmit
<1> HIDE DEF R, Q, msgs
<1>5. ASSUME NEW k \in Conns, NEW d, Fits(d, R), Fine(conn[k], attached[k], d, R)
      PROVE  \E e : Leads(d, msgs[k], e, Q) /\ Fine(conn'[k], attached'[k], e, Q)
  <2>1. CASE Hears(k, sid)
    <3>1. conn[k] = "open" /\ attached[k] = sid
      BY <2>1 DEF Hears
    <3>2. Agrees(d, sid, R)
      BY <1>5, <3>1 DEF Fine
    <3>3. PICK e : Leads(d, q, e, Q) /\ Agrees(e, attached'[k], Q)
      BY <1>5, <2>1, <3>2 DEF R, Q
    <3> QED BY <1>2, <2>1, <3>1, <3>3 DEF Fine
  <2>2. CASE ~Hears(k, sid)
    <3>1. attached'[k] = attached[k] /\ (conn[k] = "open" => Same(attached[k], R, Q))
      BY <2>2 DEF R, Q, Hears
    <3>2. Leads(d, <<>>, d, Q) /\ Fine(conn'[k], attached'[k], d, Q)
      BY <1>5, <3>1, Unaffected DEF R, Q
    <3> QED BY <1>2, <2>2, <3>2
  <2> QED BY <2>1, <2>2
<1>6. Delivers(H, J, msgs)
  BY <1>1, <1>3, <1>4, <1>5 DEF Delivers, R, Q
<1> QED BY <1>6 DEF Carried

-----------------------------------------------------------------------------
(* The daemon's steps, one by one.                                         *)

RegistryOK == NoWrap /\ RivtdTypeOK /\ LiveInv /\ ExactInv /\ Numbered /\ OutTypes

\* Connections come and go, shells die, the daemon is upgraded: no message.
LEMMA QuietSteps ==
  ASSUME RegistryOK, NEW H, Sound(Registry(H)),
         \/ UNCHANGED rivtdVars
         \/ \E k \in Conns : Accept(k, TRUE) \/ Kill(k)
         \/ \E pid : PaneDies(pid)
         \/ BeginSweep \/ SweepClients \/ UpgradeDaemon
  PROVE  Carried(H)
<1> USE DEF rivtdVars, serverVars, regVars, idVars, connVars
<1>1. /\ UNCHANGED <<sessions, wins, next_wid, out, spawned>>
      /\ \A k \in Conns : conn'[k] = "unused" => conn[k] = "unused"
      /\ \A k \in Conns : conn[k] # "unused" =>
            /\ peer'[k] = peer[k] /\ conn'[k] # "unused"
            /\ conn'[k] = "new" => conn[k] = "new"
            /\ conn'[k] = "open" => conn[k] = "open" /\ attached'[k] = attached[k]
  <2>1. CASE UNCHANGED rivtdVars \/ BeginSweep \/ \E pid : PaneDies(pid)
    BY <2>1 DEF BeginSweep, PaneDies
  <2>2. ASSUME NEW k \in Conns, Accept(k, TRUE) \/ Kill(k)
        PROVE  /\ UNCHANGED <<sessions, wins, next_wid, out, spawned>>
               /\ \A j \in Conns : conn'[j] = "unused" => conn[j] = "unused"
               /\ \A j \in Conns : conn[j] # "unused" =>
                     /\ peer'[j] = peer[j] /\ conn'[j] # "unused"
                     /\ conn'[j] = "new" => conn[j] = "new"
                     /\ conn'[j] = "open" => conn[j] = "open" /\ attached'[j] = attached[j]
    BY <2>2 DEF Accept, Kill, RegistryOK, RivtdTypeOK
  <2>3. CASE SweepClients \/ UpgradeDaemon
    BY <2>3 DEF SweepClients, UpgradeDaemon, Dying
  <2> QED BY <2>1, <2>2, <2>3
<1>2. spawned \in Nat
  BY DEF RegistryOK, RivtdTypeOK
<1> QED BY <1>1, <1>2, QuietCarried DEF RegistryOK

\* The registry is what it was, but for a pane id that was drawn in vain.
LEMMA StaysSame ==
  ASSUME NEW H, Sound(Registry(H)), UNCHANGED <<sessions, wins, next_wid>>,
         spawned' \in Nat, spawned <= spawned'
  PROVE  /\ Sound(Later(H)) /\ Grows(Registry(H), Later(H))
         /\ \A a : Same(a, Registry(H), Later(H))
<1>1. /\ wins \subseteq Windows /\ \A v, w \in wins : v.id = w.id => v = w
  BY DEF Sound, Registry
<1>2. Sound(Later(H)) /\ Grows(Registry(H), Later(H))
  BY <1>1, Shrinks
<1> QED BY <1>2 DEF Same, Registry, Later

\* An answer that changes nothing but the connection it is for.
LEMMA AnswerCarried ==
  ASSUME RegistryOK, NEW H, NEW J, Sound(Registry(H)), Sound(Later(J)),
         Grows(Registry(H), Later(J)), NEW k \in Conns, NEW m \in Messages,
         Transmit(Reply(k, <<m>>)), conn[k] \in {"new", "open"},
         conn' = [conn EXCEPT ![k] = "open"], attached' = attached,
         \A a : Same(a, Registry(H), Later(J)),
         m = HelloOk \/ m = Error \/ (\E s, p : m = SessionCreated(s, p))
           \/ \E S : m = SessionList(S)
  PROVE  Carried(H)
<1> DEFINE R == Registry(H)
           Q == Later(J)
<1>1. <<m>> \in Seq(Messages)
  OBVIOUS
<1> HIDE DEF R, Q
<1>2. ASSUME NEW d, Fits(d, R), Fine(conn[k], attached[k], d, R)
      PROVE  \E e : Leads(d, <<m>>, e, Q) /\ Agrees(e, attached[k], Q)
  BY <1>2, Answered DEF R, Q
<1> QED BY <1>1, <1>2, ReplyCarried DEF R, Q, RegistryOK

LEMMA HelloCarried ==
  ASSUME RegistryOK, NEW H, Sound(Registry(H)), NEW k \in Conns, HandleHello(k)
  PROVE  Carried(H)
<1>1. spawned \in Nat /\ UNCHANGED <<sessions, wins, next_wid, spawned>>
  BY DEF HandleHello, regVars, idVars, RegistryOK, RivtdTypeOK
<1>2. /\ Sound(Later(H)) /\ Grows(Registry(H), Later(H))
      /\ \A a : Same(a, Registry(H), Later(H))
  BY <1>1, StaysSame
<1> QED BY <1>2, AnswerCarried, MessageTypes DEF HandleHello

LEMMA ListCarried ==
  ASSUME RegistryOK, NEW H, Sound(Registry(H)), NEW k \in Conns, HandleListSessions(k)
  PROVE  Carried(H)
<1>1. spawned \in Nat /\ UNCHANGED <<sessions, wins, next_wid, spawned>>
  BY DEF HandleListSessions, regVars, idVars, RegistryOK, RivtdTypeOK
<1>2. /\ Sound(Later(H)) /\ Grows(Registry(H), Later(H))
      /\ \A a : Same(a, Registry(H), Later(H))
  BY <1>1, StaysSame
<1>3. SessionList(sessions) \in Messages
  BY MessageTypes DEF RegistryOK, RivtdTypeOK
<1>4. conn' = [conn EXCEPT ![k] = "open"] /\ conn[k] = "open" /\ attached' = attached
  BY DEF HandleListSessions, Live, connVars, RegistryOK, RivtdTypeOK
<1> QED BY <1>2, <1>3, <1>4, AnswerCarried DEF HandleListSessions

LEMMA CreateCarried ==
  ASSUME RegistryOK, NEW H, Sound(Registry(H)), NEW k \in Conns, HandleCreateSession(k)
  PROVE  Carried(H)
<1>1. conn' = [conn EXCEPT ![k] = "open"] /\ conn[k] = "open" /\ attached' = attached
  BY DEF HandleCreateSession, Live, connVars, RegistryOK, RivtdTypeOK
<1>2. spawned \in Nat /\ next_wid \in Nat /\ next_sid \in Nat /\ spawned < MaxSpawn
      /\ RivtdTypeOK /\ NoWrap
  BY DEF HandleCreateSession, RegistryOK, RivtdTypeOK
<1>3. NextPane = spawned + 1 /\ NextPane \in PaneIds /\ NextPane # 0
  BY <1>2, NextIsFresh, NextPaneType
<1>4. CASE /\ spawned' = spawned + 1 /\ UNCHANGED <<sessions, wins, next_wid>>
           /\ Transmit(Reply(k, <<SessionCreated(0, 0)>>))
  <2>1. /\ Sound(Later(H)) /\ Grows(Registry(H), Later(H))
        /\ \A a : Same(a, Registry(H), Later(H))
    BY <1>2, <1>4, StaysSame
  <2>2. SessionCreated(0, 0) \in Messages
    BY MessageTypes, RivtdAssumption DEF PaneIds
  <2> QED BY <1>1, <1>4, <2>1, <2>2, AnswerCarried
<1>5. CASE /\ AddWindow(next_sid, TRUE) /\ sessions' = sessions \cup {next_sid}
           /\ Transmit(Reply(k, <<SessionCreated(next_sid, NextPane)>>))
  <2> DEFINE v == [id |-> next_wid, sid |-> next_sid, panes |-> {NextPane}]
             J == [H EXCEPT ![NextPane] = v.id]
  <2>1. /\ wins' = wins \cup {v} /\ next_wid' = next_wid + 1 /\ spawned' = spawned + 1
    BY <1>5 DEF AddWindow
  <2>2. v \in Windows /\ v.id = next_wid /\ v.sid = next_sid /\ v.panes = {NextPane}
    BY <1>2, <1>3 DEF Windows
  <2>3. \A w \in wins : w.id # v.id
    BY <1>2, <2>2 DEF RegistryOK, Numbered, RivtdTypeOK, Windows
  <2> HIDE DEF v
  <2>4. Sound(Later(J)) /\ Grows(Registry(H), Later(J))
    <3> DEFINE V == {}
    <3>1. /\ V \in SUBSET wins /\ wins' = (wins \ V) \cup {v}
          /\ \A p \in v.panes : p = NextPane \/ \E w \in V : p \in w.panes
          /\ v.id < next_wid' /\ next_wid' \in Nat /\ next_wid <= next_wid' /\ ~(v.id < next_wid)
          /\ \A w \in V : w.id = v.id /\ w.sid = v.sid
          /\ \A w \in wins \ V : w.id # v.id
      BY <1>2, <2>1, <2>2, <2>3
    <3> HIDE DEF V
    <3> QED BY <1>2, <2>1, <2>2, <3>1, OpensPane
  <2>5. \A a : Same(a, Registry(H), Later(J))
    <3>1. next_sid \notin sessions
      BY <1>2 DEF RegistryOK, Numbered
    <3> QED BY <1>5, <2>1, <2>2, <3>1 DEF Same, Registry, Later
  <2>6. SessionCreated(next_sid, NextPane) \in Messages
    BY <1>2, <1>3, MessageTypes
  <2> HIDE DEF J
  <2> QED BY <1>1, <1>5, <2>4, <2>5, <2>6, AnswerCarried
<1> QED BY <1>3, <1>4, <1>5 DEF HandleCreateSession

LEMMA AttachCarried ==
  ASSUME RegistryOK, NEW H, Sound(Registry(H)), NEW k \in Conns, NEW sid, HandleAttach(k, sid)
  PROVE  Carried(H)
<1> DEFINE R == Registry(H)
           Q == Later(H)
<1>1. spawned \in Nat /\ UNCHANGED <<sessions, wins, next_wid, spawned>>
  BY DEF HandleAttach, regVars, idVars, RegistryOK, RivtdTypeOK
<1>2. Sound(Q) /\ Grows(R, Q) /\ \A a : Same(a, R, Q)
  BY <1>1, StaysSame
<1>3. conn' = [conn EXCEPT ![k] = "open"] /\ conn[k] = "open"
  BY DEF HandleAttach, Live, RegistryOK, RivtdTypeOK
<1>4. CASE sid \notin sessions
  <2>1. Error \in Messages /\ Transmit(Reply(k, <<Error>>)) /\ attached' = attached
    BY <1>4, MessageTypes DEF HandleAttach
  <2> QED BY <1>2, <1>3, <2>1, AnswerCarried
<1>5. CASE sid \in sessions
  <2> DEFINE n == Cardinality(SessionWins(sid))
             f == [i \in 1..n |-> Nth(sid, i)]
             A == Announce(sid)
             m == AttachOk(sid)
  <2>1. /\ attached' = [attached EXCEPT ![k] = sid]
        /\ Transmit(Reply(k, <<m>> \o A))
    BY <1>5 DEF HandleAttach
  <2>2. /\ A \in Seq(Messages) /\ Len(A) = 2 * n /\ n \in Nat
        /\ \A j \in 1..n : A[2 * j - 1] = WindowAdded(Nth(sid, j)) /\ A[2 * j] = Layout(Nth(sid, j))
    BY AnnounceTypes DEF RegistryOK, Numbered
  <2>3. m \in Messages /\ m.t = "AttachOk" /\ m.sid = sid
    BY <1>5, MessageTypes DEF AttachOk, RegistryOK, RivtdTypeOK
  <2>4. <<m>> \in Seq(Messages) /\ <<m>> \o A \in Seq(Messages)
    BY <2>2, <2>3, ConcatProperties
  <2>5. Lists(f, n, sid, Q) /\ sid \in Q.sessions
    <3>1. \A w \in wins : w.id \in Nat
      BY DEF RegistryOK, RivtdTypeOK, Windows
    <3>2. /\ \A i \in 1..n : Nth(sid, i) \in SessionWins(sid)
          /\ \A i, j \in 1..n : Nth(sid, i) = Nth(sid, j) => i = j
          /\ \A w \in SessionWins(sid) : \E i \in 1..n : Nth(sid, i) = w
      BY <3>1, NthLists DEF RegistryOK, Numbered
    <3> HIDE DEF n
    <3>3. /\ \A i \in 1..n : f[i] \in SessionWins(sid)
          /\ \A i, j \in 1..n : f[i] = f[j] => i = j
          /\ \A w \in SessionWins(sid) : \E i \in 1..n : f[i] = w
      BY <3>2
    <3> HIDE DEF f
    <3> QED BY <1>1, <1>5, <2>2, <3>3 DEF Lists, Later, SessionWins
  <2>6. \A j \in 1..n : A[2 * j - 1] = WindowAdded(f[j]) /\ A[2 * j] = Layout(f[j])
    BY <2>2
  <2> HIDE DEF n, f, A, m, R, Q
  <2>7. ASSUME NEW d, Fits(d, R), Fine(conn[k], attached[k], d, R)
        PROVE  \E e : Leads(d, <<m>> \o A, e, Q) /\ Agrees(e, sid, Q)
    <3>1. Fits(d, Q)
      BY <1>2, <2>7, FitsGrows DEF R
    <3>2. CASE d.mode = "exited"
      BY <2>4, <3>1, <3>2, LeadsGone DEF Agrees, AgreesBut
    <3>3. CASE d.mode # "exited"
      <4> DEFINE c == Effect(d, m)
      <4>1. c = View("active", sid, d.wins, d.panes, TRUE, {})
        BY <2>3, <3>3 DEF Effect
      <4>2. c.mode = "active" /\ c.sess = sid /\ c.wins = d.wins /\ c.panes = d.panes
        BY <4>1 DEF View
      <4>3. Fits(c, Q) /\ Spares(d, c, Q) /\ c = View("active", c.sess, c.wins, c.panes, TRUE, {})
        BY <3>1, <4>1, <4>2 DEF Fits, Spares
      <4>4. Leads(d, <<m>>, c, Q)
        BY <3>1, <4>3, LeadsOne
      <4> HIDE DEF c
      <4>5. PICK e : Leads(c, A, e, Q) /\ Agrees(e, sid, Q)
        BY <1>2, <2>2, <2>5, <2>6, <4>2, <4>3, AnnounceRead
      <4>6. Leads(d, <<m>> \o A, e, Q)
        BY <2>2, <2>4, <4>4, <4>5, LeadsConcat
      <4> QED BY <4>5, <4>6
    <3> QED BY <3>2, <3>3
  <2>8. /\ attached'[k] = sid
        /\ \A j \in Conns \ {k} : attached'[j] = attached[j]
    BY <2>1 DEF RegistryOK, RivtdTypeOK
  <2>9. \A j \in Conns \ {k} : /\ attached'[j] = attached[j]
                               /\ conn[j] = "open" => Same(attached[j], R, Q)
    BY <1>2, <2>8
  <2>10. \A d : Fits(d, R) /\ Fine(conn[k], attached[k], d, R) =>
            \E e : Leads(d, <<m>> \o A, e, Q) /\ Agrees(e, attached'[k], Q)
    BY <2>7, <2>8
  <2>11. RivtdTypeOK /\ OutTypes /\ Sound(Registry(H)) /\ conn[k] \in {"new", "open"}
    BY <1>3 DEF RegistryOK
  <2> QED BY <1>2, <1>3, <2>1, <2>4, <2>9, <2>10, <2>11, ReplyCarried DEF R, Q
<1> QED BY <1>4, <1>5

LEMMA NewWindowCarried ==
  ASSUME RegistryOK, NEW H, Sound(Registry(H)), NEW k \in Conns, HandleNewWindow(k)
  PROVE  Carried(H)
<1> DEFINE a == attached[k]
<1>1. conn' = conn /\ attached' = attached /\ sessions' = sessions /\ a \in sessions /\ a \in Nat
  BY DEF HandleNewWindow, connVars, RegistryOK, RivtdTypeOK
<1>2. spawned \in Nat /\ next_wid \in Nat /\ spawned < MaxSpawn /\ RivtdTypeOK /\ NoWrap /\ OutTypes
      /\ UNCHANGED <<peer>>
  BY DEF HandleNewWindow, RegistryOK, RivtdTypeOK, Transmit
<1>3. NextPane = spawned + 1 /\ NextPane \in PaneIds
  BY <1>2, NextIsFresh, NextPaneType
<1>4. CASE spawned' = spawned + 1 /\ UNCHANGED <<wins, next_wid, out>>
  BY <1>1, <1>2, <1>4, QuietCarried
<1> DEFINE v == [id |-> next_wid, sid |-> a, panes |-> {NextPane}]
           q == <<WindowAdded(v), Layout(v)>>
<1>5. CASE AddWindow(a, TRUE) /\ Transmit(Broadcast(a, q))
  <2> DEFINE J == [H EXCEPT ![NextPane] = v.id]
             R == Registry(H)
             Q == Later(J)
  <2>1. /\ wins' = wins \cup {v} /\ next_wid' = next_wid + 1 /\ spawned' = spawned + 1
    BY <1>5 DEF AddWindow
  <2>2. v \in Windows /\ v.id = next_wid /\ v.sid = a /\ v.panes = {NextPane}
    BY <1>1, <1>2, <1>3 DEF Windows
  <2>3. \A w \in wins : w.id # v.id
    BY <1>2, <2>2 DEF RegistryOK, Numbered, RivtdTypeOK, Windows
  <2>4. WindowAdded(v) \in Messages /\ Layout(v) \in Messages
    BY <2>2, MessageTypes
  <2> HIDE DEF v, a
  <2>5. Sound(Q) /\ Grows(R, Q)
    <3> DEFINE V == {}
    <3>1. /\ V \in SUBSET wins /\ wins' = (wins \ V) \cup {v}
          /\ \A p \in v.panes : p = NextPane \/ \E w \in V : p \in w.panes
          /\ v.id < next_wid' /\ next_wid' \in Nat /\ next_wid <= next_wid' /\ ~(v.id < next_wid)
          /\ \A w \in V : w.id = v.id /\ w.sid = v.sid
          /\ \A w \in wins \ V : w.id # v.id
      BY <1>2, <2>1, <2>2, <2>3
    <3> HIDE DEF V
    <3> QED BY <1>2, <2>1, <2>2, <3>1, OpensPane
  <2>6. \A b : b # a => Same(b, R, Q)
    BY <1>1, <2>1, <2>2 DEF Same, Registry, Later
  <2>7. Q.wins = R.wins \cup {v} /\ Q.sessions = R.sessions \cup {v.sid} /\ v \in Q.wins
    BY <1>1, <2>1, <2>2 DEF Registry, Later
  <2> HIDE DEF J, R, Q
  <2>8. ASSUME NEW d, Fits(d, R), Agrees(d, a, R)
        PROVE  \E e : Leads(d, q, e, Q) /\ Agrees(e, a, Q)
    <3> DEFINE d1 == Effect(d, WindowAdded(v))
    <3>1. Fits(d1, Q) /\ Spares(d, d1, Q) /\ AgreesBut(d1, a, Q, {v.id})
      BY <2>2, <2>5, <2>7, <2>8, AddedRead DEF R
    <3>2. Fits(d, Q)
      BY <2>5, <2>8, FitsGrows DEF R
    <3>3. Leads(d, <<WindowAdded(v)>>, d1, Q)
      BY <3>1, <3>2, LeadsOne
    <3> HIDE DEF d1
    <3>4. /\ Fits(Effect(d1, Layout(v)), Q) /\ Spares(d1, Effect(d1, Layout(v)), Q)
          /\ Agrees(Effect(d1, Layout(v)), a, Q)
      BY <2>2, <2>5, <2>7, <3>1, LayoutRead
    <3>5. <<WindowAdded(v)>> \in Seq(Messages) /\ <<WindowAdded(v)>> \o <<Layout(v)>> = q
      BY <2>4, Pairs
    <3>6. Leads(d, <<WindowAdded(v)>> \o <<Layout(v)>>, Effect(d1, Layout(v)), Q)
      BY <2>4, <3>3, <3>4, <3>5, LeadsTwo
    <3> QED BY <3>4, <3>5, <3>6
  <2>9. q \in Seq(Messages)
    BY <2>4
  <2>10. \A j \in Conns : Hears(j, a) => attached'[j] = a
    BY <1>1 DEF Hears
  <2> HIDE DEF q
  <2>11. \A j \in Conns : Hears(j, a) =>
           \A d : Fits(d, R) /\ Agrees(d, a, R) => \E e : Leads(d, q, e, Q) /\ Agrees(e, attached'[j], Q)
    BY <2>8, <2>10
  <2> QED BY <1>1, <1>2, <1>5, <2>5, <2>6, <2>9, <2>11, BroadcastCarried DEF R, Q
<1> QED BY <1>4, <1>5 DEF HandleNewWindow

\* One window of a session gets new panes or loses some: the others are the same.
LEMMA OthersSame ==
  ASSUME NEW H, NEW J, sessions' = sessions, NEW w \in wins, NEW v, v.sid = w.sid,
         wins' = (wins \ {w}) \cup {v}
  PROVE  \A b : b # w.sid => Same(b, Registry(H), Later(J))
BY DEF Same, Registry, Later

LEMMA SplitCarried ==
  ASSUME RegistryOK, NEW H, Sound(Registry(H)), NEW k \in Conns, NEW pid, HandleSplit(k, pid)
  PROVE  Carried(H)
<1>1. conn' = conn /\ attached' = attached /\ sessions' = sessions /\ next_wid' = next_wid
  BY DEF HandleSplit, connVars
<1>2. spawned \in Nat /\ next_wid \in Nat /\ spawned < MaxSpawn /\ spawned' = spawned + 1
      /\ RivtdTypeOK /\ NoWrap /\ OutTypes /\ UNCHANGED <<peer>>
  BY DEF HandleSplit, RegistryOK, RivtdTypeOK, Transmit
<1>3. NextPane = spawned + 1 /\ NextPane \in PaneIds
  BY <1>2, NextIsFresh, NextPaneType
<1>4. CASE UNCHANGED <<wins, out>>
  BY <1>1, <1>2, <1>4, QuietCarried
<1>5. ASSUME NEW w \in wins,
             wins' = (wins \ {w}) \cup {[w EXCEPT !.panes = @ \cup {NextPane}]},
             Transmit(Broadcast(w.sid, <<Layout([w EXCEPT !.panes = @ \cup {NextPane}])>>))
      PROVE  Carried(H)
  <2> DEFINE v == [w EXCEPT !.panes = @ \cup {NextPane}]
             J == [H EXCEPT ![NextPane] = v.id]
             R == Registry(H)
             Q == Later(J)
             a == w.sid
             q == <<Layout(v)>>
  <2>1. w \in Windows /\ w.id < next_wid /\ w.id \in Nat
    BY DEF RegistryOK, RivtdTypeOK, Numbered, Windows
  <2>2. v \in Windows /\ v.id = w.id /\ v.sid = w.sid /\ v.panes = w.panes \cup {NextPane}
    BY <1>3, <2>1 DEF Windows
  <2>3. Layout(v) \in Messages
    BY <2>2, MessageTypes
  <2>4. wins' = (wins \ {w}) \cup {v} /\ Transmit(Broadcast(w.sid, <<Layout(v)>>))
    BY <1>5
  <2>5. \A x \in wins \ {w} : x.id # w.id
    BY DEF RegistryOK, Numbered
  <2> HIDE DEF v
  <2>6. Sound(Q) /\ Grows(R, Q)
    <3> DEFINE V == {w}
    <3>1. /\ V \in SUBSET wins /\ wins' = (wins \ V) \cup {v}
          /\ \A p \in v.panes : p = NextPane \/ \E x \in V : p \in x.panes
          /\ v.id < next_wid' /\ next_wid' \in Nat /\ next_wid <= next_wid' /\ V # {}
          /\ \A x \in V : x.id = v.id /\ x.sid = v.sid
          /\ \A x \in wins \ V : x.id # v.id
      BY <1>1, <1>2, <2>1, <2>2, <2>4, <2>5
    <3> HIDE DEF V
    <3> QED BY <1>2, <2>2, <3>1, OpensPane
  <2>7. \A b : b # a => Same(b, R, Q)
    BY <1>1, <2>2, <2>4, OthersSame
  <2>8. /\ Q.wins = (R.wins \ {w}) \cup {v} /\ Q.sessions = R.sessions /\ v \in Q.wins /\ w \in R.wins
        /\ Sound(R)
    BY <1>1, <2>4 DEF Registry, Later
  <2> HIDE DEF J, R, Q
  <2>9. ASSUME NEW d, Fits(d, R), Agrees(d, a, R)
        PROVE  \E e : Leads(d, q, e, Q) /\ Agrees(e, a, Q)
    <3>1. Fits(d, Q)
      BY <2>6, <2>8, <2>9, FitsGrows
    <3>2. \A p \in w.panes : Q.home[p] = v.id
      BY <2>2, <2>6, <2>8 DEF Sound
    <3>3. /\ AgreesBut(d, a, R, {w.id})
          /\ d.mode = "active" => \A p \in PaneIds : p \in ShownPanes(d) <=> p \in PanesIn(R, a)
      BY <2>9 DEF Agrees, AgreesBut
    <3>4. AgreesBut(d, a, Q, {v.id})
      BY <2>2, <2>6, <2>8, <3>2, <3>3, Swapped
    <3>5. /\ Fits(Effect(d, Layout(v)), Q) /\ Spares(d, Effect(d, Layout(v)), Q)
          /\ Agrees(Effect(d, Layout(v)), a, Q)
      BY <2>2, <2>6, <2>8, <3>1, <3>4, LayoutRead
    <3> QED BY <3>1, <3>5, LeadsOne
  <2>10. q \in Seq(Messages)
    BY <2>3
  <2>11. \A j \in Conns : Hears(j, a) => attached'[j] = a
    BY <1>1 DEF Hears
  <2>12. Transmit(Broadcast(a, q))
    BY <2>4
  <2> HIDE DEF q, a
  <2>13. \A j \in Conns : Hears(j, a) =>
           \A d : Fits(d, R) /\ Agrees(d, a, R) => \E e : Leads(d, q, e, Q) /\ Agrees(e, attached'[j], Q)
    BY <2>9, <2>11
  <2> QED BY <1>1, <1>2, <2>6, <2>7, <2>10, <2>12, <2>13, BroadcastCarried DEF R, Q
<1> QED BY <1>4, <1>5 DEF HandleSplit

\* What comes before a window is closed: nothing, or its last pane exits.
LEMMA BeforeClosed ==
  ASSUME NEW R, NEW Q, Sound(R), Sound(Q), Grows(R, Q), NEW w \in R.wins, NEW a, w.sid = a,
         NEW q, q = <<>> \/ (\E p \in w.panes : q = <<PaneExited(p)>>),
         NEW d, Fits(d, R), Agrees(d, a, R)
  PROVE  \E e : Leads(d, q, e, Q) /\ Fits(e, R) /\ Fits(e, Q) /\ AgreesBut(e, a, R, {w.id})
<1>1. Fits(d, Q)
  BY FitsGrows
<1>2. CASE q = <<>>
  <2>1. AgreesBut(d, a, R, {w.id})
    BY DEF Agrees, AgreesBut
  <2> QED BY <1>1, <1>2, <2>1, LeadsNowhere
<1>3. ASSUME NEW p \in w.panes, q = <<PaneExited(p)>>
      PROVE  \E e : Leads(d, q, e, Q) /\ Fits(e, R) /\ Fits(e, Q) /\ AgreesBut(e, a, R, {w.id})
  <2> DEFINE e == Effect(d, PaneExited(p))
  <2>1. p \in PaneIds /\ R.home[p] = w.id
    BY DEF Sound, Windows
  <2>2. Fits(e, R) /\ Spares(d, e, Q) /\ AgreesBut(e, a, R, {R.home[p]})
    BY <2>1, ExitedRead
  <2>3. Fits(e, Q)
    BY <2>2, FitsGrows
  <2>4. Leads(d, <<PaneExited(p)>>, e, Q)
    BY <1>1, <2>2, <2>3, LeadsOne
  <2> HIDE DEF e
  <2> QED BY <1>3, <2>1, <2>2, <2>3, <2>4
<1> QED BY <1>2, <1>3

\* The end of a session, told to all its windows.
LEMMA CloseSessionCarried ==
  ASSUME RegistryOK, NEW H, Sound(Registry(H)), Sound(Later(H)), Grows(Registry(H), Later(H)),
         NEW sid \in Nat, NEW panes, NEW q \in Seq(Messages), CloseSession(sid, panes, q), conn' = conn,
         \A d : Fits(d, Registry(H)) /\ Agrees(d, sid, Registry(H)) =>
            \E e : Leads(d, q, e, Later(H)) /\ (e.mode = "active" => e.sess = sid)
  PROVE  Carried(H)
<1> DEFINE R == Registry(H)
           Q == Later(H)
           m == SessionClosed(sid)
<1>1. RivtdTypeOK /\ OutTypes
  BY DEF RegistryOK
<1>2. m \in Messages /\ q \o <<m>> \in Seq(Messages)
  BY MessageTypes
<1>3. /\ Transmit(Broadcast(sid, q \o <<m>>))
      /\ \A k \in Conns : ~Hears(k, sid) => attached'[k] = attached[k]
  BY DEF CloseSession
<1>4. \A a : a # sid => Same(a, R, Q)
  BY DEF CloseSession, Same, Registry, Later, SessionWins
<1> HIDE DEF R, Q, m
<1>5. ASSUME NEW d, Fits(d, R), Agrees(d, sid, R)
      PROVE  \E e : Leads(d, q \o <<m>>, e, Q) /\ e.mode # "active"
  <2>1. PICK e : Leads(d, q, e, Q) /\ (e.mode = "active" => e.sess = sid)
    BY <1>5 DEF R, Q
  <2>2. Fits(e, Q)
    BY <2>1, LeadsEnds
  <2>3. Fits(Effect(e, m), Q) /\ Spares(e, Effect(e, m), Q) /\ Effect(e, m).mode # "active"
    BY <2>1, <2>2, OverRead DEF m
  <2>4. Leads(d, q \o <<m>>, Effect(e, m), Q)
    BY <1>2, <2>1, <2>3, LeadsTwo
  <2> QED BY <2>3, <2>4
<1>6. \A k \in Conns : Hears(k, sid) =>
         \A d : Fits(d, R) /\ Agrees(d, sid, R) =>
            \E e : Leads(d, q \o <<m>>, e, Q) /\ Agrees(e, attached'[k], Q)
  BY <1>5 DEF Agrees, AgreesBut
<1> QED BY <1>1, <1>2, <1>3, <1>4, <1>6, BroadcastCarried DEF R, Q

LEMMA KillSessionCarried ==
  ASSUME RegistryOK, NEW H, Sound(Registry(H)), NEW k \in Conns, NEW sid, HandleKillSession(k, sid)
  PROVE  Carried(H)
<1>1. /\ conn' = conn /\ UNCHANGED <<next_wid, spawned>> /\ spawned \in Nat /\ sid \in Nat
      /\ CloseSession(sid, PanesOf(sid), <<>>) /\ wins' \subseteq wins /\ <<>> \in Seq(Messages)
  BY DEF HandleKillSession, CloseSession, idVars, RegistryOK, RivtdTypeOK
<1>2. /\ wins \subseteq Windows /\ \A v, w \in wins : v.id = w.id => v = w
  BY DEF RegistryOK, RivtdTypeOK, Numbered
<1>3. Sound(Later(H)) /\ Grows(Registry(H), Later(H))
  BY <1>1, <1>2, Shrinks
<1>4. ASSUME NEW d, Fits(d, Registry(H)), Agrees(d, sid, Registry(H))
      PROVE  Leads(d, <<>>, d, Later(H)) /\ (d.mode = "active" => d.sess = sid)
  BY <1>3, <1>4, FitsGrows, LeadsNowhere DEF Agrees, AgreesBut
<1> QED BY <1>1, <1>3, <1>4, CloseSessionCarried

LEMMA EndWindowCarried ==
  ASSUME RegistryOK, NEW H, Sound(Registry(H)), NEW w \in wins, NEW panes, NEW q,
         q = <<>> \/ (\E p \in w.panes : q = <<PaneExited(p)>>), EndWindow(w, panes, q),
         conn' = conn, UNCHANGED <<next_wid, spawned>>
  PROVE  Carried(H)
<1> DEFINE R == Registry(H)
           Q == Later(H)
           a == w.sid
           m == WindowClosed(w)
<1>1. /\ spawned \in Nat /\ RivtdTypeOK /\ OutTypes /\ wins \subseteq Windows
      /\ \A x, y \in wins : x.id = y.id => x = y
  BY DEF RegistryOK, RivtdTypeOK, Numbered
<1>2. w \in Windows /\ a \in Nat /\ w.panes \subseteq PaneIds
  BY <1>1 DEF Windows
<1>3. m \in Messages /\ q \in Seq(Messages) /\ q \o <<m>> \in Seq(Messages)
  <2>1. m \in Messages /\ \A p \in w.panes : PaneExited(p) \in Messages
    BY <1>2, MessageTypes
  <2>2. CASE q = <<>>
    BY <2>1, <2>2
  <2>3. ASSUME NEW p \in w.panes, q = <<PaneExited(p)>> PROVE q \in Seq(Messages)
    BY <2>1, <2>3
  <2>4. q \in Seq(Messages)
    BY <2>2, <2>3
  <2> QED BY <2>1, <2>4
<1>4. wins' \subseteq wins
  BY DEF EndWindow, CloseSession
<1>5. Sound(R) /\ Sound(Q) /\ Grows(R, Q) /\ w \in R.wins
  BY <1>1, <1>4, Shrinks DEF Registry
<1> HIDE DEF R, Q, m, a
<1>6. ASSUME NEW d, Fits(d, R), Agrees(d, a, R)
      PROVE  \E e : Leads(d, q, e, Q) /\ Fits(e, R) /\ Fits(e, Q) /\ AgreesBut(e, a, R, {w.id})
  BY <1>5, <1>6, BeforeClosed DEF a
<1>7. CASE CloseSession(a, panes, q \o <<m>>)
  <2>1. \A x \in Q.wins : x.sid # a
    BY <1>7 DEF CloseSession, SessionWins, Later, Q
  <2>2. ASSUME NEW d, Fits(d, R), Agrees(d, a, R)
        PROVE  \E e : Leads(d, q \o <<m>>, e, Q) /\ (e.mode = "active" => e.sess = a)
    <3>1. PICK c : Leads(d, q, c, Q) /\ Fits(c, Q) /\ AgreesBut(c, a, R, {w.id})
      BY <1>6, <2>2
    <3>2. c.mode = "active" => c.sess = a
      BY <3>1 DEF AgreesBut
    <3> DEFINE e == Effect(c, m)
    <3>3. Fits(e, Q) /\ Spares(c, e, Q) /\ e.mode = c.mode /\ e.sess = c.sess
      BY <2>1, <3>1, <3>2, ClosedFits DEF m
    <3>4. Leads(d, q \o <<m>>, e, Q)
      BY <1>3, <3>1, <3>3, LeadsTwo
    <3> HIDE DEF e
    <3> QED BY <3>2, <3>3, <3>4
  <2> QED BY <1>2, <1>3, <1>5, <1>7, <2>2, CloseSessionCarried DEF R, Q
<1>8. CASE /\ wins' = wins \ {w} /\ Transmit(Broadcast(a, q \o <<m>>))
           /\ UNCHANGED <<sessions, attached>>
  <2>1. Q.wins = R.wins \ {w} /\ Q.home = R.home /\ Q.sessions = R.sessions
    BY <1>8 DEF Registry, Later, R, Q
  <2>2. ASSUME NEW d, Fits(d, R), Agrees(d, a, R)
        PROVE  \E e : Leads(d, q \o <<m>>, e, Q) /\ Agrees(e, a, Q)
    <3>1. PICK c : Leads(d, q, c, Q) /\ Fits(c, R) /\ Fits(c, Q) /\ AgreesBut(c, a, R, {w.id})
      BY <1>6, <2>2
    <3> DEFINE e == Effect(c, m)
    <3>2. Fits(e, Q) /\ Spares(c, e, Q) /\ Agrees(e, a, Q)
      BY <1>5, <2>1, <3>1, ClosedRead DEF m, a
    <3>3. Leads(d, q \o <<m>>, e, Q)
      BY <1>3, <3>1, <3>2, LeadsTwo
    <3> HIDE DEF e
    <3> QED BY <3>2, <3>3
  <2>3. \A b : b # a => Same(b, R, Q)
    BY <2>1 DEF Same, a
  <2>4. \A k \in Conns : Hears(k, a) =>
           \A d : Fits(d, R) /\ Agrees(d, a, R) =>
              \E e : Leads(d, q \o <<m>>, e, Q) /\ Agrees(e, attached'[k], Q)
    BY <1>8, <2>2 DEF Hears
  <2>5. \A k \in Conns : ~Hears(k, a) => attached'[k] = attached[k]
    BY <1>8
  <2> QED BY <1>1, <1>3, <1>5, <1>8, <2>3, <2>4, <2>5, BroadcastCarried DEF R, Q
<1> QED BY <1>7, <1>8 DEF EndWindow, m, a

LEMMA RemovePaneCarried ==
  ASSUME RegistryOK, NEW H, Sound(Registry(H)), NEW w \in wins, NEW pid \in w.panes, NEW erased,
         RemovePane(w, pid, erased), conn' = conn, UNCHANGED <<next_wid, spawned>>
  PROVE  Carried(H)
<1> DEFINE v == [w EXCEPT !.panes = @ \ {pid}]
           R == Registry(H)
           Q == Later(H)
           a == w.sid
           q == <<PaneExited(pid), Layout(v)>>
<1>1. /\ spawned \in Nat /\ RivtdTypeOK /\ OutTypes /\ wins \subseteq Windows
      /\ \A x, y \in wins : x.id = y.id => x = y
  BY DEF RegistryOK, RivtdTypeOK, Numbered
<1>2. w \in Windows /\ pid \in PaneIds
  BY <1>1 DEF Windows
<1>3. v \in Windows /\ v.id = w.id /\ v.sid = w.sid /\ v.panes = w.panes \ {pid}
  BY <1>2 DEF Windows
<1>4. CASE EndWindow(w, erased, <<PaneExited(pid)>>)
  <2>1. \E p \in w.panes : <<PaneExited(pid)>> = <<PaneExited(p)>>
    OBVIOUS
  <2> QED BY <1>4, <2>1, EndWindowCarried
<1>5. CASE /\ wins' = (wins \ {w}) \cup {v} /\ Transmit(Broadcast(a, q))
           /\ UNCHANGED <<sessions, attached>>
  <2>1. /\ wins' \subseteq Windows
        /\ \A x \in wins' : \E y \in wins : y.id = x.id /\ y.sid = x.sid /\ x.panes \subseteq y.panes
        /\ \A x, y \in wins' : x.id = y.id => x = y
    <3> HIDE DEF v
    <3> QED BY <1>1, <1>3, <1>5
  <2>2. PaneExited(pid) \in Messages /\ Layout(v) \in Messages
    BY <1>2, <1>3, MessageTypes
  <2>3. <<PaneExited(pid)>> \in Seq(Messages) /\ q \in Seq(Messages)
        /\ <<PaneExited(pid)>> \o <<Layout(v)>> = q
    BY <2>2, Pairs
  <2> HIDE DEF v, q
  <2>4. Sound(R) /\ Sound(Q) /\ Grows(R, Q)
    BY <1>1, <2>1, Shrinks
  <2>5. \A b : b # a => Same(b, R, Q)
    BY <1>3, <1>5, OthersSame
  <2>6. /\ Q.wins = (R.wins \ {w}) \cup {v} /\ Q.sessions = R.sessions /\ v \in Q.wins /\ w \in R.wins
        /\ Q.home = R.home
    BY <1>5 DEF Registry, Later
  <2> HIDE DEF R, Q
  <2>7. R.home[pid] = w.id /\ \A p \in w.panes : Q.home[p] = v.id
    BY <1>3, <2>4, <2>6 DEF Sound
  <2>8. ASSUME NEW d, Fits(d, R), Agrees(d, a, R)
        PROVE  \E e : Leads(d, q, e, Q) /\ Agrees(e, a, Q)
    <3> DEFINE c == Effect(d, PaneExited(pid))
               e == Effect(c, Layout(v))
    <3>1. Fits(d, Q)
      BY <2>4, <2>8, FitsGrows
    <3>2. Fits(c, R) /\ Spares(d, c, Q) /\ AgreesBut(c, a, R, {w.id})
      <4>1. Fits(c, R) /\ Spares(d, c, Q) /\ AgreesBut(c, a, R, {R.home[pid]})
        BY <1>2, <2>4, <2>8, ExitedRead
      <4> HIDE DEF c
      <4> QED BY <2>7, <4>1
    <3>3. Fits(c, Q)
      BY <2>4, <3>2, FitsGrows
    <3>4. Leads(d, <<PaneExited(pid)>>, c, Q)
      BY <3>1, <3>2, <3>3, LeadsOne
    <3> HIDE DEF c
    <3>5. c.mode = "active" => \A p \in PaneIds : Q.home[p] # v.id =>
                                  (p \in ShownPanes(c) <=> p \in PanesIn(R, a))
      BY <1>3, <2>6, <3>2 DEF AgreesBut
    <3>6. AgreesBut(c, a, Q, {v.id})
      BY <1>3, <2>4, <2>6, <2>7, <3>2, <3>5, Swapped
    <3>7. Fits(e, Q) /\ Spares(c, e, Q) /\ Agrees(e, a, Q)
      BY <1>3, <2>4, <2>6, <3>3, <3>6, LayoutRead
    <3>8. Leads(d, <<PaneExited(pid)>> \o <<Layout(v)>>, e, Q)
      BY <2>2, <2>3, <3>4, <3>7, LeadsTwo
    <3> HIDE DEF e
    <3> QED BY <2>3, <3>7, <3>8
  <2>9. \A k \in Conns : Hears(k, a) =>
           \A d : Fits(d, R) /\ Agrees(d, a, R) => \E e : Leads(d, q, e, Q) /\ Agrees(e, attached'[k], Q)
    BY <1>5, <2>8 DEF Hears
  <2>10. \A k \in Conns : ~Hears(k, a) => attached'[k] = attached[k]
    BY <1>5
  <2> QED BY <1>1, <1>5, <2>3, <2>4, <2>5, <2>9, <2>10, BroadcastCarried DEF R, Q
<1> QED BY <1>4, <1>5 DEF RemovePane

LEMMA WorksCarried ==
  ASSUME RegistryOK, NEW H, Sound(Registry(H)), [Works]_rivtdVars PROVE Carried(H)
<1>1. ASSUME NEW k \in Conns, NEW r, Handle(k, r) PROVE Carried(H)
  <2>1. CASE HandleHello(k) \/ HandleListSessions(k) \/ HandleCreateSession(k) \/ HandleNewWindow(k)
    BY <2>1, HelloCarried, ListCarried, CreateCarried, NewWindowCarried
  <2>2. ASSUME NEW id, HandleAttach(k, id) \/ HandleSplit(k, id) \/ HandleKillSession(k, id)
        PROVE  Carried(H)
    BY <2>2, AttachCarried, SplitCarried, KillSessionCarried
  <2>3. ASSUME NEW id, HandleClosePane(k, id) PROVE Carried(H)
    <3>1. PICK w \in wins : id \in w.panes /\ RemovePane(w, id, {id})
      BY <2>3 DEF HandleClosePane
    <3>2. conn' = conn /\ UNCHANGED <<next_wid, spawned>>
      BY <2>3 DEF HandleClosePane, idVars
    <3> QED BY <3>1, <3>2, RemovePaneCarried
  <2>4. ASSUME NEW id, HandleCloseWindow(k, id) PROVE Carried(H)
    <3>1. PICK w \in wins : EndWindow(w, w.panes, <<>>)
      BY <2>4 DEF HandleCloseWindow, SessionWins
    <3>2. conn' = conn /\ UNCHANGED <<next_wid, spawned>>
      BY <2>4 DEF HandleCloseWindow, idVars
    <3> QED BY <3>1, <3>2, EndWindowCarried
  <2>5. CASE Ignored(k, r)
    BY <2>5, QuietSteps DEF Ignored
  <2> QED BY <1>1, <2>1, <2>2, <2>3, <2>4, <2>5 DEF Handle
<1>2. CASE SweepPane
  <2>1. conn' = conn /\ UNCHANGED <<next_wid, spawned>> /\ spawned \in Nat /\ OutTypes
    BY <1>2 DEF SweepPane, idVars, RegistryOK, RivtdTypeOK
  <2>2. ASSUME NEW w \in wins, Head(dead) \in w.panes, RemovePane(w, Head(dead), {}) PROVE Carried(H)
    BY <2>1, <2>2, RemovePaneCarried
  <2>3. CASE UNCHANGED <<peer, out, sessions, wins, attached>>
    BY <2>1, <2>3, QuietCarried
  <2> QED BY <1>2, <2>2, <2>3 DEF SweepPane
<1> QED BY <1>1, <1>2, QuietSteps DEF Works

-----------------------------------------------------------------------------
(* The windows' steps.                                                     *)

\* Every callback is what Effect says of its message.
LEMMA ReceiveEffect ==
  ASSUME UserTypes, NEW u \in Users, Receive(u)
  PROVE  /\ link[u] # 0 /\ out[link[u]] # <<>> /\ UNCHANGED serverVars
         /\ Seen(u)' = Effect(Seen(u), Head(out[link[u]]))
         /\ \A v \in Users \ {u} : Seen(v)' = Seen(v)
         /\ HangUp(u) \/ (Read(u) /\ link' = link)
<1> DEFINE c == Seen(u)
           m == Incoming(u)
<1>0. /\ c = View(mode[u], session[u], mwins[u], mpanes[u], resyncing[u], announced[u])
      /\ m = Head(out[link[u]])
  BY DEF Seen, Incoming
<1>1. /\ c.mode = mode[u] /\ c.sess = session[u] /\ c.wins = mwins[u] /\ c.panes = mpanes[u]
      /\ c.res = resyncing[u] /\ c.ann = announced[u]
  BY DEF Seen, View
<1>2. \A v \in Users : Seen(v)' = View(mode'[v], session'[v], mwins'[v], mpanes'[v],
                                       resyncing'[v], announced'[v])
  BY DEF Seen
<1>3. link[u] # 0 /\ out[link[u]] # <<>> /\ UNCHANGED serverVars
  BY DEF Receive, OnHelloOk, OnSessionCreated, OnAttachOk, OnSessionList, OnWindowAdded, OnLayout,
         OnWindowClosed, OnPaneExited, OnSessionClosed, OnError, Gets
<1>4. c.mode # "exited"
  BY <1>1, <1>3 DEF UserTypes
<1> DEFINE Goal == /\ Seen(u)' = Effect(c, m)
                   /\ \A v \in Users \ {u} : Seen(v)' = Seen(v)
                   /\ HangUp(u) \/ (Read(u) /\ link' = link)
<1> SUFFICES Goal
  BY <1>0, <1>3
<1> HIDE DEF c, m
\* The window closes.
<1>5. ASSUME Exit(u), Effect(c, m) = Gone(c) PROVE Goal
  <2>1. Seen(u)' = View("exited", session[u], {}, <<>>, FALSE, {})
    BY <1>2, <1>5 DEF Exit, UserTypes
  <2>2. \A v \in Users \ {u} : Seen(v)' = Seen(v)
    BY <1>2, <1>5 DEF Exit, UserTypes, Seen
  <2> QED BY <1>1, <1>5, <2>1, <2>2 DEF Gone, Exit
\* The message is not for it.
<1>6. ASSUME Read(u), UNCHANGED userVars, Effect(c, m) = c PROVE Goal
  <2>1. \A v \in Users : Seen(v)' = Seen(v)
    BY <1>6 DEF Seen, userVars, mirrorVars
  <2> QED BY <1>6, <2>1 DEF userVars, c
<1>7. CASE OnHelloOk(u)
  <2>1. m.t = "HelloOk"
    BY <1>7 DEF OnHelloOk, Gets, m
  <2>2. Effect(c, m) = c
    BY <1>4, <2>1 DEF Effect
  <2> QED BY <1>6, <1>7, <2>2 DEF OnHelloOk
<1>8. CASE OnSessionCreated(u)
  <2>1. m.t = "SessionCreated"
    BY <1>8 DEF OnSessionCreated, Gets, m
  <2>2. Effect(c, m) = IF m.pid = 0 THEN Gone(c) ELSE c
    BY <1>4, <2>1 DEF Effect
  <2> QED BY <1>5, <1>6, <1>8, <2>2 DEF OnSessionCreated, m
<1>9. CASE OnAttachOk(u)
  <2>1. m.t = "AttachOk"
    BY <1>9 DEF OnAttachOk, Gets, m
  <2>2. Effect(c, m) = View("active", m.sid, c.wins, c.panes, TRUE, {})
    BY <1>4, <2>1 DEF Effect
  <2>3. Seen(u)' = View("active", m.sid, mwins[u], mpanes[u], TRUE, {})
    BY <1>2, <1>9 DEF OnAttachOk, UserTypes, m
  <2>4. \A v \in Users \ {u} : Seen(v)' = Seen(v)
    BY <1>2, <1>9 DEF OnAttachOk, UserTypes, Seen
  <2> QED BY <1>1, <1>9, <2>2, <2>3, <2>4 DEF OnAttachOk
<1>10. CASE OnSessionList(u)
  <2>1. m.t = "SessionList"
    BY <1>10 DEF OnSessionList, Gets, m
  <2>2. CASE ~resyncing[u]
    <3>1. Effect(c, m) = c
      BY <1>1, <1>4, <2>1, <2>2 DEF Effect
    <3> QED BY <1>6, <1>10, <2>2, <3>1 DEF OnSessionList, userVars
  <2>3. CASE resyncing[u]
    <3>1. Effect(c, m) = View(c.mode, c.sess, c.wins \cap c.ann, Cut(c, c.wins \ c.ann), FALSE, {})
      BY <1>1, <1>4, <2>1, <2>3 DEF Effect
    <3>2. /\ KeepWindows(u, announced[u]) /\ resyncing' = [resyncing EXCEPT ![u] = FALSE]
          /\ announced' = [announced EXCEPT ![u] = {}] /\ UNCHANGED <<link, mode, session>> /\ Read(u)
      BY <1>10, <2>3 DEF OnSessionList
    <3>3. Seen(u)' = View(mode[u], session[u], mwins[u] \cap announced[u],
                          Cut(c, mwins[u] \ announced[u]), FALSE, {})
      <4>1. mwins'[u] = mwins[u] \cap announced[u]
        BY <1>2, <3>2 DEF KeepWindows, UserTypes
      <4>2. mpanes'[u] = Cut(c, mwins[u] \ announced[u])
        BY <1>1, <1>2, <3>2 DEF KeepWindows, UserTypes, Cut
      <4>3. mode' = mode /\ session' = session /\ resyncing'[u] = FALSE /\ announced'[u] = {}
        BY <1>2, <3>2 DEF UserTypes
      <4> QED BY <1>2, <4>1, <4>2, <4>3
    <3>4. \A v \in Users \ {u} : Seen(v)' = Seen(v)
      BY <1>2, <3>2 DEF KeepWindows, UserTypes, Seen
    <3> QED BY <1>1, <3>1, <3>2, <3>3, <3>4
  <2> QED BY <2>2, <2>3
<1>11. CASE OnWindowAdded(u)
  <2>1. m.t = "WindowAdded"
    BY <1>11 DEF OnWindowAdded, Gets, m
  <2>2. CASE m.sid # session[u]
    <3>1. Effect(c, m) = c
      BY <1>1, <1>4, <2>1, <2>2 DEF Effect
    <3> QED BY <1>6, <1>11, <2>2, <3>1 DEF OnWindowAdded, userVars, mirrorVars, m
  <2>3. CASE m.sid = session[u]
    <3>1. Effect(c, m) = View(c.mode, c.sess, c.wins \cup {m.wid}, c.panes, c.res,
                              IF c.res THEN c.ann \cup {m.wid} ELSE c.ann)
      BY <1>1, <1>4, <2>1, <2>3 DEF Effect
    <3>2. /\ announced' = IF resyncing[u] THEN [announced EXCEPT ![u] = @ \cup {m.wid}] ELSE announced
          /\ mwins' = [mwins EXCEPT ![u] = @ \cup {m.wid}]
          /\ UNCHANGED <<link, mode, session, mpanes, resyncing>> /\ Read(u)
      BY <1>11, <2>3 DEF OnWindowAdded, m
    <3>3. Seen(u)' = View(mode[u], session[u], mwins[u] \cup {m.wid}, mpanes[u], resyncing[u],
                          IF resyncing[u] THEN announced[u] \cup {m.wid} ELSE announced[u])
      BY <1>2, <3>2 DEF UserTypes
    <3>4. \A v \in Users \ {u} : Seen(v)' = Seen(v)
      BY <1>2, <3>2 DEF UserTypes, Seen
    <3> QED BY <1>1, <3>1, <3>2, <3>3, <3>4
  <2> QED BY <2>2, <2>3
<1>12. CASE OnLayout(u)
  <2>1. m.t = "Layout"
    BY <1>12 DEF OnLayout, Gets, m
  <2>2. CASE ~(m.sid = session[u] /\ m.wid \in mwins[u])
    <3>1. Effect(c, m) = c
      BY <1>1, <1>4, <2>1, <2>2 DEF Effect
    <3> QED BY <1>6, <1>12, <2>2, <3>1 DEF OnLayout, userVars, mirrorVars, m
  <2>3. CASE m.sid = session[u] /\ m.wid \in mwins[u]
    <3>1. Effect(c, m) = View(c.mode, c.sess, c.wins, Laid(c, m), c.res, c.ann)
      BY <1>1, <1>4, <2>1, <2>3 DEF Effect
    <3>2. mpanes'[u] = Laid(c, m) /\ \A v \in Users \ {u} : mpanes'[v] = mpanes[v]
      BY <1>1, <1>12, <2>3 DEF OnLayout, UserTypes, Laid, Kept, m
    <3>3. UNCHANGED <<link, mode, session, mwins, resyncing, announced>> /\ Read(u)
      BY <1>12 DEF OnLayout
    <3> QED BY <1>1, <1>2, <3>1, <3>2, <3>3 DEF Seen
  <2> QED BY <2>2, <2>3
<1>13. CASE OnWindowClosed(u)
  <2>1. m.t = "WindowClosed"
    BY <1>13 DEF OnWindowClosed, Gets, m
  <2>2. Effect(c, m) = View(c.mode, c.sess, c.wins \cap Staying(c, m), Cut(c, c.wins \ Staying(c, m)),
                            c.res, c.ann)
    BY <1>4, <2>1 DEF Effect
  <2>3. KeepWindows(u, Staying(c, m))
    BY <1>1, <1>13 DEF OnWindowClosed, Staying, m
  <2>4. UNCHANGED <<link, mode, session, resyncing, announced>> /\ Read(u)
    BY <1>13 DEF OnWindowClosed
  <2>5. mwins'[u] = c.wins \cap Staying(c, m) /\ mpanes'[u] = Cut(c, c.wins \ Staying(c, m))
    BY <1>1, <2>3 DEF KeepWindows, UserTypes, Cut
  <2>6. \A v \in Users \ {u} : mwins'[v] = mwins[v] /\ mpanes'[v] = mpanes[v]
    BY <2>3 DEF KeepWindows, UserTypes
  <2> QED BY <1>1, <1>2, <2>2, <2>4, <2>5, <2>6 DEF Seen
<1>14. CASE OnPaneExited(u)
  <2>1. m.t = "PaneExited"
    BY <1>14 DEF OnPaneExited, Gets, m
  <2>2. Effect(c, m) = View(c.mode, c.sess, c.wins, Without(c.panes, {m.pid}), c.res, c.ann)
    BY <1>4, <2>1 DEF Effect
  <2>3. UNCHANGED <<link, mode, session, mwins, resyncing, announced>> /\ Read(u)
    BY <1>14 DEF OnPaneExited
  <2>4. /\ mpanes'[u] = Without(c.panes, {m.pid})
        /\ \A v \in Users \ {u} : mpanes'[v] = mpanes[v]
    BY <1>1, <1>14 DEF OnPaneExited, UserTypes, m
  <2> QED BY <1>1, <1>2, <2>2, <2>3, <2>4 DEF Seen
<1>15. CASE OnSessionClosed(u)
  <2>1. m.t = "SessionClosed"
    BY <1>15 DEF OnSessionClosed, Gets, m
  <2>2. Effect(c, m) = IF m.sid = session[u] THEN Gone(c) ELSE c
    BY <1>1, <1>4, <2>1 DEF Effect
  <2> QED BY <1>5, <1>6, <1>15, <2>2 DEF OnSessionClosed, m
<1>16. CASE OnError(u)
  <2>1. m.t = "Error"
    BY <1>16 DEF OnError, Gets, m
  <2>2. Effect(c, m) = IF mode[u] = "reconnecting" THEN Gone(c) ELSE c
    BY <1>1, <1>4, <2>1 DEF Effect
  <2> QED BY <1>5, <1>6, <1>16, <2>2 DEF OnError
<1> QED BY <1>7, <1>8, <1>9, <1>10, <1>11, <1>12, <1>13, <1>14, <1>15, <1>16 DEF Receive

-----------------------------------------------------------------------------
(* The invariant.                                                          *)

\* Each window reads its own connection, and the daemon writes to those only.
Linked ==
    /\ \A u \in Users : link[u] # 0 => peer[link[u]] /\ conn[link[u]] # "unused"
    /\ \A u, v \in Users : u # v /\ link[u] # 0 => link[u] # link[v]
    /\ \A k \in Conns : conn[k] = "unused" => out[k] = <<>>

Tracked(H) ==
    /\ Sound(Registry(H))
    /\ \A u \in Users : Fits(Seen(u), Registry(H))
    /\ \A u \in Users : link[u] # 0 =>
          \E d : /\ Leads(Seen(u), out[link[u]], d, Registry(H))
                 /\ Fine(conn[link[u]], attached[link[u]], d, Registry(H))

MirrorInv == Basics /\ LiveInv /\ ExactInv /\ Linked /\ \E H : Tracked(H)

\* The daemon's step, as the windows on the other ends of the wires see it.
LEMMA DaemonTracks ==
  ASSUME UserTypes, OutTypes, Linked, NEW H, Tracked(H), NEW J, NEW msgs, Delivers(H, J, msgs)
  PROVE  /\ Sound(Later(J)) /\ \A u \in Users : Fits(Seen(u), Later(J))
         /\ \A k \in Conns : conn'[k] = "unused" => out'[k] = <<>>
         /\ \A u \in Users : link[u] # 0 =>
               /\ link[u] \in Conns /\ peer'[link[u]]
               /\ conn[link[u]] # "unused" /\ conn'[link[u]] # "unused"
               /\ \E e : /\ Leads(Seen(u), out'[link[u]], e, Later(J))
                         /\ Fine(conn'[link[u]], attached'[link[u]], e, Later(J))
<1> DEFINE R == Registry(H)
           Q == Later(J)
<1>1. Sound(R) /\ Sound(Q) /\ Grows(R, Q) /\ msgs \in [Conns -> Seq(Messages)]
  BY DEF Tracked, Delivers
<1>2. \A u \in Users : Fits(Seen(u), Q)
  BY <1>1, FitsGrows DEF Tracked
<1>3. \A k \in Conns : conn'[k] = "unused" => out'[k] = <<>>
  BY DEF Delivers, Linked
<1>4. ASSUME NEW u \in Users, link[u] # 0
      PROVE  /\ link[u] \in Conns /\ peer'[link[u]]
             /\ conn[link[u]] # "unused" /\ conn'[link[u]] # "unused"
             /\ \E e : /\ Leads(Seen(u), out'[link[u]], e, Q)
                       /\ Fine(conn'[link[u]], attached'[link[u]], e, Q)
  <2> DEFINE k == link[u]
  <2>1. k \in Conns /\ peer[k] /\ conn[k] # "unused"
    BY <1>4 DEF UserTypes, Linked
  <2>2. out[k] \in Seq(Messages) /\ msgs[k] \in Seq(Messages)
    BY <1>1, <2>1 DEF OutTypes
  <2>3. PICK d : Leads(Seen(u), out[k], d, R) /\ Fine(conn[k], attached[k], d, R)
    BY <1>4 DEF Tracked
  <2>4. /\ peer'[k] /\ conn'[k] # "unused" /\ out'[k] = out[k] \o msgs[k]
        /\ \A c : Fits(c, R) /\ Fine(conn[k], attached[k], c, R) =>
              \E e : Leads(c, msgs[k], e, Q) /\ Fine(conn'[k], attached'[k], e, Q)
    BY <2>1 DEF Delivers
  <2> HIDE DEF k, R, Q
  <2>5. Fits(d, R)
    BY <2>2, <2>3, LeadsEnds
  <2>6. PICK e : Leads(d, msgs[k], e, Q) /\ Fine(conn'[k], attached'[k], e, Q)
    BY <2>3, <2>4, <2>5
  <2>7. Leads(Seen(u), out[k] \o msgs[k], e, Q)
    BY <1>1, <2>2, <2>3, <2>6, LeadsOn
  <2> QED BY <2>1, <2>4, <2>6, <2>7 DEF k
<1> QED BY <1>1, <1>2, <1>3, <1>4

\* A window that reads, or closes, moves along its own way.
LEMMA ReadsTracked ==
  ASSUME RivtdTypeOK, UserTypes, OutTypes, Linked, NEW H, Tracked(H), NEW u \in Users, link[u] # 0,
         UNCHANGED serverVars, \A v \in Users \ {u} : Seen(v)' = Seen(v),
         \/ HangUp(u) /\ Fits(Seen(u)', Registry(H))
         \/ /\ Read(u) /\ link' = link /\ out[link[u]] # <<>>
            /\ Seen(u)' = Effect(Seen(u), Head(out[link[u]]))
  PROVE  Linked' /\ Tracked(H)'
<1> DEFINE R == Registry(H)
           k == link[u]
<1>1. /\ Registry(H)' = R /\ conn' = conn /\ attached' = attached
  BY DEF Registry, serverVars, regVars, idVars, connVars
<1>2. k \in Conns /\ peer[k] /\ conn[k] # "unused" /\ out[k] \in Seq(Messages)
  BY DEF UserTypes, Linked, OutTypes
<1>3. \A v \in Users \ {u} : link'[v] = link[v] /\ link[v] # k
  BY DEF HangUp, UserTypes, Linked
<1>4. \A j \in Conns \ {k} : out'[j] = out[j] /\ peer'[j] = peer[j]
  BY DEF HangUp, Read, OutTypes, RivtdTypeOK
<1>5. \A v \in Users \ {u} : link[v] # 0 => link[v] \in Conns
  BY DEF UserTypes
<1>6. PICK d : Leads(Seen(u), out[k], d, R) /\ Fine(conn[k], attached[k], d, R)
  BY DEF Tracked
<1>7. CASE HangUp(u) /\ Fits(Seen(u)', R)
  <2>1. link'[u] = 0
    BY <1>7 DEF HangUp, UserTypes
  <2>2. Linked'
    BY <1>1, <1>2, <1>3, <1>4, <1>5, <2>1 DEF Linked
  <2>3. Tracked(H)'
    <3>1. Sound(Registry(H)') /\ \A v \in Users : Fits(Seen(v)', Registry(H)')
      BY <1>1, <1>7 DEF Tracked
    <3>2. ASSUME NEW v \in Users, link'[v] # 0
          PROVE  \E e : /\ Leads(Seen(v)', out'[link'[v]], e, Registry(H)')
                        /\ Fine(conn'[link'[v]], attached'[link'[v]], e, Registry(H)')
      <4>1. v # u /\ link'[v] = link[v] /\ out'[link[v]] = out[link[v]] /\ Seen(v)' = Seen(v)
        BY <1>3, <1>4, <1>5, <2>1, <3>2
      <4> QED BY <1>1, <3>2, <4>1 DEF Tracked
    <3> QED BY <3>1, <3>2 DEF Tracked
  <2> QED BY <2>2, <2>3
<1>8. CASE /\ Read(u) /\ link' = link /\ out[k] # <<>>
           /\ Seen(u)' = Effect(Seen(u), Head(out[k]))
  <2>1. out'[k] = Tail(out[k]) /\ peer' = peer
    BY <1>2, <1>8 DEF Read, OutTypes
  <2>2. Linked'
    BY <1>1, <1>2, <1>4, <1>8, <2>1 DEF Linked
  <2>3. Leads(Seen(u)', out'[k], d, R)
    <3>1. Leads(Effect(Seen(u), Head(out[k])), Tail(out[k]), d, R)
      BY <1>2, <1>6, <1>8, LeadsTail
    <3> QED BY <1>8, <2>1, <3>1
  <2>4. Fits(Seen(u)', R)
    <3>1. Tail(out[k]) \in Seq(Messages)
      BY <1>2, <1>8
    <3> QED BY <2>1, <2>3, <3>1, LeadsEnds
  <2>5. Tracked(H)'
    <3>1. Sound(Registry(H)') /\ \A v \in Users : Fits(Seen(v)', Registry(H)')
      BY <1>1, <2>4 DEF Tracked
    <3>2. ASSUME NEW v \in Users, link'[v] # 0
          PROVE  \E e : /\ Leads(Seen(v)', out'[link'[v]], e, Registry(H)')
                        /\ Fine(conn'[link'[v]], attached'[link'[v]], e, Registry(H)')
      <4>1. CASE v = u
        BY <1>1, <1>6, <1>8, <2>3, <4>1
      <4>2. CASE v # u
        <5>1. link'[v] = link[v] /\ out'[link[v]] = out[link[v]] /\ Seen(v)' = Seen(v)
          BY <1>3, <1>4, <1>5, <3>2, <4>2
        <5> QED BY <1>1, <3>2, <5>1 DEF Tracked
      <4> QED BY <4>1, <4>2
    <3> QED BY <3>1, <3>2 DEF Tracked
  <2> QED BY <2>2, <2>5
<1> QED BY <1>7, <1>8

\* A window that exits shows nothing.
LEMMA ExitShows ==
  ASSUME UserTypes, NEW u \in Users, Exit(u), NEW H
  PROVE  /\ HangUp(u) /\ Fits(Seen(u)', Registry(H))
         /\ \A v \in Users \ {u} : Seen(v)' = Seen(v)
<1>1. Seen(u)' = Gone(Seen(u))
  BY DEF Seen, Gone, View, Exit, UserTypes
<1>2. \A v \in Users \ {u} : Seen(v)' = Seen(v)
  BY DEF Seen, Exit, UserTypes
<1> QED BY <1>1, <1>2, GoneFits DEF Exit

\* Whether it fits does not depend on how the window is connected.
LEMMA FitsAnyMode ==
  ASSUME NEW c, NEW R, Fits(c, R), NEW mo
  PROVE  Fits(View(mo, c.sess, c.wins, c.panes, c.res, c.ann), R)
BY DEF Fits, View

LEMMA MirrorStarts == Init => MirrorInv
<1> SUFFICES ASSUME Init PROVE MirrorInv
  OBVIOUS
<1>1. Basics /\ LiveInv
  BY BasicsStart, LiveStarts DEF Init
<1>2. ExactInv
  BY RivtdAssumption
     DEF Init, InitRivtd, ExactInv, Pointing, Waiting, Apart, Unlisted, Drawn
<1>3. Linked
  BY DEF Init, InitRivtd, Linked, Silence
<1> DEFINE H == [p \in PaneIds |-> 0]
           R == Registry(H)
<1>4. Tracked(H)
  <2>1. Sound(R)
    BY DEF Init, InitRivtd, Sound, Registry
  <2>2. ASSUME NEW u \in Users PROVE Fits(Seen(u), R)
    <3>1. DOMAIN <<>> = {} /\ <<>> \in [{} -> {}]
      OBVIOUS
    <3>2. Seen(u) = View(mode[u], 0, {}, <<>>, FALSE, {})
      BY DEF Seen, Init
    <3> HIDE DEF R
    <3> QED BY <3>1, <3>2 DEF View, Fits
  <2> QED BY <2>1, <2>2 DEF Tracked, Init
<1> QED BY <1>1, <1>2, <1>3, <1>4 DEF MirrorInv

LEMMA ConnectTracked ==
  ASSUME NoWrap, MirrorInv, NEW u \in Users, Connect(u)
  PROVE  Linked' /\ \E H : Tracked(H)'
<1>1. /\ RivtdTypeOK /\ UserTypes /\ OutTypes /\ Linked /\ RegistryOK
  BY TypeParts DEF MirrorInv, Basics, RegistryOK
<1>2. PICK H : Tracked(H)
  BY DEF MirrorInv
<1>3. PICK k \in Conns : /\ Accept(k, TRUE)
                         /\ link' = [link EXCEPT ![u] = k]
  BY DEF Connect
<1>4. PICK J, msgs : Delivers(H, J, msgs)
  <2>1. Sound(Registry(H))
    BY <1>2 DEF Tracked
  <2> QED BY <1>1, <1>3, <2>1, QuietSteps DEF Carried
<1> DEFINE Q == Later(J)
<1>5. /\ Sound(Q) /\ \A v \in Users : Fits(Seen(v), Q)
      /\ \A j \in Conns : conn'[j] = "unused" => out'[j] = <<>>
      /\ \A v \in Users : link[v] # 0 =>
               /\ link[v] \in Conns /\ peer'[link[v]]
               /\ conn[link[v]] # "unused" /\ conn'[link[v]] # "unused"
               /\ \E e : /\ Leads(Seen(v), out'[link[v]], e, Q)
                         /\ Fine(conn'[link[v]], attached'[link[v]], e, Q)
  BY <1>1, <1>2, <1>4, DaemonTracks
<1>6. Registry(J)' = Q
  BY DEF Registry, Later
<1>7. /\ conn[k] = "unused" /\ conn'[k] = "new" /\ peer'[k] /\ out'[k] = <<>> /\ k # 0
  BY <1>1, <1>3 DEF Accept, RivtdTypeOK, Linked, OutTypes, Conns
<1>8. link'[u] = k /\ \A v \in Users \ {u} : link'[v] = link[v]
  BY <1>1, <1>3 DEF UserTypes
<1>9. \A v \in Users \ {u} : Seen(v)' = Seen(v)
  BY <1>1 DEF Connect, Seen, UserTypes, mirrorVars
<1>10. /\ Seen(u)' = View(mode'[u], Seen(u).sess, Seen(u).wins, Seen(u).panes, Seen(u).res, Seen(u).ann)
       /\ Seen(u)'.mode # "active"
  BY <1>1 DEF Connect, Seen, View, UserTypes, mirrorVars
<1> HIDE DEF Q
<1>11. Fits(Seen(u)', Q)
  BY <1>5, <1>10, FitsAnyMode
<1>12. Linked'
  <2>1. ASSUME NEW v \in Users, link'[v] # 0
        PROVE  peer'[link'[v]] /\ conn'[link'[v]] # "unused"
    <3>1. CASE v = u
      BY <1>7, <1>8, <3>1
    <3>2. CASE v # u
      BY <1>5, <1>8, <2>1, <3>2
    <3> QED BY <3>1, <3>2
  <2>2. ASSUME NEW v \in Users, NEW x \in Users, v # x, link'[v] # 0
        PROVE  link'[v] # link'[x]
    <3>1. \A y \in Users \ {u} : link[y] # k
      BY <1>5, <1>7
    <3>2. \A y, z \in Users : y # z /\ link[y] # 0 => link[y] # link[z]
      BY <1>1 DEF Linked
    <3>3. CASE v = u
      BY <1>8, <2>2, <3>1, <3>3
    <3>4. CASE x = u
      BY <1>8, <2>2, <3>1, <3>4
    <3>5. CASE v # u /\ x # u
      BY <1>8, <2>2, <3>2, <3>5
    <3> QED BY <3>3, <3>4, <3>5
  <2> QED BY <1>5, <2>1, <2>2 DEF Linked
<1>13. Tracked(J)'
  <2>1. Sound(Registry(J)') /\ \A v \in Users : Fits(Seen(v)', Registry(J)')
    BY <1>5, <1>6, <1>9, <1>11
  <2>2. ASSUME NEW v \in Users, link'[v] # 0
        PROVE  \E e : /\ Leads(Seen(v)', out'[link'[v]], e, Registry(J)')
                      /\ Fine(conn'[link'[v]], attached'[link'[v]], e, Registry(J)')
    <3>1. CASE v = u
      <4>1. Leads(Seen(u)', <<>>, Seen(u)', Q)
        BY <1>11, LeadsNowhere
      <4>2. Fine("new", attached'[k], Seen(u)', Q)
        BY <1>10 DEF Fine
      <4> QED BY <1>6, <1>7, <1>8, <3>1, <4>1, <4>2
    <3>2. CASE v # u
      BY <1>5, <1>6, <1>8, <1>9, <2>2, <3>2
    <3> QED BY <3>1, <3>2
  <2> QED BY <2>1, <2>2 DEF Tracked
<1> QED BY <1>12, <1>13

\* The daemon works; what the windows show and their connections stay.
LEMMA WorksTracked ==
  ASSUME NoWrap, MirrorInv, [Works]_rivtdVars, link' = link, \A u \in Users : Seen(u)' = Seen(u)
  PROVE  Linked' /\ \E H : Tracked(H)'
<1>1. /\ RivtdTypeOK /\ UserTypes /\ OutTypes /\ Linked /\ RegistryOK
  BY TypeParts DEF MirrorInv, Basics, RegistryOK
<1>2. PICK H : Tracked(H)
  BY DEF MirrorInv
<1>3. PICK J, msgs : Delivers(H, J, msgs)
  <2>1. Sound(Registry(H))
    BY <1>2 DEF Tracked
  <2> QED BY <1>1, <2>1, WorksCarried DEF Carried
<1> DEFINE Q == Later(J)
<1>4. /\ Sound(Q) /\ \A v \in Users : Fits(Seen(v), Q)
      /\ \A j \in Conns : conn'[j] = "unused" => out'[j] = <<>>
      /\ \A v \in Users : link[v] # 0 =>
               /\ link[v] \in Conns /\ peer'[link[v]]
               /\ conn[link[v]] # "unused" /\ conn'[link[v]] # "unused"
               /\ \E e : /\ Leads(Seen(v), out'[link[v]], e, Q)
                         /\ Fine(conn'[link[v]], attached'[link[v]], e, Q)
  BY <1>1, <1>2, <1>3, DaemonTracks
<1>5. Registry(J)' = Q
  BY DEF Registry, Later
<1> HIDE DEF Q
<1>6. Linked'
  BY <1>1, <1>4 DEF Linked
<1>7. Tracked(J)'
  BY <1>4, <1>5 DEF Tracked
<1> QED BY <1>6, <1>7

LEMMA UserTracked ==
  ASSUME NoWrap, MirrorInv, NEW u \in Users, UserMoves(u)
  PROVE  Linked' /\ \E H : Tracked(H)'
<1>1. /\ RivtdTypeOK /\ UserTypes /\ OutTypes /\ Linked
  BY TypeParts DEF MirrorInv, Basics
<1>2. PICK H : Tracked(H)
  BY DEF MirrorInv
<1>3. CASE Connect(u)
  BY <1>3, ConnectTracked
<1>4. CASE Receive(u)
  <2>1. /\ link[u] # 0 /\ out[link[u]] # <<>> /\ UNCHANGED serverVars
        /\ Seen(u)' = Effect(Seen(u), Head(out[link[u]]))
        /\ \A v \in Users \ {u} : Seen(v)' = Seen(v)
        /\ HangUp(u) \/ (Read(u) /\ link' = link)
    BY <1>1, <1>4, ReceiveEffect
  <2>2. Fits(Seen(u)', Registry(H))
    <3>1. link[u] \in Conns /\ out[link[u]] \in Seq(Messages)
      BY <1>1, <2>1 DEF UserTypes, OutTypes
    <3>2. PICK d : Leads(Seen(u), out[link[u]], d, Registry(H))
      BY <1>2, <2>1 DEF Tracked
    <3>3. Leads(Effect(Seen(u), Head(out[link[u]])), Tail(out[link[u]]), d, Registry(H))
      BY <2>1, <3>1, <3>2, LeadsTail
    <3>4. Tail(out[link[u]]) \in Seq(Messages)
      BY <2>1, <3>1
    <3> DEFINE c == Effect(Seen(u), Head(out[link[u]]))
               q == Tail(out[link[u]])
               R == Registry(H)
    <3>5. Seen(u)' = c /\ Leads(c, q, d, R) /\ q \in Seq(Messages)
      BY <2>1, <3>3, <3>4
    <3> HIDE DEF c, q, R
    <3>6. Fits(c, R)
      BY <3>5, LeadsEnds
    <3> QED BY <3>5, <3>6 DEF R
  <2> QED BY <1>1, <1>2, <2>1, <2>2, ReadsTracked
<1>5. CASE Disconnect(u)
  <2>1. UNCHANGED serverVars /\ link[u] # 0
    BY <1>5 DEF Disconnect
  <2>2. CASE Exit(u)
    BY <1>1, <1>2, <2>1, <2>2, ExitShows, ReadsTracked
  <2>3. CASE /\ HangUp(u) /\ mode' = [mode EXCEPT ![u] = "reconnecting"]
             /\ UNCHANGED <<newest, session, mirrorVars, freed>>
    <3>1. \A v \in Users \ {u} : Seen(v)' = Seen(v)
      BY <1>1, <2>3 DEF Seen, UserTypes, mirrorVars
    <3>2. Seen(u)' = View(mode'[u], Seen(u).sess, Seen(u).wins, Seen(u).panes, Seen(u).res, Seen(u).ann)
      BY <2>3 DEF Seen, View, mirrorVars
    <3>3. Fits(Seen(u)', Registry(H))
      <4>1. Fits(Seen(u), Registry(H))
        BY <1>2 DEF Tracked
      <4> QED BY <3>2, <4>1, FitsAnyMode
    <3> QED BY <1>1, <1>2, <2>1, <2>3, <3>1, <3>3, ReadsTracked
  <2> QED BY <1>5, <2>2, <2>3 DEF Disconnect
<1>6. CASE CloseOsWindow(u)
  <2>1. UNCHANGED serverVars /\ link[u] # 0 /\ Exit(u)
    BY <1>1, <1>6 DEF CloseOsWindow, UserTypes
  <2> QED BY <1>1, <1>2, <2>1, ExitShows, ReadsTracked
<1>7. CASE CloseLocally(u)
  <2>1. UNCHANGED rivtdVars /\ link' = link /\ \A v \in Users : Seen(v)' = Seen(v)
    BY <1>7 DEF CloseLocally, Seen, mirrorVars
  <2> QED BY <2>1, WorksTracked
<1> QED BY <1>3, <1>4, <1>5, <1>6, <1>7 DEF UserMoves

LEMMA MirrorInductive == ASSUME NoWrap, MirrorInv, [Next]_vars PROVE MirrorInv'
<1>1. RivtdTypeOK /\ UserTypes /\ OutTypes /\ LiveInv /\ ExactInv
  BY TypeParts DEF MirrorInv, Basics
<1>2. Basics'
  BY BasicsInductive DEF MirrorInv
<1>3. LiveInv' /\ ExactInv'
  <2>1. CASE [DaemonStep]_rivtdVars
    BY <1>1, <2>1, LiveInductive, ExactInductive
  <2>2. CASE UNCHANGED serverVars
    <3>1. UNCHANGED <<sessions, wins, refs, dead, next_wid, spawned, conn, attached, streams>>
      BY <2>2 DEF serverVars, regVars, idVars, connVars
    <3>2. LiveInv'
      BY <1>1, <3>1 DEF LiveInv, SessionsPopulated, SessionWins, RecordsLive, ClientsLive,
                        AttachedLive, Greeted
    <3>3. ExactInv'
      BY <1>1, <3>1 DEF ExactInv, Pointing, Waiting, Apart, Unlisted, Drawn, Registered
    <3> QED BY <3>2, <3>3
  <2>3. ASSUME NEW k \in Conns, Accept(k, TRUE) PROVE DaemonStep
    BY <2>3 DEF DaemonStep
  <2>4. CASE DaemonMoves
    BY <2>1, <2>4, WorksSteps DEF DaemonMoves
  <2>5. ASSUME NEW u \in Users, UserMoves(u) PROVE LiveInv' /\ ExactInv'
    BY <1>1, <2>1, <2>2, <2>3, <2>5, UserMovesReads
  <2> QED BY <2>4, <2>5, StepKinds
<1>4. Linked' /\ \E H : Tracked(H)'
  <2>1. CASE DaemonMoves
    <3>1. [Works]_rivtdVars /\ link' = link /\ \A u \in Users : Seen(u)' = Seen(u)
      BY <2>1 DEF DaemonMoves, userVars, mirrorVars, Seen
    <3> QED BY <3>1, WorksTracked
  <2>2. ASSUME NEW u \in Users, UserMoves(u) PROVE Linked' /\ \E H : Tracked(H)'
    BY <2>2, UserTracked
  <2> QED BY <2>1, <2>2, StepKinds
<1> QED BY <1>2, <1>3, <1>4 DEF MirrorInv

-----------------------------------------------------------------------------
(* What follows.                                                           *)

LEMMA MirrorImplies == ASSUME MirrorInv PROVE MirrorExact
<1> SUFFICES ASSUME NEW u \in Users, Drained(u) PROVE Exact(u)
  BY DEF MirrorExact
<1>1. UserTypes /\ RivtdTypeOK
  BY TypeParts DEF MirrorInv, Basics
<1>2. PICK H : Tracked(H)
  BY DEF MirrorInv
<1> DEFINE R == Registry(H)
           a == attached[link[u]]
           c == Seen(u)
<1>3. /\ mode[u] = "active" /\ ~resyncing[u] /\ link[u] # 0
      /\ conn[link[u]] = "open" /\ out[link[u]] = <<>>
  BY <1>1 DEF Drained, UserTypes
<1>4. PICK d : Leads(c, <<>>, d, R) /\ Fine("open", a, d, R)
  BY <1>2, <1>3 DEF Tracked
<1>5. d = c /\ Fits(c, R)
  <2>1. <<>> \in Seq(Messages)
    OBVIOUS
  <2> DEFINE q == <<>>
  <2>2. q = <<>> /\ q \in Seq(Messages) /\ Leads(c, q, d, R)
    BY <1>4, <2>1
  <2> HIDE DEF c, R, q
  <2>3. Fits(c, R) /\ (q = <<>> => c = d)
    BY <2>2, LeadsEnds
  <2> QED BY <2>2, <2>3
<1>6. /\ c.mode = "active" /\ c.sess = session[u] /\ c.wins = mwins[u] /\ c.panes = mpanes[u]
      /\ ~c.res /\ Shown(c) = mwins[u]
  BY <1>3 DEF Seen, View, Shown
<1>7. R.wins = wins /\ R.sessions = sessions /\ R.home = H /\ Sound(R)
  BY <1>2 DEF Registry, Tracked
<1> HIDE DEF c, R
<1>8. /\ a = session[u] /\ session[u] \in sessions /\ mwins[u] = Ids(R, a)
      /\ \A p \in PaneIds : p \in ShownPanes(c) <=> p \in PanesIn(R, a)
  BY <1>4, <1>5, <1>6, <1>7 DEF Fine, Agrees, AgreesBut
<1>9. mwins[u] = WindowIds(session[u])
  BY <1>7, <1>8 DEF Ids, WindowIds, SessionWins
<1>10. /\ DOMAIN mpanes[u] \subseteq PaneIds
       /\ \A p \in DOMAIN mpanes[u] : mpanes[u][p] \in mwins[u] /\ mpanes[u][p] = H[p]
  BY <1>5, <1>6, <1>7 DEF Fits
<1>11. \A p \in PaneIds : p \in DOMAIN mpanes[u] <=> p \in PanesIn(R, a)
  BY <1>6, <1>8, <1>10 DEF ShownPanes
<1>12. Mirror(u) = Truth(session[u])
  <2>1. ASSUME NEW x \in Mirror(u) PROVE x \in Truth(session[u])
    <3>1. PICK p \in DOMAIN mpanes[u] : x = <<p, mpanes[u][p]>>
      BY DEF Mirror
    <3>2. PICK w \in wins : w.sid = session[u] /\ p \in w.panes
      BY <1>7, <1>8, <1>10, <1>11 DEF PanesIn
    <3>3. mpanes[u][p] = w.id
      BY <1>7, <1>10, <3>2 DEF Sound
    <3> QED BY <3>1, <3>2, <3>3 DEF Truth, SessionWins
  <2>2. ASSUME NEW x \in Truth(session[u]) PROVE x \in Mirror(u)
    <3>0. PICK w \in wins : w.sid = session[u] /\ \E p \in w.panes : x = <<p, w.id>>
      BY DEF Truth, SessionWins
    <3>1. PICK p \in w.panes : x = <<p, w.id>>
      BY <3>0
    <3>2. p \in PaneIds /\ H[p] = w.id
      BY <1>7 DEF Sound, Windows
    <3>3. p \in DOMAIN mpanes[u]
      BY <1>7, <1>8, <1>11, <3>0, <3>1, <3>2 DEF PanesIn
    <3> QED BY <1>10, <3>1, <3>2, <3>3 DEF Mirror
  <2> QED BY <2>1, <2>2
<1> QED BY <1>8, <1>9, <1>12 DEF Exact

\* A window that has read everything the daemon sent it shows the windows and
\* the panes of its session, as they are, however many other windows opened,
\* split and closed them meanwhile, and however often the connection was lost
\* or the daemon upgraded.
THEOREM MirrorIsExact == NoWrap => (Spec => []MirrorExact)
<1> SUFFICES ASSUME NoWrap PROVE Spec => []MirrorExact
  OBVIOUS
<1>1. MirrorInv /\ [Next]_vars => MirrorInv'
  BY MirrorInductive
<1>2. MirrorInv => MirrorExact
  BY MirrorImplies
<1> QED BY <1>1, <1>2, MirrorStarts, PTL DEF Spec

LEMMA NothingDropped ==
  ASSUME MirrorInv, [Next]_vars, NEW u \in Users, mode'[u] = "active", NEW i \in mwins[u] \ mwins'[u]
  PROVE  i \notin WindowIds(session[u])
<1>1. UserTypes /\ RivtdTypeOK /\ OutTypes
  BY TypeParts DEF MirrorInv, Basics
<1>2. CASE mwins'[u] = mwins[u]
  BY <1>2
<1>3. ASSUME NEW v \in Users, Exit(v) PROVE mwins'[u] = mwins[u] \/ mode'[u] = "exited"
  BY <1>1, <1>3 DEF Exit, UserTypes
<1>4. CASE DaemonMoves
  BY <1>2, <1>4 DEF DaemonMoves, userVars, mirrorVars
<1>5. ASSUME NEW v \in Users, Connect(v) \/ Disconnect(v) \/ CloseOsWindow(v) \/ CloseLocally(v)
      PROVE  i \notin WindowIds(session[u])
  BY <1>2, <1>3, <1>5 DEF Connect, Disconnect, CloseOsWindow, CloseLocally, mirrorVars
<1>6. ASSUME NEW v \in Users, Receive(v) PROVE i \notin WindowIds(session[u])
  <2>1. /\ link[v] # 0 /\ out[link[v]] # <<>>
        /\ Seen(v)' = Effect(Seen(v), Head(out[link[v]]))
        /\ \A x \in Users \ {v} : Seen(x)' = Seen(x)
    BY <1>1, <1>6, ReceiveEffect
  <2>2. Seen(u).wins = mwins[u] /\ Seen(u).sess = session[u]
    BY DEF Seen, View
  <2>3. Seen(u)'.wins = mwins'[u] /\ Seen(u)'.mode = mode'[u]
    BY DEF Seen, View
  <2>4. CASE v # u
    <3>1. Seen(u)' = Seen(u)
      BY <2>1, <2>4
    <3> QED BY <2>2, <2>3, <3>1
  <2>5. CASE v = u
    <3>1. PICK H : Tracked(H)
      BY DEF MirrorInv
    <3>2. PICK d : Leads(Seen(u), out[link[u]], d, Registry(H))
      BY <2>1, <2>5, <3>1 DEF Tracked
    <3>3. out[link[u]] \in Seq(Messages)
      BY <1>1, <2>1, <2>5 DEF UserTypes, OutTypes
    <3>4. Spares(Seen(u), Seen(u)', Registry(H))
      BY <2>1, <2>5, <3>2, <3>3, LeadsTail
    <3>5. \A w \in wins : w.sid = session[u] /\ w.id \in mwins[u] => w.id \in mwins'[u]
      BY <2>2, <2>3, <3>4 DEF Spares, Registry
    <3> QED BY <3>5 DEF WindowIds, SessionWins
  <2> QED BY <2>4, <2>5
<1> QED BY <1>4, <1>5, <1>6, StepKinds DEF UserMoves

\* Nothing a window reads takes down a window that the daemon still has:
\* what the resync drops is gone for good, whatever came in between.
THEOREM ResyncSpares == NoWrap => (Spec => NoLiveWindowDropped)
<1> SUFFICES ASSUME NoWrap PROVE Spec => NoLiveWindowDropped
  OBVIOUS
<1>1. MirrorInv /\ [Next]_vars => MirrorInv'
  BY MirrorInductive
<1>2. MirrorInv /\ [Next]_vars =>
         [\A u \in Users : mode'[u] = "active" =>
             \A w \in mwins[u] \ mwins'[u] : w \notin WindowIds(session[u])]_vars
  BY NothingDropped
<1> QED BY <1>1, <1>2, MirrorStarts, PTL DEF Spec, NoLiveWindowDropped

=============================================================================
