-------------------------------- MODULE Tabs --------------------------------
(***************************************************************************)
(* Tabs: the tabs and panes of a window.                                   *)
(*                                                                         *)
(* m holds the tabs in order, the active one's position (0 for none) and   *)
(* the next number for a tab, a pane or a layout node.  A pane lives while *)
(* a tab holds it.                                                         *)
(*                                                                         *)
(* Source: src/src/core/tab_manager.cpp.                                   *)
(***************************************************************************)
EXTENDS Layout

NoTabs == [tabs |-> <<>>, act |-> 0, next |-> 1]

ActiveTab(m)   == m.tabs[m.act]
FocusedPane(m) == IF m.act = 0 THEN 0 ELSE ActiveTab(m).focus
Tabs(m)        == DOMAIN m.tabs
LivePanes(m)   == UNION {ToSet(m.tabs[i].panes) : i \in Tabs(m)}
Clamp(i, n)    == IF i > n THEN n ELSE i

\* new_tab; a shell that cannot start takes the tab away again, and leaves the
\* last one active.
NewTab(m, started) ==
    IF ~started THEN [m EXCEPT !.act = Len(m.tabs)]
    ELSE [tabs |-> Append(m.tabs, [id |-> m.next, panes |-> <<m.next + 1>>, focus |-> m.next + 1,
                                   layout |-> InitLayout(m.next + 1, m.next + 2)]),
          act  |-> Len(m.tabs) + 1, next |-> m.next + 3]

NewEmptyTab(m) ==
    [tabs |-> Append(m.tabs, [id |-> m.next, panes |-> <<>>, focus |-> 0, layout |-> NoLayout]),
     act  |-> Len(m.tabs) + 1, next |-> m.next + 1]

\* add_pane_to_tab
AddPaneToTab(m, i) ==
    [m EXCEPT !.tabs[i].panes = Append(@, m.next),
              !.tabs[i].focus = IF @ = 0 THEN m.next ELSE @,
              !.next = @ + 1]

\* seq without the elements that are in gone.
Without(seq, gone) ==
    LET kept[n \in 0..Len(seq)] ==
          IF n = 0 THEN <<>>
          ELSE IF seq[n] \in gone THEN kept[n - 1] ELSE Append(kept[n - 1], seq[n])
    IN kept[Len(seq)]

\* remove_pane
RemovePane(m, i, pane) ==
    LET left == Without(m.tabs[i].panes, {pane})
    IN [m EXCEPT !.tabs[i].panes = left,
                 !.tabs[i].focus = IF @ # pane THEN @ ELSE IF left = <<>> THEN 0 ELSE left[1]]

\* close_tab; no tab is left when it returns false.
CloseTab(m, i) ==
    [m EXCEPT !.tabs = RemoveAt(@, i), !.act = Clamp(@, Len(m.tabs) - 1)]

\* split_pane, whose create_pane adds the pane to the active tab.
SplitPane(m, dir, started) ==
    IF FocusedPane(m) = 0 \/ ~started THEN m
    ELSE LET t == ActiveTab(m) IN
         [m EXCEPT !.tabs[m.act] = [t EXCEPT !.panes = Append(@, m.next), !.focus = m.next,
                                             !.layout = Split(t.layout, t.focus, m.next, dir, m.next + 1, m.next + 2)],
                   !.next = @ + 3]

IsLastPane(m) == Len(m.tabs) = 1 /\ Len(m.tabs[1].panes) = 1

\* Mutant: the pane leaves the tab but not its layout.
CloseFocusedPaneKept(m) ==
    LET t == ActiveTab(m) IN
    IF FocusedPane(m) = 0 \/ IsLastPane(m) THEN m
    ELSE IF Len(t.panes) = 1 THEN CloseTab(m, m.act)
    ELSE [m EXCEPT !.tabs[m.act] = [t EXCEPT !.panes = Without(@, {t.focus}),
                                             !.focus = Without(t.panes, {t.focus})[1]]]

\* close_focused_pane; false, with nothing changed, for the last pane of all.
CloseFocusedPane(m) ==
    LET t == ActiveTab(m) IN
    IF FocusedPane(m) = 0 \/ IsLastPane(m) THEN m
    ELSE IF Len(t.panes) = 1 THEN CloseTab(m, m.act)
    ELSE LET l == RemoveLeaf(t.layout, t.focus) IN
         [m EXCEPT !.tabs[m.act] = [t EXCEPT !.panes = Without(@, {t.focus}), !.layout = l,
                                             !.focus = FirstPane(l)]]

\* activate_tab
ActivateTab(m, i) == IF i \in Tabs(m) THEN [m EXCEPT !.act = i] ELSE m
NextTab(m) == IF Len(m.tabs) <= 1 THEN m ELSE ActivateTab(m, (m.act % Len(m.tabs)) + 1)
PrevTab(m) == IF Len(m.tabs) <= 1 THEN m ELSE ActivateTab(m, ((m.act + Len(m.tabs) - 2) % Len(m.tabs)) + 1)

\* navigate_pane
NavigatePane(m, rects, dir) ==
    IF FocusedPane(m) = 0 THEN m
    ELSE [m EXCEPT !.tabs[m.act].focus = Navigate([p \in ToSet(ActiveTab(m).panes) |-> rects[p]], @, dir)]

\* The layout of t once its dead panes are removed, the last one first.
Pruned(t, dead) ==
    LET size == Len(t.panes)
        left[n \in 0..size] ==
          IF n = 0 THEN t.layout
          ELSE LET pane == t.panes[size + 1 - n]
               IN IF pane \in dead THEN RemoveLeaf(left[n - 1], pane) ELSE left[n - 1]
    IN left[size]

\* Mutant: every tab's focus goes back to its first pane.
ReapedRefocused(t, dead) ==
    [t EXCEPT !.panes = Without(@, dead), !.layout = Pruned(t, dead), !.focus = FirstPane(Pruned(t, dead))]

\* One tab of reap_dead_panes that keeps a pane.
Reaped(t, dead) ==
    LET l == Pruned(t, dead)
    IN [t EXCEPT !.panes = Without(@, dead), !.layout = l,
                 !.focus = IF @ \in dead THEN FirstPane(l) ELSE @]

\* reap_dead_panes: a tab whose panes are all dead goes.
ReapDeadPanes(m, dead) ==
    LET left == Without(m.tabs, {t \in ToSet(m.tabs) : t.panes # <<>> /\ ToSet(t.panes) \subseteq dead})
    IN [m EXCEPT !.tabs = [i \in DOMAIN left |-> Reaped(left[i], dead)],
                 !.act = Clamp(@, Len(left))]
=============================================================================
