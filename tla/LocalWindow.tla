---------------------------- MODULE LocalWindow ----------------------------
(***************************************************************************)
(* LocalWindow: the keys, the mouse and the shells of one local window.    *)
(*                                                                         *)
(* Shells exit at any time and are reaped by the main loop; in between the *)
(* user opens, splits, closes and drags.                                   *)
(*                                                                         *)
(* Source: src/src/core/window.cpp, with Tabs and Layout.                  *)
(***************************************************************************)
EXTENDS Tabs

CONSTANTS
    BarHeight,     \* the tab bar, shown with two tabs or more
    StartSize,     \* the window's first size
    Sizes,         \* sizes the window manager gives it
    Points,        \* where the mouse is pressed and dragged to
    MaxTabs, MaxPanes, MaxOps

ASSUME LocalWindowAssumption ==
    /\ CellW \in Nat \ {0} /\ CellH \in Nat \ {0} /\ Border \in Nat /\ BarHeight \in Nat
    /\ StartSize \in Nat \X Nat /\ Sizes \subseteq Nat \X Nat /\ Points \subseteq Int \X Int

VARIABLES
    m,         \* the TabManager
    win,       \* m_win_w, m_win_h and m_last_bar_h
    content,   \* the area of the last recompute_layout
    rects,     \* every pane's rect
    dead,      \* panes whose shell has exited
    drag,      \* m_divider_drag: the tab and node, or NoDrag
    stale,     \* a tab was closed by key and nothing recomputed since
    lost,      \* the dragged divider's node was freed
    open, ops

vars == <<m, win, content, rects, dead, drag, stale, lost, open, ops>>

NoDrag == [tab |-> 0, node |-> 0]

BarOf(n) == IF n > 1 THEN BarHeight ELSE 0
Area(w)  == Rect(0, w.bar, w.w, w.h - w.bar)

\* recompute_layout's work on the active tab.
LaidOut(n, area) ==
    LET now == PaneRects(ActiveTab(n).layout, area)
    IN IF n.act = 0 THEN rects
       ELSE [p \in DOMAIN now \cup DOMAIN rects |-> IF p \in DOMAIN now THEN now[p] ELSE rects[p]]

\* adjust_tab_bar_height
Adjusted(n, w) == [w EXCEPT !.h = @ + BarOf(Len(n.tabs)) - w.bar, !.bar = BarOf(Len(n.tabs))]

\* Window::recompute
Recompute(n, w) ==
    LET v == Adjusted(n, w) IN
    /\ win' = v /\ content' = Area(v) /\ rects' = LaidOut(n, Area(v)) /\ stale' = FALSE

\* The tab manager's own recompute_layout, with the area it was last given.
RecomputeAsBefore(n) == rects' = LaidOut(n, content) /\ UNCHANGED <<win, content, stale>>

Init ==
    /\ m = NewTab(NoTabs, TRUE)
    /\ win = [w |-> StartSize[1], h |-> StartSize[2], bar |-> 0]
    /\ content = Area(win) /\ rects = PaneRects(m.tabs[1].layout, content)
    /\ dead = {} /\ drag = NoDrag /\ stale = FALSE /\ lost = FALSE /\ open = TRUE /\ ops = 0

Op == open /\ ~lost /\ ops < MaxOps /\ ops' = ops + 1

\* A dragged node is gone when its tab or its place in the tree is.
Held(n) ==
    \E i \in Tabs(n) : n.tabs[i].id = drag.tab /\ drag.node \in Nodes(n.tabs[i].layout)
Dragged(n) == lost' = (lost \/ (drag # NoDrag /\ ~Held(n))) /\ UNCHANGED drag

-----------------------------------------------------------------------------
\* handle_key; it does nothing without a focused pane.

Key == Op /\ FocusedPane(m) # 0

NewTabKey(started) ==
    /\ Key /\ Len(m.tabs) < MaxTabs
    /\ m' = NewTab(m, started) /\ Recompute(m', win) /\ Dragged(m')
    /\ UNCHANGED <<dead, open>>

SplitKey(dir, started) ==
    /\ Key /\ Cardinality(LivePanes(m)) < MaxPanes
    /\ m' = SplitPane(m, dir, started)
    /\ IF started THEN RecomputeAsBefore(m') ELSE UNCHANGED <<win, content, rects, stale>>
    /\ Dragged(m') /\ UNCHANGED <<dead, open>>

\* close_focused_pane_routed: the last pane's window closes; a tab that goes
\* leaves the layout of the one shown next as it was.
CloseKey ==
    /\ Key /\ m' = CloseFocusedPane(m) /\ open' = ~IsLastPane(m)
    /\ IF Len(m'.tabs) = Len(m.tabs) THEN RecomputeAsBefore(m')
       ELSE stale' = TRUE /\ UNCHANGED <<win, content, rects>>
    /\ Dragged(m') /\ UNCHANGED dead

NavigateKey(dir) ==
    /\ Key /\ m' = NavigatePane(m, rects, dir)
    /\ Dragged(m') /\ UNCHANGED <<win, content, rects, dead, stale, open>>

CycleKey ==
    /\ Key /\ m' \in {NextTab(m), PrevTab(m)}
    /\ Recompute(m', win) /\ Dragged(m') /\ UNCHANGED <<dead, open>>

\* handle_mouse on a tab's close button; the bar is there with two tabs, and
\* comes before a drag that goes on.
CloseClick(i) ==
    /\ Op /\ i \in Tabs(m) /\ win.bar > 0
    /\ m' = CloseTab(m, i) /\ open' = (m'.tabs # <<>>)
    /\ Recompute(m', win) /\ Dragged(m') /\ UNCHANGED dead

\* A press on a divider takes hold of it; elsewhere it focuses the pane there.
Press(p) ==
    /\ Op /\ drag = NoDrag /\ m.act # 0 /\ p[2] >= win.bar
    /\ LET d == DividerAt(ActiveTab(m).layout, content, p[1], p[2], 1)
           pane == PaneAt([q \in ToSet(ActiveTab(m).panes) |-> rects[q]], p[1], p[2])
       IN /\ drag' = IF d = 0 THEN NoDrag ELSE [tab |-> ActiveTab(m).id, node |-> d]
          /\ m' = IF d # 0 \/ pane = 0 THEN m ELSE [m EXCEPT !.tabs[m.act].focus = pane]
    /\ UNCHANGED <<win, content, rects, dead, stale, lost, open>>

TabAt(id) == CHOOSE i \in Tabs(m) : m.tabs[i].id = id

\* drag_divider with the split's geometry when it was last computed; a node
\* that has become a leaf is left alone.
Drag(p) ==
    /\ Op /\ drag # NoDrag /\ Held(m)
    /\ LET i == TabAt(drag.tab)
           l == m.tabs[i].layout
           r == NodeRects(l, content)[drag.node]
           share == CASE l.nodes[drag.node].dir = "Vertical" /\ r.w > 0 -> Quotient((p[1] - r.x) * 100, r.w)
                      [] l.nodes[drag.node].dir # "Vertical" /\ r.h > 0 -> Quotient((p[2] - r.y) * 100, r.h)
                      [] OTHER -> l.nodes[drag.node].ratio
       IN m' = IF IsLeaf(l, drag.node) THEN m ELSE [m EXCEPT !.tabs[i].layout = DragDivider(l, drag.node, share)]
    /\ Recompute(m', win) /\ UNCHANGED <<dead, drag, lost, open>>

Release ==
    /\ Op /\ drag # NoDrag /\ drag' = NoDrag
    /\ UNCHANGED <<m, win, content, rects, dead, stale, lost, open>>

\* handle_resize
Resize(size) ==
    /\ Op /\ size # <<win.w, win.h>>
    /\ Recompute(m, [w |-> size[1], h |-> size[2], bar |-> BarOf(Len(m.tabs))])
    /\ UNCHANGED <<m, dead, drag, lost, open>>

-----------------------------------------------------------------------------
ShellExits(p) ==
    /\ Op /\ p \in LivePanes(m) \ dead /\ dead' = dead \cup {p}
    /\ UNCHANGED <<m, win, content, rects, drag, stale, lost, open>>

\* SIGCHLD in the main loop; a window without tabs is closed.
Reap ==
    /\ open /\ ~lost /\ LivePanes(m) \cap dead # {}
    /\ m' = ReapDeadPanes(m, dead) /\ open' = (m'.tabs # <<>>)
    /\ IF open' THEN Recompute(m', win) ELSE UNCHANGED <<win, content, rects, stale>>
    /\ Dragged(m') /\ UNCHANGED <<dead, ops>>

Next ==
    \/ \E started \in BOOLEAN : NewTabKey(started) \/ \E dir \in {"Vertical", "Horizontal"} : SplitKey(dir, started)
    \/ CloseKey \/ CycleKey \/ Release \/ Reap
    \/ \E dir \in {"Left", "Right", "Up", "Down"} : NavigateKey(dir)
    \/ \E i \in Tabs(m) : CloseClick(i)
    \/ \E p \in Points : Press(p) \/ Drag(p)
    \/ \E size \in Sizes : Resize(size)
    \/ \E p \in LivePanes(m) : ShellExits(p)

Spec == Init /\ [][Next]_vars
-----------------------------------------------------------------------------
\* However panes come and go, every tab's layout holds each of its panes once
\* and nothing else, its focus is one of them, and a tab is active
\* (tab_manager.cpp and layout.cpp keep these apart and update them apart).
TabsAgree ==
    open /\ m.tabs # <<>> =>
    /\ m.act \in Tabs(m)
    /\ \A i \in Tabs(m) : LET t == m.tabs[i] IN
         /\ t.focus \in ToSet(t.panes)
         /\ PanesOf(t.layout) = ToSet(t.panes)
         /\ Cardinality(LeafNodes(t.layout)) = Len(t.panes)
         /\ \A n \in Splits(t.layout) : {t.layout.nodes[n].first, t.layout.nodes[n].second} \subseteq Nodes(t.layout)

Empty(a)       == a.w <= 0 \/ a.h <= 0
Disjoint(a, b) == \/ Empty(a) \/ Empty(b)
                  \/ a.x + a.w <= b.x \/ b.x + b.w <= a.x \/ a.y + a.h <= b.y \/ b.y + b.h <= a.y

\* What the user sees: the panes of the active tab lie below the bar, inside
\* the window and beside one another, in the place its layout gives them now;
\* except after a tab was closed by key, which recomputes nothing.
Tiled ==
    open /\ m.act # 0 /\ ~stale =>
    /\ content = Area(win) /\ win.bar = BarOf(Len(m.tabs))
    /\ LET now == PaneRects(ActiveTab(m).layout, content) IN
       \A p \in DOMAIN now :
         /\ rects[p] = now[p]
         /\ ~Empty(rects[p]) => /\ rects[p].x \in 0..win.w /\ rects[p].x + rects[p].w <= win.w
                                /\ rects[p].y >= win.bar /\ rects[p].y + rects[p].h <= win.h
         /\ \A q \in DOMAIN now \ {p} : Disjoint(rects[p], rects[q])

\* Keys go to another pane only by the user's doing, because the pane has gone
\* or because a tab in front of the active one has: the active tab is known by
\* its position, which close_tab and reap_dead_panes do not move back.
KeysStay ==
    [][ FocusedPane(m') # FocusedPane(m) =>
          \/ ops' # ops
          \/ FocusedPane(m) \notin LivePanes(m')
          \/ \E i \in 1..(m.act - 1) : \A j \in Tabs(m') : m'.tabs[j].id # m.tabs[i].id ]_vars
=============================================================================
