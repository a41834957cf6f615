-------------------------------- MODULE Tmux --------------------------------
(***************************************************************************)
(* Tmux: a window that shows a tmux session in control mode.               *)
(*                                                                         *)
(* A shell in some pane runs tmux -CC; that pane becomes the gateway whose *)
(* terminal carries tmux's lines to the client and the client's commands   *)
(* back.  tmux itself, with its other clients and shells, is external.     *)
(*                                                                         *)
(* Source: src/src/tmux/tmux_client.cpp, tmux_controller.cpp and the tmux  *)
(* parts of src/src/core/window.cpp, with Tabs.                            *)
(***************************************************************************)
EXTENDS Tabs

CONSTANTS
    Resizes,                  \* sizes the window manager gives the window
    MaxWindows, MaxTmuxPanes, \* tmux makes no more than this
    MaxOps                    \* what users and shells do

ASSUME TmuxAssumption == MaxWindows \in Nat /\ MaxTmuxPanes \in Nat

VARIABLES
    srv,    \* tmux: windows with their panes, the current one, its active panes
    wire,   \* lines on their way to the client
    c,      \* the client, its controller and its window
    gw,     \* who gets what the gateway's terminal says: client, drain, pane
    torn,   \* the end marker was cut in two while draining
    ops

vars == <<srv, wire, c, gw, torn, ops>>

Line(k, n)    == [k |-> k, n |-> n, list |-> <<>>]
Command(k, n) == [k |-> k, n |-> n]
NoCallback    == Command("none", 0)

\* The map f with x at v.
With(f, x, v) == [y \in DOMAIN f \cup {x} |-> IF y = x THEN v ELSE f[y]]

Init ==
    /\ srv = [wins |-> <<<<1>>>>, cur |-> 1, act |-> <<1>>, up |-> TRUE, nextW |-> 2, nextP |-> 2]
    /\ wire = <<Line("attached", 0), Line("session-changed", 0)>>
    /\ c = [m |-> NoTabs, win |-> "open", active |-> TRUE, queue |-> <<>>, cmds |-> <<>>,
            wins |-> <<>>, panes |-> <<>>, buf |-> {}, aff |-> {}, size |-> 0,
            early |-> FALSE, crossed |-> FALSE, here |-> FALSE, moved |-> FALSE, freed |-> FALSE]
    /\ gw = "client" /\ torn = FALSE /\ ops = 0

-----------------------------------------------------------------------------
(* The client and its controller.  A tab or a pane that is used when it is  *)
(* gone leaves nothing to say about the program: freed.                     *)

\* Mutant: only a command with a callback has a place in the queue.
SendCounted(s, cmd, then) ==
    [s EXCEPT !.queue = IF then = NoCallback THEN @ ELSE Append(@, then), !.cmds = Append(@, cmd)]

\* send_command
Send(s, cmd, then) == [s EXCEPT !.queue = Append(@, then), !.cmds = Append(@, cmd)]

HasTab(s, w) == \E i \in Tabs(s.m) : s.m.tabs[i].id = s.wins[w]
TabOf(s, w)  == CHOOSE i \in Tabs(s.m) : s.m.tabs[i].id = s.wins[w]

SaveAffinities(s) ==
    IF DOMAIN s.wins \in {{}, s.aff} THEN s
    ELSE Send([s EXCEPT !.aff = DOMAIN s.wins], Command("set", 0), NoCallback)

RequestWindowNames(s) == Send(s, Command("names", 0), Command("names", 0))

CreateTmuxPane(s, i, p) ==
    Send([s EXCEPT !.m = AddPaneToTab(@, i), !.panes = With(@, p, s.m.next), !.buf = @ \ {p}],
         Command("capture", p), Command("capture", s.m.next))

\* The same for each of `panes` in turn.
CreateTmuxPanes(s, i, panes) ==
    LET made[n \in 0..Len(panes)] == IF n = 0 THEN s ELSE CreateTmuxPane(made[n - 1], i, panes[n])
    IN made[Len(panes)]

\* The panes of tab i that the controller knows.
PanesIn(s, i) == {p \in DOMAIN s.panes : s.panes[p] \in ToSet(s.m.tabs[i].panes)}

Forget(s, gone) == [s EXCEPT !.panes = Restrict(@, DOMAIN @ \ gone)]

\* Mutant: the panes that are gone keep their place in the tab.
OnLayoutChangeKeeping(s, w, panes) ==
    LET t == IF w \in DOMAIN s.wins THEN s
             ELSE [s EXCEPT !.wins = With(@, w, s.m.next), !.m = NewEmptyTab(@)]
    IN IF ~HasTab(t, w) THEN [s EXCEPT !.freed = TRUE]
       ELSE CreateTmuxPanes(t, TabOf(t, w), Without(panes, PanesIn(t, TabOf(t, w))))

\* tab i of m without the panes `gone`
RemovePanes(m, i, gone) == FoldSet(LAMBDA p, n : RemovePane(n, i, p), m, gone)

\* on_layout_change: a new tab is the active one as it is.
OnLayoutChange(s, w, panes) ==
    LET t == IF w \in DOMAIN s.wins THEN s
             ELSE [s EXCEPT !.wins = With(@, w, s.m.next), !.m = NewEmptyTab(@)]
        i == TabOf(t, w)
        gone == PanesIn(t, i) \ ToSet(panes)
        made == CreateTmuxPanes(t, i, Without(panes, PanesIn(t, i)))
    IN IF ~HasTab(t, w) THEN [s EXCEPT !.freed = TRUE]
       ELSE Forget([made EXCEPT !.m = RemovePanes(@, i, {t.panes[p] : p \in gone})], gone)

\* The same for each row of a list of windows.
OnLayoutChanges(s, rows) ==
    LET made[n \in 0..Len(rows)] == IF n = 0 THEN s ELSE OnLayoutChange(made[n - 1], rows[n][1], rows[n][2])
    IN made[Len(rows)]

\* on_window_add
OnWindowAdd(s, w) ==
    IF w \in DOMAIN s.wins THEN s ELSE Send(s, Command("list", 0), Command("added", w))

\* on_window_close; the last tab takes the window with it, and does not detach.
OnWindowClose(s, w) ==
    IF w \notin DOMAIN s.wins THEN s
    ELSE IF ~HasTab(s, w) THEN [s EXCEPT !.freed = TRUE]
    ELSE LET t == Forget(s, PanesIn(s, TabOf(s, w)))
             u == [t EXCEPT !.m = CloseTab(@, TabOf(s, w)), !.wins = Restrict(@, DOMAIN @ \ {w})]
         IN SaveAffinities([u EXCEPT !.win = IF u.m.tabs = <<>> THEN "closing" ELSE @])

\* on_session_changed
OnSessionChanged(s) ==
    Send(Send(s, Command("refresh", 0), NoCallback), Command("list", 0), Command("list", 0))

\* on_session_window_changed
OnSessionWindowChanged(s, w) ==
    IF w \in DOMAIN s.wins /\ HasTab(s, w) THEN [s EXCEPT !.m = ActivateTab(@, TabOf(s, w))] ELSE s

\* on_output
OnOutput(s, p) ==
    IF p \notin DOMAIN s.panes THEN [s EXCEPT !.buf = @ \cup {p}]
    ELSE [s EXCEPT !.freed = @ \/ s.panes[p] \notin LivePanes(s.m)]

\* on_exit, and stop_tmux_pty_mode after it
OnExit(s) ==
    [s EXCEPT !.active = FALSE, !.win = "closing", !.wins = <<>>, !.panes = <<>>, !.buf = {},
              !.m = [s.m EXCEPT !.act = 0,
                                !.tabs = Without(s.m.tabs, {t \in ToSet(s.m.tabs) : t.id \in Range(s.wins)})]]

\* A callback, given the answer to whatever command it answers.
Answered(s, then, line) ==
    LET rows == IF line.k = "list" THEN line.list ELSE <<>>
        mine == IF then.k = "list" THEN rows ELSE Without(rows, {r \in ToSet(rows) : r[1] # then.n})
    IN CASE then.k = "list" \/ (then.k = "added" /\ mine # <<>>) ->
              SaveAffinities(RequestWindowNames(OnLayoutChanges(s, mine)))
         [] then.k = "capture" -> [s EXCEPT !.freed = @ \/ then.n \notin LivePanes(s.m)]
         [] OTHER -> s

\* The end of a block, %end or %error; tmux sends one when a client attaches.
OnBlock(s, line) ==
    IF s.queue = <<>> THEN s
    ELSE LET then == Head(s.queue)
             ask == CASE then.k = "added" -> "list" [] OTHER -> then.k
         IN Answered([s EXCEPT !.queue = Tail(@),
                               !.crossed = @ \/ line.k = "attached" \/ (ask # "none" /\ ask # line.k)],
                     then, line)

\* parse_line
ParseLine(s, line) ==
    CASE line.k = "output"          -> OnOutput(s, line.n)
      [] line.k = "window-add"      -> OnWindowAdd(s, line.n)
      [] line.k = "window-close"    -> OnWindowClose(s, line.n)
      [] line.k = "layout-change"   -> OnLayoutChange(s, line.n, line.list)
      [] line.k = "session-changed" -> OnSessionChanged(s)
      [] line.k = "window-changed"  -> OnSessionWindowChanged(s, line.n)
      [] line.k = "exit"            -> OnExit(s)
      [] line.k = "ST"              -> s
      [] OTHER                      -> OnBlock(s, line)

\* The next line is read from the gateway's terminal.
Reads == wire # <<>> /\ ~c.freed /\ wire' = Tail(wire)

\* Mutant: the drain does not give way to the pane.
GatewayDraining(line, cut) == IF gw = "client" /\ line.k = "exit" THEN "pane" ELSE gw

\* Who reads on after a line: the client's %exit gives the terminal back, and
\* in the drain the end marker, unless it comes cut in two.
GatewayAfter(line, cut) ==
    IF (gw = "client" /\ line.k = "exit") \/ (gw = "drain" /\ line.k = "ST" /\ ~cut) THEN "pane" ELSE gw

\* The line goes to the gateway's override: the client, the drain that takes
\* its place, or neither.
Receive ==
    /\ Reads
    /\ LET line == Head(wire) IN
       /\ torn' \in (IF gw = "drain" /\ line.k = "ST" THEN BOOLEAN ELSE {torn})
       /\ gw' = GatewayAfter(line, torn')
       /\ c' = IF gw = "client" THEN ParseLine(c, line) ELSE c
    /\ UNCHANGED <<srv, ops>>

\* Window::~Window leaves a drain in the client's place.
LetGo(g) == IF g = "client" THEN "drain" ELSE g

\* The window goes and takes the client with it; what it wrote is on its way.
Gone(s) == [s EXCEPT !.win = "gone", !.m = NoTabs, !.queue = <<>>, !.wins = <<>>, !.panes = <<>>,
                     !.buf = {}, !.active = FALSE, !.aff = {}]

\* The main loop takes a closing window away.
Sweep ==
    /\ c.win = "closing" /\ ~c.freed
    /\ c' = Gone(c) /\ gw' = LetGo(gw) /\ UNCHANGED <<srv, wire, torn, ops>>

-----------------------------------------------------------------------------
(* The user.                                                                *)

User == c.win = "open" /\ ~c.freed /\ ops < MaxOps /\ ops' = ops + 1 /\ UNCHANGED <<srv, wire, gw, torn>>

\* What is sent before tmux's first block has been read.
Early(s) == [s EXCEPT !.early = @ \/ (wire # <<>> /\ Head(wire).k = "attached")]

\* handle_key and menus: new-window, split-window, kill-pane, and keys.  None
\* but the last says which pane it means.
Key(k) == User /\ c.active /\ FocusedPane(c.m) # 0 /\ c' = Send(c, Command(k, 0), NoCallback)

\* Tabs and panes are chosen in the window; tmux is not told.
Choose ==
    /\ User /\ c.m.act # 0
    /\ \E i \in Tabs(c.m) : \E p \in ToSet(c.m.tabs[i].panes) :
         /\ p # FocusedPane(c.m)
         /\ c' = [c EXCEPT !.m.act = i, !.m.tabs[i].focus = p]

\* A tab closed by mouse goes at once, while the controller still knows it.
CloseClick(i) ==
    /\ User /\ Len(c.m.tabs) > 1 /\ c' = [c EXCEPT !.m = CloseTab(@, i), !.here = TRUE]

\* handle_resize
Resize(size) ==
    /\ User /\ c.active /\ size # c.size
    /\ c' = Send(Early([c EXCEPT !.size = size]), Command("refresh", 0), NoCallback)

\* on_close of the platform: detach, and close
CloseWindow ==
    /\ User /\ c' = [IF c.active THEN Send(Early(c), Command("detach", 0), NoCallback) ELSE c
                     EXCEPT !.active = FALSE, !.win = "closing"]

\* SIGCHLD while there are no tabs: reap_dead_panes has the window erased.
ReapEmpty ==
    /\ c.win = "open" /\ c.m.tabs = <<>> /\ ~c.freed /\ ops < MaxOps /\ ops' = ops + 1
    /\ c' = Gone(c) /\ gw' = LetGo(gw) /\ UNCHANGED <<srv, wire, torn>>

-----------------------------------------------------------------------------
(* tmux.  Lines that a command causes follow its block.                     *)

Windows(s) == DOMAIN s.wins
Layout(s, w) == [Line("layout-change", w) EXCEPT !.list = s.wins[w]]
ByNumber(set) == Without([w \in 1..MaxWindows |-> w], (1..MaxWindows) \ set)
Layouts(s) == LET ws == ByNumber(Windows(s)) IN [i \in DOMAIN ws |-> Layout(s, ws[i])]
Rows(s) == LET ws == ByNumber(Windows(s)) IN [i \in DOMAIN ws |-> <<ws[i], s.wins[ws[i]]>>]

\* What tmux does next, and the lines it says.
Does(s, lines) == [s |-> s, lines |-> lines]

NewWindow(s) ==
    IF s.nextW > MaxWindows \/ s.nextP > MaxTmuxPanes THEN Does(s, <<>>)
    ELSE Does([s EXCEPT !.wins = With(@, s.nextW, <<s.nextP>>), !.act = With(@, s.nextW, s.nextP),
                        !.cur = s.nextW, !.nextW = @ + 1, !.nextP = @ + 1],
              <<Line("window-add", s.nextW), Line("window-changed", s.nextW)>>)

SplitWindow(s) ==
    IF s.nextP > MaxTmuxPanes THEN Does(s, <<>>)
    ELSE LET t == [s EXCEPT !.wins[s.cur] = Append(@, s.nextP), !.act[s.cur] = s.nextP, !.nextP = @ + 1]
         IN Does(t, <<Layout(t, s.cur)>>)

Exits == <<Line("exit", 0), Line("ST", 0)>>

\* A pane's end: the window's last takes it along, the session's last tmux.
PaneEnds(s, p) ==
    LET w == CHOOSE v \in Windows(s) : p \in ToSet(s.wins[v])
        t == [s EXCEPT !.wins[w] = Without(@, {p}),
                       !.act[w] = IF @ = p /\ Len(s.wins[w]) > 1 THEN Without(s.wins[w], {p})[1] ELSE @]
        left == Windows(s) \ {w}
        u == [s EXCEPT !.wins = Restrict(@, left), !.act = Restrict(@, left),
                       !.cur = IF @ \in left \/ left = {} THEN @ ELSE CHOOSE v \in left : TRUE, !.up = left # {}]
    IN IF t.wins[w] # <<>> THEN Does(t, <<Layout(t, w)>>)
       ELSE Does(u, <<Line("window-close", w)>> \o IF u.up THEN <<>> ELSE Exits)

\* Two windows exchange their first panes.
SwapPanes(s, v, w) ==
    LET t == [s EXCEPT !.wins[v][1] = s.wins[w][1], !.wins[w][1] = s.wins[v][1],
                       !.act[v] = s.wins[w][1], !.act[w] = s.wins[v][1]]
    IN Does(t, <<Layout(t, v), Layout(t, w)>>)

\* What a command does; the rest only have an answer.
Obeyed(s, cmd) ==
    CASE cmd.k = "refresh" -> Does(s, Layouts(s))
      [] cmd.k = "new"     -> NewWindow(s)
      [] cmd.k = "split"   -> SplitWindow(s)
      [] cmd.k = "kill"    -> PaneEnds(s, s.act[s.cur])
      [] cmd.k = "detach"  -> Does([s EXCEPT !.up = FALSE], Exits)
      [] OTHER             -> Does(s, <<>>)

\* A command arrives.
Arrives == c.cmds # <<>> /\ ~c.freed /\ c' = [c EXCEPT !.cmds = Tail(@)]

\* It is tmux's, or the shell's once tmux has gone.
ServerCommand ==
    /\ Arrives
    /\ LET cmd == Head(c.cmds)
           done == Obeyed(srv, cmd)
           block == [Line(cmd.k, 0) EXCEPT !.list = IF cmd.k = "list" THEN Rows(srv) ELSE @]
       IN IF srv.up THEN srv' = done.s /\ wire' = wire \o <<block>> \o done.lines
          ELSE UNCHANGED <<srv, wire>>
    /\ UNCHANGED <<gw, torn, ops>>

\* Shells and tmux's other clients.
Elsewhere(done, swapped) ==
    /\ srv.up /\ ~c.freed /\ ops < MaxOps /\ ops' = ops + 1 /\ done.lines # <<>>
    /\ srv' = done.s /\ wire' = wire \o done.lines
    /\ c' = [c EXCEPT !.moved = @ \/ swapped] /\ UNCHANGED <<gw, torn>>

Next ==
    \/ Receive \/ Sweep \/ ServerCommand \/ Choose \/ CloseWindow \/ ReapEmpty
    \/ \E k \in {"new", "split", "kill", "keys"} : Key(k)
    \/ \E i \in Tabs(c.m) : CloseClick(i)
    \/ \E size \in Resizes : Resize(size)
    \/ Elsewhere(NewWindow(srv), FALSE)
    \/ Elsewhere(SplitWindow(srv), FALSE)
    \/ \E w \in Windows(srv) : \E p \in ToSet(srv.wins[w]) :
         Elsewhere(PaneEnds(srv, p), FALSE) \/ Elsewhere(Does(srv, <<Line("output", p)>>), FALSE)
    \/ \E v, w \in Windows(srv) : v < w /\ Elsewhere(SwapPanes(srv, v, w), TRUE)

\* The loop reads what there is and sweeps; tmux takes what it is sent.  Only
\* Receive shortens the wire and only ServerCommand the commands.
Fairness == WF_wire(Reads) /\ WF_c(Arrives) /\ WF_vars(Sweep)

Spec     == Init /\ [][Next]_vars
FairSpec == Spec /\ Fairness
-----------------------------------------------------------------------------
\* Every callback gets the answer to its own command, whatever was sent and
\* said around it; except after a command that overtook tmux's first block
\* (tmux_client.cpp matches answers by their order alone).
AnswersMatch == ~c.early => ~c.crossed

Settled == wire = <<>> /\ c.cmds = <<>> /\ gw = "client" /\ c.win = "open" /\ ~c.freed

\* When nothing is on its way the tabs are tmux's windows with their panes,
\* and every callback has been called; except after a tab was closed by mouse,
\* panes moved between windows, or the first block was overtaken.
Mirrored ==
    Settled /\ ~c.early /\ ~c.here /\ ~c.moved =>
    /\ c.queue = <<>> /\ DOMAIN c.wins = Windows(srv) /\ Len(c.m.tabs) = Cardinality(Windows(srv))
    /\ \A w \in Windows(srv) :
         /\ HasTab(c, w) /\ PanesIn(c, TabOf(c, w)) = ToSet(srv.wins[w])
         /\ Len(c.m.tabs[TabOf(c, w)].panes) = Len(srv.wins[w])
         /\ c.m.tabs[TabOf(c, w)].focus \in ToSet(c.m.tabs[TabOf(c, w)].panes)

\* Once tmux is gone the pane it ran in has its terminal back, whether the
\* window was there to the end or not; unless the end marker was cut in two
\* where the drain cannot see it (window.cpp:37), or the program is undone.
GatewayReturns == ~srv.up ~> (gw = "pane" \/ torn \/ c.freed)

\* A callback that outlives its pane does not use it: what pane.h promises of
\* callbacks that capture a pane.
FreedUntouched == ~c.here => ~c.freed
=============================================================================
