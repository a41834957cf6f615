------------------------------ MODULE Terminal ------------------------------
(***************************************************************************)
(* A pane's terminal in the daemon and its replica in a window: the same   *)
(* output applied to two screens, a snapshot to begin with, and older      *)
(* history fetched when the user scrolls up to it.                         *)
(*                                                                         *)
(* PaneStream shows that the replica is given the output once and in       *)
(* order; here it is the screens that are modelled.  Output is what the    *)
(* parser dispatches (VtParser).  Everything the daemon sends about the    *)
(* pane travels on one stream, `wire`; `from` is the number of the oldest  *)
(* line the daemon held when it sent a message, for the properties only.   *)
(*                                                                         *)
(* Sources: src/src/terminal/screen_buffer.cpp, proto/snapshot.cpp,        *)
(* daemon/rivtd.cpp and remote/remote_controller.cpp under src/src.        *)
(***************************************************************************)
EXTENDS Screen

CONSTANTS
    Cols, Rws,     \* the size the pane starts with
    Outputs,       \* what the program may write, as dispatched
    Sizes,         \* the sizes <<cols, rows>> the pane may be given
    AttachLines,   \* ATTACH_SCROLLBACK_LINES
    FetchLines,    \* lines asked for at a time
    MaxOps,        \* bound: outputs and resizes
    MaxWire        \* bound: messages on their way

ASSUME TerminalAssumption ==
    /\ Cols \in Nat \ {0} /\ Rws \in Nat \ {0} /\ Limit \in Nat \ {0}
    /\ Sizes \subseteq (Nat \ {0}) \X (Nat \ {0})
    /\ AttachLines \in Nat /\ FetchLines \in Nat \ {0}
    /\ MaxOps \in Nat /\ MaxWire \in Nat

VARIABLES
    sb,         \* the daemon's ScreenBuffer
    rep,        \* the replica's
    attached,   \* has a snapshot been sent?
    wire,       \* from the daemon to the window
    ask,        \* FetchScrollback requests on their way, by end
    fetching,   \* is the pane in m_fetching?
    done,       \* is it in m_fetch_done?
    exact,      \* should the replica's screen be the daemon's?
    aligned,    \* do both count their lines from the same one?
    ops         \* outputs and resizes so far

vars == <<sb, rep, attached, wire, ask, fetching, done, exact, aligned, ops>>

Init ==
    /\ sb = NewScreen(Cols, Rws) /\ rep = NewScreen(Cols, Rws)
    /\ attached = FALSE /\ wire = <<>> /\ ask = <<>>
    /\ fetching = FALSE /\ done = FALSE
    /\ exact = TRUE /\ aligned = TRUE /\ ops = 0

\* The handler calls of the parser.
Apply(s, o) ==
    CASE o.kind = "glyph"   -> PrintGlyph(s, o.glyph)
      [] o.kind = "execute" -> Execute(s, o.code)
      [] o.kind = "csi"     -> CsiDispatch(s, o)
      [] o.kind = "esc"     -> EscDispatch(s, o.final)
      [] o.kind = "osc"     -> OscDispatch(s, o.zone)
      [] o.kind = "apc"     -> ApcDispatch(s, [f \in DOMAIN Command |->
                                   IF f \in DOMAIN o THEN o[f] ELSE Command[f]])

Send(m) == wire' = IF attached
                   THEN Append(wire, [from |-> sb.trimmed] @@ m) ELSE wire

-----------------------------------------------------------------------------
(* Snapshots.                                                              *)

\* Mutant: the rows are sent as they lie in the ring.
SerializeRing(s, most) ==
    LET n == Min({most, Len(s.scrollback)})
        omitted == Len(s.scrollback) - n
    IN [s EXCEPT !.first = 0,
                 !.scrollback = SubSeq(@, omitted + 1, omitted + n),
                 !.trimmed = omitted + @]

\* Client state and images are left out; only the last lines of the history
\* are sent, and the others are counted as trimmed.
Serialize(s, most) ==
    LET n == Min({most, Len(s.scrollback)})
        omitted == Len(s.scrollback) - n
    IN [s EXCEPT !.screen = Rows(s), !.first = 0,
                 !.scrollback = SubSeq(@, omitted + 1, omitted + n),
                 !.trimmed = omitted + @]

\* The cursor and the region are fitted to the grid.  An end above the first
\* row travels as a 16-bit number and so is past the last one.
Deserialize(r, snap) ==
    LET fits == snap.bottom \in snap.top..snap.rows - 1
        bottom == IF fits THEN snap.bottom ELSE snap.rows - 1
    IN [snap EXCEPT !.row = Min({@, snap.rows - 1}), !.col = Min({@, snap.cols}),
                    !.bottom = bottom, !.top = IF @ > bottom THEN 0 ELSE @,
                    !.viewport = 0, !.savedViewport = r.savedViewport,
                    !.hooked = r.hooked, !.images = r.images]

\* What a snapshot reproduces as it is: a cursor on the grid and a region
\* with its ends in order.
Regular(s) == /\ s.row < s.rows /\ s.col <= s.cols
              /\ s.bottom \in s.top..s.rows - 1

\* handle_control, Attach
Attach ==
    /\ Len(wire) < MaxWire /\ ~attached
    /\ attached' = TRUE
    /\ wire' = Append(wire, [from |-> sb.trimmed, kind |-> "snapshot",
                             screen |-> Serialize(sb, AttachLines), regular |-> Regular(sb)])
    /\ UNCHANGED <<sb, rep, ask, fetching, done, exact, aligned, ops>>

\* The link fails; what was on its way is lost.  The daemon's screen goes on.
Drop ==
    /\ attached
    /\ attached' = FALSE /\ wire' = <<>> /\ ask' = <<>>
    /\ UNCHANGED <<sb, rep, fetching, done, exact, aligned, ops>>

-----------------------------------------------------------------------------
(* Output and resizing: at the daemon, then in the replica.                *)

Output(o) ==
    /\ ops < MaxOps /\ Len(wire) < MaxWire
    /\ ops' = ops + 1
    /\ sb' = Apply(sb, o)
    /\ Send([kind |-> "output", output |-> o])
    /\ UNCHANGED <<rep, attached, ask, fetching, done, exact, aligned>>

\* compute_grid: the pane is resized, and the layout tells the window.
ResizePane(c, r) ==
    /\ ops < MaxOps /\ Len(wire) < MaxWire
    /\ <<c, r>> # <<sb.cols, sb.rows>>
    /\ ops' = ops + 1
    /\ sb' = Resize(sb, c, r)
    /\ Send([kind |-> "layout", cols |-> c, rows |-> r])
    /\ UNCHANGED <<rep, attached, ask, fetching, done, exact, aligned>>

\* on_output
RecvOutput ==
    /\ wire # <<>> /\ Head(wire).kind = "output"
    /\ LET o == Head(wire).output
           erased == o.kind = "csi" /\ o.csi = "J" /\ o.n = 3
           reset == o.kind = "esc" /\ o.final = "c"
       IN /\ rep' = Apply(rep, o)
          /\ aligned' = (reset \/ (aligned /\ (erased => rep.trimmed = Head(wire).from)))
    /\ wire' = Tail(wire)
    /\ UNCHANGED <<sb, attached, ask, fetching, done, exact, ops>>

\* apply_layout.  A replica that holds less history than the daemon may not
\* have the lines that fill the new grid, and wraps a different number of
\* lines anew.
RecvLayout ==
    /\ wire # <<>> /\ Head(wire).kind = "layout"
    /\ LET m == Head(wire)
           r == Resize(rep, m.cols, m.rows)
       IN /\ rep' = r
          /\ exact' = (exact /\ (\/ rep.trimmed = m.from
                                 \/ \E l \in Range(r.scrollback) : ~l.wrapped))
          /\ aligned' = (aligned /\ (\/ rep.trimmed = m.from
                                     \/ m.cols = rep.cols \/ rep.usingAlt))
    /\ wire' = Tail(wire)
    /\ UNCHANGED <<sb, attached, ask, fetching, done, ops>>

\* on_attached, which forgets what was asked for, and on_snapshot.
RecvSnapshot ==
    /\ wire # <<>> /\ Head(wire).kind = "snapshot"
    /\ rep' = Deserialize(rep, Head(wire).screen)
    /\ exact' = Head(wire).regular /\ aligned' = TRUE
    /\ fetching' = FALSE /\ done' = FALSE
    /\ wire' = Tail(wire)
    /\ UNCHANGED <<sb, attached, ask, ops>>

-----------------------------------------------------------------------------
(* History on demand.                                                      *)

\* request_scrollback: one request at a time, and none after a refusal.
Requested(r, busy) == r.trimmed > 0 /\ ~busy /\ ~done
Request(r, busy) ==
    /\ ask' = IF Requested(r, busy) THEN Append(ask, r.trimmed) ELSE ask
    /\ fetching' = (busy \/ Requested(r, busy))

\* The user scrolls; near the top, on_scrollback_wanted.
Look(delta) ==
    /\ attached
    /\ rep' = ScrollViewport(rep, delta)
    /\ rep' # rep
    /\ IF rep.hooked THEN Request(rep', fetching) ELSE UNCHANGED <<ask, fetching>>
    /\ UNCHANGED <<sb, attached, wire, done, exact, aligned, ops>>

\* Mutant: scrollback_line is indexed from the oldest line.
FetchScrollbackReversed ==
    /\ ask # <<>> /\ Len(wire) < MaxWire
    /\ LET end == Clamp(Head(ask), sb.trimmed, HistoryEnd(sb))
           start == Max({sb.trimmed, end - FetchLines})
       IN Send([kind |-> "lines", start |-> start,
                lines |-> SubSeq(Reverse(sb.scrollback), start - sb.trimmed + 1, end - sb.trimmed)])
    /\ ask' = Tail(ask)
    /\ UNCHANGED <<sb, rep, attached, fetching, done, exact, aligned, ops>>

\* handle_control, FetchScrollback
FetchScrollback ==
    /\ ask # <<>> /\ Len(wire) < MaxWire
    /\ LET end == Clamp(Head(ask), sb.trimmed, HistoryEnd(sb))
           start == Max({sb.trimmed, end - FetchLines})
       IN Send([kind |-> "lines", start |-> start,
                lines |-> SubSeq(sb.scrollback, start - sb.trimmed + 1, end - sb.trimmed)])
    /\ ask' = Tail(ask)
    /\ UNCHANGED <<sb, rep, attached, fetching, done, exact, aligned, ops>>

\* on_scrollback: lines that do not end where the history starts are refused
\* for good.
RecvLines ==
    /\ wire # <<>> /\ Head(wire).kind = "lines"
    /\ LET m == Head(wire)
       IN IF m.lines # <<>> /\ m.start + Len(m.lines) = rep.trimmed
          THEN /\ rep' = PrependScrollback(rep, m.lines)
               /\ Request(rep', FALSE)
               /\ UNCHANGED done
          ELSE /\ done' = TRUE /\ fetching' = FALSE
               /\ UNCHANGED <<rep, ask>>
    /\ wire' = Tail(wire)
    /\ UNCHANGED <<sb, attached, exact, aligned, ops>>

Next ==
    \/ Attach \/ Drop
    \/ \E o \in Outputs : Output(o)
    \/ \E z \in Sizes : ResizePane(z[1], z[2])
    \/ RecvOutput \/ RecvLayout \/ RecvSnapshot
    \/ \E d \in {-1, 1} : Look(d)
    \/ FetchScrollback \/ RecvLines

Spec == Init /\ [][Next]_vars

-----------------------------------------------------------------------------
(* Properties.                                                             *)

\* Type and shape: both grids keep their size; a cursor is off the grid only
\* where DECRC put it, because a saved cursor is not fitted to a resize; every
\* image that is shown is held (screen_buffer.cpp, image_store.cpp).
WellFormed(s) ==
    /\ Len(s.screen) = s.rows /\ Len(s.alt) = s.rows /\ s.first \in 0..s.rows - 1
    /\ \A l \in Range(s.screen) \cup Range(s.alt) : Len(l.cells) = s.cols
    /\ Len(s.scrollback) <= Limit \/ s = rep
    /\ s.row \in 0..s.rows - 1 \/ s.row = s.saved.row
    /\ s.col \in 0..s.cols \/ s.col = s.saved.col
    /\ s.top >= 0 /\ s.bottom \in -1..s.rows - 1
    /\ \A p \in s.images.placed : p.id \in s.images.held
TypeOK ==
    /\ WellFormed(sb) /\ WellFormed(rep)
    /\ attached \in BOOLEAN /\ done \in BOOLEAN /\ exact \in BOOLEAN /\ aligned \in BOOLEAN
    /\ Len(ask) <= 2

\* What the user sees of a screen, and what further output depends on.
Core(s) ==
    [s EXCEPT !.screen = Rows(s), !.first = 0, !.scrollback = <<>>, !.trimmed = 0,
              !.viewport = 0, !.savedViewport = 0, !.hooked = TRUE, !.images = NewImages]

\* A replica that was restored from a snapshot and given everything since has
\* the daemon's screen, wherever the ring stood and whatever the user did to
\* the view meanwhile (snapshot.cpp: "the full replicable state").
ReplicaExact == attached /\ wire = <<>> /\ exact => Core(rep) = Core(sb)

\* A line that both hold under the same number is the same line, whether it
\* was sent with the snapshot, printed since, or fetched (rivtd.cpp:840,
\* remote_controller.cpp:130).
HistoryAgrees ==
    attached /\ wire = <<>> /\ exact /\ aligned =>
        /\ HistoryEnd(rep) = HistoryEnd(sb)
        /\ \A a \in Max({sb.trimmed, rep.trimmed})..HistoryEnd(sb) - 1 :
              LineAt(rep, a) = LineAt(sb, a)

\* A line in the history keeps its number and its text until it is trimmed,
\* the terminal is reset, or the text is wrapped anew; and the alternate
\* screen adds nothing to the history.
HistoryImmutable ==
    [][\/ sb'.cols # sb.cols /\ ~sb.usingAlt
       \/ ~sb'.hooked /\ sb'.trimmed = 0 /\ sb'.scrollback = <<>>
       \/ /\ \A a \in Max({sb.trimmed, sb'.trimmed})..
                      Min({HistoryEnd(sb), HistoryEnd(sb')}) - 1 :
                LineAt(sb', a) = LineAt(sb, a)
          /\ sb.usingAlt /\ sb'.usingAlt => HistoryEnd(sb') <= HistoryEnd(sb)]_vars

\* The text of a terminal: its logical lines without trailing blanks, each
\* closed by "|", without the empty lines at the end.
Text(s) ==
    LET ls == s.scrollback \o Rows(s)
        t == FlattenSeq([k \in DOMAIN Groups(ls) |->
                            TrimCells(CellsOf(ls, Groups(ls)[k]), 0) \o <<"|">>])
    IN SubSeq(t, 1, Max({i \in DOMAIN t : t[i] # "|"} \cup {0}))

\* Wrapping the text anew for another width loses none of it, but for whole
\* lines from the start when the history is full (ScreenBuffer::reflow).
ReflowKeepsText ==
    [][sb'.cols # sb.cols /\ ~sb.usingAlt =>
          IF sb'.trimmed = sb.trimmed THEN Text(sb') = Text(sb)
          ELSE IsSuffix(Text(sb'), Text(sb))]_vars
=============================================================================
