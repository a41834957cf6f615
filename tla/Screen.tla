------------------------------- MODULE Screen -------------------------------
(***************************************************************************)
(* ScreenBuffer: the grid of a terminal, kept as a ring of lines, with its *)
(* alternate grid, its history, its cursor and its scroll region.          *)
(*                                                                         *)
(* A screen is a record and an operation maps a screen to a screen, so     *)
(* that the daemon's screen and its replica share one definition.  A cell  *)
(* is " ", a glyph, or "_", the coloured blank an erase leaves behind when *)
(* a background is set; colours and attributes are told apart no further.  *)
(*                                                                         *)
(* Source: src/src/terminal/screen_buffer.cpp.                             *)
(***************************************************************************)
EXTENDS Integers, Sequences, SequencesExt, FiniteSetsExt, Images

CONSTANT Limit   \* m_scrollback_limit

BlankLine(n) == [cells |-> [i \in 1..n |-> " "], wrapped |-> FALSE, zone |-> ""]

NewScreen(cols, rows) ==
    [cols |-> cols, rows |-> rows,
     screen |-> [r \in 1..rows |-> BlankLine(cols)], first |-> 0,
     alt |-> [r \in 1..rows |-> BlankLine(cols)], usingAlt |-> FALSE,
     scrollback |-> <<>>, trimmed |-> 0, viewport |-> 0, savedViewport |-> 0,
     row |-> 0, col |-> 0, pen |-> "plain", last |-> "",
     saved |-> [row |-> 0, col |-> 0, pen |-> "plain"],
     top |-> 0, bottom |-> rows - 1, modes |-> {}, keys |-> <<>>, savedKeys |-> <<>>,
     hooked |-> TRUE, images |-> NewImages]

\* std::clamp
Clamp(x, lo, hi) == IF x < lo THEN lo ELSE IF x > hi THEN hi ELSE x

\* sline: row 0 of the screen is at first in the ring.
At(s, r) == ((s.first + r) % Len(s.screen)) + 1
SLine(s, r) == s.screen[At(s, r)]
Rows(s) == [r \in 1..Len(s.screen) |-> SLine(s, r - 1)]
Linearize(s) == [s EXCEPT !.screen = Rows(s), !.first = 0]

\* What an erase leaves in a cell.
Erased(s) == IF s.pen = "marked" THEN "_" ELSE " "

EditLine(s, F(_)) ==
    LET l == SLine(s, s.row)
    IN [s EXCEPT !.screen[At(s, s.row)].cells = [c \in DOMAIN l.cells |-> F(c)]]

SetCursor(s, r, c) ==
    [s EXCEPT !.row = Clamp(r, 0, s.rows - 1), !.col = Clamp(c, 0, s.cols - 1)]

-----------------------------------------------------------------------------
(* History and scrolling.                                                  *)

\* Mutant: what the alternate screen scrolls off goes to the history as well.
PushScrollbackAlways(s, line) ==
    LET h == Append(s.scrollback, line)
        over == Max({0, Len(h) - Limit})
    IN [s EXCEPT !.scrollback = SubSeq(h, over + 1, Len(h)), !.trimmed = @ + over]

\* A line leaves the grid: the oldest one goes when the history is full, and
\* a viewport that would point before the start follows.
PushScrollback(s, line) ==
    LET h == Append(s.scrollback, line)
        over == Max({0, Len(h) - Limit})
        kept == SubSeq(h, over + 1, Len(h))
    IN IF s.usingAlt THEN s
       ELSE IF over = 0 THEN [s EXCEPT !.scrollback = kept]
       ELSE [s EXCEPT !.scrollback = kept, !.trimmed = @ + over,
                      !.images = GcPlacements(@, s.trimmed + over),
                      !.viewport = Max({@, -Len(kept)})]

\* The rows of a region move by one; a blank row comes in.
ShiftRegion(s, from, Source(_)) ==
    [s EXCEPT !.screen = [i \in DOMAIN @ |->
        LET r == (i - 1 - s.first) % Len(s.screen)
        IN IF r = from THEN BlankLine(s.cols)
           ELSE IF Source(r) = r THEN @[i] ELSE SLine(s, Source(r))]]

ScrollUpOne(s, top, bottom) ==
    LET p == IF top = 0 /\ ~s.usingAlt THEN PushScrollback(s, SLine(s, 0)) ELSE s
        q == [p EXCEPT !.viewport = IF top = 0 /\ ~s.usingAlt /\ @ < 0 THEN @ - 1 ELSE @]
    IN IF top = 0 /\ bottom = s.rows - 1
       THEN [q EXCEPT !.screen[At(s, 0)] = BlankLine(s.cols),
                      !.first = (@ + 1) % Len(s.screen)]
       ELSE ShiftRegion(q, bottom, LAMBDA r : IF r \in top..bottom THEN r + 1 ELSE r)

ScrollDownOne(s, top, bottom) ==
    IF top = 0 /\ bottom = s.rows - 1
    THEN LET first == (s.first + Len(s.screen) - 1) % Len(s.screen)
         IN [s EXCEPT !.first = first, !.screen[first + 1] = BlankLine(s.cols)]
    ELSE ShiftRegion(s, top, LAMBDA r : IF r \in top..bottom THEN r - 1 ELSE r)

\* An inverted region scrolls nothing.
Times(s, n, F(_)) ==
    LET f[k \in 0..Max({n, 0})] == IF k = 0 THEN s ELSE F(f[k - 1]) IN f[Max({n, 0})]
ScrollUp(s, top, bottom, n) ==
    Times(s, Min({n, bottom - top + 1}), LAMBDA x : ScrollUpOne(x, top, bottom))
ScrollDown(s, top, bottom, n) ==
    Times(s, Min({n, bottom - top + 1}), LAMBDA x : ScrollDownOne(x, top, bottom))

NewLine(s) ==
    IF s.row = s.bottom THEN ScrollUp(s, s.top, s.bottom, 1)
    ELSE IF s.row < s.rows - 1 THEN [s EXCEPT !.row = @ + 1] ELSE s

-----------------------------------------------------------------------------
(* Printing and editing.                                                   *)

\* A full row wraps when the next glyph comes, not before.
PutChar(s, g) ==
    LET w == IF s.col >= s.cols
             THEN [NewLine([s EXCEPT !.screen[At(s, s.row)].wrapped = TRUE]) EXCEPT !.col = 0]
             ELSE s
    IN [w EXCEPT !.screen[At(w, w.row)].cells[w.col + 1] = g, !.col = @ + 1]

PrintGlyph(s, g) == PutChar([s EXCEPT !.last = g], g)

Execute(s, code) ==
    CASE code = "BS" -> [s EXCEPT !.col = Max({@ - 1, 0})]
      [] code = "HT" -> [s EXCEPT !.col = Min({(@ \div 8 + 1) * 8, s.cols - 1})]
      [] code = "LF" -> NewLine(s)
      [] code = "CR" -> [s EXCEPT !.col = 0]
      [] OTHER -> s

EraseCells(s, r, from, to) ==
    IF r \notin 0..s.rows - 1 THEN s
    ELSE [s EXCEPT !.screen[At(s, r)].cells =
             [c \in DOMAIN @ |-> IF c - 1 \in Max({from, 0})..to THEN Erased(s) ELSE @[c]]]

EraseRows(s, rs) ==
    [s EXCEPT !.screen = [i \in DOMAIN @ |->
        IF (i - 1 - s.first) % Len(s.screen) \in rs
        THEN [@[i] EXCEPT !.cells = [c \in DOMAIN @ |-> Erased(s)]] ELSE @[i]]]

\* Mode 3 clears the history too, but does not count its lines as trimmed.
EraseDisplay(s, mode) ==
    CASE mode = 0 -> EraseRows(EraseCells(s, s.row, s.col, s.cols - 1), s.row + 1..s.rows - 1)
      [] mode = 1 -> EraseRows(EraseCells(s, s.row, 0, s.col), 0..s.row - 1)
      [] mode = 2 -> EraseRows(s, 0..s.rows - 1)
      [] OTHER -> EraseRows([s EXCEPT !.scrollback = <<>>, !.viewport = 0,
                                      !.images = RemoveAll(@)], 0..s.rows - 1)

InsertChars(s, n) ==
    EditLine(s, LAMBDA c : IF c - 1 < s.col THEN SLine(s, s.row).cells[c]
                           ELSE IF c - 1 < s.col + n THEN Erased(s)
                           ELSE SLine(s, s.row).cells[c - n])

DeleteChars(s, n) ==
    EditLine(s, LAMBDA c : IF c - 1 < s.col THEN SLine(s, s.row).cells[c]
                           ELSE IF c - 1 < s.cols - n THEN SLine(s, s.row).cells[c + n]
                           ELSE Erased(s))

InsertLines(s, n) ==
    IF s.row \in s.top..s.bottom THEN ScrollDown(s, s.row, s.bottom, n) ELSE s

\* Deleting from the first row down moves the deleted lines to the history.
DeleteLines(s, n) ==
    IF s.row \in s.top..s.bottom THEN ScrollUp(s, s.row, s.bottom, n) ELSE s

-----------------------------------------------------------------------------
(* Modes, cursor and region.                                               *)

SaveCursor(s) == [s EXCEPT !.saved = [row |-> s.row, col |-> s.col, pen |-> s.pen]]

\* The saved place is taken as it is, also after the grid has shrunk.
RestoreCursor(s) ==
    [s EXCEPT !.row = s.saved.row, !.col = s.saved.col, !.pen = s.saved.pen]

EnterAlt(s) ==
    LET l == [SaveCursor(Linearize(s)) EXCEPT !.savedKeys = s.keys]
        w == IF s.usingAlt THEN l
             ELSE [l EXCEPT !.alt = l.screen, !.screen = s.alt, !.usingAlt = TRUE,
                            !.savedViewport = s.viewport, !.viewport = 0]
    IN SetCursor([w EXCEPT !.screen = [r \in DOMAIN @ |-> BlankLine(s.cols)]], 0, 0)

\* Also without having entered: the saved cursor and keyboard flags come back.
LeaveAlt(s) ==
    LET l == Linearize(s)
        w == IF ~s.usingAlt THEN s
             ELSE [l EXCEPT !.screen = s.alt, !.alt = l.screen, !.usingAlt = FALSE,
                            !.viewport = s.savedViewport, !.savedViewport = 0]
    IN RestoreCursor([w EXCEPT !.keys = s.savedKeys, !.savedKeys = <<>>])

SetMode(s, mode, on) ==
    IF mode = "alt" THEN (IF on THEN EnterAlt(s) ELSE LeaveAlt(s))
    ELSE [s EXCEPT !.modes = IF on THEN @ \cup {mode} ELSE @ \ {mode}]

\* DECSTBM: either end is bounded on one side only, so that a region can be
\* inverted, or end above the first row.
SetRegion(s, from, to) ==
    SetCursor([s EXCEPT !.top = Max({0, from - 1}), !.bottom = Min({s.rows - 1, to - 1})], 0, 0)

HandleSgr(s, pen) == [s EXCEPT !.pen = pen]

\* CSI u: a stack of flag sets.
KittyKeys(s, o) ==
    IF o.push THEN [s EXCEPT !.keys = Append(@, o.n)]
    ELSE [s EXCEPT !.keys = SubSeq(@, 1, Len(@) - Min({o.n, Len(@)}))]

CsiDispatch(s, o) ==
    CASE o.csi = "cursor" -> SetCursor(s, s.row + o.rows, s.col + o.cols)
      [] o.csi = "E" -> SetCursor(s, s.row + o.rows, 0)
      [] o.csi = "G" -> SetCursor(s, s.row, o.n - 1)
      [] o.csi = "d" -> SetCursor(s, o.n - 1, s.col)
      [] o.csi = "H" -> SetCursor(s, o.row - 1, o.col - 1)
      [] o.csi = "J" -> EraseDisplay(s, o.n)
      [] o.csi = "K" -> EraseCells(s, s.row, IF o.n = 0 THEN s.col ELSE 0,
                                   IF o.n = 1 THEN s.col ELSE s.cols - 1)
      [] o.csi = "L" -> InsertLines(s, o.n)
      [] o.csi = "M" -> DeleteLines(s, o.n)
      [] o.csi = "P" -> DeleteChars(s, o.n)
      [] o.csi = "S" -> ScrollUp(s, s.top, s.bottom, o.n)
      [] o.csi = "T" -> ScrollDown(s, s.top, s.bottom, o.n)
      [] o.csi = "X" -> EraseCells(s, s.row, s.col, s.col + o.n - 1)
      [] o.csi = "@" -> InsertChars(s, o.n)
      [] o.csi = "b" -> IF s.last = "" THEN s ELSE Times(s, o.n, LAMBDA x : PutChar(x, s.last))
      [] o.csi = "mode" -> SetMode(s, o.mode, o.on)
      [] o.csi = "m" -> HandleSgr(s, o.pen)
      [] o.csi = "r" -> SetRegion(s, o.from, o.to)
      [] o.csi = "u" -> KittyKeys(s, o)

\* A reset assigns a new ScreenBuffer, which has none of the callbacks.
Reset(s) == [NewScreen(s.cols, s.rows) EXCEPT !.hooked = FALSE]

EscDispatch(s, final) ==
    CASE final = "7" -> SaveCursor(s)
      [] final = "8" -> RestoreCursor(s)
      [] final = "D" -> NewLine(s)
      [] final = "E" -> NewLine([s EXCEPT !.col = 0])
      [] final = "M" -> IF s.row = s.top THEN ScrollDown(s, s.top, s.bottom, 1)
                        ELSE [s EXCEPT !.row = Max({@ - 1, 0})]
      [] final = "c" -> Reset(s)

\* OSC 133 marks the cursor's line as a prompt or as the start of output.
OscDispatch(s, zone) == [s EXCEPT !.screen[At(s, s.row)].zone = zone]

-----------------------------------------------------------------------------
(* Images are anchored to absolute lines: lines are numbered from the      *)
(* first line the terminal ever showed.                                    *)

HistoryEnd(s) == s.trimmed + Len(s.scrollback)

\* absolute_line counts from the top of what the user is looking at.
AbsoluteLine(s, r) == HistoryEnd(s) + s.viewport + r

ApcDispatch(s, cmd) ==
    LET m == s.images
        Placed(i, id) == IF cmd.action = "T" THEN PlaceImage(i, id, AbsoluteLine(s, s.row)) ELSE i
        next ==
            CASE cmd.action \in {"t", "T"} /\ cmd.more -> BeginTransfer(m, cmd)
              [] cmd.action \in {"t", "T"} /\ ~cmd.more /\ m.pending # 0 ->
                     Placed(FinishTransfer(m, cmd), m.pending)
              [] cmd.action \in {"t", "T"} /\ ~cmd.more /\ m.pending = 0 ->
                     Placed(StoreImage(m, cmd), cmd.id)
              [] cmd.action = "p" -> PlaceImage(m, cmd.id, AbsoluteLine(s, s.row))
              [] cmd.action = "d" -> DeleteImages(m, cmd)
              [] OTHER -> m
    IN [s EXCEPT !.images = next]

-----------------------------------------------------------------------------
(* Resizing.                                                               *)

Sized(line, n) == [line EXCEPT !.cells = [c \in 1..n |-> IF c \in DOMAIN @ THEN @[c] ELSE " "]]
SizedAll(lines, n) == [i \in DOMAIN lines |-> Sized(lines[i], n)]
\* std::vector::resize of a grid, and of its lines.
SizedGrid(lines, cols, rows) ==
    SizedAll([r \in 1..rows |-> IF r \in DOMAIN lines THEN lines[r] ELSE BlankLine(cols)], cols)

\* Only the rows change, or the alternate screen is up.
ResizeRows(s, cols, rows) ==
    LET push == IF rows < s.rows /\ s.row >= rows
                THEN Min({s.row - rows + 1, Len(s.screen)}) ELSE 0
        cut == Times([s EXCEPT !.row = IF rows < s.rows /\ s.row >= rows
                                       THEN rows - 1 ELSE @],
                     push, LAMBDA x : [PushScrollback(x, x.screen[1]) EXCEPT !.screen = Tail(@)])
        pull == Clamp(rows - Len(cut.screen), 0, Len(cut.scrollback))
        back == Len(cut.scrollback) - pull
        grid == SubSeq(cut.scrollback, back + 1, back + pull) \o cut.screen
    IN [cut EXCEPT !.scrollback = SubSeq(@, 1, back),
                   !.screen = SizedGrid(grid, cols, rows),
                   !.alt = SizedGrid(@, cols, rows),
                   !.cols = cols, !.rows = rows, !.top = 0, !.bottom = rows - 1,
                   !.row = Clamp(@ + pull, 0, rows - 1), !.col = Clamp(@, 0, cols - 1)]

IsBlank(line) == \A c \in DOMAIN line.cells : line.cells[c] = " "

\* The physical lines of each logical line, as <<first, last>>.
Groups(ls) ==
    LET ends == SetToSortSeq({i \in DOMAIN ls : ~ls[i].wrapped \/ i = Len(ls)}, <)
    IN [k \in DOMAIN ends |-> <<IF k = 1 THEN 1 ELSE ends[k - 1] + 1, ends[k]>>]

CellsOf(ls, g) == FlattenSeq([i \in 1..g[2] - g[1] + 1 |-> ls[g[1] + i - 1].cells])

\* Trailing blanks go, but not before cell `keep`.
TrimCells(cells, keep) ==
    SubSeq(cells, 1, Max({i \in DOMAIN cells : i <= keep \/ cells[i] # " "} \cup {0}))

\* Mutant: the last glyph of a line is taken for padding.
RewrapShort(cells, n) ==
    LET lines == Max({1, (Len(cells) + n - 1) \div n})
    IN [k \in 1..lines |->
          [cells |-> [c \in 1..n |-> IF (k - 1) * n + c < Len(cells)
                                     THEN cells[(k - 1) * n + c] ELSE " "],
           wrapped |-> k < lines, zone |-> ""]]

Rewrap(cells, n) ==
    LET lines == Max({1, (Len(cells) + n - 1) \div n})
    IN [k \in 1..lines |->
          [cells |-> [c \in 1..n |-> IF (k - 1) * n + c <= Len(cells)
                                     THEN cells[(k - 1) * n + c] ELSE " "],
           wrapped |-> k < lines, zone |-> ""]]

\* History and grid as one stream, without the blank lines below the cursor.
Stream(s) ==
    LET all == s.scrollback \o Rows(s)
        used == {i \in DOMAIN all : ~IsBlank(all[i]) \/ all[i].wrapped}
    IN SubSeq(all, 1, Min({Len(all), Max(used \cup {Len(s.scrollback) + s.row + 1})}))

Reflow(s, cols, rows) ==
    LET ls == Stream(s)
        groups == Groups(ls)
        cursor == Len(s.scrollback) + s.row + 1
        here == {k \in DOMAIN groups : cursor \in groups[k][1]..groups[k][2]}
        line == IF here = {} THEN Len(groups) ELSE Max(here)
        before == Len(CellsOf(ls, <<groups[line][1], cursor - 1>>))
        offset == IF here = {} THEN 0 ELSE before + Min({s.col, s.cols - 1})
        wrapped == [k \in DOMAIN groups |->
                      Rewrap(TrimCells(CellsOf(ls, groups[k]),
                                       IF k = line /\ here # {} THEN offset + 1 ELSE 0), cols)]
        new == FlattenSeq(wrapped)
        at == Len(FlattenSeq(SubSeq(wrapped, 1, line - 1))) + offset \div cols
        start == Max({0, Len(new) - rows})
        over == Max({0, start - Limit})
    IN [s EXCEPT !.scrollback = SubSeq(new, over + 1, start), !.trimmed = @ + over,
                 !.screen = SizedGrid(SubSeq(new, start + 1, Len(new)), cols, rows), !.first = 0,
                 !.row = Clamp(at - start, 0, rows - 1), !.col = offset % cols,
                 !.cols = cols, !.rows = rows, !.top = 0, !.bottom = rows - 1,
                 !.alt = SizedGrid(@, cols, rows),
                 !.images = ClearPlacements(@), !.viewport = 0]

Resize(s, cols, rows) ==
    IF cols = s.cols /\ rows = s.rows THEN s
    ELSE IF cols # s.cols /\ ~s.usingAlt THEN Reflow(Linearize(s), cols, rows)
    ELSE ResizeRows(Linearize(s), cols, rows)

-----------------------------------------------------------------------------
(* The user's view.                                                        *)

ScrollViewport(s, delta) ==
    [s EXCEPT !.viewport = Clamp(@ + delta, -Len(s.scrollback), 0)]

\* Older lines are put before the history; the numbers of the others stay.
PrependScrollback(s, lines) ==
    [s EXCEPT !.trimmed = @ - Len(lines), !.scrollback = lines \o @]

\* A line of the terminal by its absolute number.
LineAt(s, a) ==
    IF a < HistoryEnd(s) THEN s.scrollback[a - s.trimmed + 1] ELSE SLine(s, a - HistoryEnd(s))
Lines(s) == s.trimmed..HistoryEnd(s) + s.rows - 1
=============================================================================
