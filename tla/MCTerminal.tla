----------------------------- MODULE MCTerminal -----------------------------
\* A terminal of two by two cells that keeps two lines of history.
EXTENDS Terminal

Csi(c, n) == [kind |-> "csi", csi |-> c, n |-> n]
Alt(on) == [kind |-> "csi", csi |-> "mode", mode |-> "alt", on |-> on]
Region(a, b) == [kind |-> "csi", csi |-> "r", from |-> a, to |-> b]
Glyphs == {[kind |-> "glyph", glyph |-> g] : g \in {"a", "b"}}
Controls == {[kind |-> "execute", code |-> c] : c \in {"LF", "CR"}}
Escapes == {[kind |-> "esc", final |-> f] : f \in {"7", "8", "M", "c"}}
Images1 == {[kind |-> "apc", action |-> "T", id |-> 1],
            [kind |-> "apc", action |-> "d", id |-> 1, target |-> "i"]}
Marks == {[kind |-> "osc", zone |-> "C"],
          [kind |-> "csi", csi |-> "m", pen |-> "marked"],
          [kind |-> "csi", csi |-> "u", push |-> TRUE, n |-> 1]}
MCOutputs ==
    Glyphs \cup Controls \cup Escapes \cup Images1 \cup Marks
    \cup {[kind |-> "csi", csi |-> "H", row |-> 3, col |-> 2],
          Csi("J", 1), Csi("J", 3), Csi("L", 1), Csi("M", 1), Csi("P", 1), Csi("@", 1),
          Csi("b", 5), Alt(TRUE), Alt(FALSE), Region(1, 1), Region(2, 2), Region(1, 0)}
MCSizes == {<<2, 2>>, <<3, 2>>, <<2, 3>>}
=============================================================================
