------------------------------- MODULE Layout -------------------------------
(***************************************************************************)
(* Layout: the tree of splits a tab's panes are laid out by.               *)
(*                                                                         *)
(* A node is known by a number, as the code knows it by its address; a     *)
(* leaf holds a pane, a split two nodes and a ratio in percent.            *)
(*                                                                         *)
(* Source: src/src/core/layout.cpp.                                        *)
(***************************************************************************)
EXTENDS Integers, Sequences, FiniteSets, SequencesExt

CONSTANTS
    CellW, CellH,   \* pixels of a cell
    Border          \* pixels between panes

Leaf(pane) == [pane |-> pane, dir |-> "none", ratio |-> 50, first |-> 0, second |-> 0]

NoLayout           == [root |-> 0, nodes |-> <<>>]
InitLayout(pane, n) == [root |-> n, nodes |-> [x \in {n} |-> Leaf(pane)]]

Nodes(l)     == DOMAIN l.nodes
IsLeaf(l, n) == l.nodes[n].pane # 0
LeafNodes(l) == {n \in Nodes(l) : IsLeaf(l, n)}
Splits(l)    == Nodes(l) \ LeafNodes(l)
PanesOf(l)   == {l.nodes[n].pane : n \in LeafNodes(l)}

FindLeaf(l, pane)  == CHOOSE n \in LeafNodes(l) : l.nodes[n].pane = pane
FindParent(l, n)   == CHOOSE p \in Splits(l) : n \in {l.nodes[p].first, l.nodes[p].second}

\* LayoutTree::split: the leaf becomes the split and two new leaves its halves.
Split(l, target, pane, dir, a, b) ==
    LET n == FindLeaf(l, target)
    IN [l EXCEPT !.nodes = [x \in Nodes(l) \cup {a, b} |->
          CASE x = n -> [pane |-> 0, dir |-> dir, ratio |-> 50, first |-> a, second |-> b]
            [] x = a -> Leaf(target)
            [] x = b -> Leaf(pane)
            [] OTHER -> l.nodes[x]]]

\* LayoutTree::remove: the parent takes over what its other half holds.
RemoveLeaf(l, target) ==
    IF target \notin PanesOf(l) THEN l
    ELSE LET n == FindLeaf(l, target) IN
         IF n = l.root THEN NoLayout
         ELSE LET p == FindParent(l, n)
                  s == IF l.nodes[p].first = n THEN l.nodes[p].second ELSE l.nodes[p].first
              IN [l EXCEPT !.nodes = [m \in Nodes(l) \ {n, s} |-> l.nodes[IF m = p THEN s ELSE m]]]

\* collect_panes(...)[0], or none.
FirstPane(l) ==
    LET down[n \in Nodes(l)] == IF IsLeaf(l, n) THEN l.nodes[n].pane ELSE down[l.nodes[n].first]
    IN IF l.root = 0 THEN 0 ELSE down[l.root]

\* C++ rounds towards zero.
Quotient(a, b) == IF a < 0 THEN -((-a) \div b) ELSE a \div b

\* The pixels of the first half of `extent`, cut to whole cells.
FirstHalf(extent, ratio, cell) ==
    Quotient(Quotient(extent * ratio, 100) - Border \div 2, cell) * cell

Rect(x, y, w, h) == [x |-> x, y |-> y, w |-> w, h |-> h]

\* Mutant: the halves are laid out without room for the divider.
HalvesTouching(node, r) ==
    LET w == FirstHalf(r.w, node.ratio, CellW)
        h == FirstHalf(r.h, node.ratio, CellH)
    IN IF node.dir = "Vertical"
       THEN <<Rect(r.x, r.y, w + Border, r.h), Rect(r.x + w, r.y, r.w - w, r.h)>>
       ELSE <<Rect(r.x, r.y, r.w, h + Border), Rect(r.x, r.y + h, r.w, r.h - h)>>

\* compute_node for a split.
Halves(node, r) ==
    LET w == FirstHalf(r.w, node.ratio, CellW)
        h == FirstHalf(r.h, node.ratio, CellH)
    IN IF node.dir = "Vertical"
       THEN <<Rect(r.x, r.y, w, r.h), Rect(r.x + w + Border, r.y, r.w - w - Border, r.h)>>
       ELSE <<Rect(r.x, r.y, r.w, h), Rect(r.x, r.y + h + Border, r.w, r.h - h - Border)>>

\* compute_layout: the rectangle of every node in the area r.
NodeRects(l, r) ==
    LET rect[n \in Nodes(l)] ==
          IF n = l.root THEN r
          ELSE LET p == FindParent(l, n)
               IN Halves(l.nodes[p], rect[p])[IF l.nodes[p].first = n THEN 1 ELSE 2]
    IN rect

PaneRects(l, r) ==
    LET rects == NodeRects(l, r) IN [p \in PanesOf(l) |-> rects[FindLeaf(l, p)]]

\* drag_divider, to a share of the split in percent.
DragDivider(l, n, share) ==
    [l EXCEPT !.nodes[n].ratio = IF share < 5 THEN 5 ELSE IF share > 95 THEN 95 ELSE share]

\* divider_at: the split whose band, `slop` wider, holds the point, the
\* deepest one first.
DividerAt(l, r, px, py, slop) ==
    LET rects == NodeRects(l, r)
        hit(n) == LET a == rects[l.nodes[n].first]
                      b == rects[l.nodes[n].second]
                  IN IF l.nodes[n].dir = "Vertical"
                     THEN px \in (a.x + a.w - slop)..(b.x + slop) /\ py \in rects[n].y..(rects[n].y + rects[n].h - 1)
                     ELSE py \in (a.y + a.h - slop)..(b.y + slop) /\ px \in rects[n].x..(rects[n].x + rects[n].w - 1)
        found[n \in Nodes(l)] ==
          IF IsLeaf(l, n) THEN 0
          ELSE IF found[l.nodes[n].first] # 0 THEN found[l.nodes[n].first]
          ELSE IF found[l.nodes[n].second] # 0 THEN found[l.nodes[n].second]
          ELSE IF hit(n) THEN n ELSE 0
    IN IF l.root = 0 THEN 0 ELSE found[l.root]

Inside(r, px, py) == px \in r.x..(r.x + r.w - 1) /\ py \in r.y..(r.y + r.h - 1)

\* pane_at
PaneAt(rects, px, py) ==
    LET hits == {p \in DOMAIN rects : Inside(rects[p], px, py)}
    IN IF hits = {} THEN 0 ELSE CHOOSE p \in hits : TRUE

\* navigate: the nearest centre on that side.
Navigate(rects, from, dir) ==
    LET dx(p) == (rects[p].x + rects[p].w \div 2) - (rects[from].x + rects[from].w \div 2)
        dy(p) == (rects[p].y + rects[p].h \div 2) - (rects[from].y + rects[from].h \div 2)
        valid == {p \in DOMAIN rects : p # from /\ CASE dir = "Left" -> dx(p) < 0 [] dir = "Right" -> dx(p) > 0
                                                     [] dir = "Up" -> dy(p) < 0 [] dir = "Down" -> dy(p) > 0}
        dist(p) == dx(p) * dx(p) + dy(p) * dy(p)
    IN IF valid = {} THEN from ELSE CHOOSE p \in valid : \A q \in valid : dist(p) <= dist(q)
=============================================================================
