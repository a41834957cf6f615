------------------------- MODULE LocalWindowProofs ---------------------------
(***************************************************************************)
(* Tabs, layouts, focus and rectangles of a local window, for any number   *)
(* of tabs and panes, every size and every point.                          *)
(***************************************************************************)
EXTENDS LocalWindow, FiniteSetTheorems, SequenceTheorems, WellFoundedInduction, TLAPS

\* The numbers up to m are in T when 0 is and T is closed: induction, as a fact
\* about a set.
LEMMA UpTo ==
  ASSUME NEW size \in Nat, NEW T, 0 \in T, \A n \in 0..(size - 1) : n \in T => n + 1 \in T
  PROVE  0..size \subseteq T
<1> DEFINE U == 0..size \ T
<1> SUFFICES ASSUME U # {} PROVE FALSE
  OBVIOUS
<1>1. U \subseteq Nat
  OBVIOUS
<1>2. PICK x \in U : \A y \in U : ~(<<y, x>> \in OpToRel(<, Nat))
  BY <1>1, WFMin, NatLessThanWellFounded
<1>3. x \in 0..size /\ x \notin T /\ x # 0
  BY <1>2
<1>4. x - 1 \in 0..(size - 1) /\ x - 1 \in Nat /\ x \in Nat /\ x - 1 < x /\ x = (x - 1) + 1
  BY <1>3
<1>5. x - 1 \in U
  BY <1>3, <1>4
<1>6. <<x - 1, x>> \in OpToRel(<, Nat)
  BY <1>4 DEF OpToRel
<1> QED BY <1>2, <1>5, <1>6

-----------------------------------------------------------------------------
(* Sequences without some of their elements.                               *)

Distinct(s) == \A i, j \in DOMAIN s : s[i] = s[j] => i = j

\* What Without has kept after each element.
Keeping(s, gone) ==
    LET kept[n \in 0..Len(s)] ==
          IF n = 0 THEN <<>>
          ELSE IF s[n] \in gone THEN kept[n - 1] ELSE Append(kept[n - 1], s[n])
    IN kept

LEMMA WithoutUnfolds ==
  ASSUME NEW s, NEW gone, NEW size \in Nat, size = Len(s)
  PROVE  /\ Without(s, gone) = Keeping(s, gone)[size]
         /\ Keeping(s, gone)[0] = <<>>
         /\ \A i \in 1..size : Keeping(s, gone)[i] =
              IF s[i] \in gone THEN Keeping(s, gone)[i - 1] ELSE Append(Keeping(s, gone)[i - 1], s[i])
<1> DEFINE Then(x, i) == IF s[i] \in gone THEN x ELSE Append(x, s[i])
           Val(f, i) == IF i = 0 THEN <<>> ELSE Then(f[i - 1], i)
           T == {n \in 0..size : \E f : f = [i \in 0..n |-> Val(f, i)]}
           r == Keeping(s, gone)
<1>0. Without(s, gone) = r[size] /\ r = CHOOSE f : f = [i \in 0..size |-> Val(f, i)]
  BY DEF Without, Keeping
<1>u. \A x, i : Then(x, i) = IF s[i] \in gone THEN x ELSE Append(x, s[i])
  OBVIOUS
<1> HIDE DEF Then, r
<1>1. 0 \in T
  <2> DEFINE f == [i \in 0..0 |-> <<>>]
  <2>1. f = [i \in 0..0 |-> Val(f, i)]
    OBVIOUS
  <2>2. \E h : h = [i \in 0..0 |-> Val(h, i)]
    <3> HIDE DEF f, Val
    <3> WITNESS f
    <3> QED BY <2>1
  <2> QED BY <2>2
<1>2. ASSUME NEW n \in 0..(size - 1), n \in T PROVE n + 1 \in T
  <2>1. PICK f : f = [i \in 0..n |-> Val(f, i)]
    BY <1>2
  <2> DEFINE g == [i \in 0..(n + 1) |-> IF i = n + 1 THEN Then(f[n], n + 1) ELSE f[i]]
  <2>2. ASSUME NEW i \in 0..(n + 1) PROVE g[i] = Val(g, i)
    <3>1. CASE i = n + 1
      BY <3>1
    <3>2. CASE i # n + 1
      <4>1. i \in 0..n /\ g[i] = f[i] /\ f[i] = Val(f, i)
        BY <2>1, <3>2
      <4>2. i # 0 => i - 1 \in 0..n /\ i - 1 # n + 1 /\ g[i - 1] = f[i - 1]
        BY <4>1
      <4> QED BY <4>1, <4>2
    <3> QED BY <3>1, <3>2
  <2>3. g = [i \in 0..(n + 1) |-> Val(g, i)]
    BY <2>2
  <2>4. \E h : h = [i \in 0..(n + 1) |-> Val(h, i)]
    <3> HIDE DEF g, Val
    <3> WITNESS g
    <3> QED BY <2>3
  <2> QED BY <2>4
<1>3. size \in T
  <2> HIDE DEF T
  <2>1. 0..size \subseteq T
    BY <1>1, <1>2, UpTo
  <2> QED BY <2>1
<1>4. PICK h : h = [i \in 0..size |-> Val(h, i)]
  BY <1>3
<1>5. r = [i \in 0..size |-> Val(r, i)]
  <2> HIDE DEF Val
  <2> QED BY <1>0, <1>4
<1>7. r[0] = <<>> /\ \A i \in 1..size : r[i] = Then(r[i - 1], i)
  BY <1>5
<1>8. \A i \in 1..size : r[i] = IF s[i] \in gone THEN r[i - 1] ELSE Append(r[i - 1], s[i])
  BY <1>7, <1>u
<1> QED BY <1>0, <1>7, <1>8 DEF r

\* What kept holds after the first n elements of s.
Kept(kept, s, gone, n) ==
    /\ Len(kept) <= n
    /\ \A i \in 1..Len(kept) : \E j \in 1..n : kept[i] = s[j] /\ s[j] \notin gone
    /\ \A j \in 1..n : s[j] \notin gone => \E i \in 1..Len(kept) : kept[i] = s[j]
    /\ Distinct(s) => Distinct(kept)
    /\ \A c \in 0..n : (\A j \in 1..c : s[j] \notin gone) =>
         Len(kept) >= c /\ \A j \in 1..c : kept[j] = s[j]

LEMMA KeptMore ==
  ASSUME NEW S, NEW s \in Seq(S), NEW gone, NEW n \in 0..(Len(s) - 1), NEW kept \in Seq(S),
         Kept(kept, s, gone, n), s[n + 1] \notin gone
  PROVE  Append(kept, s[n + 1]) \in Seq(S) /\ Kept(Append(kept, s[n + 1]), s, gone, n + 1)
<1> DEFINE e == s[n + 1]
           more == Append(kept, e)
<1>0. n \in Nat /\ n + 1 \in 1..Len(s) /\ Len(s) \in Nat /\ Len(kept) \in Nat /\ e \in S
  OBVIOUS
<1>1. more \in Seq(S) /\ Len(more) = Len(kept) + 1 /\ more[Len(kept) + 1] = e
      /\ \A i \in 1..Len(kept) : more[i] = kept[i]
  BY <1>0
<1>d. DOMAIN more = 1..Len(more) /\ DOMAIN s = 1..Len(s) /\ DOMAIN kept = 1..Len(kept)
  BY <1>1
<1> HIDE DEF more
<1>2. ASSUME NEW i \in 1..Len(more) PROVE \E j \in 1..(n + 1) : more[i] = s[j] /\ s[j] \notin gone
  <2>1. CASE i = Len(kept) + 1
    BY <1>0, <1>1, <2>1
  <2>2. CASE i \in 1..Len(kept)
    <3>1. PICK j \in 1..n : kept[i] = s[j] /\ s[j] \notin gone
      BY <2>2 DEF Kept
    <3>2. j \in 1..(n + 1)
      BY <1>0
    <3> QED BY <1>1, <2>2, <3>1, <3>2
  <2> QED BY <1>0, <1>1, <2>1, <2>2
<1>3. ASSUME NEW j \in 1..(n + 1), s[j] \notin gone PROVE \E i \in 1..Len(more) : more[i] = s[j]
  <2>1. CASE j = n + 1
    <3>1. Len(kept) + 1 \in 1..Len(more)
      BY <1>0, <1>1
    <3> QED BY <1>1, <2>1, <3>1
  <2>2. CASE j \in 1..n
    <3>1. PICK i \in 1..Len(kept) : kept[i] = s[j]
      BY <1>3, <2>2 DEF Kept
    <3>2. i \in 1..Len(more)
      BY <1>0, <1>1
    <3> QED BY <1>1, <3>1, <3>2
  <2> QED BY <1>0, <2>1, <2>2
<1>4. ASSUME Distinct(s) PROVE Distinct(more)
  <2>1. \A i \in 1..Len(kept) : kept[i] # e
    <3> SUFFICES ASSUME NEW i \in 1..Len(kept) PROVE kept[i] # e
      OBVIOUS
    <3>1. PICK j \in 1..n : kept[i] = s[j]
      BY DEF Kept
    <3>2. j # n + 1 /\ j \in 1..Len(s)
      BY <1>0
    <3> QED BY <1>0, <1>4, <1>d, <3>1, <3>2 DEF Distinct
  <2>2. Distinct(kept)
    BY <1>4 DEF Kept
  <2>3. ASSUME NEW i \in 1..Len(more), NEW j \in 1..Len(more), more[i] = more[j] PROVE i = j
    <3>1. CASE i = Len(kept) + 1
      BY <1>0, <1>1, <2>1, <2>3, <3>1
    <3>2. CASE j = Len(kept) + 1
      BY <1>0, <1>1, <2>1, <2>3, <3>2
    <3>3. CASE i \in 1..Len(kept) /\ j \in 1..Len(kept)
      BY <1>1, <1>d, <2>2, <2>3, <3>3 DEF Distinct
    <3> QED BY <1>0, <1>1, <3>1, <3>2, <3>3
  <2> QED BY <1>d, <2>3 DEF Distinct
<1>5. ASSUME NEW c \in 0..(n + 1), \A j \in 1..c : s[j] \notin gone
      PROVE  Len(more) >= c /\ \A j \in 1..c : more[j] = s[j]
  <2>1. CASE c \in 0..n
    <3>1. Len(kept) >= c /\ \A j \in 1..c : kept[j] = s[j]
      BY <1>5, <2>1 DEF Kept
    <3> QED BY <1>0, <1>1, <3>1, <2>1
  <2>2. CASE c = n + 1
    <3>1. n \in 0..n /\ \A j \in 1..n : s[j] \notin gone
      BY <1>0, <1>5, <2>2
    <3>2. Len(kept) >= n /\ \A j \in 1..n : kept[j] = s[j]
      BY <3>1 DEF Kept
    <3>3. Len(kept) = n
      BY <1>0, <3>2 DEF Kept
    <3> QED BY <1>0, <1>1, <2>2, <3>2, <3>3
  <2> QED BY <1>0, <2>1, <2>2
<1>6. Len(more) <= n + 1
  BY <1>0, <1>1 DEF Kept
<1>7. Kept(more, s, gone, n + 1)
  BY <1>2, <1>3, <1>4, <1>5, <1>6 DEF Kept
<1> QED BY <1>1, <1>7 DEF more

LEMMA KeptLess ==
  ASSUME NEW S, NEW s \in Seq(S), NEW gone, NEW n \in 0..(Len(s) - 1), NEW kept \in Seq(S),
         Kept(kept, s, gone, n), s[n + 1] \in gone
  PROVE  Kept(kept, s, gone, n + 1)
<1>0. n \in Nat /\ n + 1 \in 1..Len(s) /\ Len(s) \in Nat /\ Len(kept) \in Nat
  OBVIOUS
<1>1. Len(kept) <= n + 1
  BY <1>0 DEF Kept
<1>2. ASSUME NEW i \in 1..Len(kept) PROVE \E j \in 1..(n + 1) : kept[i] = s[j] /\ s[j] \notin gone
  <2>1. PICK j \in 1..n : kept[i] = s[j] /\ s[j] \notin gone
    BY DEF Kept
  <2>2. j \in 1..(n + 1)
    BY <1>0
  <2> QED BY <2>1, <2>2
<1>3. ASSUME NEW j \in 1..(n + 1), s[j] \notin gone PROVE \E i \in 1..Len(kept) : kept[i] = s[j]
  <2>1. j \in 1..n
    BY <1>0, <1>3
  <2> QED BY <1>3, <2>1 DEF Kept
<1>4. Distinct(s) => Distinct(kept)
  BY DEF Kept
<1>5. ASSUME NEW c \in 0..(n + 1), \A j \in 1..c : s[j] \notin gone
      PROVE  Len(kept) >= c /\ \A j \in 1..c : kept[j] = s[j]
  <2>1. c \in 0..n
    BY <1>0, <1>5
  <2> QED BY <1>5, <2>1 DEF Kept
<1> QED BY <1>1, <1>2, <1>3, <1>4, <1>5 DEF Kept

\* Without keeps the elements that are not gone, in their order.
LEMMA WithoutKeeps ==
  ASSUME NEW S, NEW s \in Seq(S), NEW gone
  PROVE  /\ Without(s, gone) \in Seq(S)
         /\ Kept(Without(s, gone), s, gone, Len(s))
         /\ ToSet(Without(s, gone)) = ToSet(s) \ gone
<1> DEFINE size == Len(s)
<1>0. size \in Nat /\ size = Len(s) /\ DOMAIN s = 1..size
  OBVIOUS
<1> HIDE DEF size
<1> DEFINE k == Keeping(s, gone)
<1>1. /\ Without(s, gone) = k[size]
      /\ k[0] = <<>>
      /\ \A i \in 1..size : k[i] = IF s[i] \in gone THEN k[i - 1] ELSE Append(k[i - 1], s[i])
  BY <1>0, WithoutUnfolds
<1> HIDE DEF k
<1> DEFINE T == {n \in 0..size : k[n] \in Seq(S) /\ Kept(k[n], s, gone, n)}
<1>2. 0 \in T
  <2>1. k[0] \in Seq(S) /\ Len(k[0]) = 0 /\ DOMAIN k[0] = {}
    BY <1>1
  <2>2. Kept(k[0], s, gone, 0)
    BY <2>1 DEF Kept, Distinct
  <2> QED BY <1>0, <2>1, <2>2
<1>3. ASSUME NEW n \in 0..(size - 1), n \in T PROVE n + 1 \in T
  <2> DEFINE kn == k[n]
  <2>1. n + 1 \in 1..size /\ (n + 1) - 1 = n /\ n + 1 \in 0..size /\ n \in 0..(Len(s) - 1)
    BY <1>0
  <2>2. kn \in Seq(S) /\ Kept(kn, s, gone, n)
    BY <1>3
  <2>3. k[n + 1] = IF s[n + 1] \in gone THEN kn ELSE Append(kn, s[n + 1])
    BY <1>1, <2>1
  <2> HIDE DEF kn
  <2>4. CASE s[n + 1] \in gone
    <3>1. Kept(kn, s, gone, n + 1)
      BY <2>1, <2>2, <2>4, KeptLess
    <3> QED BY <2>1, <2>2, <2>3, <2>4, <3>1
  <2>5. CASE s[n + 1] \notin gone
    <3>1. Append(kn, s[n + 1]) \in Seq(S) /\ Kept(Append(kn, s[n + 1]), s, gone, n + 1)
      BY <2>1, <2>2, <2>5, KeptMore
    <3> QED BY <2>1, <2>3, <2>5, <3>1
  <2> QED BY <2>4, <2>5
<1>4. size \in T
  <2> HIDE DEF T
  <2>1. 0..size \subseteq T
    BY <1>0, <1>2, <1>3, UpTo
  <2> QED BY <1>0, <2>1
<1> DEFINE r == Without(s, gone)
<1>5. r \in Seq(S) /\ Kept(r, s, gone, size)
  BY <1>1, <1>4
<1> HIDE DEF r
<1>6. ToSet(r) = ToSet(s) \ gone
  <2>1. DOMAIN r = 1..Len(r)
    BY <1>5
  <2>2. ASSUME NEW x \in ToSet(r) PROVE x \in ToSet(s) \ gone
    BY <1>0, <1>5, <2>1, <2>2 DEF ToSet, Kept
  <2>3. ASSUME NEW x \in ToSet(s) \ gone PROVE x \in ToSet(r)
    <3>1. PICK j \in 1..size : s[j] = x
      BY <1>0, <2>3 DEF ToSet
    <3>2. PICK i \in 1..Len(r) : r[i] = s[j]
      BY <1>5, <2>3, <3>1 DEF Kept
    <3> QED BY <2>1, <3>1, <3>2 DEF ToSet
  <2> QED BY <2>2, <2>3
<1> QED BY <1>0, <1>5, <1>6 DEF r

-----------------------------------------------------------------------------
(* Layouts are trees: children have greater numbers than their parent.      *)

NodeRecs ==
    [pane : Nat, dir : {"none", "Vertical", "Horizontal"}, ratio : 5..95, first : Nat, second : Nat]

Kids(l, p) == {l.nodes[p].first, l.nodes[p].second}

Branches(l) ==
    \A p \in Splits(l) :
      /\ Kids(l, p) \subseteq Nodes(l) \ {l.root}
      /\ l.nodes[p].first # l.nodes[p].second /\ l.nodes[p].first > p /\ l.nodes[p].second > p

OneParent(l) ==
    /\ \A n \in Nodes(l) \ {l.root} : \E p \in Splits(l) : n \in Kids(l, p)
    /\ \A p, q \in Splits(l) : \A n \in Kids(l, p) : n \in Kids(l, q) => p = q

OneLeaf(l) == \A a, b \in LeafNodes(l) : l.nodes[a].pane = l.nodes[b].pane => a = b

\* A tree of nodes and panes with numbers below top.
IsTree(l, top) ==
    /\ l = [root |-> l.root, nodes |-> l.nodes]
    /\ l.root \in Nodes(l) /\ Nodes(l) \subseteq 1..(top - 1)
    /\ l.nodes \in [Nodes(l) -> NodeRecs] /\ PanesOf(l) \subseteq 1..(top - 1)
    /\ Branches(l) /\ OneParent(l) /\ OneLeaf(l)

LEMMA LeafFound ==
  ASSUME NEW l, NEW pane \in PanesOf(l)
  PROVE  FindLeaf(l, pane) \in LeafNodes(l) /\ l.nodes[FindLeaf(l, pane)].pane = pane
<1>1. \E n \in LeafNodes(l) : l.nodes[n].pane = pane
  BY DEF PanesOf
<1> QED BY <1>1 DEF FindLeaf

LEMMA ParentFound ==
  ASSUME NEW l, OneParent(l), NEW n \in Nodes(l) \ {l.root}
  PROVE  FindParent(l, n) \in Splits(l) /\ n \in Kids(l, FindParent(l, n))
<1>1. \E p \in Splits(l) : n \in {l.nodes[p].first, l.nodes[p].second}
  BY DEF OneParent, Kids
<1> QED BY <1>1 DEF FindParent, Kids

\* A tree whose root is a leaf is that leaf.
LEMMA RootLeaf ==
  ASSUME NEW top \in Nat, NEW l, IsTree(l, top), l.root \in LeafNodes(l)
  PROVE  Nodes(l) = {l.root}
<1> DEFINE U == Nodes(l) \ {l.root}
<1> SUFFICES ASSUME U # {} PROVE FALSE
  BY DEF IsTree
<1>1. U \subseteq Nat
  BY DEF IsTree
<1>2. PICK x \in U : \A y \in U : ~(<<y, x>> \in OpToRel(<, Nat))
  BY <1>1, WFMin, NatLessThanWellFounded
<1>3. PICK p \in Splits(l) : x \in Kids(l, p)
  BY <1>2 DEF IsTree, OneParent
<1>4. p < x /\ p \in Nat /\ x \in Nat
  <2>1. Splits(l) \subseteq Nat /\ x \in Nat
    BY <1>1, <1>2 DEF Splits, IsTree
  <2>2. l.nodes[p].first > p /\ l.nodes[p].second > p
    BY <1>3 DEF IsTree, Branches
  <2> QED BY <1>3, <2>1, <2>2 DEF Kids
<1>5. p \in U
  BY <1>3 DEF Splits
<1>6. <<p, x>> \in OpToRel(<, Nat)
  BY <1>4 DEF OpToRel
<1> QED BY <1>2, <1>5, <1>6

LEMMA InitTree ==
  ASSUME NEW top \in Nat, NEW pane \in 1..(top - 1), NEW n \in 1..(top - 1)
  PROVE  IsTree(InitLayout(pane, n), top) /\ PanesOf(InitLayout(pane, n)) = {pane}
<1> DEFINE l == InitLayout(pane, n)
<1>1. l = [root |-> n, nodes |-> [x \in {n} |-> Leaf(pane)]]
  BY DEF InitLayout
<1>2. Leaf(pane) \in NodeRecs /\ Leaf(pane).pane = pane /\ pane # 0 /\ pane \in Nat
  BY DEF Leaf, NodeRecs
<1> HIDE DEF l
<1>3. l.root = n /\ Nodes(l) = {n} /\ l.nodes[n] = Leaf(pane) /\ l.nodes \in [{n} -> NodeRecs]
      /\ l = [root |-> l.root, nodes |-> l.nodes]
  BY <1>1, <1>2 DEF Nodes
<1>4. LeafNodes(l) = {n} /\ Splits(l) = {}
  BY <1>2, <1>3 DEF LeafNodes, IsLeaf, Splits
<1>5. PanesOf(l) = {pane}
  BY <1>2, <1>3, <1>4 DEF PanesOf
<1>6. Branches(l) /\ OneParent(l) /\ OneLeaf(l)
  BY <1>3, <1>4 DEF Branches, OneParent, OneLeaf
<1>7. IsTree(l, top)
  BY <1>3, <1>5, <1>6 DEF IsTree
<1> QED BY <1>5, <1>7 DEF l

\* Numbers drawn since leave a tree as it is.
LEMMA TreeGrows ==
  ASSUME NEW top \in Nat, NEW more \in Nat, top <= more, NEW l, IsTree(l, top)
  PROVE  IsTree(l, more)
<1>1. 1..(top - 1) \subseteq 1..(more - 1)
  OBVIOUS
<1> QED BY <1>1 DEF IsTree

LEMMA SplitTree ==
  ASSUME NEW top \in Nat, NEW l, IsTree(l, top), NEW target \in PanesOf(l), top # 0,
         NEW dir \in {"Vertical", "Horizontal"}
  PROVE  /\ IsTree(Split(l, target, top, dir, top + 1, top + 2), top + 3)
         /\ PanesOf(Split(l, target, top, dir, top + 1, top + 2)) = PanesOf(l) \cup {top}
<1> DEFINE a == top + 1
           b == top + 2
           n == FindLeaf(l, target)
           s == [pane |-> 0, dir |-> dir, ratio |-> 50, first |-> a, second |-> b]
           t == Split(l, target, top, dir, a, b)
           D == Nodes(l) \cup {a, b}
<1>1. n \in LeafNodes(l) /\ l.nodes[n].pane = target /\ n \in Nodes(l)
  BY LeafFound DEF LeafNodes
<1>2. a \notin Nodes(l) /\ b \notin Nodes(l) /\ a # b /\ a \in Nat /\ b \in Nat /\ n < a /\ n < b
      /\ n \in Nat /\ n # a /\ n # b
  BY <1>1 DEF IsTree
<1>3. /\ t.root = l.root
      /\ t.nodes = [x \in D |-> CASE x = n -> s [] x = a -> Leaf(target) [] x = b -> Leaf(top) [] OTHER -> l.nodes[x]]
      /\ t = [root |-> t.root, nodes |-> t.nodes]
  BY DEF Split, IsTree
<1>4. /\ Nodes(t) = D /\ t.nodes[n] = s /\ t.nodes[a] = Leaf(target) /\ t.nodes[b] = Leaf(top)
      /\ \A x \in Nodes(l) \ {n} : t.nodes[x] = l.nodes[x]
  <2>1. n \in D /\ a \in D /\ b \in D
    BY <1>1
  <2> HIDE DEF t, s, a, b, n
  <2>2. Nodes(t) = D
    BY <1>3 DEF Nodes
  <2>3. \A x \in D : t.nodes[x] = CASE x = n -> s [] x = a -> Leaf(target) [] x = b -> Leaf(top) [] OTHER -> l.nodes[x]
    BY <1>3
  <2> HIDE DEF D
  <2>4. t.nodes[n] = s /\ t.nodes[a] = Leaf(target) /\ t.nodes[b] = Leaf(top)
    BY <1>2, <2>1, <2>3
  <2>5. \A x \in Nodes(l) \ {n} : t.nodes[x] = l.nodes[x]
    BY <1>2, <2>3 DEF D
  <2> QED BY <2>2, <2>4, <2>5
<1>5. s \in NodeRecs /\ Leaf(target) \in NodeRecs /\ Leaf(top) \in NodeRecs
      /\ s.pane = 0 /\ s.first = a /\ s.second = b /\ Leaf(target).pane = target /\ Leaf(top).pane = top
      /\ target # 0 /\ target \in Nat /\ target < top
  <2>1. target # 0 /\ target \in Nat /\ target < top
    BY DEF IsTree
  <2>2. s \in NodeRecs /\ Leaf(target) \in NodeRecs /\ Leaf(top) \in NodeRecs
    BY <1>2, <2>1 DEF Leaf, NodeRecs
  <2> QED BY <2>1, <2>2 DEF Leaf
<1> HIDE DEF t, s
<1>6. LeafNodes(t) = (LeafNodes(l) \ {n}) \cup {a, b} /\ Splits(t) = Splits(l) \cup {n}
  <2>1. LeafNodes(t) = (LeafNodes(l) \ {n}) \cup {a, b}
    <3> HIDE DEF a, b, n
    <3>1. t.nodes[n].pane = 0 /\ t.nodes[a].pane # 0 /\ t.nodes[b].pane # 0
      <4>1. top # 0
        BY <1>5
      <4> QED BY <1>4, <1>5, <4>1
    <3>2. \A x \in Nodes(l) : x # n => (t.nodes[x].pane # 0 <=> l.nodes[x].pane # 0)
      BY <1>4
    <3>3. Nodes(t) = Nodes(l) \cup {a, b}
      BY <1>4
    <3> QED BY <1>1, <1>2, <3>1, <3>2, <3>3 DEF LeafNodes, IsLeaf
  <2> HIDE DEF a, b, n
  <2> QED BY <1>1, <1>2, <1>4, <2>1 DEF Splits, LeafNodes
<1> HIDE DEF a, b, n
<1>t. l.nodes \in [Nodes(l) -> NodeRecs] /\ l.root \in Nodes(l) /\ Nodes(l) \subseteq Nat
      /\ Branches(l) /\ OneParent(l) /\ OneLeaf(l) /\ PanesOf(l) \subseteq 1..(top - 1)
  BY DEF IsTree
<1>7. t.nodes \in [D -> NodeRecs]
  <2>1. \A x \in D : t.nodes[x] \in NodeRecs
    BY <1>4, <1>5, <1>t
  <2>2. t.nodes = [x \in D |-> t.nodes[x]]
    BY <1>3
  <2> QED BY <2>1, <2>2
<1>8. PanesOf(t) = PanesOf(l) \cup {top}
  <2>1. ASSUME NEW x \in PanesOf(t) PROVE x \in PanesOf(l) \cup {top}
    <3>1. PICK y \in LeafNodes(t) : x = t.nodes[y].pane
      BY <2>1 DEF PanesOf
    <3> QED BY <1>4, <1>5, <1>6, <3>1 DEF PanesOf, LeafNodes
  <2>2. ASSUME NEW x \in PanesOf(l) PROVE x \in PanesOf(t)
    <3>1. PICK y \in LeafNodes(l) : x = l.nodes[y].pane
      BY <2>2 DEF PanesOf
    <3>2. CASE y = n
      BY <1>1, <1>4, <1>5, <1>6, <3>1, <3>2 DEF PanesOf
    <3>3. CASE y # n
      BY <1>4, <1>6, <3>1, <3>3 DEF PanesOf, LeafNodes
    <3> QED BY <3>2, <3>3
  <2>3. top \in PanesOf(t)
    BY <1>4, <1>5, <1>6 DEF PanesOf
  <2> QED BY <2>1, <2>2, <2>3
<1>9. n \notin Splits(l) /\ Kids(t, n) = {a, b} /\ \A p \in Splits(l) : Kids(t, p) = Kids(l, p)
      /\ t.nodes[p].first = l.nodes[p].first /\ t.nodes[p].second = l.nodes[p].second
  BY <1>1, <1>4, <1>5 DEF Splits, Kids, LeafNodes
<1>10. Branches(t)
  <2>1. ASSUME NEW p \in Splits(l)
        PROVE  /\ Kids(t, p) \subseteq Nodes(t) \ {t.root}
               /\ t.nodes[p].first # t.nodes[p].second /\ t.nodes[p].first > p /\ t.nodes[p].second > p
    BY <1>3, <1>4, <1>9, <1>t, <2>1 DEF Branches
  <2>2. /\ Kids(t, n) \subseteq Nodes(t) \ {t.root}
        /\ t.nodes[n].first # t.nodes[n].second /\ t.nodes[n].first > n /\ t.nodes[n].second > n
    BY <1>2, <1>3, <1>4, <1>5, <1>9, <1>t
  <2> QED BY <1>6, <2>1, <2>2 DEF Branches
<1>11. OneParent(t)
  <2>1. ASSUME NEW x \in Nodes(t) \ {t.root} PROVE \E p \in Splits(t) : x \in Kids(t, p)
    <3>1. CASE x \in {a, b}
      BY <1>6, <1>9, <3>1
    <3>2. CASE x \in Nodes(l) \ {l.root}
      BY <1>6, <1>9, <1>t, <3>2 DEF OneParent
    <3> QED BY <1>3, <1>4, <2>1, <3>1, <3>2
  <2>2. ASSUME NEW p \in Splits(t), NEW q \in Splits(t), NEW x \in Kids(t, p), x \in Kids(t, q) PROVE p = q
    <3>1. \A r \in Splits(l) : Kids(t, r) \subseteq Nodes(l)
      BY <1>9, <1>t DEF Branches
    <3>2. CASE p = n /\ q # n
      BY <1>2, <1>6, <1>9, <2>2, <3>1, <3>2
    <3>3. CASE p # n /\ q = n
      BY <1>2, <1>6, <1>9, <2>2, <3>1, <3>3
    <3>4. CASE p # n /\ q # n
      <4>1. p \in Splits(l) /\ q \in Splits(l) /\ x \in Kids(l, p) /\ x \in Kids(l, q)
        BY <1>6, <1>9, <2>2, <3>4
      <4> QED BY <1>t, <4>1 DEF OneParent
    <3> QED BY <3>2, <3>3, <3>4
  <2> QED BY <2>1, <2>2 DEF OneParent
<1>12. OneLeaf(t)
  <2>1. \A x \in LeafNodes(l) \ {n} : t.nodes[x].pane = l.nodes[x].pane /\ l.nodes[x].pane # target
                                      /\ l.nodes[x].pane # top
    <3> SUFFICES ASSUME NEW x \in LeafNodes(l) \ {n}
                 PROVE  t.nodes[x].pane = l.nodes[x].pane /\ l.nodes[x].pane # target /\ l.nodes[x].pane # top
      OBVIOUS
    <3>1. t.nodes[x].pane = l.nodes[x].pane
      BY <1>4 DEF LeafNodes
    <3>2. l.nodes[x].pane # target
      BY <1>1, <1>t DEF OneLeaf
    <3>3. l.nodes[x].pane # top
      BY <1>t DEF PanesOf
    <3> QED BY <3>1, <3>2, <3>3
  <2>2. t.nodes[a].pane = target /\ t.nodes[b].pane = top /\ target # top
    BY <1>4, <1>5
  <2>3. ASSUME NEW x \in LeafNodes(t), NEW y \in LeafNodes(t), t.nodes[x].pane = t.nodes[y].pane PROVE x = y
    <3>1. CASE x \in LeafNodes(l) \ {n} /\ y \in LeafNodes(l) \ {n}
      BY <1>t, <2>1, <2>3, <3>1 DEF OneLeaf
    <3>2. CASE ~(x \in LeafNodes(l) \ {n} /\ y \in LeafNodes(l) \ {n})
      BY <1>6, <2>1, <2>2, <2>3, <3>2
    <3> QED BY <3>1, <3>2
  <2> QED BY <2>3 DEF OneLeaf
<1>13. Nodes(t) \subseteq 1..((top + 3) - 1) /\ PanesOf(t) \subseteq 1..((top + 3) - 1)
  <2>1. Nodes(l) \subseteq 1..(top - 1)
    BY DEF IsTree
  <2>2. a \in 1..((top + 3) - 1) /\ b \in 1..((top + 3) - 1) /\ top \in 1..((top + 3) - 1)
        /\ 1..(top - 1) \subseteq 1..((top + 3) - 1)
    BY DEF a, b
  <2> QED BY <1>4, <1>8, <1>t, <2>1, <2>2
<1>14. IsTree(t, top + 3)
  BY <1>3, <1>4, <1>7, <1>10, <1>11, <1>12, <1>13, <1>t DEF IsTree
<1> QED BY <1>8, <1>14 DEF t, a, b

\* A leaf that is not the root goes, and its sibling takes their parent's place.
LEMMA RemoveTree ==
  ASSUME NEW top \in Nat, NEW l, IsTree(l, top), NEW target \in PanesOf(l), PanesOf(l) # {target}
  PROVE  /\ IsTree(RemoveLeaf(l, target), top)
         /\ PanesOf(RemoveLeaf(l, target)) = PanesOf(l) \ {target}
<1> DEFINE n == FindLeaf(l, target)
           p == FindParent(l, n)
           s == IF l.nodes[p].first = n THEN l.nodes[p].second ELSE l.nodes[p].first
           t == RemoveLeaf(l, target)
           D == Nodes(l) \ {n, s}
           Orig(x) == IF x = p THEN s ELSE x
<1>t. l.nodes \in [Nodes(l) -> NodeRecs] /\ l.root \in Nodes(l) /\ Nodes(l) \subseteq 1..(top - 1)
      /\ Branches(l) /\ OneParent(l) /\ OneLeaf(l) /\ PanesOf(l) \subseteq 1..(top - 1)
  BY DEF IsTree
<1>1. n \in LeafNodes(l) /\ l.nodes[n].pane = target /\ n \in Nodes(l)
  BY LeafFound DEF LeafNodes
<1>2. n # l.root
  <2> SUFFICES ASSUME n = l.root PROVE FALSE
    OBVIOUS
  <2>1. Nodes(l) = {n}
    BY <1>1, RootLeaf
  <2>2. LeafNodes(l) = {n}
    BY <1>1, <2>1 DEF LeafNodes
  <2>3. PanesOf(l) = {target}
    BY <1>1, <2>2 DEF PanesOf
  <2> QED BY <2>3
<1>3. p \in Splits(l) /\ n \in Kids(l, p)
  BY <1>1, <1>2, <1>t, ParentFound
<1>4. t = [l EXCEPT !.nodes = [x \in D |-> l.nodes[IF x = p THEN s ELSE x]]]
  BY <1>2 DEF RemoveLeaf
<1>5. t.root = l.root /\ t.nodes = [x \in D |-> l.nodes[Orig(x)]] /\ t = [root |-> t.root, nodes |-> t.nodes]
  BY <1>4 DEF IsTree
<1>6. Kids(l, p) = {n, s} /\ s # n /\ s \in Nodes(l) \ {l.root} /\ s > p /\ n > p
  BY <1>3, <1>t DEF Kids, Branches
<1> HIDE DEF n, p, s, t
<1>7. p \in Nat /\ s \in Nat /\ n \in Nat /\ p # s /\ p # n /\ p \in Nodes(l) /\ p \notin LeafNodes(l)
  BY <1>1, <1>3, <1>6, <1>t DEF Splits
<1>8. Nodes(t) = D /\ \A x \in D : Orig(x) \in Nodes(l) /\ t.nodes[x] = l.nodes[Orig(x)]
                        /\ Orig(x) # n /\ Orig(x) # p
  BY <1>5, <1>6, <1>7 DEF Nodes
<1>o. \A x, y \in D : Orig(x) = Orig(y) => x = y
  BY <1>7
<1>p. p \in D /\ Orig(p) = s /\ \A x \in D \ {p} : Orig(x) = x
  BY <1>7
<1>r. \A x \in D : x \in Nat /\ Orig(x) >= x
  BY <1>6, <1>7, <1>t
<1>9. l.root \in D
  BY <1>2, <1>6, <1>t
<1> HIDE DEF Orig
<1>10. /\ \A x \in D : x \in LeafNodes(t) <=> Orig(x) \in LeafNodes(l)
       /\ \A x \in D : x \in Splits(t) <=> Orig(x) \in Splits(l)
       /\ LeafNodes(t) \subseteq D /\ Splits(t) \subseteq D
  <2> HIDE DEF D
  <2>1. \A x \in D : x \in LeafNodes(t) <=> Orig(x) \in LeafNodes(l)
    BY <1>8 DEF LeafNodes, IsLeaf
  <2>2. LeafNodes(t) \subseteq D /\ Splits(t) \subseteq D
    BY <1>8 DEF LeafNodes, Splits
  <2>3. \A x \in D : x \in Splits(t) <=> Orig(x) \in Splits(l)
    BY <1>8, <2>1 DEF Splits
  <2> QED BY <2>1, <2>2, <2>3
<1>11. \A x \in D : Kids(t, x) = Kids(l, Orig(x)) /\ t.nodes[x].first = l.nodes[Orig(x)].first
                    /\ t.nodes[x].second = l.nodes[Orig(x)].second /\ t.nodes[x].pane = l.nodes[Orig(x)].pane
  BY <1>8 DEF Kids
<1>12. \A x \in Splits(t) : Orig(x) \in Splits(l) /\ n \notin Kids(t, x) /\ s \notin Kids(t, x)
  <2> SUFFICES ASSUME NEW x \in Splits(t) PROVE Orig(x) \in Splits(l) /\ n \notin Kids(t, x) /\ s \notin Kids(t, x)
    OBVIOUS
  <2>1. x \in D /\ Orig(x) \in Splits(l) /\ Orig(x) # p /\ Kids(t, x) = Kids(l, Orig(x))
    BY <1>8, <1>10, <1>11
  <2> QED BY <1>3, <1>6, <1>t, <2>1 DEF OneParent
<1>13. PanesOf(t) = PanesOf(l) \ {target}
  <2>1. ASSUME NEW x \in PanesOf(t) PROVE x \in PanesOf(l) \ {target}
    <3>1. PICK y \in LeafNodes(t) : x = t.nodes[y].pane
      BY <2>1 DEF PanesOf
    <3>2. y \in D /\ Orig(y) \in LeafNodes(l) /\ x = l.nodes[Orig(y)].pane /\ Orig(y) # n
      BY <1>8, <1>10, <1>11, <3>1
    <3>3. x # target
      BY <1>1, <1>t, <3>2 DEF OneLeaf
    <3> QED BY <3>2, <3>3 DEF PanesOf
  <2>2. ASSUME NEW x \in PanesOf(l), x # target PROVE x \in PanesOf(t)
    <3>1. PICK y \in LeafNodes(l) : x = l.nodes[y].pane
      BY <2>2 DEF PanesOf
    <3>2. y # n /\ y # p /\ y \in Nodes(l)
      BY <1>1, <1>7, <2>2, <3>1 DEF LeafNodes
    <3>3. PICK z \in D : Orig(z) = y
      <4>1. CASE y = s
        BY <1>p, <4>1
      <4>2. CASE y # s
        <5>1. y \in D
          BY <3>2, <4>2
        <5> QED BY <1>p, <3>2, <5>1
      <4> QED BY <4>1, <4>2
    <3>4. z \in LeafNodes(t) /\ t.nodes[z].pane = x
      BY <1>10, <1>11, <3>1, <3>3
    <3> QED BY <3>4 DEF PanesOf
  <2> QED BY <2>1, <2>2
<1>14. Branches(t)
  <2> SUFFICES ASSUME NEW x \in Splits(t)
               PROVE  /\ Kids(t, x) \subseteq Nodes(t) \ {t.root}
                      /\ t.nodes[x].first # t.nodes[x].second /\ t.nodes[x].first > x /\ t.nodes[x].second > x
    BY DEF Branches
  <2> DEFINE q == Orig(x)
  <2>1. x \in D /\ q \in Splits(l) /\ Kids(t, x) = Kids(l, q) /\ n \notin Kids(t, x) /\ s \notin Kids(t, x)
        /\ t.nodes[x].first = l.nodes[q].first /\ t.nodes[x].second = l.nodes[q].second /\ x \in Nat /\ q >= x
    BY <1>10, <1>11, <1>12, <1>r
  <2>2. Kids(l, q) \subseteq Nodes(l) \ {l.root} /\ l.nodes[q].first # l.nodes[q].second
        /\ l.nodes[q].first > q /\ l.nodes[q].second > q /\ q \in Nat
    BY <1>t, <2>1 DEF Branches, Splits
  <2>3. Kids(t, x) \subseteq Nodes(t) \ {t.root}
    BY <1>5, <1>8, <2>1, <2>2
  <2>4. l.nodes[q].first \in Nat /\ l.nodes[q].second \in Nat
    BY <1>t, <2>2 DEF Kids
  <2> HIDE DEF q
  <2> QED BY <2>1, <2>2, <2>3, <2>4
<1>15. OneParent(t)
  <2>1. ASSUME NEW x \in Nodes(t) \ {t.root} PROVE \E q \in Splits(t) : x \in Kids(t, q)
    <3>1. x \in Nodes(l) \ {l.root} /\ x # n /\ x # s
      BY <1>5, <1>8
    <3>2. PICK q \in Splits(l) : x \in Kids(l, q)
      BY <1>t, <3>1 DEF OneParent
    <3>3. q # p /\ q # n /\ q \in Nodes(l)
      BY <1>1, <1>6, <3>1, <3>2 DEF Splits
    <3>4. PICK z \in D : Orig(z) = q
      <4>1. CASE q = s
        BY <1>p, <4>1
      <4>2. CASE q # s
        <5>1. q \in D
          BY <3>3, <4>2
        <5> QED BY <1>p, <3>3, <5>1
      <4> QED BY <4>1, <4>2
    <3>5. z \in Splits(t) /\ x \in Kids(t, z)
      BY <1>10, <1>11, <3>2, <3>4
    <3> QED BY <3>5
  <2>2. ASSUME NEW x \in Splits(t), NEW q \in Splits(t), NEW k \in Kids(t, x), k \in Kids(t, q) PROVE x = q
    <3>1. x \in D /\ q \in D /\ Orig(x) \in Splits(l) /\ Orig(q) \in Splits(l)
          /\ k \in Kids(l, Orig(x)) /\ k \in Kids(l, Orig(q))
      BY <1>10, <1>11, <2>2
    <3>2. Orig(x) = Orig(q)
      BY <1>t, <3>1 DEF OneParent
    <3> QED BY <1>o, <3>1, <3>2
  <2> QED BY <2>1, <2>2 DEF OneParent
<1>16. OneLeaf(t)
  <2> SUFFICES ASSUME NEW x \in LeafNodes(t), NEW y \in LeafNodes(t), t.nodes[x].pane = t.nodes[y].pane PROVE x = y
    BY DEF OneLeaf
  <2>1. x \in D /\ y \in D /\ Orig(x) \in LeafNodes(l) /\ Orig(y) \in LeafNodes(l)
        /\ l.nodes[Orig(x)].pane = l.nodes[Orig(y)].pane
    BY <1>10, <1>11
  <2>2. Orig(x) = Orig(y)
    BY <1>t, <2>1 DEF OneLeaf
  <2> QED BY <1>o, <2>1, <2>2
<1>17. t.nodes \in [Nodes(t) -> NodeRecs]
  <2>1. \A x \in D : l.nodes[Orig(x)] \in NodeRecs
    BY <1>8, <1>t
  <2> QED BY <1>5, <1>8, <2>1
<1>18. IsTree(t, top)
  BY <1>5, <1>8, <1>9, <1>13, <1>14, <1>15, <1>16, <1>17, <1>t DEF IsTree
<1> QED BY <1>13, <1>18 DEF t

\* A drag changes a ratio only.
LEMMA DragTree ==
  ASSUME NEW top \in Nat, NEW l, IsTree(l, top), NEW n \in Nodes(l), NEW share \in Int
  PROVE  /\ IsTree(DragDivider(l, n, share), top)
         /\ PanesOf(DragDivider(l, n, share)) = PanesOf(l)
<1> DEFINE r == IF share < 5 THEN 5 ELSE IF share > 95 THEN 95 ELSE share
           t == DragDivider(l, n, share)
<1>t. l.nodes \in [Nodes(l) -> NodeRecs] /\ l.root \in Nodes(l) /\ Nodes(l) \subseteq 1..(top - 1)
      /\ Branches(l) /\ OneParent(l) /\ OneLeaf(l) /\ PanesOf(l) \subseteq 1..(top - 1)
  BY DEF IsTree
<1>1. r \in 5..95
  OBVIOUS
<1>2. t = [l EXCEPT !.nodes[n].ratio = r]
  BY DEF DragDivider
<1> HIDE DEF r, t
<1>3. t.root = l.root /\ t.nodes = [l.nodes EXCEPT ![n].ratio = r] /\ t = [root |-> t.root, nodes |-> t.nodes]
  BY <1>2 DEF IsTree
<1>4. Nodes(t) = Nodes(l)
  BY <1>3 DEF Nodes
<1>5. \A x \in Nodes(l) : /\ t.nodes[x] \in NodeRecs
                          /\ t.nodes[x].pane = l.nodes[x].pane
                          /\ t.nodes[x].first = l.nodes[x].first /\ t.nodes[x].second = l.nodes[x].second
  BY <1>1, <1>3, <1>t DEF NodeRecs, Nodes
<1>6. t.nodes \in [Nodes(t) -> NodeRecs]
  BY <1>3, <1>4, <1>5, <1>t
<1>7. LeafNodes(t) = LeafNodes(l) /\ Splits(t) = Splits(l)
  BY <1>4, <1>5 DEF LeafNodes, Splits, IsLeaf
<1>8. PanesOf(t) = PanesOf(l)
  BY <1>5, <1>7 DEF PanesOf, LeafNodes
<1>9. \A p \in Splits(l) : Kids(t, p) = Kids(l, p) /\ p \in Nodes(l)
  BY <1>5 DEF Kids, Splits
<1>10. Branches(t)
  BY <1>3, <1>4, <1>5, <1>7, <1>9, <1>t DEF Branches
<1>11. OneParent(t)
  BY <1>3, <1>4, <1>7, <1>9, <1>t DEF OneParent
<1>12. OneLeaf(t)
  BY <1>5, <1>7, <1>t DEF OneLeaf, LeafNodes
<1>13. IsTree(t, top)
  BY <1>3, <1>4, <1>6, <1>8, <1>10, <1>11, <1>12, <1>t DEF IsTree
<1> QED BY <1>8, <1>13 DEF t

\* From the leaves to the root.
LEMMA LeavesFirst ==
  ASSUME NEW top \in Nat, NEW l, IsTree(l, top), NEW U,
         LeafNodes(l) \subseteq U,
         \A n \in Splits(l) : Kids(l, n) \subseteq U => n \in U
  PROVE  Nodes(l) \subseteq U
<1> DEFINE T == {k \in 0..top : \A n \in Nodes(l) : n >= top - k => n \in U}
<1>t. Nodes(l) \subseteq 1..(top - 1) /\ Branches(l)
  BY DEF IsTree
<1>1. 0 \in T
  BY <1>t
<1>2. ASSUME NEW k \in 0..(top - 1), k \in T PROVE k + 1 \in T
  <2>1. ASSUME NEW n \in Nodes(l), n >= top - (k + 1) PROVE n \in U
    <3>1. CASE n \in LeafNodes(l)
      BY <3>1
    <3>2. CASE n \notin LeafNodes(l)
      <4>1. n \in Splits(l)
        BY <3>2 DEF Splits
      <4>2. Kids(l, n) \subseteq Nodes(l) /\ \A c \in Kids(l, n) : c > n
        BY <1>t, <4>1 DEF Branches, Kids
      <4>3. \A c \in Kids(l, n) : c >= top - k
        BY <1>t, <2>1, <4>2
      <4>4. Kids(l, n) \subseteq U
        BY <1>2, <4>2, <4>3
      <4> QED BY <4>1, <4>4
    <3> QED BY <3>1, <3>2
  <2> QED BY <2>1
<1>3. top \in T
  <2> HIDE DEF T
  <2>1. 0..top \subseteq T
    BY <1>1, <1>2, UpTo
  <2> QED BY <2>1
<1> QED BY <1>3, <1>t

\* From the root to the leaves.
LEMMA RootFirst ==
  ASSUME NEW top \in Nat, NEW l, IsTree(l, top), NEW U,
         l.root \in U,
         \A p \in Splits(l) : p \in U => Kids(l, p) \subseteq U
  PROVE  Nodes(l) \subseteq U
<1> DEFINE W == Nodes(l) \ U
<1> SUFFICES ASSUME W # {} PROVE FALSE
  OBVIOUS
<1>1. Nodes(l) \subseteq Nat /\ W \subseteq Nat
  BY DEF IsTree
<1>2. PICK x \in W : \A y \in W : ~(<<y, x>> \in OpToRel(<, Nat))
  BY <1>1, WFMin, NatLessThanWellFounded
<1>3. PICK p \in Splits(l) : x \in Kids(l, p)
  BY <1>2 DEF IsTree, OneParent
<1>4. p < x /\ p \in Nat /\ x \in Nat
  <2>1. Splits(l) \subseteq Nat /\ x \in Nat
    BY <1>1, <1>2 DEF Splits
  <2>2. l.nodes[p].first > p /\ l.nodes[p].second > p
    BY <1>3 DEF IsTree, Branches
  <2> QED BY <1>3, <2>1, <2>2 DEF Kids
<1>5. p \in W
  BY <1>2, <1>3 DEF Splits
<1>6. <<p, x>> \in OpToRel(<, Nat)
  BY <1>4 DEF OpToRel
<1> QED BY <1>2, <1>5, <1>6

\* The first pane below each node.
Down(l) ==
    LET down[n \in Nodes(l)] == IF IsLeaf(l, n) THEN l.nodes[n].pane ELSE down[l.nodes[n].first]
    IN down

LEMMA DownUnfolds ==
  ASSUME NEW top \in Nat, NEW l, IsTree(l, top)
  PROVE  \A n \in Nodes(l) : Down(l)[n] = IF IsLeaf(l, n) THEN l.nodes[n].pane ELSE Down(l)[l.nodes[n].first]
<1> DEFINE Val(f, n) == IF IsLeaf(l, n) THEN l.nodes[n].pane ELSE f[l.nodes[n].first]
           From(k) == {x \in Nodes(l) : x >= top - k}
           T == {k \in 0..top : \E f : f = [n \in From(k) |-> Val(f, n)]}
           r == Down(l)
<1>0. r = CHOOSE f : f = [n \in Nodes(l) |-> Val(f, n)]
  BY DEF Down
<1>t. Nodes(l) \subseteq 1..(top - 1) /\ \A n \in Nodes(l) : ~IsLeaf(l, n) => l.nodes[n].first \in Nodes(l)
      /\ l.nodes[n].first > n
  BY DEF IsTree, Branches, Splits, LeafNodes, Kids
<1> HIDE DEF r
<1>1. 0 \in T
  <2> DEFINE f == [n \in {} |-> 0]
  <2>1. From(0) = {}
    BY <1>t
  <2>2. f = [n \in From(0) |-> Val(f, n)]
    BY <2>1
  <2>3. \E h : h = [n \in From(0) |-> Val(h, n)]
    <3> HIDE DEF f, Val, From
    <3> WITNESS f
    <3> QED BY <2>2
  <2> QED BY <2>3
<1>2. ASSUME NEW k \in 0..(top - 1), k \in T PROVE k + 1 \in T
  <2>1. PICK f : f = [n \in From(k) |-> Val(f, n)]
    BY <1>2
  <2> DEFINE g == [n \in From(k + 1) |-> IF n \in From(k) THEN f[n] ELSE Val(f, n)]
  <2>2. ASSUME NEW n \in From(k + 1) PROVE g[n] = Val(g, n)
    <3>1. n \in Nodes(l) /\ g[n] = Val(f, n)
      BY <2>1
    <3>2. CASE IsLeaf(l, n)
      BY <3>1, <3>2
    <3>3. CASE ~IsLeaf(l, n)
      <4> DEFINE c == l.nodes[n].first
      <4>1. c \in Nodes(l) /\ c > n
        BY <1>t, <3>1, <3>3
      <4>2. c \in From(k) /\ c \in From(k + 1)
        BY <1>t, <3>1, <4>1
      <4> QED BY <3>1, <3>3, <4>2
    <3> QED BY <3>2, <3>3
  <2>3. g = [n \in From(k + 1) |-> Val(g, n)]
    BY <2>2
  <2>4. \E h : h = [n \in From(k + 1) |-> Val(h, n)]
    <3> HIDE DEF g, Val, From
    <3> WITNESS g
    <3> QED BY <2>3
  <2> QED BY <2>4
<1>3. top \in T
  <2> HIDE DEF T
  <2>1. 0..top \subseteq T
    BY <1>1, <1>2, UpTo
  <2> QED BY <2>1
<1>4. PICK h : h = [n \in From(top) |-> Val(h, n)]
  BY <1>3
<1>5. From(top) = Nodes(l)
  BY <1>t
<1>6. r = [n \in Nodes(l) |-> Val(r, n)]
  <2> HIDE DEF Val, From
  <2> QED BY <1>0, <1>4, <1>5
<1>7. \A n \in Nodes(l) : r[n] = Val(r, n)
  BY <1>6
<1> QED BY <1>7 DEF r

LEMMA FirstPaneHeld ==
  ASSUME NEW top \in Nat, NEW l, IsTree(l, top)
  PROVE  FirstPane(l) \in PanesOf(l)
<1> DEFINE U == {n \in Nodes(l) : Down(l)[n] \in PanesOf(l)}
<1>1. l.root \in Nodes(l) /\ l.root # 0 /\ Branches(l)
  BY DEF IsTree
<1>2. FirstPane(l) = Down(l)[l.root]
  BY <1>1 DEF FirstPane, Down
<1>3. LeafNodes(l) \subseteq U
  <2> SUFFICES ASSUME NEW n \in LeafNodes(l) PROVE n \in U
    OBVIOUS
  <2>1. n \in Nodes(l) /\ Down(l)[n] = l.nodes[n].pane
    BY DownUnfolds DEF LeafNodes
  <2> QED BY <2>1 DEF PanesOf
<1>4. ASSUME NEW n \in Splits(l), Kids(l, n) \subseteq U PROVE n \in U
  <2>1. n \in Nodes(l) /\ Down(l)[n] = Down(l)[l.nodes[n].first]
    BY DownUnfolds DEF Splits, LeafNodes
  <2>2. l.nodes[n].first \in U
    BY <1>4 DEF Kids
  <2> QED BY <2>1, <2>2
<1>5. Nodes(l) \subseteq U
  <2> HIDE DEF U
  <2> QED BY <1>3, <1>4, LeavesFirst
<1> QED BY <1>1, <1>2, <1>5

-----------------------------------------------------------------------------
(* Tabs, and windows of them.                                               *)

Layouts == [root : Nat, nodes : UNION {[D -> NodeRecs] : D \in SUBSET Nat}]

AnyTab == [id : Nat, panes : Seq(Nat), focus : Nat, layout : Layouts]

\* A tab with panes: its layout holds each of them once and nothing else.
TabOK(t, top) ==
    /\ t \in AnyTab /\ t.id \in 1..(top - 1)
    /\ Distinct(t.panes) /\ t.focus \in ToSet(t.panes)
    /\ IsTree(t.layout, top) /\ PanesOf(t.layout) = ToSet(t.panes)

Apart(tabs) ==
    \A i, j \in DOMAIN tabs : i # j =>
      tabs[i].id # tabs[j].id /\ ToSet(tabs[i].panes) \cap ToSet(tabs[j].panes) = {}

TabsOK(n) ==
    /\ n = [tabs |-> n.tabs, act |-> n.act, next |-> n.next]
    /\ n.next \in Nat \ {0} /\ n.tabs \in Seq(AnyTab)
    /\ n.act \in 0..Len(n.tabs) /\ (n.act = 0 => Len(n.tabs) = 0)
    /\ \A i \in Tabs(n) : TabOK(n.tabs[i], n.next)
    /\ Apart(n.tabs)

\* The panes on show, and steps after which every pane was there or is shown.
Shown(n)      == IF n.act = 0 THEN {} ELSE ToSet(n.tabs[n.act].panes)
Follows(n, k) == LivePanes(k) \subseteq LivePanes(n) \cup Shown(k)

LEMMA TreeTyped ==
  ASSUME NEW top \in Nat, NEW l, IsTree(l, top)
  PROVE  l \in Layouts
<1>1. /\ l = [root |-> l.root, nodes |-> l.nodes] /\ l.root \in Nat
      /\ Nodes(l) \in SUBSET Nat /\ l.nodes \in [Nodes(l) -> NodeRecs]
  BY DEF IsTree
<1>2. l.nodes \in UNION {[D -> NodeRecs] : D \in SUBSET Nat}
  BY <1>1
<1> QED BY <1>1, <1>2 DEF Layouts

LEMMA TabGrows ==
  ASSUME NEW top \in Nat, NEW more \in Nat, top <= more, NEW t, TabOK(t, top)
  PROVE  TabOK(t, more)
<1>1. t.id \in 1..(more - 1)
  BY DEF TabOK
<1>2. IsTree(t.layout, more)
  BY TreeGrows DEF TabOK
<1> QED BY <1>1, <1>2 DEF TabOK

\* The panes of a tab are below top.
LEMMA PanesBelow ==
  ASSUME NEW top \in Nat, NEW t, TabOK(t, top)
  PROVE  ToSet(t.panes) \subseteq 1..(top - 1) /\ Len(t.panes) \in Nat \ {0}
<1>1. ToSet(t.panes) \subseteq 1..(top - 1)
  BY DEF TabOK, IsTree
<1>2. t.panes \in Seq(Nat) /\ DOMAIN t.panes = 1..Len(t.panes) /\ Len(t.panes) \in Nat
  BY DEF TabOK, AnyTab
<1>3. Len(t.panes) # 0
  BY <1>2 DEF TabOK, ToSet
<1> QED BY <1>1, <1>2, <1>3

\* A tab changes, and keeps its name; what it gets is new.
LEMMA ReplaceTab ==
  ASSUME NEW n, TabsOK(n), NEW i \in Tabs(n), NEW top \in Nat, n.next <= top, NEW t, TabOK(t, top),
         t.id = n.tabs[i].id,
         \A x \in ToSet(t.panes) : x \in ToSet(n.tabs[i].panes) \/ x >= n.next,
         NEW act \in 1..Len(n.tabs)
  PROVE  LET k == [tabs |-> [n.tabs EXCEPT ![i] = t], act |-> act, next |-> top]
         IN TabsOK(k) /\ Len(k.tabs) = Len(n.tabs) /\ LivePanes(k) \subseteq LivePanes(n) \cup ToSet(t.panes)
<1> DEFINE s == [n.tabs EXCEPT ![i] = t]
           k == [tabs |-> s, act |-> act, next |-> top]
<1>1. n.tabs \in Seq(AnyTab) /\ t \in AnyTab /\ DOMAIN n.tabs = 1..Len(n.tabs) /\ Len(n.tabs) \in Nat
      /\ i \in 1..Len(n.tabs) /\ n.next \in Nat
  BY DEF TabsOK, TabOK, Tabs
<1>2. DOMAIN s = 1..Len(n.tabs) /\ s[i] = t /\ \A j \in 1..Len(n.tabs) : j # i => s[j] = n.tabs[j]
  BY <1>1
<1>3. s \in Seq(AnyTab) /\ Len(s) = Len(n.tabs)
  BY <1>1
<1>k. k.tabs = s /\ k.act = act /\ k.next = top /\ Tabs(k) = 1..Len(n.tabs)
  BY <1>2 DEF Tabs
<1> HIDE DEF s
<1>4. ASSUME NEW j \in 1..Len(n.tabs) PROVE TabOK(s[j], top)
  <2>1. CASE j = i
    BY <1>2, <2>1
  <2>2. CASE j # i
    <3>1. TabOK(n.tabs[j], n.next)
      BY <1>1 DEF TabsOK, Tabs
    <3>2. TabOK(n.tabs[j], top)
      BY <1>1, <3>1, TabGrows
    <3> QED BY <1>2, <2>2, <3>2
  <2> QED BY <2>1, <2>2
<1>5. ASSUME NEW j \in 1..Len(n.tabs), j # i
      PROVE  t.id # n.tabs[j].id /\ ToSet(t.panes) \cap ToSet(n.tabs[j].panes) = {}
  <2>1. n.tabs[i].id # n.tabs[j].id /\ ToSet(n.tabs[i].panes) \cap ToSet(n.tabs[j].panes) = {}
    BY <1>1, <1>5 DEF TabsOK, Apart
  <2>2. ToSet(n.tabs[j].panes) \subseteq 1..(n.next - 1)
    <3>1. TabOK(n.tabs[j], n.next)
      BY <1>1 DEF TabsOK, Tabs
    <3> QED BY <1>1, <3>1, PanesBelow
  <2> QED BY <1>1, <2>1, <2>2
<1>6. Apart(s)
  <2> SUFFICES ASSUME NEW a \in 1..Len(n.tabs), NEW b \in 1..Len(n.tabs), a # b
               PROVE  s[a].id # s[b].id /\ ToSet(s[a].panes) \cap ToSet(s[b].panes) = {}
    BY <1>2 DEF Apart
  <2>1. CASE a = i
    BY <1>2, <1>5, <2>1
  <2>2. CASE b = i
    BY <1>2, <1>5, <2>2
  <2>3. CASE a # i /\ b # i
    BY <1>1, <1>2, <2>3 DEF TabsOK, Apart
  <2> QED BY <2>1, <2>2, <2>3
<1>7. top \in Nat \ {0}
  BY <1>1 DEF TabsOK
<1>8. TabsOK(k)
  BY <1>3, <1>4, <1>6, <1>7, <1>k DEF TabsOK
<1>9. LivePanes(k) \subseteq LivePanes(n) \cup ToSet(t.panes)
  BY <1>1, <1>2, <1>k DEF LivePanes, Tabs
<1> QED BY <1>3, <1>8, <1>9, <1>k DEF s

\* new_tab
LEMMA NewTabOK ==
  ASSUME NEW n, TabsOK(n), NEW started
  PROVE  TabsOK(NewTab(n, started)) /\ Follows(n, NewTab(n, started))
<1>1. n.tabs \in Seq(AnyTab) /\ DOMAIN n.tabs = 1..Len(n.tabs) /\ Len(n.tabs) \in Nat /\ n.next \in Nat \ {0}
  BY DEF TabsOK
<1>2. CASE ~started
  <2>1. NewTab(n, started) = [tabs |-> n.tabs, act |-> Len(n.tabs), next |-> n.next]
    BY <1>2 DEF NewTab, TabsOK
  <2>2. TabsOK(NewTab(n, started))
    BY <1>1, <2>1 DEF TabsOK, Tabs
  <2>3. LivePanes(NewTab(n, started)) = LivePanes(n)
    BY <2>1 DEF LivePanes, Tabs
  <2> QED BY <2>2, <2>3 DEF Follows
<1>3. CASE started
  <2> DEFINE N == n.next
             t == [id |-> N, panes |-> <<N + 1>>, focus |-> N + 1, layout |-> InitLayout(N + 1, N + 2)]
             s == Append(n.tabs, t)
             k == [tabs |-> s, act |-> Len(n.tabs) + 1, next |-> N + 3]
  <2>1. NewTab(n, started) = k
    BY <1>3 DEF NewTab
  <2>2. TabOK(t, N + 3)
    <3> DEFINE ps == <<N + 1>>
               top == N + 3
    <3>1. top \in Nat /\ N + 1 \in 1..(top - 1) /\ N + 2 \in 1..(top - 1) /\ N \in 1..(top - 1) /\ N \in Nat /\ N + 1 \in Nat
      BY <1>1
    <3>2. ps \in Seq(Nat) /\ Distinct(ps) /\ ToSet(ps) = {N + 1}
      BY <3>1 DEF Distinct, ToSet
    <3> HIDE DEF top
    <3>3. IsTree(InitLayout(N + 1, N + 2), top) /\ PanesOf(InitLayout(N + 1, N + 2)) = {N + 1}
      BY <3>1, InitTree
    <3>4. InitLayout(N + 1, N + 2) \in Layouts
      BY <3>1, <3>3, TreeTyped
    <3> HIDE DEF ps
    <3>5. [id |-> N, panes |-> ps, focus |-> N + 1, layout |-> InitLayout(N + 1, N + 2)] \in AnyTab
      BY <3>1, <3>2, <3>4 DEF AnyTab
    <3>6. t = [id |-> N, panes |-> ps, focus |-> N + 1, layout |-> InitLayout(N + 1, N + 2)]
      BY DEF ps
    <3> HIDE DEF t
    <3>7. t.id = N /\ t.panes = ps /\ t.focus = N + 1 /\ t.layout = InitLayout(N + 1, N + 2) /\ t \in AnyTab
      BY <3>5, <3>6
    <3>8. TabOK(t, top)
      BY <3>1, <3>2, <3>3, <3>7 DEF TabOK
    <3> QED BY <3>8 DEF top
  <2>3. t.id = N /\ ToSet(t.panes) = {N + 1}
    BY DEF ToSet
  <2> HIDE DEF t
  <2>4. s \in Seq(AnyTab) /\ Len(s) = Len(n.tabs) + 1 /\ s[Len(n.tabs) + 1] = t
        /\ \A j \in 1..Len(n.tabs) : s[j] = n.tabs[j]
    BY <1>1, <2>2 DEF TabOK
  <2>5. DOMAIN s = 1..(Len(n.tabs) + 1)
    BY <2>4
  <2> HIDE DEF s
  <2>6. ASSUME NEW j \in 1..Len(n.tabs) PROVE TabOK(s[j], N + 3) /\ s[j].id < N /\ ToSet(s[j].panes) \subseteq 1..(N - 1)
    <3> DEFINE u == s[j]
               top == N + 3
    <3>0. N \in Nat /\ top \in Nat /\ N <= top
      BY <1>1
    <3>1. TabOK(u, N)
      BY <1>1, <2>4 DEF TabsOK, Tabs
    <3> HIDE DEF u, top
    <3>2. TabOK(u, top) /\ ToSet(u.panes) \subseteq 1..(N - 1)
      BY <3>0, <3>1, TabGrows, PanesBelow
    <3>3. u.id < N
      BY <3>0, <3>1 DEF TabOK
    <3> QED BY <3>2, <3>3 DEF u, top
  <2>n. \A j \in 1..Len(n.tabs) : s[j].id # N /\ {N + 1} \cap ToSet(s[j].panes) = {}
    <3> SUFFICES ASSUME NEW j \in 1..Len(n.tabs) PROVE s[j].id # N /\ {N + 1} \cap ToSet(s[j].panes) = {}
      OBVIOUS
    <3>1. s[j].id < N /\ ToSet(s[j].panes) \subseteq 1..(N - 1) /\ N + 1 \notin 1..(N - 1) /\ N \in Nat
      BY <1>1, <2>6
    <3> QED BY <3>1
  <2>7. Apart(s)
    <3> SUFFICES ASSUME NEW a \in DOMAIN s, NEW b \in DOMAIN s, a # b
                 PROVE  s[a].id # s[b].id /\ ToSet(s[a].panes) \cap ToSet(s[b].panes) = {}
      BY DEF Apart
    <3>1. CASE a \in 1..Len(n.tabs) /\ b \in 1..Len(n.tabs)
      BY <1>1, <2>4, <3>1 DEF TabsOK, Apart
    <3>2. CASE a = Len(n.tabs) + 1 /\ b \in 1..Len(n.tabs)
      BY <2>3, <2>4, <2>n, <3>2
    <3>3. CASE b = Len(n.tabs) + 1 /\ a \in 1..Len(n.tabs)
      BY <2>3, <2>4, <2>n, <3>3
    <3> QED BY <1>1, <2>5, <3>1, <3>2, <3>3
  <2>8. \A j \in DOMAIN s : TabOK(s[j], N + 3)
    BY <1>1, <2>2, <2>4, <2>5, <2>6
  <2>9. k.tabs = s /\ k.act = Len(n.tabs) + 1 /\ k.next = N + 3 /\ Tabs(k) = DOMAIN s
    BY DEF Tabs
  <2>10. TabsOK(k)
    BY <1>1, <2>4, <2>7, <2>8, <2>9 DEF TabsOK
  <2>11. Shown(k) = ToSet(s[Len(n.tabs) + 1].panes)
    BY <1>1, <2>9 DEF Shown
  <2>12. ASSUME NEW j \in DOMAIN s PROVE ToSet(s[j].panes) \subseteq LivePanes(n) \cup Shown(k)
    <3>1. CASE j = Len(n.tabs) + 1
      BY <2>11, <3>1
    <3>2. CASE j \in 1..Len(n.tabs)
      BY <1>1, <2>4, <3>2 DEF LivePanes, Tabs
    <3> QED BY <1>1, <2>5, <3>1, <3>2
  <2>13. LivePanes(k) \subseteq LivePanes(n) \cup Shown(k)
    BY <2>9, <2>12 DEF LivePanes
  <2> QED BY <2>1, <2>10, <2>13 DEF Follows
<1> QED BY <1>2, <1>3

\* Tabs that remain, each with some of its panes, are apart as they were.
LEMMA FewerTabs ==
  ASSUME NEW n, TabsOK(n), NEW s \in Seq(AnyTab), NEW act \in 0..Len(s), act = 0 => Len(s) = 0,
         NEW e \in [1..Len(s) -> 1..Len(n.tabs)],
         \A i, j \in 1..Len(s) : e[i] = e[j] => i = j,
         \A i \in 1..Len(s) : /\ TabOK(s[i], n.next) /\ s[i].id = n.tabs[e[i]].id
                              /\ ToSet(s[i].panes) \subseteq ToSet(n.tabs[e[i]].panes)
  PROVE  LET k == [tabs |-> s, act |-> act, next |-> n.next]
         IN TabsOK(k) /\ LivePanes(k) \subseteq LivePanes(n)
<1> DEFINE k == [tabs |-> s, act |-> act, next |-> n.next]
<1>1. DOMAIN s = 1..Len(s) /\ DOMAIN n.tabs = 1..Len(n.tabs)
  BY DEF TabsOK
<1>2. k.tabs = s /\ k.act = act /\ k.next = n.next /\ Tabs(k) = 1..Len(s)
  BY <1>1 DEF Tabs
<1>3. Apart(s)
  <2> SUFFICES ASSUME NEW a \in 1..Len(s), NEW b \in 1..Len(s), a # b
               PROVE  s[a].id # s[b].id /\ ToSet(s[a].panes) \cap ToSet(s[b].panes) = {}
    BY <1>1 DEF Apart
  <2>1. e[a] # e[b] /\ e[a] \in DOMAIN n.tabs /\ e[b] \in DOMAIN n.tabs
    BY <1>1
  <2>2. n.tabs[e[a]].id # n.tabs[e[b]].id /\ ToSet(n.tabs[e[a]].panes) \cap ToSet(n.tabs[e[b]].panes) = {}
    BY <2>1 DEF TabsOK, Apart
  <2> QED BY <2>2
<1>4. TabsOK(k)
  BY <1>2, <1>3 DEF TabsOK
<1>5. LivePanes(k) \subseteq LivePanes(n)
  <2>1. ASSUME NEW i \in 1..Len(s) PROVE ToSet(s[i].panes) \subseteq LivePanes(n)
    <3>1. e[i] \in Tabs(n) /\ ToSet(s[i].panes) \subseteq ToSet(n.tabs[e[i]].panes)
      BY <1>1 DEF Tabs
    <3> QED BY <3>1 DEF LivePanes
  <2>2. LivePanes(k) = UNION {ToSet(s[i].panes) : i \in 1..Len(s)}
    BY <1>2 DEF LivePanes
  <2> QED BY <2>1, <2>2
<1> QED BY <1>4, <1>5

\* How the records change.
LEMMA TabsRecord ==
  ASSUME NEW n, n = [tabs |-> n.tabs, act |-> n.act, next |-> n.next], NEW s, NEW act
  PROVE  [n EXCEPT !.tabs = s, !.act = act] = [tabs |-> s, act |-> act, next |-> n.next]
<1> DEFINE a == n.tabs
           b == n.act
           c == n.next
<1>1. n = [tabs |-> a, act |-> b, next |-> c]
  OBVIOUS
<1> HIDE DEF a, b, c
<1> DEFINE x == [n EXCEPT !.tabs = s]
<1>2. x = [tabs |-> s, act |-> b, next |-> c]
  BY <1>1
<1>3. [x EXCEPT !.act = act] = [tabs |-> s, act |-> act, next |-> c]
  <2> HIDE DEF x
  <2> QED BY <1>2
<1>4. [n EXCEPT !.tabs = s, !.act = act] = [x EXCEPT !.act = act]
  OBVIOUS
<1> QED BY <1>3, <1>4 DEF c

LEMMA TabRecord ==
  ASSUME NEW t \in AnyTab, NEW ps, NEW focus, NEW l
  PROVE  [t EXCEPT !.panes = ps, !.focus = focus, !.layout = l]
           = [id |-> t.id, panes |-> ps, focus |-> focus, layout |-> l]
<1> DEFINE x == [t EXCEPT !.panes = ps]
           y == [x EXCEPT !.focus = focus]
           a == t.id
           b == t.focus
           c == t.layout
<1>1. t = [id |-> a, panes |-> t.panes, focus |-> b, layout |-> c]
  BY DEF AnyTab
<1> HIDE DEF a, b, c
<1>2. x = [id |-> a, panes |-> ps, focus |-> b, layout |-> c]
  BY <1>1
<1>3. y = [id |-> a, panes |-> ps, focus |-> focus, layout |-> c]
  <2> HIDE DEF x
  <2> QED BY <1>2
<1>4. [y EXCEPT !.layout = l] = [id |-> a, panes |-> ps, focus |-> focus, layout |-> l]
  <2> HIDE DEF y
  <2> QED BY <1>3
<1>5. [t EXCEPT !.panes = ps, !.focus = focus, !.layout = l] = [y EXCEPT !.layout = l]
  OBVIOUS
<1> QED BY <1>4, <1>5 DEF a

LEMMA RemoveAtKeeps ==
  ASSUME NEW S, NEW s \in Seq(S), NEW i \in 1..Len(s)
  PROVE  /\ RemoveAt(s, i) \in Seq(S) /\ Len(RemoveAt(s, i)) = Len(s) - 1
         /\ \A j \in 1..(Len(s) - 1) : RemoveAt(s, i)[j] = IF j < i THEN s[j] ELSE s[j + 1]
<1> DEFINE a == SubSeq(s, 1, i - 1)
           b == SubSeq(s, i + 1, Len(s))
<1>0. Len(s) \in Nat /\ i \in Nat /\ 1 <= i /\ i <= Len(s)
  OBVIOUS
<1>1. a \in Seq(S) /\ Len(a) = i - 1 /\ \A j \in 1..(i - 1) : a[j] = s[j]
  BY <1>0
<1>2. b \in Seq(S) /\ Len(b) = Len(s) - i /\ \A j \in 1..(Len(s) - i) : b[j] = s[i + j]
  BY <1>0
<1>3. RemoveAt(s, i) = a \o b
  BY DEF RemoveAt
<1> HIDE DEF a, b
<1>4. a \o b \in Seq(S) /\ Len(a \o b) = Len(s) - 1
  <2>1. a \o b \in Seq(S) /\ Len(a \o b) = Len(a) + Len(b)
    BY <1>1, <1>2, ConcatProperties
  <2> QED BY <1>0, <1>1, <1>2, <2>1
<1>5. ASSUME NEW j \in 1..(Len(s) - 1) PROVE (a \o b)[j] = IF j < i THEN s[j] ELSE s[j + 1]
  <2>1. CASE j < i
    BY <1>0, <1>1, <1>2, <2>1
  <2>2. CASE ~(j < i)
    <3>1. (a \o b)[j] = b[j - (i - 1)]
      BY <1>0, <1>1, <1>2, <2>2
    <3>2. j - (i - 1) \in 1..(Len(s) - i) /\ i + (j - (i - 1)) = j + 1
      BY <1>0, <2>2
    <3> QED BY <1>2, <2>2, <3>1, <3>2
  <2> QED BY <2>1, <2>2
<1> QED BY <1>3, <1>4, <1>5

\* close_tab
LEMMA CloseTabOK ==
  ASSUME NEW n, TabsOK(n), NEW i \in Tabs(n)
  PROVE  TabsOK(CloseTab(n, i)) /\ LivePanes(CloseTab(n, i)) \subseteq LivePanes(n)
<1> DEFINE s == RemoveAt(n.tabs, i)
           size == Len(n.tabs)
           act == Clamp(n.act, size - 1)
           e == [j \in 1..(size - 1) |-> IF j < i THEN j ELSE j + 1]
<1>1. n.tabs \in Seq(AnyTab) /\ i \in 1..size /\ size \in Nat /\ n.act \in 1..size /\ DOMAIN n.tabs = 1..size
  BY DEF TabsOK, Tabs
<1>2. CloseTab(n, i) = [tabs |-> s, act |-> act, next |-> n.next]
  <2>1. CloseTab(n, i) = [n EXCEPT !.tabs = s, !.act = act]
    BY DEF CloseTab
  <2>2. n = [tabs |-> n.tabs, act |-> n.act, next |-> n.next]
    BY DEF TabsOK
  <2> HIDE DEF s, act
  <2> QED BY <2>1, <2>2, TabsRecord
<1>3. s \in Seq(AnyTab) /\ Len(s) = size - 1 /\ \A j \in 1..(size - 1) : s[j] = IF j < i THEN n.tabs[j] ELSE n.tabs[j + 1]
  BY <1>1, RemoveAtKeeps
<1>4. act \in 0..(size - 1) /\ (act = 0 => size - 1 = 0)
  BY <1>1 DEF Clamp
<1>5. e \in [1..(size - 1) -> 1..size] /\ \A j, k \in 1..(size - 1) : e[j] = e[k] => j = k
  BY <1>1
<1>6. \A j \in 1..(size - 1) : s[j] = n.tabs[e[j]] /\ TabOK(n.tabs[e[j]], n.next)
  <2> SUFFICES ASSUME NEW j \in 1..(size - 1) PROVE s[j] = n.tabs[e[j]] /\ TabOK(n.tabs[e[j]], n.next)
    OBVIOUS
  <2>1. e[j] \in 1..size /\ s[j] = n.tabs[e[j]]
    BY <1>1, <1>3
  <2> QED BY <1>1, <2>1 DEF TabsOK, Tabs
<1> HIDE DEF s, e, act
<1>8. /\ act \in 0..Len(s) /\ (act = 0 => Len(s) = 0)
      /\ e \in [1..Len(s) -> 1..Len(n.tabs)] /\ \A j, k \in 1..Len(s) : e[j] = e[k] => j = k
  BY <1>3, <1>4, <1>5
<1>9. \A j \in 1..Len(s) : /\ TabOK(s[j], n.next) /\ s[j].id = n.tabs[e[j]].id
                            /\ ToSet(s[j].panes) \subseteq ToSet(n.tabs[e[j]].panes)
  BY <1>3, <1>6
<1>7. LET k == [tabs |-> s, act |-> act, next |-> n.next]
      IN TabsOK(k) /\ LivePanes(k) \subseteq LivePanes(n)
  BY <1>3, <1>8, <1>9, FewerTabs
<1> QED BY <1>2, <1>7

\* split_pane
LEMMA AppendFresh ==
  ASSUME NEW s \in Seq(Nat), Distinct(s), NEW x \in Nat, x \notin ToSet(s)
  PROVE  Append(s, x) \in Seq(Nat) /\ Distinct(Append(s, x)) /\ ToSet(Append(s, x)) = ToSet(s) \cup {x}
<1> DEFINE t == Append(s, x)
<1>1. Len(s) \in Nat /\ t \in Seq(Nat) /\ Len(t) = Len(s) + 1 /\ t[Len(s) + 1] = x
      /\ \A i \in 1..Len(s) : t[i] = s[i]
  OBVIOUS
<1>2. DOMAIN t = 1..(Len(s) + 1) /\ DOMAIN s = 1..Len(s)
  BY <1>1
<1> HIDE DEF t
<1>3. \A i \in 1..Len(s) : s[i] # x
  BY <1>2 DEF ToSet
<1>4. Distinct(t)
  <2> SUFFICES ASSUME NEW i \in 1..(Len(s) + 1), NEW j \in 1..(Len(s) + 1), t[i] = t[j] PROVE i = j
    BY <1>2 DEF Distinct
  <2>1. CASE i = Len(s) + 1
    BY <1>1, <1>3, <2>1
  <2>2. CASE j = Len(s) + 1
    BY <1>1, <1>3, <2>2
  <2>3. CASE i \in 1..Len(s) /\ j \in 1..Len(s)
    BY <1>1, <1>2, <2>3 DEF Distinct
  <2> QED BY <1>1, <2>1, <2>2, <2>3
<1>5. ToSet(t) = ToSet(s) \cup {x}
  <2>1. ASSUME NEW y \in ToSet(t) PROVE y \in ToSet(s) \cup {x}
    <3>1. PICK i \in 1..(Len(s) + 1) : y = t[i]
      BY <1>2, <2>1 DEF ToSet
    <3> QED BY <1>1, <1>2, <3>1 DEF ToSet
  <2>2. x \in ToSet(t)
    BY <1>1, <1>2 DEF ToSet
  <2>3. ASSUME NEW y \in ToSet(s) PROVE y \in ToSet(t)
    <3>1. PICK i \in 1..Len(s) : y = s[i]
      BY <1>2, <2>3 DEF ToSet
    <3>2. i \in 1..(Len(s) + 1)
      BY <1>1
    <3> QED BY <1>1, <1>2, <3>1, <3>2 DEF ToSet
  <2> QED BY <2>1, <2>2, <2>3
<1> QED BY <1>1, <1>4, <1>5 DEF t

LEMMA SplitPaneOK ==
  ASSUME NEW n, TabsOK(n), NEW dir \in {"Vertical", "Horizontal"}, NEW started
  PROVE  LET k == SplitPane(n, dir, started)
         IN TabsOK(k) /\ Len(k.tabs) = Len(n.tabs) /\ Follows(n, k)
<1>1. CASE FocusedPane(n) = 0 \/ ~started
  BY <1>1 DEF SplitPane, Follows
<1>2. CASE ~(FocusedPane(n) = 0 \/ ~started)
  <2> DEFINE N == n.next
             t == n.tabs[n.act]
             ps == Append(t.panes, N)
             l == Split(t.layout, t.focus, N, dir, N + 1, N + 2)
             u == [t EXCEPT !.panes = ps, !.focus = N, !.layout = l]
             top == N + 3
  <2>1. n.act # 0 /\ n.act \in 1..Len(n.tabs) /\ Len(n.tabs) \in Nat /\ DOMAIN n.tabs = 1..Len(n.tabs)
    <3>1. n.act # 0
      BY <1>2 DEF FocusedPane
    <3> QED BY <3>1 DEF TabsOK
  <2>2. n.act \in Tabs(n) /\ N \in Nat /\ N # 0 /\ top \in Nat /\ N <= top
    BY <2>1 DEF Tabs, TabsOK
  <2>3. SplitPane(n, dir, started) = [tabs |-> [n.tabs EXCEPT ![n.act] = u], act |-> n.act, next |-> top]
    BY <1>2 DEF SplitPane, ActiveTab, TabsOK
  <2>4. TabOK(t, N)
    BY <2>2 DEF TabsOK
  <2>5. t \in AnyTab /\ t.panes \in Seq(Nat) /\ Distinct(t.panes) /\ t.focus \in ToSet(t.panes)
        /\ IsTree(t.layout, N) /\ PanesOf(t.layout) = ToSet(t.panes) /\ t.id \in 1..(N - 1)
    BY <2>4 DEF TabOK, AnyTab
  <2>6. ToSet(t.panes) \subseteq 1..(N - 1)
    BY <2>2, <2>4, PanesBelow
  <2>u. u = [id |-> t.id, panes |-> ps, focus |-> N, layout |-> l]
    <3> HIDE DEF t, ps, l, N
    <3> QED BY <2>5, TabRecord
  <2> HIDE DEF t
  <2>7. N \notin ToSet(t.panes)
    BY <2>2, <2>6
  <2>8. ps \in Seq(Nat) /\ Distinct(ps) /\ ToSet(ps) = ToSet(t.panes) \cup {N}
    BY <2>2, <2>5, <2>7, AppendFresh
  <2>9. IsTree(l, top) /\ PanesOf(l) = PanesOf(t.layout) \cup {N}
    BY <2>2, <2>5, SplitTree
  <2>10. l \in Layouts
    BY <2>2, <2>9, TreeTyped
  <2> HIDE DEF ps, l, u
  <2>11. u \in AnyTab /\ u.id = t.id /\ u.panes = ps /\ u.focus = N /\ u.layout = l
    BY <2>2, <2>5, <2>8, <2>10, <2>u DEF AnyTab
  <2>12. t.id \in 1..(top - 1)
    BY <2>2, <2>5
  <2>13. TabOK(u, top)
    BY <2>5, <2>8, <2>9, <2>11, <2>12 DEF TabOK
  <2>14. \A x \in ToSet(u.panes) : x \in ToSet(t.panes) \/ x >= N
    BY <2>2, <2>8, <2>11
  <2> HIDE DEF top
  <2> DEFINE k == [tabs |-> [n.tabs EXCEPT ![n.act] = u], act |-> n.act, next |-> top]
  <2>15. TabsOK(k) /\ Len(k.tabs) = Len(n.tabs) /\ LivePanes(k) \subseteq LivePanes(n) \cup ToSet(u.panes)
    BY <2>1, <2>2, <2>11, <2>13, <2>14, ReplaceTab DEF t
  <2>16. Shown(k) = ToSet(u.panes)
    BY <2>1 DEF Shown
  <2> QED BY <2>3, <2>15, <2>16 DEF Follows
<1> QED BY <1>1, <1>2

\* A tab changes, without new panes.
LEMMA ChangeTab ==
  ASSUME NEW n, TabsOK(n), NEW i \in Tabs(n), NEW u, TabOK(u, n.next), u.id = n.tabs[i].id,
         ToSet(u.panes) \subseteq ToSet(n.tabs[i].panes)
  PROVE  LET k == [n EXCEPT !.tabs[i] = u]
         IN TabsOK(k) /\ Len(k.tabs) = Len(n.tabs) /\ k.act = n.act /\ LivePanes(k) \subseteq LivePanes(n)
<1> DEFINE s == [n.tabs EXCEPT ![i] = u]
           act == n.act
           top == n.next
<1>1. top \in Nat /\ n.next <= top /\ act \in 1..Len(n.tabs) /\ n = [tabs |-> n.tabs, act |-> n.act, next |-> n.next]
  BY DEF TabsOK, Tabs
<1>2. [n EXCEPT !.tabs[i] = u] = [n EXCEPT !.tabs = s]
  OBVIOUS
<1>3. [n EXCEPT !.tabs = s] = [tabs |-> s, act |-> act, next |-> top]
  <2> HIDE DEF s
  <2> QED BY <1>1
<1> DEFINE k == [tabs |-> s, act |-> act, next |-> top]
<1>4. TabsOK(k) /\ Len(k.tabs) = Len(n.tabs) /\ LivePanes(k) \subseteq LivePanes(n) \cup ToSet(u.panes)
  <2> HIDE DEF act
  <2> QED BY <1>1, ReplaceTab
<1>5. ToSet(u.panes) \subseteq LivePanes(n)
  BY DEF LivePanes
<1>6. k.act = n.act
  OBVIOUS
<1> QED BY <1>2, <1>3, <1>4, <1>5, <1>6

\* close_focused_pane and reap_dead_panes: what is left of a tab.
LEMMA LessOfTab ==
  ASSUME NEW top \in Nat, NEW t, TabOK(t, top), NEW gone, NEW l, NEW focus,
         IsTree(l, top), PanesOf(l) = ToSet(t.panes) \ gone, focus \in PanesOf(l)
  PROVE  /\ TabOK([t EXCEPT !.panes = Without(t.panes, gone), !.focus = focus, !.layout = l], top)
         /\ ToSet(Without(t.panes, gone)) \subseteq ToSet(t.panes)
<1> DEFINE ps == Without(t.panes, gone)
           u == [t EXCEPT !.panes = ps, !.focus = focus, !.layout = l]
<1>1. t \in AnyTab /\ t.panes \in Seq(Nat) /\ Distinct(t.panes) /\ t.id \in 1..(top - 1) /\ t.id \in Nat
  BY DEF TabOK, AnyTab
<1>2. ps \in Seq(Nat) /\ Kept(ps, t.panes, gone, Len(t.panes)) /\ ToSet(ps) = ToSet(t.panes) \ gone
  BY <1>1, WithoutKeeps
<1>3. Distinct(ps)
  BY <1>1, <1>2 DEF Kept
<1>4. l \in Layouts
  BY TreeTyped
<1>5. focus \in Nat
  BY DEF IsTree
<1> HIDE DEF ps
<1>6. u = [id |-> t.id, panes |-> ps, focus |-> focus, layout |-> l]
  BY <1>1, TabRecord
<1> HIDE DEF u
<1>7. u \in AnyTab /\ u.id = t.id /\ u.panes = ps /\ u.focus = focus /\ u.layout = l
  BY <1>1, <1>2, <1>4, <1>5, <1>6 DEF AnyTab
<1>8. TabOK(u, top)
  BY <1>1, <1>2, <1>3, <1>7 DEF TabOK
<1> QED BY <1>2, <1>8 DEF u, ps

\* Of two panes one is left.
LEMMA MoreThanOne ==
  ASSUME NEW s \in Seq(Nat), Distinct(s), NEW x \in ToSet(s), Len(s) # 1
  PROVE  ToSet(s) # {x}
<1>1. DOMAIN s = 1..Len(s) /\ Len(s) \in Nat
  OBVIOUS
<1>2. PICK i \in 1..Len(s) : s[i] = x
  BY <1>1 DEF ToSet
<1>3. PICK j \in 1..Len(s) : j # i
  <2>1. CASE i = 1
    <3>1. 2 \in 1..Len(s)
      BY <1>1, <1>2, <2>1
    <3> QED BY <2>1, <3>1
  <2>2. CASE i # 1
    <3>1. 1 \in 1..Len(s)
      BY <1>1, <1>2
    <3> QED BY <2>2, <3>1
  <2> QED BY <2>1, <2>2
<1>4. s[j] # x /\ s[j] \in ToSet(s)
  BY <1>1, <1>2, <1>3 DEF Distinct, ToSet
<1> QED BY <1>4

LEMMA CloseFocusedOK ==
  ASSUME NEW n, TabsOK(n)
  PROVE  TabsOK(CloseFocusedPane(n)) /\ LivePanes(CloseFocusedPane(n)) \subseteq LivePanes(n)
<1> DEFINE t == n.tabs[n.act]
<1>1. CASE FocusedPane(n) = 0 \/ IsLastPane(n)
  BY <1>1 DEF CloseFocusedPane
<1>2. CASE ~(FocusedPane(n) = 0 \/ IsLastPane(n))
  <2>1. n.act # 0
    BY <1>2 DEF FocusedPane
  <2>2. n.act \in Tabs(n) /\ n.next \in Nat
    BY <2>1 DEF Tabs, TabsOK
  <2>3. CASE Len(t.panes) = 1
    <3>1. CloseFocusedPane(n) = CloseTab(n, n.act)
      BY <1>2, <2>3 DEF CloseFocusedPane, ActiveTab
    <3> QED BY <2>2, <3>1, CloseTabOK
  <2>4. CASE Len(t.panes) # 1
    <3> DEFINE l == RemoveLeaf(t.layout, t.focus)
               gone == {t.focus}
               focus == FirstPane(l)
               u == [t EXCEPT !.panes = Without(t.panes, gone), !.focus = focus, !.layout = l]
               top == n.next
    <3>1. TabOK(t, top)
      BY <2>2 DEF TabsOK
    <3>2. t.panes \in Seq(Nat) /\ Distinct(t.panes) /\ t.focus \in ToSet(t.panes) /\ IsTree(t.layout, top)
          /\ PanesOf(t.layout) = ToSet(t.panes)
      BY <3>1 DEF TabOK, AnyTab
    <3>3. CloseFocusedPane(n) = [n EXCEPT !.tabs[n.act] = [t EXCEPT !.panes = Without(t.panes, gone), !.layout = l, !.focus = focus]]
      BY <1>2, <2>4 DEF CloseFocusedPane, ActiveTab
    <3>4. [t EXCEPT !.panes = Without(t.panes, gone), !.layout = l, !.focus = focus] = u
      <4> DEFINE ps == Without(t.panes, gone)
      <4> HIDE DEF ps, l, focus, t
      <4>1. [t EXCEPT !.panes = ps, !.layout = l, !.focus = focus] = [t EXCEPT !.panes = ps, !.focus = focus, !.layout = l]
        OBVIOUS
      <4> QED BY <4>1 DEF ps
    <3>f. /\ t.focus \in PanesOf(t.layout) /\ PanesOf(t.layout) # {t.focus}
      BY <2>4, <3>2, MoreThanOne
    <3> HIDE DEF t, top
    <3>5. IsTree(l, top) /\ PanesOf(l) = ToSet(t.panes) \ gone
      BY <2>2, <3>2, <3>f, RemoveTree DEF top
    <3> HIDE DEF l
    <3>6. focus \in PanesOf(l)
      BY <2>2, <3>5, FirstPaneHeld DEF top
    <3> HIDE DEF gone, focus
    <3>7. TabOK(u, top) /\ ToSet(Without(t.panes, gone)) \subseteq ToSet(t.panes)
      BY <2>2, <3>1, <3>5, <3>6, LessOfTab DEF top
    <3>8. u.id = t.id /\ u.panes = Without(t.panes, gone)
      BY <3>1 DEF TabOK, AnyTab
    <3> HIDE DEF u
    <3>9. LET k == [n EXCEPT !.tabs[n.act] = u] IN TabsOK(k) /\ LivePanes(k) \subseteq LivePanes(n)
      BY <2>2, <3>7, <3>8, ChangeTab DEF t, top
    <3> QED BY <3>3, <3>4, <3>9
  <2> QED BY <2>3, <2>4
<1> QED BY <1>1, <1>2

\* activate_tab, next_tab and prev_tab
LEMMA ActivateOK ==
  ASSUME NEW n, TabsOK(n), NEW i \in Tabs(n)
  PROVE  TabsOK(ActivateTab(n, i)) /\ ActivateTab(n, i).tabs = n.tabs
<1>1. n = [tabs |-> n.tabs, act |-> n.act, next |-> n.next] /\ DOMAIN n.tabs = 1..Len(n.tabs) /\ Len(n.tabs) \in Nat
  BY DEF TabsOK
<1>2. ActivateTab(n, i) = [tabs |-> n.tabs, act |-> i, next |-> n.next]
  BY <1>1 DEF ActivateTab
<1>3. i \in 1..Len(n.tabs) /\ i # 0
  BY <1>1 DEF Tabs
<1> QED BY <1>1, <1>2, <1>3 DEF TabsOK, Tabs

LEMMA CycleOK ==
  ASSUME NEW n, TabsOK(n)
  PROVE  /\ TabsOK(NextTab(n)) /\ TabsOK(PrevTab(n))
         /\ NextTab(n).tabs = n.tabs /\ PrevTab(n).tabs = n.tabs
<1> DEFINE k == Len(n.tabs)
<1>1. k \in Nat /\ n.act \in 0..k /\ Tabs(n) = 1..k
  BY DEF TabsOK, Tabs
<1>2. CASE k <= 1
  BY <1>2 DEF NextTab, PrevTab
<1>3. CASE ~(k <= 1)
  <2>1. (n.act % k) + 1 \in Tabs(n) /\ ((n.act + k - 2) % k) + 1 \in Tabs(n)
    BY <1>1, <1>3
  <2>2. NextTab(n) = ActivateTab(n, (n.act % k) + 1) /\ PrevTab(n) = ActivateTab(n, ((n.act + k - 2) % k) + 1)
    BY <1>3 DEF NextTab, PrevTab
  <2> QED BY <2>1, <2>2, ActivateOK
<1> QED BY <1>2, <1>3

\* Another of its panes gets a tab's focus.
LEMMA RefocusOK ==
  ASSUME NEW n, TabsOK(n), NEW i \in Tabs(n), NEW p \in ToSet(n.tabs[i].panes)
  PROVE  TabsOK([n EXCEPT !.tabs[i].focus = p])
<1> DEFINE t == n.tabs[i]
           u == [t EXCEPT !.focus = p]
<1>1. TabOK(t, n.next) /\ n.next \in Nat
  BY DEF TabsOK
<1>2. p \in Nat
  <2> DEFINE top == n.next
  <2>1. TabOK(t, top) /\ top \in Nat /\ p \in ToSet(t.panes)
    BY <1>1
  <2> HIDE DEF t, top
  <2>2. ToSet(t.panes) \subseteq 1..(top - 1)
    BY <2>1, PanesBelow
  <2> QED BY <2>1, <2>2
<1>3. [n EXCEPT !.tabs[i].focus = p] = [n EXCEPT !.tabs[i] = u]
  OBVIOUS
<1> HIDE DEF t
<1>4. u \in AnyTab /\ u.id = t.id /\ u.panes = t.panes /\ u.focus = p /\ u.layout = t.layout
  BY <1>1, <1>2 DEF TabOK, AnyTab
<1> HIDE DEF u
<1>5. TabOK(u, n.next)
  BY <1>1, <1>4 DEF TabOK, t
<1>6. TabsOK([n EXCEPT !.tabs[i] = u])
  BY <1>4, <1>5, ChangeTab DEF t
<1> QED BY <1>3, <1>6

\* drag_divider
LEMMA DragOK ==
  ASSUME NEW n, TabsOK(n), NEW i \in Tabs(n), NEW x \in Nodes(n.tabs[i].layout), NEW share \in Int
  PROVE  LET k == [n EXCEPT !.tabs[i].layout = DragDivider(n.tabs[i].layout, x, share)]
         IN TabsOK(k) /\ Follows(n, k)
<1> DEFINE t == n.tabs[i]
           l == DragDivider(t.layout, x, share)
           u == [t EXCEPT !.layout = l]
           top == n.next
<1>1. TabOK(t, top) /\ top \in Nat
  BY DEF TabsOK
<1>2. IsTree(l, top) /\ PanesOf(l) = PanesOf(t.layout)
  BY <1>1, DragTree DEF TabOK
<1> HIDE DEF l
<1>3. [n EXCEPT !.tabs[i].layout = l] = [n EXCEPT !.tabs[i] = u]
  OBVIOUS
<1> HIDE DEF t, top
<1>4. l \in Layouts
  BY <1>1, <1>2, TreeTyped
<1>5. u \in AnyTab /\ u.id = t.id /\ u.panes = t.panes /\ u.focus = t.focus /\ u.layout = l
  BY <1>1, <1>4 DEF TabOK, AnyTab
<1> HIDE DEF u
<1>6. TabOK(u, top)
  BY <1>1, <1>2, <1>5 DEF TabOK
<1>7. LET k == [n EXCEPT !.tabs[i] = u] IN TabsOK(k) /\ LivePanes(k) \subseteq LivePanes(n)
  BY <1>5, <1>6, ChangeTab DEF t, top
<1> QED BY <1>3, <1>7 DEF l, t, Follows

-----------------------------------------------------------------------------
(* The dead are reaped.                                                     *)

\* The layouts of a tab while its dead panes are removed.
Pruning(t, gone) ==
    LET size == Len(t.panes)
        left[n \in 0..size] ==
          IF n = 0 THEN t.layout
          ELSE LET pane == t.panes[size + 1 - n]
               IN IF pane \in gone THEN RemoveLeaf(left[n - 1], pane) ELSE left[n - 1]
    IN left

LEMMA PrunedUnfolds ==
  ASSUME NEW t, NEW gone, NEW size \in Nat, size = Len(t.panes)
  PROVE  /\ Pruned(t, gone) = Pruning(t, gone)[size]
         /\ Pruning(t, gone)[0] = t.layout
         /\ \A i \in 1..size : Pruning(t, gone)[i] =
              IF t.panes[size + 1 - i] \in gone THEN RemoveLeaf(Pruning(t, gone)[i - 1], t.panes[size + 1 - i])
              ELSE Pruning(t, gone)[i - 1]
<1> DEFINE Then(x, i) == IF t.panes[size + 1 - i] \in gone THEN RemoveLeaf(x, t.panes[size + 1 - i]) ELSE x
           Val(f, i) == IF i = 0 THEN t.layout ELSE Then(f[i - 1], i)
           T == {n \in 0..size : \E f : f = [i \in 0..n |-> Val(f, i)]}
           r == Pruning(t, gone)
<1>0. Pruned(t, gone) = r[size] /\ r = CHOOSE f : f = [i \in 0..size |-> Val(f, i)]
  BY DEF Pruned, Pruning
<1>u. \A x, i : Then(x, i) = IF t.panes[size + 1 - i] \in gone THEN RemoveLeaf(x, t.panes[size + 1 - i]) ELSE x
  OBVIOUS
<1> HIDE DEF Then, r
<1>1. 0 \in T
  <2> DEFINE f == [i \in 0..0 |-> t.layout]
  <2>1. f = [i \in 0..0 |-> Val(f, i)]
    OBVIOUS
  <2>2. \E h : h = [i \in 0..0 |-> Val(h, i)]
    <3> HIDE DEF f, Val
    <3> WITNESS f
    <3> QED BY <2>1
  <2> QED BY <2>2
<1>2. ASSUME NEW n \in 0..(size - 1), n \in T PROVE n + 1 \in T
  <2>1. PICK f : f = [i \in 0..n |-> Val(f, i)]
    BY <1>2
  <2> DEFINE g == [i \in 0..(n + 1) |-> IF i = n + 1 THEN Then(f[n], n + 1) ELSE f[i]]
  <2>2. ASSUME NEW i \in 0..(n + 1) PROVE g[i] = Val(g, i)
    <3>1. CASE i = n + 1
      BY <3>1
    <3>2. CASE i # n + 1
      <4>1. i \in 0..n /\ g[i] = f[i] /\ f[i] = Val(f, i)
        BY <2>1, <3>2
      <4>2. i # 0 => i - 1 \in 0..n /\ i - 1 # n + 1 /\ g[i - 1] = f[i - 1]
        BY <4>1
      <4> QED BY <4>1, <4>2
    <3> QED BY <3>1, <3>2
  <2>3. g = [i \in 0..(n + 1) |-> Val(g, i)]
    BY <2>2
  <2>4. \E h : h = [i \in 0..(n + 1) |-> Val(h, i)]
    <3> HIDE DEF g, Val
    <3> WITNESS g
    <3> QED BY <2>3
  <2> QED BY <2>4
<1>3. size \in T
  <2> HIDE DEF T
  <2>1. 0..size \subseteq T
    BY <1>1, <1>2, UpTo
  <2> QED BY <2>1
<1>4. PICK h : h = [i \in 0..size |-> Val(h, i)]
  BY <1>3
<1>5. r = [i \in 0..size |-> Val(r, i)]
  <2> HIDE DEF Val
  <2> QED BY <1>0, <1>4
<1>7. r[0] = t.layout /\ \A i \in 1..size : r[i] = Then(r[i - 1], i)
  BY <1>5
<1>8. \A i \in 1..size : r[i] = IF t.panes[size + 1 - i] \in gone THEN RemoveLeaf(r[i - 1], t.panes[size + 1 - i]) ELSE r[i - 1]
  BY <1>7, <1>u
<1> QED BY <1>0, <1>7, <1>8 DEF r

LEMMA PrunedTree ==
  ASSUME NEW top \in Nat, NEW t, TabOK(t, top), NEW gone, ~(ToSet(t.panes) \subseteq gone)
  PROVE  IsTree(Pruned(t, gone), top) /\ PanesOf(Pruned(t, gone)) = ToSet(t.panes) \ gone
<1> DEFINE size == Len(t.panes)
           left == Pruning(t, gone)
           Gone(n) == {x \in gone : \E i \in 1..n : t.panes[size + 1 - i] = x}
           T == {n \in 0..size : IsTree(left[n], top) /\ PanesOf(left[n]) = ToSet(t.panes) \ Gone(n)}
<1>0. size \in Nat /\ size = Len(t.panes) /\ DOMAIN t.panes = 1..size /\ Distinct(t.panes)
      /\ IsTree(t.layout, top) /\ PanesOf(t.layout) = ToSet(t.panes)
  BY DEF TabOK, AnyTab
<1> HIDE DEF size
<1>1. /\ Pruned(t, gone) = left[size] /\ left[0] = t.layout
      /\ \A i \in 1..size : left[i] =
           IF t.panes[size + 1 - i] \in gone THEN RemoveLeaf(left[i - 1], t.panes[size + 1 - i]) ELSE left[i - 1]
  BY <1>0, PrunedUnfolds
<1> HIDE DEF left
<1>2. 0 \in T
  BY <1>0, <1>1
<1>3. ASSUME NEW n \in 0..(size - 1), n \in T PROVE n + 1 \in T
  <2> DEFINE l == left[n]
             x == t.panes[size + 1 - (n + 1)]
  <2>size. size \in Nat
    BY <1>0
  <2>1. n + 1 \in 1..size /\ (n + 1) - 1 = n /\ n + 1 \in 0..size /\ size + 1 - (n + 1) \in 1..size /\ n \in Nat
    <3> HIDE DEF l, x, Gone, T
    <3>1. n \in Nat /\ n <= size - 1
      BY <2>size
    <3>2. size + 1 - (n + 1) = size - n
      BY <2>size, <3>1
    <3> QED BY <2>size, <3>1, <3>2
  <2>2. IsTree(l, top) /\ PanesOf(l) = ToSet(t.panes) \ Gone(n)
    BY <1>3
  <2>3. left[n + 1] = IF x \in gone THEN RemoveLeaf(l, x) ELSE l
    BY <1>1, <2>1
  <2>4. x \in ToSet(t.panes)
    BY <1>0, <2>1 DEF ToSet
  <2>5. x \notin Gone(n)
    <3> SUFFICES ASSUME NEW i \in 1..n, t.panes[size + 1 - i] = x PROVE FALSE
      OBVIOUS
    <3>1. size + 1 - i \in 1..size /\ size + 1 - i # size + 1 - (n + 1)
      <4>1. i \in Nat /\ 1 <= i /\ i <= n /\ n <= size
        BY <2>size, <2>1
      <4> HIDE DEF l, x, Gone, T
      <4> QED BY <2>size, <2>1, <4>1
    <3> QED BY <1>0, <2>1, <3>1 DEF Distinct
  <2>6. Gone(n + 1) = IF x \in gone THEN Gone(n) \cup {x} ELSE Gone(n)
    <3>1. \A i \in 1..(n + 1) : i \in 1..n \/ i = n + 1
      BY <2>1
    <3>2. \A i \in 1..n : i \in 1..(n + 1)
      BY <2>1
    <3>3. n + 1 \in 1..(n + 1)
      BY <2>1
    <3> QED BY <3>1, <3>2, <3>3
  <2>7. CASE x \in gone
    <3>1. PICK y \in ToSet(t.panes) : y \notin gone
      OBVIOUS
    <3>2. y \in PanesOf(l) /\ y # x /\ x \in PanesOf(l)
      BY <2>2, <2>4, <2>5, <2>7, <3>1
    <3> HIDE DEF l, x, Gone
    <3>3. IsTree(RemoveLeaf(l, x), top) /\ PanesOf(RemoveLeaf(l, x)) = PanesOf(l) \ {x}
      BY <2>2, <3>2, RemoveTree
    <3>4. IsTree(left[n + 1], top) /\ PanesOf(left[n + 1]) = ToSet(t.panes) \ Gone(n + 1)
      BY <2>2, <2>3, <2>6, <2>7, <3>3
    <3> QED BY <2>1, <3>4
  <2>8. CASE x \notin gone
    <3> HIDE DEF l, x, Gone
    <3>1. IsTree(left[n + 1], top) /\ PanesOf(left[n + 1]) = ToSet(t.panes) \ Gone(n + 1)
      BY <2>2, <2>3, <2>6, <2>8
    <3> QED BY <2>1, <3>1
  <2> QED BY <2>7, <2>8
<1>4. size \in T
  <2> HIDE DEF T
  <2>1. 0..size \subseteq T
    BY <1>0, <1>2, <1>3, UpTo
  <2> QED BY <1>0, <2>1
<1>5. ToSet(t.panes) \ Gone(size) = ToSet(t.panes) \ gone
  <2> SUFFICES ASSUME NEW x \in ToSet(t.panes), x \in gone PROVE x \in Gone(size)
    OBVIOUS
  <2>1. PICK j \in 1..size : t.panes[j] = x
    BY <1>0 DEF ToSet
  <2>2. size + 1 - j \in 1..size /\ size + 1 - (size + 1 - j) = j
    BY <1>0
  <2> QED BY <2>1, <2>2
<1> QED BY <1>1, <1>4, <1>5

\* One tab of reap_dead_panes.
LEMMA ReapedOK ==
  ASSUME NEW top \in Nat, NEW t, TabOK(t, top), NEW gone, ~(ToSet(t.panes) \subseteq gone)
  PROVE  /\ TabOK(Reaped(t, gone), top) /\ Reaped(t, gone).id = t.id
         /\ ToSet(Reaped(t, gone).panes) = ToSet(t.panes) \ gone
         /\ t.focus \notin gone => Reaped(t, gone).focus = t.focus
<1> DEFINE l == Pruned(t, gone)
           ps == Without(t.panes, gone)
           focus == IF t.focus \in gone THEN FirstPane(l) ELSE t.focus
           u == [t EXCEPT !.panes = ps, !.focus = focus, !.layout = l]
<1>1. IsTree(l, top) /\ PanesOf(l) = ToSet(t.panes) \ gone
  BY PrunedTree
<1>2. Reaped(t, gone) = [t EXCEPT !.panes = ps, !.layout = l, !.focus = focus]
  BY DEF Reaped
<1> HIDE DEF l
<1>3. focus \in PanesOf(l)
  BY <1>1, FirstPaneHeld DEF TabOK
<1>4. t.focus \notin gone => focus = t.focus
  OBVIOUS
<1>5. t.panes \in Seq(Nat) /\ t \in AnyTab
  BY DEF TabOK, AnyTab
<1>6. ToSet(ps) = ToSet(t.panes) \ gone
  BY <1>5, WithoutKeeps
<1> HIDE DEF focus
<1>7. TabOK(u, top)
  BY <1>1, <1>3, LessOfTab
<1> HIDE DEF ps
<1>8. [t EXCEPT !.panes = ps, !.layout = l, !.focus = focus] = u
  OBVIOUS
<1>9. u.id = t.id /\ u.panes = ps /\ u.focus = focus
  BY <1>5 DEF AnyTab
<1> HIDE DEF u
<1> QED BY <1>2, <1>4, <1>6, <1>7, <1>8, <1>9

\* reap_dead_panes, and what it leaves of the focus.
LEMMA ReapOK ==
  ASSUME NEW n, TabsOK(n), NEW gone
  PROVE  /\ TabsOK(ReapDeadPanes(n, gone)) /\ Follows(n, ReapDeadPanes(n, gone))
         /\ FocusedPane(n) \in LivePanes(ReapDeadPanes(n, gone))
              /\ (\A i \in 1..(n.act - 1) : \E j \in Tabs(ReapDeadPanes(n, gone)) :
                    ReapDeadPanes(n, gone).tabs[j].id = n.tabs[i].id)
            => FocusedPane(ReapDeadPanes(n, gone)) = FocusedPane(n)
<1> DEFINE G == {t \in ToSet(n.tabs) : t.panes # <<>> /\ ToSet(t.panes) \subseteq gone}
           left == Without(n.tabs, G)
           s == [i \in DOMAIN left |-> Reaped(left[i], gone)]
           act == Clamp(n.act, Len(left))
           k == ReapDeadPanes(n, gone)
           top == n.next
           size == Len(n.tabs)
<1>1. n.tabs \in Seq(AnyTab) /\ DOMAIN n.tabs = 1..size /\ size \in Nat /\ top \in Nat /\ n.act \in 0..size
      /\ (n.act = 0 => size = 0) /\ n = [tabs |-> n.tabs, act |-> n.act, next |-> n.next]
  BY DEF TabsOK
<1>2. \A i \in 1..size : TabOK(n.tabs[i], top)
  BY <1>1 DEF TabsOK, Tabs
<1>3. \A i, j \in 1..size : i # j => n.tabs[i].id # n.tabs[j].id
  BY <1>1 DEF TabsOK, Apart
<1>4. Distinct(n.tabs)
  BY <1>1, <1>3 DEF Distinct
<1>5. k = [tabs |-> s, act |-> act, next |-> top]
  <2>1. k = [n EXCEPT !.tabs = s, !.act = act]
    BY DEF ReapDeadPanes
  <2> HIDE DEF s, act, k
  <2> QED BY <1>1, <2>1, TabsRecord
<1>6. left \in Seq(AnyTab) /\ Kept(left, n.tabs, G, size)
  BY <1>1, WithoutKeeps
<1> HIDE DEF left
<1>7. DOMAIN left = 1..Len(left) /\ Len(left) \in Nat
  BY <1>6
<1>8. Distinct(left) /\ \A i \in 1..Len(left) : \E j \in 1..size : left[i] = n.tabs[j] /\ n.tabs[j] \notin G
  BY <1>4, <1>6 DEF Kept
<1>g. ASSUME NEW j \in 1..size
      PROVE  n.tabs[j] \in G <=> ToSet(n.tabs[j].panes) \subseteq gone
  <2>1. n.tabs[j] \in ToSet(n.tabs)
    BY <1>1 DEF ToSet
  <2>2. n.tabs[j].panes # <<>>
    BY <1>1, <1>2, PanesBelow
  <2> QED BY <2>1, <2>2
<1> HIDE DEF G
<1>9. ASSUME NEW i \in 1..Len(left)
      PROVE  /\ s[i] = Reaped(left[i], gone) /\ TabOK(s[i], top) /\ s[i].id = left[i].id
             /\ ToSet(s[i].panes) = ToSet(left[i].panes) \ gone
             /\ left[i].focus \notin gone => s[i].focus = left[i].focus
  <2> DEFINE t == left[i]
  <2>1. PICK j \in 1..size : t = n.tabs[j] /\ n.tabs[j] \notin G
    BY <1>8
  <2>2. TabOK(t, top) /\ ~(ToSet(t.panes) \subseteq gone)
    BY <1>2, <1>g, <2>1
  <2>3. s[i] = Reaped(t, gone)
    BY <1>7
  <2> HIDE DEF t, s, top
  <2>4. /\ TabOK(Reaped(t, gone), top) /\ Reaped(t, gone).id = t.id
        /\ ToSet(Reaped(t, gone).panes) = ToSet(t.panes) \ gone
        /\ t.focus \notin gone => Reaped(t, gone).focus = t.focus
    BY <1>1, <2>2, ReapedOK
  <2> QED BY <2>3, <2>4 DEF t
<1>10. DOMAIN s = 1..Len(left)
  BY <1>7
<1>11. s \in Seq(AnyTab) /\ Len(s) = Len(left)
  <2>1. \A i \in 1..Len(left) : s[i] \in AnyTab
    BY <1>9 DEF TabOK
  <2>2. s = [i \in 1..Len(left) |-> s[i]]
    BY <1>7
  <2> HIDE DEF s
  <2>3. s \in Seq(AnyTab)
    BY <1>7, <2>1, <2>2
  <2> QED BY <1>7, <1>10, <2>3
<1> HIDE DEF s
<1>12. act \in 0..Len(s) /\ (act = 0 => Len(s) = 0)
  <2>1. n.act \in Nat /\ (n.act = 0 => Len(left) = 0)
    <3>1. Len(left) <= size
      BY <1>6 DEF Kept
    <3> QED BY <1>1, <1>7, <3>1
  <2> QED BY <1>7, <1>11, <2>1 DEF Clamp
<1> DEFINE e == [i \in 1..Len(s) |-> CHOOSE j \in 1..size : left[i] = n.tabs[j]]
<1>13. ASSUME NEW i \in 1..Len(s) PROVE e[i] \in 1..size /\ left[i] = n.tabs[e[i]]
  <2>1. \E j \in 1..size : left[i] = n.tabs[j]
    BY <1>8, <1>11
  <2> QED BY <2>1
<1>14. e \in [1..Len(s) -> 1..size] /\ \A i, j \in 1..Len(s) : e[i] = e[j] => i = j
  <2>1. e \in [1..Len(s) -> 1..size]
    BY <1>13
  <2>2. \A i, j \in 1..Len(s) : e[i] = e[j] => left[i] = left[j]
    BY <1>13
  <2> HIDE DEF e
  <2> QED BY <1>7, <1>8, <1>11, <2>1, <2>2 DEF Distinct
<1> HIDE DEF e, act
<1>15. \A i \in 1..Len(s) : /\ TabOK(s[i], n.next) /\ s[i].id = n.tabs[e[i]].id
                            /\ ToSet(s[i].panes) \subseteq ToSet(n.tabs[e[i]].panes)
  BY <1>9, <1>11, <1>13
<1>16. LET h == [tabs |-> s, act |-> act, next |-> n.next]
       IN TabsOK(h) /\ LivePanes(h) \subseteq LivePanes(n)
  BY <1>11, <1>12, <1>14, <1>15, FewerTabs
<1>17. TabsOK(k) /\ Follows(n, k)
  BY <1>5, <1>16 DEF Follows
<1> HIDE DEF k
<1>18. k.tabs = s /\ k.act = act /\ Tabs(k) = 1..Len(left)
  BY <1>5, <1>10 DEF Tabs
<1>19. ASSUME FocusedPane(n) \in LivePanes(k),
              \A i \in 1..(n.act - 1) : \E j \in Tabs(k) : k.tabs[j].id = n.tabs[i].id
       PROVE  FocusedPane(k) = FocusedPane(n)
  <2>1. CASE n.act = 0
    <3>1. k.act = 0
      BY <1>7, <1>18, <2>1 DEF act, Clamp
    <3> QED BY <2>1, <3>1 DEF FocusedPane
  <2>2. CASE n.act # 0
    <3> DEFINE a == n.act
               t == n.tabs[a]
               p == t.focus
    <3>1. a \in 1..size /\ FocusedPane(n) = p
      BY <1>1, <2>2 DEF FocusedPane, ActiveTab
    <3>2. PICK j \in 1..Len(left) : p \in ToSet(s[j].panes)
      BY <1>18, <1>19, <3>1 DEF LivePanes
    <3>3. p \notin gone
      BY <1>9, <3>2
    <3>4. n.tabs[a] \notin G
      <4>1. p \in ToSet(n.tabs[a].panes)
        BY <1>2, <3>1 DEF TabOK
      <4> QED BY <1>g, <3>1, <3>3, <4>1
    <3>5. ASSUME NEW i \in 1..(a - 1) PROVE n.tabs[i] \notin G
      <4>1. i \in 1..size
        BY <1>1, <3>1
      <4>2. PICK h \in 1..Len(left) : s[h].id = n.tabs[i].id
        BY <1>18, <1>19
      <4>3. PICK q \in 1..size : left[h] = n.tabs[q] /\ n.tabs[q] \notin G
        BY <1>8
      <4>4. n.tabs[q].id = n.tabs[i].id
        BY <1>9, <4>2, <4>3
      <4>5. q = i
        BY <1>3, <4>1, <4>4
      <4> QED BY <4>3, <4>5
    <3>6. \A i \in 1..a : n.tabs[i] \notin G
      <4> SUFFICES ASSUME NEW i \in 1..a PROVE n.tabs[i] \notin G
        OBVIOUS
      <4>1. i = a \/ i \in 1..(a - 1)
        BY <1>1, <3>1
      <4> QED BY <3>4, <3>5, <4>1
    <3>7. Len(left) >= a /\ left[a] = n.tabs[a]
      <4>1. a \in 0..size /\ a \in 1..a
        BY <1>1, <3>1
      <4> HIDE DEF a
      <4> QED BY <1>6, <3>6, <4>1 DEF Kept
    <3>8. act = a /\ a \in 1..Len(left)
      <4>1. a \in Nat /\ 1 <= a
        BY <1>1, <3>1
      <4>2. act = a
        BY <1>7, <3>7, <4>1 DEF act, Clamp
      <4> QED BY <1>7, <3>7, <4>1, <4>2
    <3>9. s[a].focus = p
      BY <1>9, <3>3, <3>7, <3>8
    <3>10. FocusedPane(k) = s[a].focus
      BY <1>18, <2>2, <3>8 DEF FocusedPane, ActiveTab
    <3> QED BY <3>1, <3>9, <3>10
  <2> QED BY <2>1, <2>2
<1> QED BY <1>17, <1>19 DEF k

-----------------------------------------------------------------------------
(* The rectangles of a layout.                                              *)

RectSet == [x : Int, y : Int, w : Int, h : Int]

\* The rectangle of a node that is not the root, from its parent's.
InParent(l, rect, n) ==
    LET p == FindParent(l, n)
    IN Halves(l.nodes[p], rect[p])[IF l.nodes[p].first = n THEN 1 ELSE 2]

LEMMA RectsUnfold ==
  ASSUME NEW top \in Nat, NEW l, IsTree(l, top), NEW r
  PROVE  \A n \in Nodes(l) : NodeRects(l, r)[n] = IF n = l.root THEN r ELSE InParent(l, NodeRects(l, r), n)
<1> DEFINE Val(f, n) == IF n = l.root THEN r ELSE InParent(l, f, n)
           Below(k) == {x \in Nodes(l) : x <= k}
           T == {k \in 0..top : \E f : f = [n \in Below(k) |-> Val(f, n)]}
           q == NodeRects(l, r)
<1>0. q = CHOOSE f : f = [n \in Nodes(l) |-> Val(f, n)]
  BY DEF NodeRects, InParent
<1>t. Nodes(l) \subseteq 1..(top - 1) /\ OneParent(l) /\ Branches(l)
  BY DEF IsTree
<1>p. ASSUME NEW n \in Nodes(l), n # l.root PROVE FindParent(l, n) \in Nodes(l) /\ FindParent(l, n) < n
  <2> DEFINE p == FindParent(l, n)
  <2>1. p \in Splits(l) /\ n \in Kids(l, p)
    BY <1>t, <1>p, ParentFound
  <2> HIDE DEF p
  <2>2. l.nodes[p].first > p /\ l.nodes[p].second > p
    BY <1>t, <2>1 DEF Branches
  <2>3. n > p /\ p \in Nodes(l)
    BY <2>1, <2>2 DEF Kids, Splits
  <2>4. n \in Nat /\ p \in Nat
    BY <1>t, <2>3
  <2> QED BY <2>3, <2>4 DEF p
<1> HIDE DEF q
<1>1. 0 \in T
  <2> DEFINE f == [n \in {} |-> 0]
  <2>1. Below(0) = {}
    BY <1>t
  <2>2. f = [n \in Below(0) |-> Val(f, n)]
    BY <2>1
  <2>3. \E h : h = [n \in Below(0) |-> Val(h, n)]
    <3> HIDE DEF f, Val, Below
    <3> WITNESS f
    <3> QED BY <2>2
  <2> QED BY <2>3
<1>2. ASSUME NEW k \in 0..(top - 1), k \in T PROVE k + 1 \in T
  <2>1. PICK f : f = [n \in Below(k) |-> Val(f, n)]
    BY <1>2
  <2> DEFINE g == [n \in Below(k + 1) |-> IF n \in Below(k) THEN f[n] ELSE Val(f, n)]
  <2>2. ASSUME NEW n \in Below(k + 1) PROVE g[n] = Val(g, n)
    <3>1. n \in Nodes(l) /\ g[n] = Val(f, n)
      BY <2>1
    <3>2. CASE n = l.root
      BY <3>1, <3>2
    <3>3. CASE n # l.root
      <4> DEFINE p == FindParent(l, n)
      <4>1. p \in Nodes(l) /\ p < n
        BY <1>p, <3>1, <3>3
      <4> HIDE DEF p
      <4>2. p \in Below(k) /\ p \in Below(k + 1)
        BY <1>t, <3>1, <4>1
      <4>3. g[p] = f[p]
        BY <4>2
      <4> HIDE DEF g
      <4>4. InParent(l, f, n) = InParent(l, g, n)
        BY <4>3 DEF InParent, p
      <4> QED BY <3>1, <3>3, <4>4
    <3> QED BY <3>2, <3>3
  <2>3. g = [n \in Below(k + 1) |-> Val(g, n)]
    BY <2>2
  <2>4. \E h : h = [n \in Below(k + 1) |-> Val(h, n)]
    <3> HIDE DEF g, Val, Below
    <3> WITNESS g
    <3> QED BY <2>3
  <2> QED BY <2>4
<1>3. top \in T
  <2> HIDE DEF T
  <2>1. 0..top \subseteq T
    BY <1>1, <1>2, UpTo
  <2> QED BY <2>1
<1>4. PICK h : h = [n \in Below(top) |-> Val(h, n)]
  BY <1>3
<1>5. Below(top) = Nodes(l)
  BY <1>t
<1>6. q = [n \in Nodes(l) |-> Val(q, n)]
  <2> HIDE DEF Val, Below
  <2> QED BY <1>0, <1>4, <1>5
<1>7. \A n \in Nodes(l) : q[n] = Val(q, n)
  BY <1>6
<1> QED BY <1>7 DEF q

\* The two halves of a split are the rectangles of its children.
LEMMA HalvesOfSplit ==
  ASSUME NEW top \in Nat, NEW l, IsTree(l, top), NEW r, NEW p \in Splits(l)
  PROVE  /\ NodeRects(l, r)[l.nodes[p].first] = Halves(l.nodes[p], NodeRects(l, r)[p])[1]
         /\ NodeRects(l, r)[l.nodes[p].second] = Halves(l.nodes[p], NodeRects(l, r)[p])[2]
<1> DEFINE a == l.nodes[p].first
           b == l.nodes[p].second
<1>1. /\ a \in Nodes(l) \ {l.root} /\ b \in Nodes(l) \ {l.root} /\ a # b
      /\ a \in Kids(l, p) /\ b \in Kids(l, p) /\ OneParent(l)
  BY DEF IsTree, Branches, Kids
<1>2. ASSUME NEW c \in Kids(l, p), c \in Nodes(l) \ {l.root} PROVE FindParent(l, c) = p
  <2>1. FindParent(l, c) \in Splits(l) /\ c \in Kids(l, FindParent(l, c))
    BY <1>1, <1>2, ParentFound
  <2> QED BY <1>1, <2>1 DEF OneParent
<1>3. FindParent(l, a) = p /\ FindParent(l, b) = p
  BY <1>1, <1>2
<1>4. NodeRects(l, r)[a] = InParent(l, NodeRects(l, r), a) /\ NodeRects(l, r)[b] = InParent(l, NodeRects(l, r), b)
  BY <1>1, RectsUnfold
<1> QED BY <1>1, <1>3, <1>4 DEF InParent

LEMMA QuotientTyped ==
  ASSUME NEW a \in Int, NEW b \in Nat \ {0}
  PROVE  Quotient(a, b) \in Int
<1>1. CASE a < 0
  <2>1. -a \in Nat
    BY <1>1
  <2>2. (-a) \div b \in Int
    BY <2>1
  <2> QED BY <1>1, <2>2 DEF Quotient
<1>2. CASE ~(a < 0)
  BY <1>2 DEF Quotient
<1> QED BY <1>1, <1>2

LEMMA FirstHalfTyped ==
  ASSUME NEW extent \in Int, NEW ratio \in 5..95, NEW cell \in Nat \ {0}
  PROVE  FirstHalf(extent, ratio, cell) \in Int
<1> DEFINE a == extent * ratio
           b == Quotient(a, 100)
           c == Border \div 2
           d == Quotient(b - c, cell)
<1>1. a \in Int
  OBVIOUS
<1>2. Border \in Nat /\ c \in Int
  BY LocalWindowAssumption
<1> HIDE DEF a, c
<1>3. b \in Int
  BY <1>1, QuotientTyped
<1> HIDE DEF b
<1>4. b - c \in Int
  BY <1>2, <1>3
<1>5. d \in Int
  BY <1>4, QuotientTyped
<1> HIDE DEF d
<1>6. d * cell \in Int
  BY <1>5
<1> QED BY <1>6 DEF FirstHalf, a, b, c, d

LEMMA HalvesTyped ==
  ASSUME NEW node \in NodeRecs, NEW r \in RectSet
  PROVE  Halves(node, r)[1] \in RectSet /\ Halves(node, r)[2] \in RectSet
<1> DEFINE w == FirstHalf(r.w, node.ratio, CellW)
           h == FirstHalf(r.h, node.ratio, CellH)
<1>1. r.w \in Int /\ r.h \in Int /\ r.x \in Int /\ r.y \in Int /\ node.ratio \in 5..95
  BY DEF RectSet, NodeRecs
<1>2. w \in Int /\ h \in Int /\ Border \in Int
  <2> DEFINE rw == r.w
             rh == r.h
             ratio == node.ratio
  <2>1. rw \in Int /\ rh \in Int /\ ratio \in 5..95 /\ CellW \in Nat \ {0} /\ CellH \in Nat \ {0} /\ Border \in Int
    BY <1>1, LocalWindowAssumption
  <2> HIDE DEF rw, rh, ratio
  <2>2. FirstHalf(rw, ratio, CellW) \in Int
    BY <2>1, FirstHalfTyped
  <2>3. FirstHalf(rh, ratio, CellH) \in Int
    BY <2>1, FirstHalfTyped
  <2> QED BY <2>1, <2>2, <2>3 DEF rw, rh, ratio
<1> HIDE DEF w, h
<1>3. CASE node.dir = "Vertical"
  <2>1. Halves(node, r) = <<Rect(r.x, r.y, w, r.h), Rect(r.x + w + Border, r.y, r.w - w - Border, r.h)>>
    BY <1>3 DEF Halves, w, h
  <2> QED BY <1>1, <1>2, <2>1 DEF Rect, RectSet
<1>4. CASE node.dir # "Vertical"
  <2>1. Halves(node, r) = <<Rect(r.x, r.y, r.w, h), Rect(r.x, r.y + h + Border, r.w, r.h - h - Border)>>
    BY <1>4 DEF Halves, w, h
  <2> QED BY <1>1, <1>2, <2>1 DEF Rect, RectSet
<1> QED BY <1>3, <1>4

LEMMA RectsTyped ==
  ASSUME NEW top \in Nat, NEW l, IsTree(l, top), NEW r \in RectSet
  PROVE  /\ \A n \in Nodes(l) : NodeRects(l, r)[n] \in RectSet
         /\ DOMAIN PaneRects(l, r) = PanesOf(l)
         /\ \A p \in PanesOf(l) : PaneRects(l, r)[p] \in RectSet
<1> DEFINE U == {n \in Nodes(l) : NodeRects(l, r)[n] \in RectSet}
<1>1. l.root \in U
  BY RectsUnfold DEF IsTree
<1>2. ASSUME NEW p \in Splits(l), p \in U PROVE Kids(l, p) \subseteq U
  <2>1. l.nodes[p] \in NodeRecs /\ Kids(l, p) \subseteq Nodes(l)
    BY DEF IsTree, Splits, Branches
  <2>2. /\ NodeRects(l, r)[l.nodes[p].first] \in RectSet
        /\ NodeRects(l, r)[l.nodes[p].second] \in RectSet
    BY <1>2, <2>1, HalvesOfSplit, HalvesTyped
  <2> QED BY <2>1, <2>2 DEF Kids
<1>3. Nodes(l) \subseteq U
  <2> HIDE DEF U
  <2> QED BY <1>1, <1>2, RootFirst
<1>4. \A n \in Nodes(l) : NodeRects(l, r)[n] \in RectSet
  BY <1>3
<1>5. \A p \in PanesOf(l) : FindLeaf(l, p) \in Nodes(l)
  BY LeafFound DEF LeafNodes
<1> QED BY <1>4, <1>5 DEF PaneRects

-----------------------------------------------------------------------------
(* navigate finds a pane of the tab.                                        *)

LEMMA SquareNat ==
  ASSUME NEW a \in Int
  PROVE  a * a \in Nat
<1>1. CASE a >= 0
  BY <1>1
<1>2. CASE a < 0
  BY <1>2
<1> QED BY <1>1, <1>2

\* Some member has the least measure.
LEMMA LeastFound ==
  ASSUME NEW V, V # {}, NEW d \in [V -> Nat]
  PROVE  \E p \in V : \A q \in V : d[p] <= d[q]
<1> DEFINE W == {d[p] : p \in V}
<1>1. W \subseteq Nat /\ W # {}
  OBVIOUS
<1>2. PICK x \in W : \A y \in W : ~(<<y, x>> \in OpToRel(<, Nat))
  BY <1>1, WFMin, NatLessThanWellFounded
<1>3. PICK p \in V : x = d[p]
  BY <1>2
<1>4. ASSUME NEW q \in V PROVE d[p] <= d[q]
  <2>1. ~(<<d[q], x>> \in OpToRel(<, Nat)) /\ d[q] \in Nat /\ x \in Nat
    BY <1>1, <1>2
  <2>2. ~(d[q] < x)
    BY <2>1 DEF OpToRel
  <2>3. \A u, v \in Nat : ~(u < v) => v <= u
    OBVIOUS
  <2>4. x <= d[q]
    BY <2>1, <2>2, <2>3
  <2> QED BY <1>3, <2>4
<1> QED BY <1>4

LEMMA NavigateHeld ==
  ASSUME NEW q, NEW from \in DOMAIN q, \A p \in DOMAIN q : q[p] \in RectSet, NEW dir
  PROVE  Navigate(q, from, dir) \in DOMAIN q
<1> DEFINE dx(p) == (q[p].x + q[p].w \div 2) - (q[from].x + q[from].w \div 2)
           dy(p) == (q[p].y + q[p].h \div 2) - (q[from].y + q[from].h \div 2)
           valid == {p \in DOMAIN q : p # from /\ CASE dir = "Left" -> dx(p) < 0 [] dir = "Right" -> dx(p) > 0
                                                    [] dir = "Up" -> dy(p) < 0 [] dir = "Down" -> dy(p) > 0}
           dist(p) == dx(p) * dx(p) + dy(p) * dy(p)
           d == [p \in valid |-> dist(p)]
<1>1. Navigate(q, from, dir) = IF valid = {} THEN from ELSE CHOOSE p \in valid : \A s \in valid : dist(p) <= dist(s)
  BY DEF Navigate
<1>2. valid \subseteq DOMAIN q
  OBVIOUS
<1>3. ASSUME NEW p \in DOMAIN q PROVE dx(p) \in Int /\ dy(p) \in Int
  <2>1. q[p] \in RectSet /\ q[from] \in RectSet
    OBVIOUS
  <2>2. /\ q[p].x \in Int /\ q[p].y \in Int /\ q[p].w \in Int /\ q[p].h \in Int
        /\ q[from].x \in Int /\ q[from].y \in Int /\ q[from].w \in Int /\ q[from].h \in Int
    BY <2>1 DEF RectSet
  <2> QED BY <2>2
<1> HIDE DEF valid, dx, dy
<1>4. ASSUME NEW p \in DOMAIN q PROVE dist(p) \in Nat
  <2> DEFINE a == dx(p)
             b == dy(p)
  <2>1. a \in Int /\ b \in Int
    BY <1>3
  <2> HIDE DEF a, b
  <2>2. a * a \in Nat /\ b * b \in Nat
    BY <2>1, SquareNat
  <2>3. a * a + b * b \in Nat
    BY <2>2
  <2> QED BY <2>3 DEF a, b
<1> HIDE DEF dist
<1>5. d \in [valid -> Nat]
  BY <1>2, <1>4
<1>6. CASE valid = {}
  BY <1>1, <1>6
<1>7. CASE valid # {}
  <2>1. \E p \in valid : \A s \in valid : d[p] <= d[s]
    <3> HIDE DEF d
    <3> QED BY <1>5, <1>7, LeastFound
  <2>2. \E p \in valid : \A s \in valid : dist(p) <= dist(s)
    BY <2>1
  <2>3. Navigate(q, from, dir) \in valid
    BY <1>1, <1>7, <2>2
  <2> QED BY <1>2, <2>3
<1> QED BY <1>6, <1>7

\* Tabs with the same panes.
LEMMA SamePanes ==
  ASSUME NEW n, NEW k, Tabs(k) = Tabs(n), \A i \in Tabs(n) : k.tabs[i].panes = n.tabs[i].panes
  PROVE  LivePanes(k) = LivePanes(n)
BY DEF LivePanes

LEMMA RefocusKeeps ==
  ASSUME NEW n, TabsOK(n), NEW i \in Tabs(n), NEW p
  PROVE  LET k == [n EXCEPT !.tabs[i].focus = p]
         IN /\ LivePanes(k) = LivePanes(n) /\ k.act = n.act /\ Len(k.tabs) = Len(n.tabs)
            /\ \A j \in Tabs(n) : k.tabs[j].layout = n.tabs[j].layout
<1> DEFINE k == [n EXCEPT !.tabs[i].focus = p]
           s == [n.tabs EXCEPT ![i].focus = p]
<1>1. n.tabs \in Seq(AnyTab) /\ n = [tabs |-> n.tabs, act |-> n.act, next |-> n.next] /\ i \in DOMAIN n.tabs
  BY DEF TabsOK, Tabs
<1>2. k.tabs = s /\ k.act = n.act
  BY <1>1
<1>3. DOMAIN s = DOMAIN n.tabs /\ Len(s) = Len(n.tabs)
  BY <1>1
<1>4. \A j \in DOMAIN n.tabs : n.tabs[j] \in AnyTab
  BY <1>1
<1>5. ASSUME NEW j \in DOMAIN n.tabs
      PROVE  s[j].panes = n.tabs[j].panes /\ s[j].layout = n.tabs[j].layout
  <2>1. CASE j = i
    <3> DEFINE t == n.tabs[j]
    <3>1. s[j] = [t EXCEPT !.focus = p] /\ t \in AnyTab
      BY <1>1, <1>4, <2>1
    <3> HIDE DEF t, s
    <3>2. s[j].panes = t.panes /\ s[j].layout = t.layout
      BY <3>1 DEF AnyTab
    <3> QED BY <3>2 DEF t
  <2>2. CASE j # i
    BY <1>1, <2>2
  <2> QED BY <2>1, <2>2
<1> HIDE DEF k, s
<1>6. LivePanes(k) = LivePanes(n)
  BY <1>2, <1>3, <1>5, SamePanes DEF Tabs
<1>7. Len(k.tabs) = Len(n.tabs) /\ \A j \in Tabs(n) : k.tabs[j].layout = n.tabs[j].layout
  BY <1>2, <1>3, <1>5 DEF Tabs
<1> QED BY <1>2, <1>6, <1>7 DEF k

LEMMA NavigateOK ==
  ASSUME NEW n, TabsOK(n), NEW q, \A p \in LivePanes(n) : q[p] \in RectSet, NEW dir
  PROVE  LET k == NavigatePane(n, q, dir)
         IN /\ TabsOK(k) /\ LivePanes(k) = LivePanes(n) /\ k.act = n.act /\ Len(k.tabs) = Len(n.tabs)
            /\ \A j \in Tabs(n) : k.tabs[j].layout = n.tabs[j].layout
<1>1. CASE FocusedPane(n) = 0
  BY <1>1 DEF NavigatePane
<1>2. CASE FocusedPane(n) # 0
  <2> DEFINE i == n.act
             t == n.tabs[i]
             f == [p \in ToSet(t.panes) |-> q[p]]
             to == Navigate(f, t.focus, dir)
  <2>1. i \in Tabs(n) /\ t.focus \in ToSet(t.panes)
    <3>1. n.act # 0 /\ n.act \in 0..Len(n.tabs) /\ DOMAIN n.tabs = 1..Len(n.tabs) /\ Len(n.tabs) \in Nat
      BY <1>2 DEF FocusedPane, TabsOK
    <3>2. i \in Tabs(n)
      BY <3>1 DEF Tabs
    <3> QED BY <3>2 DEF TabsOK, TabOK
  <2>2. NavigatePane(n, q, dir) = [n EXCEPT !.tabs[i].focus = to]
    BY <1>2 DEF NavigatePane, ActiveTab
  <2>3. \A p \in ToSet(t.panes) : q[p] \in RectSet
    BY <2>1 DEF LivePanes
  <2>4. to \in ToSet(t.panes)
    <3>1. DOMAIN f = ToSet(t.panes) /\ \A p \in DOMAIN f : f[p] \in RectSet
      BY <2>3
    <3> HIDE DEF f
    <3> QED BY <2>1, <3>1, NavigateHeld
  <2> HIDE DEF to, f
  <2>5. TabsOK([n EXCEPT !.tabs[i].focus = to])
    BY <2>1, <2>4, RefocusOK
  <2>6. LET k == [n EXCEPT !.tabs[i].focus = to]
        IN /\ LivePanes(k) = LivePanes(n) /\ k.act = n.act /\ Len(k.tabs) = Len(n.tabs)
           /\ \A j \in Tabs(n) : k.tabs[j].layout = n.tabs[j].layout
    BY <2>1, RefocusKeeps
  <2> QED BY <2>2, <2>5, <2>6
<1> QED BY <1>1, <1>2

-----------------------------------------------------------------------------
(* The invariant.                                                           *)

WinSet == [w : Int, h : Int, bar : Int]

\* The panes on show are where their layout puts them in area.
Placed(n, q, area) ==
    n.act # 0 => \A p \in Shown(n) : q[p] = PaneRects(ActiveTab(n).layout, area)[p]

WindowInv ==
    /\ TabsOK(m) /\ win \in WinSet /\ content \in RectSet /\ ops \in Nat
    /\ rects \in [DOMAIN rects -> RectSet] /\ LivePanes(m) \subseteq DOMAIN rects
    /\ open /\ m.act # 0 /\ ~stale =>
         content = Area(win) /\ win.bar = BarOf(Len(m.tabs)) /\ Placed(m, rects, content)

\* The active tab of a window that has one.
LEMMA ActiveOK ==
  ASSUME NEW n, TabsOK(n), n.act # 0
  PROVE  /\ n.act \in Tabs(n) /\ TabOK(ActiveTab(n), n.next) /\ n.next \in Nat
         /\ IsTree(ActiveTab(n).layout, n.next) /\ Shown(n) = PanesOf(ActiveTab(n).layout)
         /\ Shown(n) = ToSet(ActiveTab(n).panes) /\ Shown(n) \subseteq LivePanes(n)
<1>1. n.act \in Tabs(n) /\ n.next \in Nat
  BY DEF TabsOK, Tabs
<1>2. TabOK(ActiveTab(n), n.next)
  BY <1>1 DEF TabsOK, ActiveTab
<1>3. Shown(n) = ToSet(ActiveTab(n).panes)
  BY DEF Shown, ActiveTab
<1>4. Shown(n) \subseteq LivePanes(n)
  BY <1>1, <1>3 DEF LivePanes, ActiveTab
<1> QED BY <1>1, <1>2, <1>3, <1>4 DEF TabOK

\* recompute_layout
LEMMA LaidOutOK ==
  ASSUME NEW n, TabsOK(n), rects \in [DOMAIN rects -> RectSet], NEW area \in RectSet
  PROVE  /\ LaidOut(n, area) \in [DOMAIN LaidOut(n, area) -> RectSet]
         /\ DOMAIN rects \cup Shown(n) \subseteq DOMAIN LaidOut(n, area)
         /\ Placed(n, LaidOut(n, area), area)
<1> DEFINE l == ActiveTab(n).layout
           now == PaneRects(l, area)
           q == LaidOut(n, area)
<1>1. CASE n.act = 0
  BY <1>1 DEF LaidOut, Shown, Placed
<1>2. CASE n.act # 0
  <2>1. q = [p \in DOMAIN now \cup DOMAIN rects |-> IF p \in DOMAIN now THEN now[p] ELSE rects[p]]
    BY <1>2 DEF LaidOut
  <2>2. IsTree(l, n.next) /\ n.next \in Nat /\ Shown(n) = PanesOf(l)
    BY <1>2, ActiveOK
  <2>3. DOMAIN now = Shown(n) /\ \A p \in Shown(n) : now[p] \in RectSet
    BY <2>2, RectsTyped
  <2> HIDE DEF now, q
  <2>4. DOMAIN q = Shown(n) \cup DOMAIN rects /\ \A p \in Shown(n) : q[p] = now[p]
    BY <2>1, <2>3
  <2>5. q \in [DOMAIN q -> RectSet]
    BY <2>1, <2>3
  <2>6. Placed(n, q, area)
    BY <2>4 DEF Placed, now
  <2> QED BY <2>4, <2>5, <2>6 DEF q
<1> QED BY <1>1, <1>2

LEMMA AreaTyped ==
  ASSUME NEW w \in WinSet
  PROVE  Area(w) \in RectSet
BY DEF Area, Rect, WinSet, RectSet

LEMMA AdjustedOK ==
  ASSUME NEW n, TabsOK(n), NEW w \in WinSet
  PROVE  Adjusted(n, w) \in WinSet /\ Adjusted(n, w).bar = BarOf(Len(n.tabs))
<1> DEFINE b == BarOf(Len(n.tabs))
           x == [w EXCEPT !.h = @ + b - w.bar]
<1>1. b \in Int
  BY LocalWindowAssumption DEF BarOf
<1>2. Adjusted(n, w) = [x EXCEPT !.bar = b]
  BY DEF Adjusted
<1> HIDE DEF b
<1>3. x \in WinSet
  BY <1>1 DEF WinSet
<1> HIDE DEF x
<1>4. [x EXCEPT !.bar = b] \in WinSet /\ [x EXCEPT !.bar = b].bar = b
  BY <1>1, <1>3 DEF WinSet
<1> QED BY <1>2, <1>4 DEF b

\* Window::recompute brings everything up to date.
LEMMA RecomputeOK ==
  ASSUME WindowInv, TabsOK(m'), Follows(m, m'), NEW w \in WinSet, Recompute(m', w), ops' \in Nat
  PROVE  WindowInv'
<1> DEFINE v == Adjusted(m', w)
           area == Area(v)
<1>1. win' = v /\ content' = area /\ rects' = LaidOut(m', area)
  BY DEF Recompute
<1>2. v \in WinSet /\ v.bar = BarOf(Len(m'.tabs))
  BY AdjustedOK
<1>3. area \in RectSet
  BY <1>2, AreaTyped
<1> HIDE DEF v
<1>4. rects \in [DOMAIN rects -> RectSet] /\ LivePanes(m) \subseteq DOMAIN rects
  BY DEF WindowInv
<1>5. rects' \in [DOMAIN rects' -> RectSet] /\ DOMAIN rects \cup Shown(m') \subseteq DOMAIN rects'
      /\ Placed(m', rects', content')
  BY <1>1, <1>3, <1>4, LaidOutOK
<1>6. LivePanes(m') \subseteq DOMAIN rects'
  BY <1>4, <1>5 DEF Follows
<1>7. win' \in WinSet /\ content' \in RectSet /\ content' = Area(win') /\ win'.bar = BarOf(Len(m'.tabs))
  BY <1>1, <1>2, <1>3
<1> QED BY <1>5, <1>6, <1>7 DEF WindowInv

\* The tab manager's own recompute_layout leaves what was up to date so.
LEMMA RecomputeAsBeforeOK ==
  ASSUME WindowInv, TabsOK(m'), Follows(m, m'), RecomputeAsBefore(m'), ops' \in Nat,
         open' => open, m.act # 0, Len(m'.tabs) = Len(m.tabs)
  PROVE  WindowInv'
<1>1. win' = win /\ content' = content /\ stale' = stale /\ rects' = LaidOut(m', content)
  BY DEF RecomputeAsBefore
<1>2. rects \in [DOMAIN rects -> RectSet] /\ LivePanes(m) \subseteq DOMAIN rects /\ content \in RectSet /\ win \in WinSet
  BY DEF WindowInv
<1>3. rects' \in [DOMAIN rects' -> RectSet] /\ DOMAIN rects \cup Shown(m') \subseteq DOMAIN rects'
      /\ Placed(m', rects', content')
  BY <1>1, <1>2, LaidOutOK
<1>4. LivePanes(m') \subseteq DOMAIN rects'
  BY <1>2, <1>3 DEF Follows
<1>5. open' /\ ~stale' => content' = Area(win') /\ win'.bar = BarOf(Len(m'.tabs))
  BY <1>1 DEF WindowInv
<1> QED BY <1>1, <1>2, <1>3, <1>4, <1>5 DEF WindowInv

\* Nothing is recomputed: the tab on show is laid out as it was, or its window
\* is known not to be up to date.
LEMMA UntouchedOK ==
  ASSUME WindowInv, TabsOK(m'), LivePanes(m') \subseteq LivePanes(m), ops' \in Nat,
         win' = win, content' = content, rects' = rects,
         \/ ~open' \/ stale'
         \/ /\ open' => open /\ stale' = stale /\ m'.act = m.act /\ Len(m'.tabs) = Len(m.tabs)
            /\ m.act # 0 => ActiveTab(m').layout = ActiveTab(m).layout
  PROVE  WindowInv'
<1>1. ASSUME open', m'.act # 0, ~stale' PROVE content = Area(win) /\ win.bar = BarOf(Len(m'.tabs)) /\ Placed(m', rects, content)
  <2>1. open /\ ~stale /\ m.act # 0 /\ Len(m'.tabs) = Len(m.tabs) /\ ActiveTab(m').layout = ActiveTab(m).layout
    BY <1>1
  <2>2. content = Area(win) /\ win.bar = BarOf(Len(m.tabs)) /\ Placed(m, rects, content)
    BY <2>1 DEF WindowInv
  <2>3. Shown(m') = PanesOf(ActiveTab(m').layout)
    BY <1>1, ActiveOK
  <2>4. Shown(m) = PanesOf(ActiveTab(m).layout)
    BY <2>1, ActiveOK DEF WindowInv
  <2>5. Shown(m') = Shown(m)
    BY <2>1, <2>3, <2>4
  <2>6. Placed(m', rects, content)
    BY <2>1, <2>2, <2>5 DEF Placed
  <2> QED BY <2>1, <2>2, <2>6
<1> QED BY <1>1 DEF WindowInv

LEMMA InitOK == Init => WindowInv
<1> SUFFICES ASSUME Init PROVE WindowInv
  OBVIOUS
<1> DEFINE n == NewTab(NoTabs, TRUE)
           l == m.tabs[1].layout
<1>1. TabsOK(NoTabs)
  <2>1. <<>> \in Seq(AnyTab) /\ Len(<<>>) = 0 /\ DOMAIN <<>> = {}
    OBVIOUS
  <2> QED BY <2>1 DEF NoTabs, TabsOK, Tabs, Apart
<1>2. TabsOK(m)
  BY <1>1, NewTabOK DEF Init
<1>3. m.act = 1 /\ Len(m.tabs) = 1
  <2>1. m.act = Len(<<>>) + 1 /\ m.tabs = Append(<<>>, [id |-> 1, panes |-> <<1 + 1>>, focus |-> 1 + 1, layout |-> InitLayout(1 + 1, 1 + 2)])
    BY DEF Init, NewTab, NoTabs
  <2> QED BY <2>1
<1>4. LivePanes(m) = Shown(m)
  <2>1. Tabs(m) = {1}
    BY <1>2, <1>3 DEF Tabs, TabsOK
  <2> QED BY <1>3, <2>1 DEF LivePanes, Shown
<1>5. win \in WinSet /\ win.bar = BarOf(Len(m.tabs))
  <2>1. StartSize[1] \in Int /\ StartSize[2] \in Int
    BY LocalWindowAssumption
  <2>2. win = [w |-> StartSize[1], h |-> StartSize[2], bar |-> 0]
    BY DEF Init
  <2>3. win \in WinSet /\ win.bar = 0
    BY <2>1, <2>2 DEF WinSet
  <2> QED BY <1>3, <2>3 DEF BarOf
<1>6. content \in RectSet /\ content = Area(win)
  BY <1>5, AreaTyped DEF Init
<1>7. IsTree(l, m.next) /\ m.next \in Nat /\ Shown(m) = PanesOf(l)
  BY <1>2, <1>3, ActiveOK DEF ActiveTab
<1>8. rects = PaneRects(l, content)
  BY DEF Init
<1>9. DOMAIN rects = Shown(m) /\ \A p \in Shown(m) : rects[p] \in RectSet
  BY <1>6, <1>7, <1>8, RectsTyped
<1>10. rects = [p \in DOMAIN rects |-> rects[p]]
  BY <1>8 DEF PaneRects
<1>11. rects \in [DOMAIN rects -> RectSet]
  BY <1>9, <1>10
<1>12. Placed(m, rects, content)
  BY <1>3, <1>8 DEF Placed, ActiveTab
<1>13. ops \in Nat
  BY DEF Init
<1> QED BY <1>2, <1>4, <1>5, <1>6, <1>9, <1>11, <1>12, <1>13 DEF WindowInv

-----------------------------------------------------------------------------
(* The steps.                                                               *)

LEMMA KeyFocused ==
  ASSUME WindowInv, Key
  PROVE  m.act # 0 /\ open /\ ops' \in Nat /\ ops' # ops
BY DEF WindowInv, Key, Op, FocusedPane

LEMMA NewTabKeyOK ==
  ASSUME WindowInv, NEW started \in BOOLEAN, NewTabKey(started)
  PROVE  WindowInv'
<1>1. m' = NewTab(m, started) /\ Recompute(m', win) /\ ops' \in Nat
  BY KeyFocused DEF NewTabKey
<1>2. TabsOK(m') /\ Follows(m, m') /\ win \in WinSet
  BY <1>1, NewTabOK DEF WindowInv
<1> QED BY <1>1, <1>2, RecomputeOK

LEMMA SplitKeyOK ==
  ASSUME WindowInv, NEW dir \in {"Vertical", "Horizontal"}, NEW started \in BOOLEAN, SplitKey(dir, started)
  PROVE  WindowInv'
<1>1. m.act # 0 /\ ops' \in Nat /\ m' = SplitPane(m, dir, started) /\ open' = open
  BY KeyFocused DEF SplitKey
<1>2. TabsOK(m') /\ Len(m'.tabs) = Len(m.tabs) /\ Follows(m, m')
  BY <1>1, SplitPaneOK DEF WindowInv
<1>3. CASE started
  <2>1. RecomputeAsBefore(m')
    BY <1>3 DEF SplitKey
  <2> QED BY <1>1, <1>2, <2>1, RecomputeAsBeforeOK
<1>4. CASE ~started
  <2>1. m' = m
    BY <1>1, <1>4 DEF SplitPane
  <2>2. UNCHANGED <<win, content, rects, stale>>
    BY <1>4 DEF SplitKey
  <2> QED BY <1>1, <1>2, <2>1, <2>2, UntouchedOK
<1> QED BY <1>3, <1>4

LEMMA CloseKeyOK ==
  ASSUME WindowInv, CloseKey
  PROVE  WindowInv'
<1>1. m.act # 0 /\ open /\ ops' \in Nat /\ m' = CloseFocusedPane(m)
  BY KeyFocused DEF CloseKey
<1>2. TabsOK(m') /\ LivePanes(m') \subseteq LivePanes(m) /\ Follows(m, m')
  BY <1>1, CloseFocusedOK DEF WindowInv, Follows
<1>3. CASE Len(m'.tabs) = Len(m.tabs)
  <2>1. RecomputeAsBefore(m')
    BY <1>3 DEF CloseKey
  <2> QED BY <1>1, <1>2, <1>3, <2>1, RecomputeAsBeforeOK
<1>4. CASE Len(m'.tabs) # Len(m.tabs)
  <2>1. stale' /\ UNCHANGED <<win, content, rects>>
    BY <1>4 DEF CloseKey
  <2> QED BY <1>1, <1>2, <2>1, UntouchedOK
<1> QED BY <1>3, <1>4

LEMMA NavigateKeyOK ==
  ASSUME WindowInv, NEW dir, NavigateKey(dir)
  PROVE  WindowInv'
<1>1. m.act # 0 /\ ops' \in Nat /\ m' = NavigatePane(m, rects, dir) /\ UNCHANGED <<win, content, rects, stale, open>>
  BY KeyFocused DEF NavigateKey
<1>2. TabsOK(m) /\ \A p \in LivePanes(m) : rects[p] \in RectSet
  BY DEF WindowInv
<1>3. /\ TabsOK(m') /\ LivePanes(m') = LivePanes(m) /\ m'.act = m.act /\ Len(m'.tabs) = Len(m.tabs)
      /\ \A j \in Tabs(m) : m'.tabs[j].layout = m.tabs[j].layout
  BY <1>1, <1>2, NavigateOK
<1>4. ActiveTab(m').layout = ActiveTab(m).layout
  BY <1>1, <1>2, <1>3, ActiveOK DEF ActiveTab
<1> QED BY <1>1, <1>3, <1>4, UntouchedOK

LEMMA CycleKeyOK ==
  ASSUME WindowInv, CycleKey
  PROVE  WindowInv'
<1>1. ops' \in Nat /\ m' \in {NextTab(m), PrevTab(m)} /\ Recompute(m', win) /\ TabsOK(m) /\ win \in WinSet
  BY KeyFocused DEF CycleKey, WindowInv
<1>2. TabsOK(m') /\ m'.tabs = m.tabs
  BY <1>1, CycleOK
<1>4. Follows(m, m')
  BY <1>2 DEF Follows, LivePanes, Tabs
<1> QED BY <1>1, <1>2, <1>4, RecomputeOK

LEMMA CloseClickOK ==
  ASSUME WindowInv, NEW i \in Tabs(m), CloseClick(i)
  PROVE  WindowInv'
<1>1. ops' \in Nat /\ m' = CloseTab(m, i) /\ Recompute(m', win) /\ TabsOK(m) /\ win \in WinSet
  BY DEF CloseClick, Op, WindowInv
<1>2. TabsOK(m') /\ Follows(m, m')
  BY <1>1, CloseTabOK DEF Follows
<1> QED BY <1>1, <1>2, RecomputeOK

LEMMA PressOK ==
  ASSUME WindowInv, NEW p \in Points, Press(p)
  PROVE  WindowInv'
<1> DEFINE d == DividerAt(ActiveTab(m).layout, content, p[1], p[2], 1)
           f == [q \in ToSet(ActiveTab(m).panes) |-> rects[q]]
           pane == PaneAt(f, p[1], p[2])
<1>1. ops' \in Nat /\ m.act # 0 /\ TabsOK(m) /\ UNCHANGED <<win, content, rects, stale, open>>
  BY DEF Press, Op, WindowInv
<1>2. m' = IF d # 0 \/ pane = 0 THEN m ELSE [m EXCEPT !.tabs[m.act].focus = pane]
  BY DEF Press
<1>3. m.act \in Tabs(m)
  BY <1>1, ActiveOK
<1>4. CASE d # 0 \/ pane = 0
  <2>1. m' = m
    BY <1>2, <1>4
  <2> QED BY <1>1, <2>1, UntouchedOK
<1>5. CASE ~(d # 0 \/ pane = 0)
  <2>1. m' = [m EXCEPT !.tabs[m.act].focus = pane]
    BY <1>2, <1>5
  <2>2. pane \in ToSet(m.tabs[m.act].panes)
    <3>1. DOMAIN f = ToSet(m.tabs[m.act].panes)
      BY DEF ActiveTab
    <3>2. pane # 0
      BY <1>5
    <3> HIDE DEF f
    <3>3. pane \in DOMAIN f
      BY <3>2 DEF PaneAt
    <3> QED BY <3>1, <3>3
  <2> HIDE DEF pane
  <2>3. TabsOK(m')
    BY <1>1, <1>3, <2>1, <2>2, RefocusOK
  <2>4. /\ LivePanes(m') = LivePanes(m) /\ m'.act = m.act /\ Len(m'.tabs) = Len(m.tabs)
        /\ \A j \in Tabs(m) : m'.tabs[j].layout = m.tabs[j].layout
    BY <1>1, <1>3, <2>1, RefocusKeeps
  <2>5. ActiveTab(m').layout = ActiveTab(m).layout
    BY <1>3, <2>4 DEF ActiveTab
  <2> QED BY <1>1, <2>3, <2>4, <2>5, UntouchedOK
<1> QED BY <1>4, <1>5

LEMMA ReleaseOK ==
  ASSUME WindowInv, Release \/ \E p \in LivePanes(m) : ShellExits(p)
  PROVE  WindowInv'
<1>1. ops' \in Nat /\ TabsOK(m) /\ UNCHANGED <<m, win, content, rects, stale, open>>
  BY DEF Release, ShellExits, Op, WindowInv
<1> QED BY <1>1, UntouchedOK

LEMMA ResizeOK ==
  ASSUME WindowInv, NEW size \in Sizes, Resize(size)
  PROVE  WindowInv'
<1> DEFINE w == [w |-> size[1], h |-> size[2], bar |-> BarOf(Len(m.tabs))]
<1>1. ops' \in Nat /\ TabsOK(m) /\ m' = m /\ Recompute(m, w)
  BY DEF Resize, Op, WindowInv
<1>2. size[1] \in Int /\ size[2] \in Int /\ BarOf(Len(m.tabs)) \in Int
  BY LocalWindowAssumption DEF BarOf
<1>3. w \in WinSet
  BY <1>2 DEF WinSet
<1> HIDE DEF w
<1>4. Follows(m, m') /\ TabsOK(m') /\ Recompute(m', w)
  BY <1>1 DEF Follows
<1> QED BY <1>1, <1>3, <1>4, RecomputeOK

LEMMA ReapStepOK ==
  ASSUME WindowInv, Reap
  PROVE  WindowInv'
<1>1. ops' \in Nat /\ TabsOK(m) /\ m' = ReapDeadPanes(m, dead) /\ win \in WinSet
  BY DEF Reap, WindowInv
<1>2. TabsOK(m') /\ Follows(m, m')
  BY <1>1, ReapOK
<1>3. CASE open'
  BY <1>1, <1>2, <1>3, RecomputeOK DEF Reap
<1>4. CASE ~open'
  <2>1. UNCHANGED <<win, content, rects>>
    BY <1>4 DEF Reap
  <2>2. LivePanes(m') = {}
    <3>1. m'.tabs = <<>>
      BY <1>4 DEF Reap
    <3> QED BY <3>1 DEF LivePanes, Tabs
  <2> QED BY <1>1, <1>2, <1>4, <2>1, <2>2, UntouchedOK
<1> QED BY <1>3, <1>4

LEMMA DragStepOK ==
  ASSUME WindowInv, NEW p \in Points, Drag(p)
  PROVE  WindowInv'
<1> DEFINE i == TabAt(drag.tab)
           x == drag.node
           l == m.tabs[i].layout
           r == NodeRects(l, content)[x]
           share == CASE l.nodes[x].dir = "Vertical" /\ r.w > 0 -> Quotient((p[1] - r.x) * 100, r.w)
                      [] l.nodes[x].dir # "Vertical" /\ r.h > 0 -> Quotient((p[2] - r.y) * 100, r.h)
                      [] OTHER -> l.nodes[x].ratio
<1>1. ops' \in Nat /\ TabsOK(m) /\ Recompute(m', win) /\ win \in WinSet /\ content \in RectSet /\ Held(m)
  <2>1. Recompute(m', win) /\ Held(m) /\ Op
    BY DEF Drag
  <2>2. TabsOK(m) /\ win \in WinSet /\ content \in RectSet /\ ops \in Nat
    BY DEF WindowInv
  <2>3. ops' \in Nat
    BY <2>1, <2>2 DEF Op
  <2> QED BY <2>1, <2>2, <2>3
<1>2. m' = IF IsLeaf(l, x) THEN m ELSE [m EXCEPT !.tabs[i].layout = DragDivider(l, x, share)]
  BY DEF Drag
<1>3. i \in Tabs(m) /\ x \in Nodes(l)
  <2>1. PICK j \in Tabs(m) : m.tabs[j].id = drag.tab /\ x \in Nodes(m.tabs[j].layout)
    BY <1>1 DEF Held
  <2>2. i \in Tabs(m) /\ m.tabs[i].id = drag.tab
    BY <2>1 DEF TabAt
  <2>3. i = j
    BY <1>1, <2>1, <2>2 DEF TabsOK, Apart, Tabs
  <2> QED BY <2>1, <2>2, <2>3
<1>4. IsTree(l, m.next) /\ m.next \in Nat
  BY <1>1, <1>3 DEF TabsOK, TabOK
<1> HIDE DEF i, x
<1>5. r \in RectSet /\ l.nodes[x] \in NodeRecs
  BY <1>1, <1>3, <1>4, RectsTyped DEF IsTree
<1> HIDE DEF r
<1>6. share \in Int
  <2> DEFINE a == (p[1] - r.x) * 100
             b == (p[2] - r.y) * 100
             u == l.nodes[x].ratio
  <2>p. p[1] \in Int /\ p[2] \in Int
    BY LocalWindowAssumption
  <2>r. r.x \in Int /\ r.y \in Int /\ r.w \in Int /\ r.h \in Int
    BY <1>5 DEF RectSet
  <2>u. u \in Int
    <3> DEFINE node == l.nodes[x]
    <3>1. node \in NodeRecs
      BY <1>5
    <3> HIDE DEF node
    <3>2. node.ratio \in Int
      BY <3>1 DEF NodeRecs
    <3> QED BY <3>2 DEF node
  <2>1. p[1] \in Int /\ p[2] \in Int /\ r.x \in Int /\ r.y \in Int /\ r.w \in Int /\ r.h \in Int /\ u \in Int
    BY <2>p, <2>r, <2>u
  <2>2. a \in Int /\ b \in Int
    BY <2>1
  <2> HIDE DEF a, b
  <2>3. r.w > 0 => Quotient(a, r.w) \in Int
    BY <2>1, <2>2, QuotientTyped
  <2>4. r.h > 0 => Quotient(b, r.h) \in Int
    BY <2>1, <2>2, QuotientTyped
  <2> QED BY <2>1, <2>3, <2>4 DEF a, b
<1> HIDE DEF share
<1>7. TabsOK(m') /\ Follows(m, m')
  <2>1. CASE IsLeaf(l, x)
    BY <1>1, <1>2, <2>1 DEF Follows
  <2>2. CASE ~IsLeaf(l, x)
    BY <1>1, <1>2, <1>3, <1>6, <2>2, DragOK
  <2> QED BY <2>1, <2>2
<1> QED BY <1>1, <1>7, RecomputeOK

\* Every step keeps the invariant.
LEMMA StepOK == WindowInv /\ [Next]_vars => WindowInv'
<1> SUFFICES ASSUME WindowInv, [Next]_vars PROVE WindowInv'
  OBVIOUS
<1>1. CASE \E started \in BOOLEAN : NewTabKey(started) \/ \E dir \in {"Vertical", "Horizontal"} : SplitKey(dir, started)
  BY <1>1, NewTabKeyOK, SplitKeyOK
<1>2. CASE CloseKey
  BY <1>2, CloseKeyOK
<1>3. CASE CycleKey
  BY <1>3, CycleKeyOK
<1>4. CASE Release
  BY <1>4, ReleaseOK
<1>5. CASE Reap
  BY <1>5, ReapStepOK
<1>6. CASE \E dir \in {"Left", "Right", "Up", "Down"} : NavigateKey(dir)
  BY <1>6, NavigateKeyOK
<1>7. CASE \E i \in Tabs(m) : CloseClick(i)
  BY <1>7, CloseClickOK
<1>8. CASE \E p \in Points : Press(p) \/ Drag(p)
  BY <1>8, PressOK, DragStepOK
<1>9. CASE \E size \in Sizes : Resize(size)
  BY <1>9, ResizeOK
<1>10. CASE \E p \in LivePanes(m) : ShellExits(p)
  BY <1>10, ReleaseOK
<1>11. CASE UNCHANGED vars
  <2>1. UNCHANGED <<m, win, content, rects, stale, open, ops>>
    BY <1>11 DEF vars
  <2> QED BY <2>1, UntouchedOK DEF WindowInv
<1> QED BY <1>1, <1>2, <1>3, <1>4, <1>5, <1>6, <1>7, <1>8, <1>9, <1>10, <1>11 DEF Next

\* The invariant holds always: tabs, their layouts and the rectangles agree, and
\* once laid out, what is shown is what compute_layout makes of the window.
THEOREM WindowKept == Spec => []WindowInv
<1>1. Init => WindowInv
  BY InitOK
<1>2. WindowInv /\ [Next]_vars => WindowInv'
  BY StepOK
<1> QED BY <1>1, <1>2, PTL DEF Spec

-----------------------------------------------------------------------------
(* What the invariant says to the user.                                     *)

\* As many leaves as panes.
LEMMA AsManyLeaves ==
  ASSUME NEW top \in Nat, NEW t, TabOK(t, top)
  PROVE  Cardinality(LeafNodes(t.layout)) = Len(t.panes)
<1> DEFINE l == t.layout
           k == Len(t.panes)
           at == [n \in LeafNodes(l) |-> CHOOSE i \in 1..k : t.panes[i] = l.nodes[n].pane]
<1>1. k \in Nat /\ DOMAIN t.panes = 1..k /\ Distinct(t.panes) /\ PanesOf(l) = ToSet(t.panes) /\ OneLeaf(l)
  BY DEF TabOK, AnyTab, IsTree
<1>2. ASSUME NEW n \in LeafNodes(l) PROVE at[n] \in 1..k /\ t.panes[at[n]] = l.nodes[n].pane
  <2>1. \E i \in 1..k : t.panes[i] = l.nodes[n].pane
    BY <1>1 DEF PanesOf, ToSet
  <2> QED BY <2>1
<1>3. at \in [LeafNodes(l) -> 1..k]
  BY <1>2
<1> HIDE DEF at
<1>4. \A a, b \in LeafNodes(l) : at[a] = at[b] => a = b
  <2> SUFFICES ASSUME NEW a \in LeafNodes(l), NEW b \in LeafNodes(l), at[a] = at[b] PROVE a = b
    OBVIOUS
  <2>1. l.nodes[a].pane = l.nodes[b].pane
    BY <1>2
  <2> QED BY <1>1, <2>1 DEF OneLeaf
<1>5. \A i \in 1..k : \E n \in LeafNodes(l) : at[n] = i
  <2> SUFFICES ASSUME NEW i \in 1..k PROVE \E n \in LeafNodes(l) : at[n] = i
    OBVIOUS
  <2>1. PICK n \in LeafNodes(l) : l.nodes[n].pane = t.panes[i]
    BY <1>1 DEF PanesOf, ToSet
  <2>2. at[n] = i
    BY <1>1, <1>2, <2>1 DEF Distinct
  <2> QED BY <2>2
<1>6. at \in Injection(LeafNodes(l), 1..k) /\ at \in Surjection(LeafNodes(l), 1..k)
  BY <1>3, <1>4, <1>5 DEF Injection, Surjection, IsInjective
<1>7. IsFiniteSet(1..k) /\ Cardinality(1..k) = k
  BY <1>1, FS_Interval
<1>8. Cardinality(LeafNodes(l)) = Cardinality(1..k)
  BY <1>6, <1>7, FS_Injection
<1> QED BY <1>7, <1>8

LEMMA TabsOKAgree == WindowInv => TabsAgree
<1> SUFFICES ASSUME WindowInv, m.tabs # <<>> PROVE
      /\ m.act \in Tabs(m)
      /\ \A i \in Tabs(m) :
           /\ m.tabs[i].focus \in ToSet(m.tabs[i].panes)
           /\ PanesOf(m.tabs[i].layout) = ToSet(m.tabs[i].panes)
           /\ Cardinality(LeafNodes(m.tabs[i].layout)) = Len(m.tabs[i].panes)
           /\ \A n \in Splits(m.tabs[i].layout) :
                {m.tabs[i].layout.nodes[n].first, m.tabs[i].layout.nodes[n].second} \subseteq Nodes(m.tabs[i].layout)
  BY DEF TabsAgree
<1>1. TabsOK(m) /\ m.next \in Nat
  BY DEF WindowInv, TabsOK
<1>2. m.act # 0
  <2>1. m.tabs \in Seq(AnyTab) /\ (m.act = 0 => Len(m.tabs) = 0)
    BY <1>1 DEF TabsOK
  <2> QED BY <2>1
<1>3. m.act \in Tabs(m)
  BY <1>1, <1>2, ActiveOK
<1>4. ASSUME NEW i \in Tabs(m) PROVE
         /\ m.tabs[i].focus \in ToSet(m.tabs[i].panes)
         /\ PanesOf(m.tabs[i].layout) = ToSet(m.tabs[i].panes)
         /\ Cardinality(LeafNodes(m.tabs[i].layout)) = Len(m.tabs[i].panes)
         /\ \A n \in Splits(m.tabs[i].layout) :
              {m.tabs[i].layout.nodes[n].first, m.tabs[i].layout.nodes[n].second} \subseteq Nodes(m.tabs[i].layout)
  <2> DEFINE t == m.tabs[i]
  <2>1. TabOK(t, m.next)
    BY <1>1 DEF TabsOK
  <2> HIDE DEF t
  <2>2. Cardinality(LeafNodes(t.layout)) = Len(t.panes)
    BY <1>1, <2>1, AsManyLeaves
  <2>3. t.focus \in ToSet(t.panes) /\ PanesOf(t.layout) = ToSet(t.panes) /\ Branches(t.layout)
    BY <2>1 DEF TabOK, IsTree
  <2>4. \A n \in Splits(t.layout) : {t.layout.nodes[n].first, t.layout.nodes[n].second} \subseteq Nodes(t.layout)
    BY <2>3 DEF Branches, Kids
  <2> QED BY <2>2, <2>3, <2>4 DEF t
<1> QED BY <1>3, <1>4

\* tab_manager.cpp and layout.cpp agree on every tab's panes, whatever the
\* order of splits, closings and deaths.
THEOREM TabsAlwaysAgree == Spec => []TabsAgree
BY WindowKept, TabsOKAgree, PTL

\* Nothing but the user, or the death of the focused pane or of a tab before
\* the active one, moves the focus.
THEOREM KeysAlwaysStay == Spec => KeysStay
<1>1. WindowInv /\ [Next]_vars =>
        [ FocusedPane(m') # FocusedPane(m) =>
            \/ ops' # ops
            \/ FocusedPane(m) \notin LivePanes(m')
            \/ \E i \in 1..(m.act - 1) : \A j \in Tabs(m') : m'.tabs[j].id # m.tabs[i].id ]_vars
  <2> SUFFICES ASSUME WindowInv, Next, ops' = ops, FocusedPane(m) \in LivePanes(m'),
                      ~ \E i \in 1..(m.act - 1) : \A j \in Tabs(m') : m'.tabs[j].id # m.tabs[i].id
               PROVE  FocusedPane(m') = FocusedPane(m)
    OBVIOUS
  <2>1. ~Op
    BY DEF Op, WindowInv
  <2>2. Reap
    BY <2>1 DEF Next, NewTabKey, SplitKey, CloseKey, CycleKey, Release, NavigateKey, CloseClick, Press, Drag,
                Resize, ShellExits, Key
  <2>3. m' = ReapDeadPanes(m, dead) /\ TabsOK(m)
    BY <2>2 DEF Reap, WindowInv
  <2>4. \A i \in 1..(m.act - 1) : \E j \in Tabs(m') : m'.tabs[j].id = m.tabs[i].id
    OBVIOUS
  <2> QED BY <2>3, <2>4, ReapOK
<1> QED BY <1>1, WindowKept, PTL DEF Spec, KeysStay

-----------------------------------------------------------------------------
(* The panes on show lie beside one another.                                *)

\* C++ division stays between its dividend and zero.
LEMMA QuotientTimes ==
  ASSUME NEW a \in Int, NEW b \in Nat \ {0}
  PROVE  /\ a >= 0 => 0 <= Quotient(a, b) * b /\ Quotient(a, b) * b <= a
         /\ a < 0 => a <= Quotient(a, b) * b /\ Quotient(a, b) * b <= 0
<1>1. ASSUME NEW c \in Nat PROVE 0 <= (c \div b) * b /\ (c \div b) * b <= c
  OBVIOUS
<1>2. CASE a >= 0
  <2>1. a \in Nat /\ Quotient(a, b) = a \div b /\ ~(a < 0)
    BY <1>2 DEF Quotient
  <2> QED BY <1>1, <2>1
<1>3. CASE a < 0
  <2> DEFINE c == -a
             d == c \div b
             e == d * b
  <2>1. c \in Nat /\ Quotient(a, b) = -d /\ d \in Int
    BY <1>3 DEF Quotient
  <2>2. 0 <= e /\ e <= c /\ e \in Int
    BY <1>1, <2>1
  <2>3. \A u, v \in Int : (-u) * v = -(u * v)
    OBVIOUS
  <2>4. b \in Int /\ d \in Int
    BY <2>1
  <2> HIDE DEF d
  <2>5. (-d) * b = -e
    BY <2>3, <2>4
  <2>6. a = -c
    OBVIOUS
  <2>7. Quotient(a, b) * b = -e
    BY <2>1, <2>5
  <2> HIDE DEF c, e
  <2>8. a <= -e /\ -e <= 0
    BY <2>1, <2>2, <2>6
  <2> QED BY <1>3, <2>7, <2>8
<1> QED BY <1>2, <1>3

\* A share of an extent is between it and zero.
LEMMA ShareBounds ==
  ASSUME NEW extent \in Int, NEW ratio \in 5..95
  PROVE  /\ extent >= 0 => 0 <= Quotient(extent * ratio, 100) /\ Quotient(extent * ratio, 100) <= extent
         /\ extent < 0 => extent <= Quotient(extent * ratio, 100) /\ Quotient(extent * ratio, 100) <= 0
<1> DEFINE a == extent * ratio
           q == Quotient(a, 100)
<1>1. a \in Int /\ (extent >= 0 => 0 <= a /\ a <= 95 * extent) /\ (extent < 0 => a < 0 /\ 95 * extent <= a)
  OBVIOUS
<1> HIDE DEF a
<1>2. /\ a >= 0 => 0 <= q * 100 /\ q * 100 <= a
      /\ a < 0 => a <= q * 100 /\ q * 100 <= 0
  BY <1>1, QuotientTimes
<1>3. q \in Int
  BY <1>1, QuotientTyped
<1> HIDE DEF q
<1>4. /\ extent >= 0 => 0 <= q /\ q <= extent
      /\ extent < 0 => extent <= q /\ q <= 0
  BY <1>1, <1>2, <1>3
<1> QED BY <1>4 DEF a, q

LEMMA FirstHalfBounds ==
  ASSUME NEW extent \in Int, NEW ratio \in 5..95, NEW cell \in Nat \ {0}
  PROVE  /\ FirstHalf(extent, ratio, cell) \in Int
         /\ FirstHalf(extent, ratio, cell) > 0 => FirstHalf(extent, ratio, cell) <= extent
         /\ extent - FirstHalf(extent, ratio, cell) - Border > 0 => FirstHalf(extent, ratio, cell) + Border >= 0
<1> DEFINE q == Quotient(extent * ratio, 100)
           b == Border \div 2
           c == q - b
           w == Quotient(c, cell) * cell
<1>1. Border \in Nat /\ b \in Nat /\ b <= Border
  BY LocalWindowAssumption
<1>2. extent * ratio \in Int
  OBVIOUS
<1>3. q \in Int
  BY <1>2, QuotientTyped
<1>4. /\ extent >= 0 => 0 <= q /\ q <= extent
      /\ extent < 0 => extent <= q /\ q <= 0
  BY ShareBounds
<1>5. FirstHalf(extent, ratio, cell) = w /\ w \in Int
  BY FirstHalfTyped DEF FirstHalf
<1> HIDE DEF q, b
<1>6. c \in Int
  BY <1>1, <1>3
<1>7. /\ c >= 0 => 0 <= w /\ w <= c
      /\ c < 0 => c <= w /\ w <= 0
  <2> HIDE DEF c
  <2> QED BY <1>6, QuotientTimes
<1> HIDE DEF w
<1>8. w > 0 => w <= extent
  BY <1>1, <1>3, <1>4, <1>5, <1>7
<1>9. extent - w - Border > 0 => w + Border >= 0
  BY <1>1, <1>3, <1>4, <1>5, <1>7
<1> QED BY <1>5, <1>8, <1>9

\* One rectangle lies in another, unless it is empty.
Within(a, b) ==
    ~Empty(a) => b.x <= a.x /\ a.x + a.w <= b.x + b.w /\ b.y <= a.y /\ a.y + a.h <= b.y + b.h

LEMMA WithinPasses ==
  ASSUME NEW a \in RectSet, NEW b \in RectSet, NEW c \in RectSet, Within(a, b)
  PROVE  /\ Within(b, c) => Within(a, c)
         /\ Disjoint(b, c) => Disjoint(a, c)
         /\ Disjoint(c, b) => Disjoint(a, c) /\ Disjoint(c, a)
BY DEF RectSet, Within, Empty, Disjoint

LEMMA HalvesApart ==
  ASSUME NEW node \in NodeRecs, NEW r \in RectSet
  PROVE  /\ Within(Halves(node, r)[1], r) /\ Within(Halves(node, r)[2], r)
         /\ Disjoint(Halves(node, r)[1], Halves(node, r)[2]) /\ Disjoint(Halves(node, r)[2], Halves(node, r)[1])
<1> DEFINE rw == r.w
           rh == r.h
           ratio == node.ratio
           w == FirstHalf(rw, ratio, CellW)
           h == FirstHalf(rh, ratio, CellH)
<1>1. r.w \in Int /\ r.h \in Int /\ r.x \in Int /\ r.y \in Int /\ ratio \in 5..95
  BY DEF RectSet, NodeRecs
<1>2. Border \in Nat /\ CellW \in Nat \ {0} /\ CellH \in Nat \ {0}
  BY LocalWindowAssumption
<1>3. w \in Int /\ (w > 0 => w <= rw) /\ (rw - w - Border > 0 => w + Border >= 0)
  <2> HIDE DEF rw, ratio
  <2>1. rw \in Int
    BY <1>1 DEF rw
  <2> QED BY <1>1, <1>2, <2>1, FirstHalfBounds
<1>4. h \in Int /\ (h > 0 => h <= rh) /\ (rh - h - Border > 0 => h + Border >= 0)
  <2> HIDE DEF rh, ratio
  <2>1. rh \in Int
    BY <1>1 DEF rh
  <2> QED BY <1>1, <1>2, <2>1, FirstHalfBounds
<1>5. CASE node.dir = "Vertical"
  <2> DEFINE a == Rect(r.x, r.y, w, r.h)
             b == Rect(r.x + w + Border, r.y, r.w - w - Border, r.h)
  <2>1. Halves(node, r) = <<a, b>>
    BY <1>5 DEF Halves
  <2> HIDE DEF w, h
  <2>2. /\ a.x = r.x /\ a.y = r.y /\ a.w = w /\ a.h = r.h
        /\ b.x = r.x + w + Border /\ b.y = r.y /\ b.w = r.w - w - Border /\ b.h = r.h
    BY DEF Rect
  <2> HIDE DEF a, b
  <2>3. Within(a, r)
    BY <1>1, <1>3, <2>2 DEF Within, Empty
  <2>4. Within(b, r)
    BY <1>1, <1>2, <1>3, <2>2 DEF Within, Empty
  <2>5. Disjoint(a, b) /\ Disjoint(b, a)
    BY <1>1, <1>2, <1>3, <2>2 DEF Disjoint
  <2> QED BY <2>1, <2>3, <2>4, <2>5
<1>6. CASE node.dir # "Vertical"
  <2> DEFINE a == Rect(r.x, r.y, r.w, h)
             b == Rect(r.x, r.y + h + Border, r.w, r.h - h - Border)
  <2>1. Halves(node, r) = <<a, b>>
    BY <1>6 DEF Halves
  <2> HIDE DEF w, h
  <2>2. /\ a.x = r.x /\ a.y = r.y /\ a.w = r.w /\ a.h = h
        /\ b.x = r.x /\ b.y = r.y + h + Border /\ b.w = r.w /\ b.h = r.h - h - Border
    BY DEF Rect
  <2> HIDE DEF a, b
  <2>3. Within(a, r)
    BY <1>1, <1>4, <2>2 DEF Within, Empty
  <2>4. Within(b, r)
    BY <1>1, <1>2, <1>4, <2>2 DEF Within, Empty
  <2>5. Disjoint(a, b) /\ Disjoint(b, a)
    BY <1>1, <1>2, <1>4, <2>2 DEF Disjoint
  <2> QED BY <2>1, <2>3, <2>4, <2>5
<1> QED BY <1>5, <1>6

\* The nodes of the subtree at a.
Closed(l, U) == \A p \in Splits(l) : p \in U => Kids(l, p) \subseteq U
Below(l, a)  == {n \in Nodes(l) : \A U \in SUBSET Nodes(l) : a \in U /\ Closed(l, U) => n \in U}

LEMMA BelowClosed ==
  ASSUME NEW top \in Nat, NEW l, IsTree(l, top), NEW a \in Nodes(l)
  PROVE  a \in Below(l, a) /\ Below(l, a) \subseteq Nodes(l) /\ Closed(l, Below(l, a))
<1>1. \A p \in Splits(l) : Kids(l, p) \subseteq Nodes(l)
  BY DEF IsTree, Branches
<1> QED BY <1>1 DEF Below, Closed

\* A subtree is its root and the subtrees below.
LEMMA BelowSplit ==
  ASSUME NEW top \in Nat, NEW l, IsTree(l, top), NEW p \in Splits(l), NEW n \in Below(l, p)
  PROVE  n = p \/ \E c \in Kids(l, p) : n \in Below(l, c)
<1> DEFINE U == {p} \cup UNION {Below(l, c) : c \in Kids(l, p)}
<1>1. Kids(l, p) \subseteq Nodes(l) /\ p \in Nodes(l)
  BY DEF IsTree, Branches, Splits
<1>2. \A c \in Kids(l, p) : c \in Below(l, c) /\ Below(l, c) \subseteq Nodes(l) /\ Closed(l, Below(l, c))
  BY <1>1, BelowClosed
<1>3. U \in SUBSET Nodes(l) /\ p \in U
  BY <1>1, <1>2
<1>4. Closed(l, U)
  BY <1>2 DEF Closed
<1>5. n \in U
  <2> HIDE DEF U
  <2> QED BY <1>3, <1>4 DEF Below
<1> QED BY <1>5

LEMMA BelowLeaf ==
  ASSUME NEW l, NEW a \in LeafNodes(l), NEW n \in Below(l, a)
  PROVE  n = a
<1>1. {a} \in SUBSET Nodes(l) /\ Closed(l, {a})
  BY DEF LeafNodes, Splits, Closed
<1> QED BY <1>1 DEF Below

\* A subtree lies within its root's rectangle.
LEMMA BelowWithin ==
  ASSUME NEW top \in Nat, NEW l, IsTree(l, top), NEW r \in RectSet, NEW a \in Nodes(l), NEW n \in Below(l, a)
  PROVE  Within(NodeRects(l, r)[n], NodeRects(l, r)[a])
<1> DEFINE rect(x) == NodeRects(l, r)[x]
           U == {x \in Nodes(l) : Within(rect(x), rect(a))}
<1>1. \A x \in Nodes(l) : rect(x) \in RectSet
  BY RectsTyped
<1>2. a \in U
  BY <1>1 DEF Within, RectSet
<1>3. ASSUME NEW p \in Splits(l), p \in U PROVE Kids(l, p) \subseteq U
  <2>1. p \in Nodes(l) /\ Kids(l, p) \subseteq Nodes(l) /\ l.nodes[p] \in NodeRecs
    BY DEF IsTree, Branches, Splits
  <2>2. \A c \in Kids(l, p) : Within(rect(c), rect(p))
    BY <1>1, <2>1, HalvesOfSplit, HalvesApart DEF Kids
  <2>3. \A c \in Kids(l, p) : Within(rect(c), rect(a))
    <3> SUFFICES ASSUME NEW c \in Kids(l, p) PROVE Within(rect(c), rect(a))
      OBVIOUS
    <3> DEFINE x == rect(c)
               y == rect(p)
               z == rect(a)
    <3>1. x \in RectSet /\ y \in RectSet /\ z \in RectSet /\ Within(x, y) /\ Within(y, z)
      BY <1>1, <1>3, <2>1, <2>2
    <3> HIDE DEF x, y, z
    <3>2. Within(x, z)
      BY <3>1, WithinPasses
    <3> QED BY <3>2 DEF x, z
  <2> QED BY <2>1, <2>3
<1>4. U \in SUBSET Nodes(l) /\ Closed(l, U)
  BY <1>3 DEF Closed
<1>5. n \in U
  <2> HIDE DEF U
  <2> QED BY <1>2, <1>4 DEF Below
<1> QED BY <1>5

\* Of two nodes one lies below the other, or their rectangles are apart.
LEMMA NodesApart ==
  ASSUME NEW top \in Nat, NEW l, IsTree(l, top), NEW r \in RectSet, NEW a \in Nodes(l), NEW b \in Nodes(l)
  PROVE  a \in Below(l, b) \/ b \in Below(l, a) \/ Disjoint(NodeRects(l, r)[a], NodeRects(l, r)[b])
<1> DEFINE rect(x) == NodeRects(l, r)[x]
           Settled(x) == x \in Below(l, b) \/ b \in Below(l, x) \/ Disjoint(rect(x), rect(b))
           U == {x \in Nodes(l) : Settled(x)}
<1>1. \A x \in Nodes(l) : rect(x) \in RectSet
  BY RectsTyped
<1>2. l.root \in U
  <2>1. l.root \in Nodes(l)
    BY DEF IsTree
  <2>2. l.root \in Below(l, l.root) /\ Closed(l, Below(l, l.root))
    BY <2>1, BelowClosed
  <2>3. Nodes(l) \subseteq Below(l, l.root)
    BY <2>2, RootFirst DEF Closed
  <2> QED BY <2>1, <2>3
<1>3. ASSUME NEW p \in Splits(l), p \in U PROVE Kids(l, p) \subseteq U
  <2>1. p \in Nodes(l) /\ Kids(l, p) \subseteq Nodes(l) /\ l.nodes[p] \in NodeRecs
    BY DEF IsTree, Branches, Splits
  <2>2. ASSUME NEW c \in Kids(l, p) PROVE Settled(c)
    <3> DEFINE x == rect(c)
               y == rect(p)
               z == rect(b)
    <3>1. x \in RectSet /\ y \in RectSet /\ z \in RectSet /\ c \in Nodes(l)
      BY <1>1, <2>1
    <3>2. Within(x, y)
      BY <1>1, <2>1, HalvesOfSplit, HalvesApart DEF Kids
    <3>3. CASE p \in Below(l, b)
      BY <3>3, BelowClosed DEF Closed
    <3>4. CASE Disjoint(y, z)
      <4> HIDE DEF x, y, z
      <4>1. Disjoint(x, z)
        BY <3>1, <3>2, <3>4, WithinPasses
      <4> QED BY <4>1 DEF x, z
    <3>5. CASE b \in Below(l, p)
      <4>1. CASE b = p
        BY <4>1, <2>1, BelowClosed DEF Closed
      <4>2. CASE b # p
        <5>1. PICK d \in Kids(l, p) : b \in Below(l, d)
          BY <3>5, <4>2, BelowSplit
        <5>2. CASE d = c
          BY <5>1, <5>2
        <5>3. CASE d # c
          <6> DEFINE u == rect(d)
          <6>1. u \in RectSet /\ d \in Nodes(l)
            BY <1>1, <2>1
          <6>2. Disjoint(x, u)
            BY <1>1, <2>1, <5>3, HalvesOfSplit, HalvesApart DEF Kids
          <6>3. Within(z, u)
            BY <5>1, <6>1, BelowWithin
          <6> HIDE DEF x, y, z, u
          <6>4. Disjoint(x, z)
            BY <3>1, <6>1, <6>2, <6>3, WithinPasses
          <6> QED BY <6>4 DEF x, z
        <5> QED BY <5>2, <5>3
      <4> QED BY <4>1, <4>2
    <3> QED BY <1>3, <3>3, <3>4, <3>5
  <2> QED BY <2>1, <2>2
<1>4. Nodes(l) \subseteq U
  <2> HIDE DEF U
  <2> QED BY <1>2, <1>3, RootFirst
<1> QED BY <1>4

\* The panes of a layout divide its area.
LEMMA PanesApart ==
  ASSUME NEW top \in Nat, NEW l, IsTree(l, top), NEW r \in RectSet, NEW p \in PanesOf(l)
  PROVE  /\ PaneRects(l, r)[p] \in RectSet /\ Within(PaneRects(l, r)[p], r)
         /\ \A q \in PanesOf(l) \ {p} : Disjoint(PaneRects(l, r)[p], PaneRects(l, r)[q])
<1> DEFINE a == FindLeaf(l, p)
<1>1. PaneRects(l, r)[p] = NodeRects(l, r)[a] /\ PaneRects(l, r)[p] \in RectSet
  BY RectsTyped DEF PaneRects
<1>2. a \in LeafNodes(l) /\ a \in Nodes(l) /\ l.nodes[a].pane = p
  BY LeafFound DEF LeafNodes
<1>3. l.root \in Nodes(l) /\ NodeRects(l, r)[l.root] = r
  BY RectsUnfold DEF IsTree
<1>4. a \in Below(l, l.root)
  <2>1. l.root \in Below(l, l.root) /\ Closed(l, Below(l, l.root))
    BY <1>3, BelowClosed
  <2>2. Nodes(l) \subseteq Below(l, l.root)
    BY <2>1, RootFirst DEF Closed
  <2> QED BY <1>2, <2>2
<1>5. Within(NodeRects(l, r)[a], NodeRects(l, r)[l.root])
  BY <1>3, <1>4, BelowWithin
<1>6. ASSUME NEW q \in PanesOf(l) \ {p} PROVE Disjoint(PaneRects(l, r)[p], PaneRects(l, r)[q])
  <2> DEFINE b == FindLeaf(l, q)
  <2>1. PaneRects(l, r)[q] = NodeRects(l, r)[b]
    BY DEF PaneRects
  <2>2. b \in LeafNodes(l) /\ b \in Nodes(l) /\ l.nodes[b].pane = q
    BY LeafFound DEF LeafNodes
  <2>3. a # b
    BY <1>2, <2>2
  <2> HIDE DEF a, b
  <2>4. a \notin Below(l, b) /\ b \notin Below(l, a)
    BY <1>2, <2>2, <2>3, BelowLeaf
  <2>5. Disjoint(NodeRects(l, r)[a], NodeRects(l, r)[b])
    BY <1>2, <2>2, <2>4, NodesApart
  <2> QED BY <1>1, <2>1, <2>5
<1> QED BY <1>1, <1>3, <1>5, <1>6

LEMMA PlacedTiles == WindowInv => Tiled
<1> SUFFICES ASSUME WindowInv, open, m.act # 0, ~stale PROVE
      /\ content = Area(win) /\ win.bar = BarOf(Len(m.tabs))
      /\ LET now == PaneRects(ActiveTab(m).layout, content) IN
         \A p \in DOMAIN now :
           /\ rects[p] = now[p]
           /\ ~Empty(rects[p]) => /\ rects[p].x \in 0..win.w /\ rects[p].x + rects[p].w <= win.w
                                  /\ rects[p].y >= win.bar /\ rects[p].y + rects[p].h <= win.h
           /\ \A q \in DOMAIN now \ {p} : Disjoint(rects[p], rects[q])
  BY DEF Tiled
<1> DEFINE l == ActiveTab(m).layout
           now == PaneRects(l, content)
<1>1. content = Area(win) /\ win.bar = BarOf(Len(m.tabs)) /\ Placed(m, rects, content)
      /\ content \in RectSet /\ win \in WinSet /\ TabsOK(m)
  BY DEF WindowInv
<1>2. IsTree(l, m.next) /\ m.next \in Nat /\ Shown(m) = PanesOf(l)
  BY <1>1, ActiveOK
<1>3. DOMAIN now = PanesOf(l)
  BY <1>1, <1>2, RectsTyped
<1>4. \A p \in PanesOf(l) : rects[p] = now[p]
  BY <1>1, <1>2 DEF Placed
<1> HIDE DEF l
<1>5. \A p \in PanesOf(l) : now[p] \in RectSet /\ Within(now[p], content)
                            /\ \A q \in PanesOf(l) \ {p} : Disjoint(now[p], now[q])
  BY <1>1, <1>2, PanesApart
<1>6. content.x = 0 /\ content.y = win.bar /\ content.w = win.w /\ content.h = win.h - win.bar
  BY <1>1 DEF Area, Rect
<1>7. ASSUME NEW p \in PanesOf(l), ~Empty(rects[p])
      PROVE  /\ rects[p].x \in 0..win.w /\ rects[p].x + rects[p].w <= win.w
             /\ rects[p].y >= win.bar /\ rects[p].y + rects[p].h <= win.h
  <2> DEFINE a == rects[p]
  <2>1. a \in RectSet /\ Within(a, content)
    BY <1>4, <1>5
  <2>2. ~Empty(a)
    BY <1>7
  <2> HIDE DEF a
  <2>3. a.x \in Int /\ a.y \in Int /\ a.w \in Int /\ a.h \in Int /\ a.w > 0
        /\ win.w \in Int /\ win.h \in Int /\ win.bar \in Int
    BY <1>1, <2>1, <2>2 DEF RectSet, WinSet, Empty
  <2>4. 0 <= a.x /\ a.x + a.w <= 0 + win.w /\ win.bar <= a.y /\ a.y + a.h <= win.bar + (win.h - win.bar)
    BY <1>6, <2>1, <2>2 DEF Within
  <2>5. /\ a.x \in 0..win.w /\ a.x + a.w <= win.w
        /\ a.y >= win.bar /\ a.y + a.h <= win.h
    BY <2>3, <2>4
  <2> QED BY <2>5 DEF a
<1> HIDE DEF now
<1> QED BY <1>1, <1>3, <1>4, <1>5, <1>7 DEF now, l

\* recompute, recompute_layout and compute_layout: while nothing is stale, the
\* panes on show are below the bar, inside the window and beside one another.
THEOREM AlwaysTiled == Spec => []Tiled
BY WindowKept, PlacedTiles, PTL

=============================================================================
