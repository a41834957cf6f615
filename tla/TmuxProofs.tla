----------------------------- MODULE TmuxProofs ------------------------------
(***************************************************************************)
(* Answers find their callbacks, for a session of any size and any number  *)
(* of changes from both sides.                                             *)
(***************************************************************************)
EXTENDS Tmux, SequenceTheorems, WellFoundedInduction, TLAPS

\* The numbers up to m are in T when 0 is and T is closed: induction, as a fact
\* about a set.
LEMMA UpTo ==
  ASSUME NEW size \in Nat, NEW T, 0 \in T, \A n \in 0..(size - 1) : n \in T => n + 1 \in T
  PROVE  0..size \subseteq T
<1> DEFINE U == 0..size \ T
<1> SUFFICES ASSUME U # {} PROVE FALSE
  OBVIOUS
<1>1. U \subseteq Nat
  OBVIOUS
<1>2. PICK x \in U : \A y \in U : ~(<<y, x>> \in OpToRel(<, Nat))
  BY <1>1, WFMin, NatLessThanWellFounded
<1>3. x \in 0..size /\ x \notin T /\ x # 0
  BY <1>2
<1>4. x - 1 \in 0..(size - 1) /\ x - 1 \in Nat /\ x \in Nat /\ x - 1 < x /\ x = (x - 1) + 1
  BY <1>3
<1>5. x - 1 \in U
  BY <1>3, <1>4
<1>6. <<x - 1, x>> \in OpToRel(<, Nat)
  BY <1>4 DEF OpToRel
<1> QED BY <1>2, <1>5, <1>6

-----------------------------------------------------------------------------
(* Sequences, whatever they hold.                                           *)

IsSeq(q) == \E S : q \in Seq(S)

LEMMA SeqFacts ==
  ASSUME NEW q, IsSeq(q)
  PROVE  Len(q) \in Nat /\ DOMAIN q = 1..Len(q)
BY DEF IsSeq

LEMMA SeqAppend ==
  ASSUME NEW q, IsSeq(q), NEW e
  PROVE  /\ IsSeq(Append(q, e)) /\ Len(Append(q, e)) = Len(q) + 1
         /\ Append(q, e)[Len(q) + 1] = e /\ \A i \in 1..Len(q) : Append(q, e)[i] = q[i]
<1>1. PICK S : q \in Seq(S)
  BY DEF IsSeq
<1>2. q \in Seq(S \cup {e}) /\ e \in S \cup {e}
  BY <1>1
<1>3. Append(q, e) \in Seq(S \cup {e})
  BY <1>2
<1> QED BY <1>2, <1>3 DEF IsSeq

LEMMA SeqTail ==
  ASSUME NEW q, IsSeq(q), q # <<>>
  PROVE  /\ IsSeq(Tail(q)) /\ Len(Tail(q)) = Len(q) - 1 /\ Len(q) \in Nat \ {0} /\ Head(q) = q[1]
         /\ \A i \in 1..(Len(q) - 1) : Tail(q)[i] = q[i + 1]
<1>1. PICK S : q \in Seq(S)
  BY DEF IsSeq
<1>2. Tail(q) \in Seq(S) /\ Len(q) # 0
  BY <1>1
<1> QED BY <1>1, <1>2 DEF IsSeq

LEMMA SeqConcat ==
  ASSUME NEW p, IsSeq(p), NEW q, IsSeq(q)
  PROVE  /\ IsSeq(p \o q) /\ Len(p \o q) = Len(p) + Len(q)
         /\ \A i \in 1..Len(p) : (p \o q)[i] = p[i]
         /\ \A i \in 1..Len(q) : (p \o q)[Len(p) + i] = q[i]
         /\ \A i \in 1..Len(p \o q) : i \in 1..Len(p) \/ (i - Len(p) \in 1..Len(q) /\ (p \o q)[i] = q[i - Len(p)])
<1>1. PICK S : p \in Seq(S)
  BY DEF IsSeq
<1>2. PICK R : q \in Seq(R)
  BY DEF IsSeq
<1>3. p \in Seq(S \cup R) /\ q \in Seq(S \cup R)
  BY <1>1, <1>2
<1>4. p \o q \in Seq(S \cup R)
  BY <1>3
<1> QED BY <1>3, <1>4 DEF IsSeq

LEMMA SeqEmpty == IsSeq(<<>>) /\ Len(<<>>) = 0
<1>1. <<>> \in Seq({})
  OBVIOUS
<1> QED BY <1>1 DEF IsSeq

LEMMA SeqOne ==
  ASSUME NEW e PROVE IsSeq(<<e>>) /\ Len(<<e>>) = 1 /\ <<e>>[1] = e
<1>1. <<e>> \in Seq({e})
  OBVIOUS
<1> QED BY <1>1 DEF IsSeq

LEMMA SeqTwo ==
  ASSUME NEW d, NEW e PROVE IsSeq(<<d, e>>) /\ Len(<<d, e>>) = 2 /\ <<d, e>>[1] = d /\ <<d, e>>[2] = e
<1>1. <<d, e>> \in Seq({d, e})
  OBVIOUS
<1> QED BY <1>1 DEF IsSeq

\* What Without has kept after each element.
Keeping(s, gone) ==
    LET kept[n \in 0..Len(s)] ==
          IF n = 0 THEN <<>>
          ELSE IF s[n] \in gone THEN kept[n - 1] ELSE Append(kept[n - 1], s[n])
    IN kept

LEMMA WithoutUnfolds ==
  ASSUME NEW s, NEW gone, NEW size \in Nat, size = Len(s)
  PROVE  /\ Without(s, gone) = Keeping(s, gone)[size]
         /\ Keeping(s, gone)[0] = <<>>
         /\ \A i \in 1..size : Keeping(s, gone)[i] =
              IF s[i] \in gone THEN Keeping(s, gone)[i - 1] ELSE Append(Keeping(s, gone)[i - 1], s[i])
<1> DEFINE Then(x, i) == IF s[i] \in gone THEN x ELSE Append(x, s[i])
           Val(f, i) == IF i = 0 THEN <<>> ELSE Then(f[i - 1], i)
           T == {n \in 0..size : \E f : f = [i \in 0..n |-> Val(f, i)]}
           r == Keeping(s, gone)
<1>0. Without(s, gone) = r[size] /\ r = CHOOSE f : f = [i \in 0..size |-> Val(f, i)]
  BY DEF Without, Keeping
<1>u. \A x, i : Then(x, i) = IF s[i] \in gone THEN x ELSE Append(x, s[i])
  OBVIOUS
<1> HIDE DEF Then, r
<1>1. 0 \in T
  <2> DEFINE f == [i \in 0..0 |-> <<>>]
  <2>1. f = [i \in 0..0 |-> Val(f, i)]
    OBVIOUS
  <2>2. \E h : h = [i \in 0..0 |-> Val(h, i)]
    <3> HIDE DEF f, Val
    <3> WITNESS f
    <3> QED BY <2>1
  <2> QED BY <2>2
<1>2. ASSUME NEW n \in 0..(size - 1), n \in T PROVE n + 1 \in T
  <2>1. PICK f : f = [i \in 0..n |-> Val(f, i)]
    BY <1>2
  <2> DEFINE g == [i \in 0..(n + 1) |-> IF i = n + 1 THEN Then(f[n], n + 1) ELSE f[i]]
  <2>2. ASSUME NEW i \in 0..(n + 1) PROVE g[i] = Val(g, i)
    <3>1. CASE i = n + 1
      BY <3>1
    <3>2. CASE i # n + 1
      <4>1. i \in 0..n /\ g[i] = f[i] /\ f[i] = Val(f, i)
        BY <2>1, <3>2
      <4>2. i # 0 => i - 1 \in 0..n /\ i - 1 # n + 1 /\ g[i - 1] = f[i - 1]
        BY <4>1
      <4> QED BY <4>1, <4>2
    <3> QED BY <3>1, <3>2
  <2>3. g = [i \in 0..(n + 1) |-> Val(g, i)]
    BY <2>2
  <2>4. \E h : h = [i \in 0..(n + 1) |-> Val(h, i)]
    <3> HIDE DEF g, Val
    <3> WITNESS g
    <3> QED BY <2>3
  <2>5. n + 1 \in 0..size
    OBVIOUS
  <2> HIDE DEF g, Val
  <2> QED BY <2>4, <2>5
<1>3. size \in T
  <2> HIDE DEF T
  <2>1. 0..size \subseteq T
    BY <1>1, <1>2, UpTo
  <2> QED BY <2>1
<1>4. PICK h : h = [i \in 0..size |-> Val(h, i)]
  BY <1>3
<1>5. r = [i \in 0..size |-> Val(r, i)]
  <2> HIDE DEF Val
  <2> QED BY <1>0, <1>4
<1>7. r[0] = <<>> /\ \A i \in 1..size : r[i] = Then(r[i - 1], i)
  BY <1>5
<1>8. \A i \in 1..size : r[i] = IF s[i] \in gone THEN r[i - 1] ELSE Append(r[i - 1], s[i])
  BY <1>7, <1>u
<1> QED BY <1>0, <1>7, <1>8 DEF r

LEMMA WithoutKeeps ==
  ASSUME NEW S, NEW s \in Seq(S), NEW gone
  PROVE  /\ Without(s, gone) \in Seq(S)
         /\ \A i \in 1..Len(Without(s, gone)) : Without(s, gone)[i] \notin gone
         /\ \A j \in 1..Len(s) : s[j] \notin gone =>
              \E i \in 1..Len(Without(s, gone)) : Without(s, gone)[i] = s[j]
<1> DEFINE r == Keeping(s, gone)
           size == Len(s)
           Good(x, n) == /\ x \in Seq(S) /\ \A i \in 1..Len(x) : x[i] \notin gone
                         /\ \A j \in 1..n : s[j] \notin gone => \E i \in 1..Len(x) : x[i] = s[j]
           T == {n \in 0..size : Good(r[n], n)}
<1>1. size \in Nat /\ \A j \in 1..size : s[j] \in S
  OBVIOUS
<1>2. /\ Without(s, gone) = r[size] /\ r[0] = <<>>
      /\ \A i \in 1..size : r[i] = IF s[i] \in gone THEN r[i - 1] ELSE Append(r[i - 1], s[i])
  BY <1>1, WithoutUnfolds
<1> HIDE DEF r
<1>3. 0 \in T
  <2>1. Good(<<>>, 0)
    OBVIOUS
  <2>2. 0 \in 0..size /\ r[0] = <<>>
    BY <1>1, <1>2
  <2> HIDE DEF Good
  <2> QED BY <2>1, <2>2
<1>4. ASSUME NEW n \in 0..(size - 1), n \in T PROVE n + 1 \in T
  <2>1. n \in Nat /\ n + 1 \in 1..size /\ (n + 1) - 1 = n /\ Good(r[n], n) /\ s[n + 1] \in S
    BY <1>1, <1>4
  <2>2. r[n + 1] = IF s[n + 1] \in gone THEN r[n] ELSE Append(r[n], s[n + 1])
    BY <1>2, <2>1
  <2>3. CASE s[n + 1] \in gone
    <3>1. \A j \in 1..(n + 1) : s[j] \notin gone => j \in 1..n
      BY <2>1, <2>3
    <3>2. Good(r[n], n + 1)
      BY <2>1, <3>1
    <3> QED BY <1>1, <2>1, <2>2, <2>3, <3>2
  <2>4. CASE s[n + 1] \notin gone
    <3> DEFINE x == r[n]
               y == Append(x, s[n + 1])
    <3>1. x \in Seq(S) /\ Len(x) \in Nat
      BY <2>1
    <3>2. y \in Seq(S) /\ Len(y) = Len(x) + 1 /\ y[Len(x) + 1] = s[n + 1] /\ \A i \in 1..Len(x) : y[i] = x[i]
      BY <2>1, <3>1
    <3> HIDE DEF y
    <3>3. ASSUME NEW i \in 1..Len(y) PROVE y[i] \notin gone
      <4>1. CASE i = Len(x) + 1
        BY <2>4, <3>2, <4>1
      <4>2. CASE i # Len(x) + 1
        <5>1. i \in 1..Len(x)
          BY <3>1, <3>2, <4>2
        <5>2. x[i] \notin gone
          BY <2>1, <5>1
        <5> QED BY <3>2, <5>1, <5>2
      <4> QED BY <4>1, <4>2
    <3>4. ASSUME NEW j \in 1..(n + 1), s[j] \notin gone PROVE \E i \in 1..Len(y) : y[i] = s[j]
      <4>1. CASE j = n + 1
        <5>1. Len(x) + 1 \in 1..Len(y)
          BY <3>1, <3>2
        <5> QED BY <3>2, <4>1, <5>1
      <4>2. CASE j # n + 1
        <5>1. j \in 1..n
          BY <2>1, <4>2
        <5>2. PICK i \in 1..Len(x) : x[i] = s[j]
          BY <2>1, <3>4, <5>1
        <5>3. i \in 1..Len(y) /\ y[i] = s[j]
          BY <3>1, <3>2, <5>2
        <5> QED BY <5>3
      <4> QED BY <4>1, <4>2
    <3>5. Good(y, n + 1)
      BY <3>2, <3>3, <3>4
    <3>6. r[n + 1] = y
      BY <2>2, <2>4 DEF y
    <3>7. n + 1 \in 0..size
      BY <1>1, <2>1
    <3> HIDE DEF Good
    <3> QED BY <3>5, <3>6, <3>7
  <2> QED BY <2>3, <2>4
<1>5. size \in T
  <2> HIDE DEF T
  <2>1. 0..size \subseteq T
    BY <1>1, <1>3, <1>4, UpTo
  <2> QED BY <1>1, <2>1
<1> QED BY <1>1, <1>2, <1>5

-----------------------------------------------------------------------------
(* tmux: its windows hold panes, and what it says of them is well formed.   *)

Asked   == {"refresh", "set", "names", "capture", "list", "new", "split", "kill", "keys", "detach"}
Notices == {"output", "window-add", "window-close", "layout-change", "session-changed",
            "window-changed", "exit", "ST"}

LineOK(l) ==
    /\ l.k \in Asked \cup Notices \cup {"attached"}
    /\ l.k = "layout-change" => IsSeq(l.list)
    /\ l.k = "list" => IsSeq(l.list) /\ \A i \in 1..Len(l.list) : IsSeq(l.list[i][2])

\* Lines that answer nothing.
Quiet(lines) == IsSeq(lines) /\ \A i \in 1..Len(lines) : LineOK(lines[i]) /\ lines[i].k \in Notices

ServerFields == {"wins", "cur", "act", "up", "nextW", "nextP"}

\* Every window has panes, the active one among them, and one is current.
ServerOK(s) ==
    /\ DOMAIN s = ServerFields /\ s.up \in BOOLEAN /\ s.nextW \in Nat /\ Windows(s) \subseteq Nat
    /\ s.wins = [w \in Windows(s) |-> s.wins[w]] /\ s.act = [w \in Windows(s) |-> s.act[w]]
    /\ \A w \in Windows(s) : IsSeq(s.wins[w]) /\ s.act[w] \in ToSet(s.wins[w])
    /\ s.up => s.cur \in Windows(s)

Fine(d) == ServerOK(d.s) /\ Quiet(d.lines)

LEMMA SeqIn ==
  ASSUME NEW S, NEW q, IsSeq(q), \A i \in 1..Len(q) : q[i] \in S
  PROVE  q \in Seq(S)
<1>1. PICK R : q \in Seq(R)
  BY DEF IsSeq
<1>2. Len(q) \in Nat /\ q \in [1..Len(q) -> R]
  BY <1>1
<1>3. q \in [1..Len(q) -> S]
  BY <1>2
<1> QED BY <1>2, <1>3, SeqDef

LEMMA WithoutSeq ==
  ASSUME NEW S, NEW s, IsSeq(s), NEW gone, \A i \in 1..Len(s) : s[i] \in S
  PROVE  /\ IsSeq(Without(s, gone))
         /\ \A i \in 1..Len(Without(s, gone)) : Without(s, gone)[i] \in S /\ Without(s, gone)[i] \notin gone
<1>1. s \in Seq(S)
  BY SeqIn
<1>2. Without(s, gone) \in Seq(S) /\ \A i \in 1..Len(Without(s, gone)) : Without(s, gone)[i] \notin gone
  BY <1>1, WithoutKeeps
<1> QED BY <1>2 DEF IsSeq

LEMMA QuietNone == Quiet(<<>>)
BY SeqEmpty DEF Quiet

LEMMA LineFine ==
  ASSUME NEW kind \in Notices \ {"layout-change"}, NEW n
  PROVE  LineOK(Line(kind, n)) /\ Line(kind, n).k \in Notices
BY DEF LineOK, Line, Notices

LEMMA LayoutFine ==
  ASSUME NEW s, NEW w, IsSeq(s.wins[w])
  PROVE  LineOK(Layout(s, w)) /\ Layout(s, w).k \in Notices
<1>1. Layout(s, w) = [k |-> "layout-change", n |-> w, list |-> s.wins[w]]
  BY DEF Layout, Line
<1> QED BY <1>1 DEF LineOK, Notices

LEMMA QuietOne ==
  ASSUME NEW l, LineOK(l), l.k \in Notices
  PROVE  Quiet(<<l>>)
<1>1. IsSeq(<<l>>) /\ Len(<<l>>) = 1 /\ <<l>>[1] = l
  BY SeqOne
<1> QED BY <1>1 DEF Quiet

LEMMA QuietTwo ==
  ASSUME NEW k, LineOK(k), k.k \in Notices, NEW l, LineOK(l), l.k \in Notices
  PROVE  Quiet(<<k, l>>)
<1>1. IsSeq(<<k, l>>) /\ Len(<<k, l>>) = 2 /\ <<k, l>>[1] = k /\ <<k, l>>[2] = l
  BY SeqTwo
<1> QED BY <1>1 DEF Quiet

LEMMA QuietBoth ==
  ASSUME NEW p, Quiet(p), NEW q, Quiet(q)
  PROVE  Quiet(p \o q)
<1>1. IsSeq(p) /\ IsSeq(q)
  BY DEF Quiet
<1>2. IsSeq(p \o q) /\ \A i \in 1..Len(p \o q) :
         i \in 1..Len(p) \/ (i - Len(p) \in 1..Len(q) /\ (p \o q)[i] = q[i - Len(p)])
  BY <1>1, SeqConcat
<1>3. \A i \in 1..Len(p) : (p \o q)[i] = p[i]
  BY <1>1, SeqConcat
<1> QED BY <1>2, <1>3 DEF Quiet

LEMMA NumbersOK ==
  ASSUME NEW set
  PROVE  IsSeq(ByNumber(set)) /\ \A i \in 1..Len(ByNumber(set)) : ByNumber(set)[i] \in set
<1> DEFINE all == [w \in 1..MaxWindows |-> w]
<1>1. all \in Seq(1..MaxWindows) /\ Len(all) = MaxWindows
  BY TmuxAssumption
<1>2. IsSeq(all) /\ \A i \in 1..Len(all) : all[i] \in 1..MaxWindows
  BY <1>1, TmuxAssumption DEF IsSeq
<1>3. ByNumber(set) = Without(all, (1..MaxWindows) \ set)
  BY DEF ByNumber
<1> HIDE DEF all
<1>4. IsSeq(ByNumber(set)) /\ \A i \in 1..Len(ByNumber(set)) :
        ByNumber(set)[i] \in 1..MaxWindows /\ ByNumber(set)[i] \notin (1..MaxWindows) \ set
  <2> DEFINE S == 1..MaxWindows  gone == S \ set
  <2>1. \A i \in 1..Len(all) : all[i] \in S
    BY <1>2
  <2> HIDE DEF S, gone
  <2>2. /\ IsSeq(Without(all, gone))
        /\ \A i \in 1..Len(Without(all, gone)) : Without(all, gone)[i] \in S /\ Without(all, gone)[i] \notin gone
    BY <1>2, <2>1, WithoutSeq
  <2> QED BY <1>3, <2>2 DEF S, gone
<1> QED BY <1>4

LEMMA LayoutsFine ==
  ASSUME NEW s, ServerOK(s) PROVE Quiet(Layouts(s))
<1> DEFINE ws == ByNumber(Windows(s))
           R  == {Layout(s, ws[i]) : i \in DOMAIN ws}
<1>1. IsSeq(ws) /\ \A i \in 1..Len(ws) : ws[i] \in Windows(s)
  BY NumbersOK
<1>2. DOMAIN ws = 1..Len(ws) /\ Len(ws) \in Nat
  BY <1>1, SeqFacts
<1>3. Layouts(s) = [i \in 1..Len(ws) |-> Layout(s, ws[i])]
  BY <1>2 DEF Layouts
<1> HIDE DEF ws
<1>4. Layouts(s) \in Seq(R) /\ Len(Layouts(s)) = Len(ws)
  BY <1>2, <1>3
<1>5. ASSUME NEW i \in 1..Len(ws) PROVE LineOK(Layouts(s)[i]) /\ Layouts(s)[i].k \in Notices
  <2>1. IsSeq(s.wins[ws[i]])
    BY <1>1 DEF ServerOK
  <2> QED BY <1>3, <2>1, LayoutFine
<1> QED BY <1>4, <1>5 DEF Quiet, IsSeq

LEMMA RowsFine ==
  ASSUME NEW s, ServerOK(s)
  PROVE  IsSeq(Rows(s)) /\ \A i \in 1..Len(Rows(s)) : IsSeq(Rows(s)[i][2])
<1> DEFINE ws == ByNumber(Windows(s))
           R  == {<<ws[i], s.wins[ws[i]]>> : i \in DOMAIN ws}
<1>1. IsSeq(ws) /\ \A i \in 1..Len(ws) : ws[i] \in Windows(s)
  BY NumbersOK
<1>2. DOMAIN ws = 1..Len(ws) /\ Len(ws) \in Nat
  BY <1>1, SeqFacts
<1>3. Rows(s) = [i \in 1..Len(ws) |-> <<ws[i], s.wins[ws[i]]>>]
  BY <1>2 DEF Rows
<1> HIDE DEF ws
<1>4. Rows(s) \in Seq(R) /\ Len(Rows(s)) = Len(ws)
  BY <1>2, <1>3
<1>5. ASSUME NEW i \in 1..Len(ws) PROVE IsSeq(Rows(s)[i][2])
  <2>1. IsSeq(s.wins[ws[i]])
    BY <1>1 DEF ServerOK
  <2> QED BY <1>3, <2>1
<1> QED BY <1>4, <1>5 DEF IsSeq

LEMMA NewWindowFine ==
  ASSUME NEW s, ServerOK(s) PROVE Fine(NewWindow(s))
<1>1. CASE s.nextW > MaxWindows \/ s.nextP > MaxTmuxPanes
  <2>1. NewWindow(s) = Does(s, <<>>)
    BY <1>1 DEF NewWindow
  <2> QED BY <2>1, QuietNone DEF Fine, Does
<1>2. CASE ~(s.nextW > MaxWindows \/ s.nextP > MaxTmuxPanes)
  <2> DEFINE x == s.nextW
             wins == With(s.wins, x, <<s.nextP>>)
             act == With(s.act, x, s.nextP)
             t == [s EXCEPT !.wins = wins, !.act = act, !.cur = x, !.nextW = @ + 1, !.nextP = @ + 1]
             D == Windows(s) \cup {x}
             lines == <<Line("window-add", x), Line("window-changed", x)>>
  <2>1. NewWindow(s) = Does(t, lines)
    BY <1>2 DEF NewWindow
  <2>2. DOMAIN s = ServerFields
    BY DEF ServerOK
  <2>3. DOMAIN t = ServerFields /\ t.wins = wins /\ t.act = act /\ t.cur = x /\ t.nextW = x + 1 /\ t.up = s.up
    <3> HIDE DEF wins, act
    <3> QED BY <2>2 DEF ServerFields
  <2> HIDE DEF t, lines
  <2>4. x \in Nat /\ D \in SUBSET Nat /\ s.up \in BOOLEAN /\ DOMAIN s.wins = Windows(s) /\ DOMAIN s.act = Windows(s)
    BY DEF ServerOK, Windows
  <2>5. wins = [w \in D |-> IF w = x THEN <<s.nextP>> ELSE s.wins[w]]
        /\ act = [w \in D |-> IF w = x THEN s.nextP ELSE s.act[w]]
    BY <2>4 DEF With
  <2>6. ASSUME NEW w \in D PROVE IsSeq(wins[w]) /\ act[w] \in ToSet(wins[w])
    <3>1. CASE w = x
      <4>1. wins[w] = <<s.nextP>> /\ act[w] = s.nextP /\ s.nextP \in ToSet(<<s.nextP>>)
        BY <2>5, <3>1 DEF ToSet
      <4> QED BY <4>1, SeqOne
    <3>2. CASE w # x
      BY <2>5, <3>2 DEF ServerOK
    <3> QED BY <3>1, <3>2
  <2>7. DOMAIN wins = D /\ wins = [w \in D |-> wins[w]] /\ act = [w \in D |-> act[w]] /\ x \in D /\ x + 1 \in Nat
    BY <2>4, <2>5
  <2>8. ServerOK(t)
    <3> HIDE DEF wins, act, D
    <3> QED BY <2>3, <2>4, <2>6, <2>7 DEF ServerOK, Windows
  <2>9. Quiet(lines)
    <3>1. "window-add" \in Notices \ {"layout-change"} /\ "window-changed" \in Notices \ {"layout-change"}
      BY DEF Notices
    <3> QED BY <3>1, LineFine, QuietTwo DEF lines
  <2> QED BY <2>1, <2>8, <2>9 DEF Fine, Does
<1> QED BY <1>1, <1>2

LEMMA SplitWindowFine ==
  ASSUME NEW s, ServerOK(s), s.up PROVE Fine(SplitWindow(s))
<1>1. CASE s.nextP > MaxTmuxPanes
  <2>1. SplitWindow(s) = Does(s, <<>>)
    BY <1>1 DEF SplitWindow
  <2> QED BY <2>1, QuietNone DEF Fine, Does
<1>2. CASE ~(s.nextP > MaxTmuxPanes)
  <2> DEFINE x == s.cur
             D == Windows(s)
             more == Append(s.wins[x], s.nextP)
             wins == [s.wins EXCEPT ![x] = more]
             act == [s.act EXCEPT ![x] = s.nextP]
             t == [s EXCEPT !.wins[x] = Append(@, s.nextP), !.act[x] = s.nextP, !.nextP = @ + 1]
  <2>1. SplitWindow(s) = Does(t, <<Layout(t, x)>>)
    BY <1>2 DEF SplitWindow
  <2>2. DOMAIN s = ServerFields
    BY DEF ServerOK
  <2>3. DOMAIN t = ServerFields /\ t.wins = wins /\ t.act = act /\ t.cur = x /\ t.nextW = s.nextW /\ t.up = s.up
    BY <2>2 DEF ServerFields
  <2> HIDE DEF t
  <2>4. x \in D /\ D \in SUBSET Nat /\ s.up \in BOOLEAN /\ DOMAIN s.wins = D /\ DOMAIN s.act = D /\ s.nextW \in Nat
    BY DEF ServerOK, Windows
  <2>5. s.wins = [w \in D |-> s.wins[w]] /\ s.act = [w \in D |-> s.act[w]]
        /\ \A w \in D : IsSeq(s.wins[w]) /\ s.act[w] \in ToSet(s.wins[w])
    BY DEF ServerOK
  <2>6. IsSeq(more) /\ s.nextP \in ToSet(more)
    <3>1. IsSeq(s.wins[x]) /\ Len(s.wins[x]) \in Nat
      BY <2>4, <2>5, SeqFacts
    <3>2. IsSeq(more) /\ Len(more) = Len(s.wins[x]) + 1 /\ more[Len(s.wins[x]) + 1] = s.nextP
      BY <3>1, SeqAppend
    <3> HIDE DEF more
    <3>3. DOMAIN more = 1..Len(more) /\ Len(s.wins[x]) + 1 \in 1..Len(more)
      BY <3>1, <3>2, SeqFacts
    <3> QED BY <3>2, <3>3 DEF ToSet
  <2> HIDE DEF more, D
  <2>7. DOMAIN wins = D /\ DOMAIN act = D /\ wins = [w \in D |-> wins[w]] /\ act = [w \in D |-> act[w]]
        /\ \A w \in D : /\ wins[w] = IF w = x THEN more ELSE s.wins[w]
                        /\ act[w] = IF w = x THEN s.nextP ELSE s.act[w]
    BY <2>4, <2>5
  <2> HIDE DEF wins, act
  <2>8. \A w \in D : IsSeq(wins[w]) /\ act[w] \in ToSet(wins[w])
    BY <2>5, <2>6, <2>7
  <2>9. ServerOK(t)
    BY <2>3, <2>4, <2>7, <2>8 DEF ServerOK, Windows
  <2>10. IsSeq(t.wins[x])
    BY <2>3, <2>4, <2>8
  <2>11. Quiet(<<Layout(t, x)>>)
    BY <2>10, LayoutFine, QuietOne
  <2> QED BY <2>1, <2>9, <2>11 DEF Fine, Does
<1> QED BY <1>1, <1>2

LEMMA PaneEndsFine ==
  ASSUME NEW s, ServerOK(s), NEW v \in Windows(s), NEW p \in ToSet(s.wins[v])
  PROVE  Fine(PaneEnds(s, p))
<1> DEFINE D == Windows(s)
           w == CHOOSE x \in D : p \in ToSet(s.wins[x])
           ps == s.wins[w]
           rest == Without(ps, {p})
           wins == [s.wins EXCEPT ![w] = rest]
           focus == IF s.act[w] = p /\ Len(ps) > 1 THEN rest[1] ELSE s.act[w]
           act == [s.act EXCEPT ![w] = focus]
           t == [s EXCEPT !.wins[w] = Without(@, {p}),
                          !.act[w] = IF @ = p /\ Len(s.wins[w]) > 1 THEN Without(s.wins[w], {p})[1] ELSE @]
           left == D \ {w}
           cur == IF s.cur \in left \/ left = {} THEN s.cur ELSE CHOOSE x \in left : TRUE
           u == [s EXCEPT !.wins = Restrict(@, left), !.act = Restrict(@, left),
                          !.cur = IF @ \in left \/ left = {} THEN @ ELSE CHOOSE x \in left : TRUE,
                          !.up = left # {}]
           lines == <<Line("window-close", w)>> \o (IF u.up THEN <<>> ELSE Exits)
<1>1. PaneEnds(s, p) = IF t.wins[w] # <<>> THEN Does(t, <<Layout(t, w)>>) ELSE Does(u, lines)
  BY DEF PaneEnds
<1>2. w \in D /\ p \in ToSet(ps)
  OBVIOUS
<1>3. DOMAIN s = ServerFields /\ D \in SUBSET Nat /\ s.up \in BOOLEAN /\ DOMAIN s.wins = D /\ DOMAIN s.act = D
      /\ s.nextW \in Nat
  BY DEF ServerOK, Windows
<1>4. s.wins = [x \in D |-> s.wins[x]] /\ s.act = [x \in D |-> s.act[x]]
      /\ \A x \in D : IsSeq(s.wins[x]) /\ s.act[x] \in ToSet(s.wins[x])
  BY DEF ServerOK
<1>5. DOMAIN t = ServerFields /\ t.wins = wins /\ t.act = act /\ t.cur = s.cur /\ t.nextW = s.nextW /\ t.up = s.up
  <2> HIDE DEF w
  <2> QED BY <1>3 DEF ServerFields
<1>6. DOMAIN u = ServerFields /\ u.wins = Restrict(s.wins, left) /\ u.act = Restrict(s.act, left) /\ u.cur = cur
      /\ u.nextW = s.nextW /\ u.up = (left # {})
  <2> HIDE DEF left
  <2> QED BY <1>3 DEF ServerFields
<1> HIDE DEF w, t, u, D
<1>7. IsSeq(ps) /\ DOMAIN ps = 1..Len(ps) /\ Len(ps) \in Nat
  BY <1>2, <1>4, SeqFacts
<1>8. /\ IsSeq(rest) /\ Len(rest) \in Nat /\ DOMAIN rest = 1..Len(rest) /\ (rest # <<>> => 1 \in 1..Len(rest))
      /\ \A x \in ToSet(ps) : x # p => x \in ToSet(rest)
  <2>1. PICK S : ps \in Seq(S)
    BY <1>7 DEF IsSeq
  <2>2. /\ rest \in Seq(S)
        /\ \A j \in 1..Len(ps) : ps[j] \notin {p} => \E i \in 1..Len(rest) : rest[i] = ps[j]
    BY <2>1, WithoutKeeps
  <2> HIDE DEF rest, ps
  <2>3. IsSeq(rest) /\ DOMAIN rest = 1..Len(rest) /\ Len(rest) \in Nat /\ (rest # <<>> => 1 \in 1..Len(rest))
    BY <2>2 DEF IsSeq
  <2>4. ASSUME NEW x \in ToSet(ps), x # p PROVE x \in ToSet(rest)
    <3>1. PICK j \in 1..Len(ps) : ps[j] = x
      BY <1>7, <2>4 DEF ToSet
    <3> QED BY <2>2, <2>3, <2>4, <3>1 DEF ToSet
  <2> QED BY <2>3, <2>4
<1> HIDE DEF rest, ps
<1>9. rest # <<>> => focus \in ToSet(rest)
  <2> SUFFICES ASSUME rest # <<>> PROVE focus \in ToSet(rest)
    OBVIOUS
  <2>1. CASE s.act[w] = p /\ Len(ps) > 1
    <3>1. rest[1] \in ToSet(rest)
      BY <1>8 DEF ToSet
    <3> QED BY <2>1, <3>1
  <2>2. CASE s.act[w] # p
    <3>1. s.act[w] \in ToSet(ps)
      BY <1>2, <1>4 DEF ps
    <3> QED BY <1>8, <2>2, <3>1
  <2>3. CASE s.act[w] = p /\ ~(Len(ps) > 1)
    <3>1. \A j \in 1..Len(ps) : ps[j] = p
      <4>1. PICK i \in 1..Len(ps) : ps[i] = p
        BY <1>2, <1>7 DEF ToSet
      <4> QED BY <1>7, <2>3, <4>1
    <3>2. \A j \in 1..Len(ps) : ps[j] \in {p}
      BY <3>1
    <3>3. /\ IsSeq(Without(ps, {p}))
          /\ \A i \in 1..Len(Without(ps, {p})) : Without(ps, {p})[i] \in {p} /\ Without(ps, {p})[i] \notin {p}
      BY <1>7, <3>2, WithoutSeq
    <3>4. ~(1 \in 1..Len(rest))
      BY <3>3 DEF rest
    <3> QED BY <1>8, <3>4
  <2> QED BY <2>1, <2>2, <2>3
<1> HIDE DEF focus
<1>10. CASE t.wins[w] # <<>>
  <2>1. DOMAIN wins = D /\ DOMAIN act = D /\ wins = [x \in D |-> wins[x]] /\ act = [x \in D |-> act[x]]
        /\ \A x \in D : /\ wins[x] = IF x = w THEN rest ELSE s.wins[x]
                        /\ act[x] = IF x = w THEN focus ELSE s.act[x]
    BY <1>2, <1>3, <1>4
  <2>2. rest # <<>>
    BY <1>2, <1>5, <1>10, <2>1
  <2> HIDE DEF wins, act
  <2>3. \A x \in D : IsSeq(wins[x]) /\ act[x] \in ToSet(wins[x])
    BY <1>4, <1>8, <1>9, <2>1, <2>2
  <2>4. s.up => s.cur \in D
    BY DEF ServerOK, D
  <2>5. ServerOK(t)
    BY <1>3, <1>5, <2>1, <2>3, <2>4 DEF ServerOK, Windows
  <2>6. IsSeq(t.wins[w])
    BY <1>2, <1>5, <2>3
  <2>7. Quiet(<<Layout(t, w)>>)
    BY <2>6, LayoutFine, QuietOne
  <2> QED BY <1>1, <1>10, <2>5, <2>7 DEF Fine, Does
<1>11. CASE t.wins[w] = <<>>
  <2>1. u.wins = [x \in left |-> s.wins[x]] /\ u.act = [x \in left |-> s.act[x]]
    <3>1. left \subseteq DOMAIN s.wins /\ left \subseteq DOMAIN s.act
      BY <1>3
    <3> QED BY <1>6, <3>1 DEF Restrict
  <2>2. u.up => u.cur \in left
    <3> SUFFICES ASSUME left # {} PROVE cur \in left
      BY <1>6
    <3>1. (CHOOSE x \in left : TRUE) \in left
      OBVIOUS
    <3> HIDE DEF left
    <3> QED BY <3>1
  <2>3. left \subseteq D /\ left \in SUBSET Nat
    BY <1>3
  <2> HIDE DEF left
  <2>4. \A x \in left : IsSeq(u.wins[x]) /\ u.act[x] \in ToSet(u.wins[x])
    BY <1>4, <2>1, <2>3
  <2>5. ServerOK(u)
    <3>1. DOMAIN u.wins = left /\ u.up \in BOOLEAN
      BY <1>6, <2>1
    <3>2. u.wins = [x \in left |-> u.wins[x]] /\ u.act = [x \in left |-> u.act[x]]
      BY <2>1
    <3> QED BY <1>3, <1>6, <2>2, <2>3, <2>4, <3>1, <3>2 DEF ServerOK, Windows
  <2>6. Quiet(<<Line("window-close", w)>>) /\ Quiet(Exits)
    <3>1. {"window-close", "exit", "ST"} \subseteq Notices \ {"layout-change"}
      BY DEF Notices
    <3> QED BY <3>1, LineFine, QuietOne, QuietTwo DEF Exits
  <2>7. Quiet(IF u.up THEN <<>> ELSE Exits)
    BY <2>6, QuietNone
  <2>8. Quiet(lines)
    BY <2>6, <2>7, QuietBoth
  <2> HIDE DEF lines
  <2> QED BY <1>1, <1>11, <2>5, <2>8 DEF Fine, Does
<1> QED BY <1>10, <1>11

LEMMA SwapFirst ==
  ASSUME NEW q, IsSeq(q), q # <<>>, NEW x
  PROVE  IsSeq([q EXCEPT ![1] = x]) /\ x \in ToSet([q EXCEPT ![1] = x])
<1>1. PICK S : q \in Seq(S)
  BY DEF IsSeq
<1>2. q \in Seq(S \cup {x}) /\ 1 \in 1..Len(q)
  BY <1>1
<1> DEFINE r == [q EXCEPT ![1] = x]
<1>3. r \in Seq(S \cup {x}) /\ Len(r) = Len(q) /\ r[1] = x /\ DOMAIN r = DOMAIN q /\ 1 \in DOMAIN q
  BY <1>2
<1> QED BY <1>3 DEF IsSeq, ToSet

LEMMA SwapPanesFine ==
  ASSUME NEW s, ServerOK(s), NEW v \in Windows(s), NEW w \in Windows(s), v < w
  PROVE  Fine(SwapPanes(s, v, w))
<1> DEFINE D == Windows(s)
           a == s.wins[w][1]
           b == s.wins[v][1]
           wins == [s.wins EXCEPT ![v] = [@ EXCEPT ![1] = a], ![w] = [@ EXCEPT ![1] = b]]
           act == [s.act EXCEPT ![v] = a, ![w] = b]
           t == [s EXCEPT !.wins[v][1] = s.wins[w][1], !.wins[w][1] = s.wins[v][1],
                          !.act[v] = s.wins[w][1], !.act[w] = s.wins[v][1]]
<1>1. SwapPanes(s, v, w) = Does(t, <<Layout(t, v), Layout(t, w)>>)
  BY DEF SwapPanes
<1>2. DOMAIN s = ServerFields /\ D \in SUBSET Nat /\ s.up \in BOOLEAN /\ DOMAIN s.wins = D /\ DOMAIN s.act = D
      /\ s.nextW \in Nat /\ (s.up => s.cur \in D)
  BY DEF ServerOK, Windows
<1>3. s.wins = [x \in D |-> s.wins[x]] /\ s.act = [x \in D |-> s.act[x]]
      /\ \A x \in D : IsSeq(s.wins[x]) /\ s.act[x] \in ToSet(s.wins[x])
  BY DEF ServerOK
<1>4. DOMAIN t = ServerFields /\ t.wins = wins /\ t.act = act /\ t.cur = s.cur /\ t.nextW = s.nextW /\ t.up = s.up
  BY <1>2 DEF ServerFields
<1>5. v \in D /\ w \in D /\ v # w
  BY <1>2
<1> HIDE DEF D, t, a, b
<1>6. DOMAIN wins = D /\ DOMAIN act = D /\ wins = [x \in D |-> wins[x]] /\ act = [x \in D |-> act[x]]
      /\ wins[v] = [s.wins[v] EXCEPT ![1] = a] /\ wins[w] = [s.wins[w] EXCEPT ![1] = b]
      /\ act[v] = a /\ act[w] = b
      /\ \A x \in D \ {v, w} : wins[x] = s.wins[x] /\ act[x] = s.act[x]
  BY <1>2, <1>3, <1>5
<1> HIDE DEF wins, act
<1>7. s.wins[v] # <<>> /\ s.wins[w] # <<>>
  BY <1>3, <1>5 DEF ToSet
<1>8. IsSeq(wins[v]) /\ act[v] \in ToSet(wins[v]) /\ IsSeq(wins[w]) /\ act[w] \in ToSet(wins[w])
  <2>1. IsSeq(s.wins[v]) /\ IsSeq(s.wins[w])
    BY <1>3, <1>5
  <2>2. IsSeq([s.wins[v] EXCEPT ![1] = a]) /\ a \in ToSet([s.wins[v] EXCEPT ![1] = a])
    BY <1>7, <2>1, SwapFirst
  <2>3. IsSeq([s.wins[w] EXCEPT ![1] = b]) /\ b \in ToSet([s.wins[w] EXCEPT ![1] = b])
    BY <1>7, <2>1, SwapFirst
  <2> QED BY <1>6, <2>2, <2>3
<1>9. \A x \in D : IsSeq(wins[x]) /\ act[x] \in ToSet(wins[x])
  BY <1>3, <1>6, <1>8
<1>10. ServerOK(t)
  BY <1>2, <1>4, <1>6, <1>9 DEF ServerOK, Windows
<1>11. Quiet(<<Layout(t, v), Layout(t, w)>>)
  BY <1>4, <1>8, LayoutFine, QuietTwo
<1> QED BY <1>1, <1>10, <1>11 DEF Fine, Does

LEMMA ObeyedFine ==
  ASSUME NEW s, ServerOK(s), s.up, NEW cmd PROVE Fine(Obeyed(s, cmd))
<1>1. CASE cmd.k = "refresh"
  BY <1>1, LayoutsFine DEF Obeyed, Fine, Does
<1>2. CASE cmd.k = "new"
  BY <1>2, NewWindowFine DEF Obeyed
<1>3. CASE cmd.k = "split"
  BY <1>3, SplitWindowFine DEF Obeyed
<1>4. CASE cmd.k = "kill"
  <2>1. s.cur \in Windows(s) /\ s.act[s.cur] \in ToSet(s.wins[s.cur])
    BY DEF ServerOK
  <2> QED BY <1>4, <2>1, PaneEndsFine DEF Obeyed
<1>5. CASE cmd.k = "detach"
  <2> DEFINE t == [s EXCEPT !.up = FALSE]
  <2>1. Obeyed(s, cmd) = Does(t, Exits)
    BY <1>5 DEF Obeyed
  <2>2. DOMAIN t = ServerFields /\ t.wins = s.wins /\ t.act = s.act /\ t.cur = s.cur /\ t.nextW = s.nextW /\ ~t.up
        /\ t.up \in BOOLEAN
    BY DEF ServerOK, ServerFields
  <2> HIDE DEF t
  <2>3. ServerOK(t)
    BY <2>2 DEF ServerOK, Windows
  <2>4. Quiet(Exits)
    <3>1. {"exit", "ST"} \subseteq Notices \ {"layout-change"}
      BY DEF Notices
    <3> QED BY <3>1, LineFine, QuietTwo DEF Exits
  <2> QED BY <2>1, <2>3, <2>4 DEF Fine, Does
<1>6. CASE cmd.k \notin {"refresh", "new", "split", "kill", "detach"}
  <2>1. Obeyed(s, cmd) = Does(s, <<>>)
    BY <1>6 DEF Obeyed
  <2> QED BY <2>1, QuietNone DEF Fine, Does
<1> QED BY <1>1, <1>2, <1>3, <1>4, <1>5, <1>6

-----------------------------------------------------------------------------
(* The client: its handlers add commands, each with its callback, and take  *)
(* nothing away.                                                            *)

ClientFields == {"m", "win", "active", "queue", "cmds", "wins", "panes", "buf", "aff", "size",
                 "early", "crossed", "here", "moved", "freed"}

Client(s) == DOMAIN s = ClientFields /\ IsSeq(s.queue) /\ IsSeq(s.cmds)

\* The callback waits for the answer to a command of kind k.
Awaits(then, k) == then.k = "none" \/ k = (IF then.k = "added" THEN "list" ELSE then.k)

\* t is s with commands added.
Sends(s, t) ==
    /\ Client(t) /\ t.early = s.early /\ t.crossed = s.crossed
    /\ Len(s.queue) <= Len(t.queue) /\ Len(t.queue) - Len(s.queue) = Len(t.cmds) - Len(s.cmds)
    /\ \A i \in 1..Len(s.queue) : t.queue[i] = s.queue[i]
    /\ \A i \in 1..Len(s.cmds) : t.cmds[i] = s.cmds[i]
    /\ \A i \in 1..(Len(t.queue) - Len(s.queue)) :
         /\ t.cmds[Len(s.cmds) + i].k \in Asked
         /\ Awaits(t.queue[Len(s.queue) + i], t.cmds[Len(s.cmds) + i].k)

LEMMA SendsClient ==
  ASSUME NEW s, NEW t, Sends(s, t)
  PROVE  /\ Client(t) /\ t.early = s.early /\ t.crossed = s.crossed
         /\ Len(s.queue) <= Len(t.queue) /\ Len(t.queue) - Len(s.queue) = Len(t.cmds) - Len(s.cmds)
BY DEF Sends

LEMMA SendsNone ==
  ASSUME NEW s, Client(s), NEW t, DOMAIN t = ClientFields, t.queue = s.queue, t.cmds = s.cmds,
         t.early = s.early, t.crossed = s.crossed
  PROVE  Sends(s, t)
<1>1. Len(s.queue) \in Nat /\ Len(s.cmds) \in Nat
  BY SeqFacts DEF Client
<1> QED BY <1>1 DEF Sends, Client

LEMMA Shifted ==
  ASSUME NEW a \in Nat, NEW b \in Nat, NEW d \in Nat, NEW x \in Nat, NEW y \in Nat, NEW z \in Nat,
         a <= b, b - a = y - x, b <= d, d - b = z - y
  PROVE  /\ x <= y /\ a <= d /\ d - a = z - x
         /\ \A i \in 1..(d - a) :
              /\ i \in 1..(b - a) => a + i \in 1..b /\ x + i \in 1..y
              /\ i \notin 1..(b - a) => LET j == i - (b - a)
                                       IN j \in 1..(d - b) /\ a + i = b + j /\ x + i = y + j
OBVIOUS

LEMMA SendsOn ==
  ASSUME NEW s, Client(s), NEW t, NEW u, Sends(s, t), Sends(t, u)
  PROVE  Sends(s, u)
<1> DEFINE a == Len(s.queue)  b == Len(t.queue)  d == Len(u.queue)
           x == Len(s.cmds)   y == Len(t.cmds)   z == Len(u.cmds)
<1>1. a \in Nat /\ b \in Nat /\ d \in Nat /\ x \in Nat /\ y \in Nat /\ z \in Nat
  <2>1. Client(t) /\ Client(u)
    BY SendsClient
  <2> QED BY <2>1, SeqFacts DEF Client
<1>2. a <= b /\ b - a = y - x /\ b <= d /\ d - b = z - y
  BY SendsClient
<1>s. /\ x <= y /\ a <= d /\ d - a = z - x
      /\ \A i \in 1..(d - a) :
           /\ i \in 1..(b - a) => a + i \in 1..b /\ x + i \in 1..y
           /\ i \notin 1..(b - a) => LET j == i - (b - a)
                                    IN j \in 1..(d - b) /\ a + i = b + j /\ x + i = y + j
  <2> HIDE DEF a, b, d, x, y, z
  <2> QED BY <1>1, <1>2, Shifted
<1>3. ASSUME NEW i \in 1..a PROVE u.queue[i] = s.queue[i]
  <2>1. i \in 1..b
    <3> HIDE DEF a, b
    <3> QED BY <1>1, <1>2
  <2>2. t.queue[i] = s.queue[i]
    BY DEF Sends
  <2>3. u.queue[i] = t.queue[i]
    BY <2>1 DEF Sends
  <2> QED BY <2>2, <2>3
<1>4. ASSUME NEW i \in 1..x PROVE u.cmds[i] = s.cmds[i]
  <2>1. i \in 1..y
    <3> HIDE DEF x, y
    <3> QED BY <1>1, <1>s
  <2>2. t.cmds[i] = s.cmds[i]
    BY DEF Sends
  <2>3. u.cmds[i] = t.cmds[i]
    BY <2>1 DEF Sends
  <2> QED BY <2>2, <2>3
<1>5. ASSUME NEW i \in 1..(d - a)
      PROVE  u.cmds[x + i].k \in Asked /\ Awaits(u.queue[a + i], u.cmds[x + i].k)
  <2>1. CASE i \in 1..(b - a)
    <3>1. a + i \in 1..b /\ x + i \in 1..y
      BY <1>s, <2>1
    <3>2. u.queue[a + i] = t.queue[a + i] /\ u.cmds[x + i] = t.cmds[x + i]
      BY <3>1 DEF Sends
    <3>3. t.cmds[x + i].k \in Asked /\ Awaits(t.queue[a + i], t.cmds[x + i].k)
      BY <2>1 DEF Sends
    <3> QED BY <3>2, <3>3
  <2>2. CASE i \notin 1..(b - a)
    <3> DEFINE j == i - (b - a)
    <3>1. j \in 1..(d - b) /\ a + i = b + j /\ x + i = y + j
      BY <1>s, <2>2
    <3>2. u.cmds[y + j].k \in Asked /\ Awaits(u.queue[b + j], u.cmds[y + j].k)
      <4> HIDE DEF j
      <4> QED BY <3>1 DEF Sends
    <3> QED BY <3>1, <3>2
  <2> QED BY <2>1, <2>2
<1>6. Client(u) /\ u.early = s.early /\ u.crossed = s.crossed /\ a <= d /\ d - a = z - x
  BY <1>s, SendsClient
<1> QED BY <1>3, <1>4, <1>5, <1>6 DEF Sends

LEMMA SendOK ==
  ASSUME NEW s, Client(s), NEW cmd, cmd.k \in Asked, NEW then, Awaits(then, cmd.k)
  PROVE  Sends(s, Send(s, cmd, then))
<1> DEFINE t == [s EXCEPT !.queue = Append(@, then), !.cmds = Append(@, cmd)]
           a == Len(s.queue)  x == Len(s.cmds)
<1>1. Send(s, cmd, then) = t
  BY DEF Send
<1>2. DOMAIN t = ClientFields /\ t.queue = Append(s.queue, then) /\ t.cmds = Append(s.cmds, cmd)
      /\ t.early = s.early /\ t.crossed = s.crossed
  BY DEF Client, ClientFields
<1> HIDE DEF t
<1>3. a \in Nat /\ x \in Nat
  BY SeqFacts DEF Client
<1>4. /\ IsSeq(t.queue) /\ Len(t.queue) = a + 1 /\ t.queue[a + 1] = then
      /\ \A i \in 1..a : t.queue[i] = s.queue[i]
  BY <1>2, SeqAppend DEF Client
<1>5. /\ IsSeq(t.cmds) /\ Len(t.cmds) = x + 1 /\ t.cmds[x + 1] = cmd
      /\ \A i \in 1..x : t.cmds[i] = s.cmds[i]
  BY <1>2, SeqAppend DEF Client
<1>6. \A i \in 1..(Len(t.queue) - a) : i = 1
  BY <1>3, <1>4
<1> QED BY <1>1, <1>2, <1>3, <1>4, <1>5, <1>6 DEF Sends, Client

LEMMA SilentOK == \A k : Awaits(NoCallback, k)
BY DEF Awaits, NoCallback, Command

LEMMA SaveAffinitiesOK ==
  ASSUME NEW s, Client(s) PROVE Sends(s, SaveAffinities(s))
<1>1. CASE DOMAIN s.wins \in {{}, s.aff}
  <2>1. SaveAffinities(s) = s
    BY <1>1 DEF SaveAffinities
  <2> QED BY <2>1, SendsNone DEF Client
<1>2. CASE DOMAIN s.wins \notin {{}, s.aff}
  <2> DEFINE t == [s EXCEPT !.aff = DOMAIN s.wins]
             cmd == Command("set", 0)
  <2>1. SaveAffinities(s) = Send(t, cmd, NoCallback)
    BY <1>2 DEF SaveAffinities
  <2>2. Sends(s, t)
    <3>1. DOMAIN t = ClientFields /\ t.queue = s.queue /\ t.cmds = s.cmds /\ t.early = s.early /\ t.crossed = s.crossed
      BY DEF Client, ClientFields
    <3> HIDE DEF t
    <3> QED BY <3>1, SendsNone
  <2> HIDE DEF t
  <2>3. Client(t) /\ cmd.k \in Asked
    BY <2>2 DEF Sends, Command, Asked
  <2>4. Sends(t, Send(t, cmd, NoCallback))
    BY <2>3, SilentOK, SendOK
  <2> QED BY <2>1, <2>2, <2>4, SendsOn
<1> QED BY <1>1, <1>2

LEMMA RequestWindowNamesOK ==
  ASSUME NEW s, Client(s) PROVE Sends(s, RequestWindowNames(s))
<1> DEFINE cmd == Command("names", 0)
<1>1. cmd.k \in Asked /\ Awaits(cmd, cmd.k)
  BY DEF Command, Asked, Awaits
<1> QED BY <1>1, SendOK DEF RequestWindowNames

LEMMA CreateTmuxPaneOK ==
  ASSUME NEW s, Client(s), NEW i, NEW p PROVE Sends(s, CreateTmuxPane(s, i, p))
<1> DEFINE t == [s EXCEPT !.m = AddPaneToTab(@, i), !.panes = With(@, p, s.m.next), !.buf = @ \ {p}]
           cmd == Command("capture", p)
           then == Command("capture", s.m.next)
<1>1. CreateTmuxPane(s, i, p) = Send(t, cmd, then)
  BY DEF CreateTmuxPane
<1>2. Sends(s, t)
  <2>1. DOMAIN t = ClientFields /\ t.queue = s.queue /\ t.cmds = s.cmds /\ t.early = s.early /\ t.crossed = s.crossed
    BY DEF Client, ClientFields
  <2> HIDE DEF t
  <2> QED BY <2>1, SendsNone
<1>3. cmd.k \in Asked /\ Awaits(then, cmd.k)
  BY DEF Command, Asked, Awaits
<1> HIDE DEF t, cmd, then
<1>4. Sends(t, Send(t, cmd, then))
  BY <1>2, <1>3, SendOK DEF Sends
<1> QED BY <1>1, <1>2, <1>4, SendsOn

CreatingPanes(s, i, panes) ==
    LET made[n \in 0..Len(panes)] == IF n = 0 THEN s ELSE CreateTmuxPane(made[n - 1], i, panes[n])
    IN made

LEMMA PanesUnfold ==
  ASSUME NEW s, NEW i, NEW panes, NEW size \in Nat, size = Len(panes)
  PROVE  /\ CreateTmuxPanes(s, i, panes) = CreatingPanes(s, i, panes)[size]
         /\ CreatingPanes(s, i, panes)[0] = s
         /\ \A n \in 1..size : CreatingPanes(s, i, panes)[n] = CreateTmuxPane(CreatingPanes(s, i, panes)[n - 1], i, panes[n])
<1> DEFINE Then(x, n) == CreateTmuxPane(x, i, panes[n])
           Val(f, n) == IF n = 0 THEN s ELSE Then(f[n - 1], n)
           T == {n \in 0..size : \E f : f = [k \in 0..n |-> Val(f, k)]}
           r == CreatingPanes(s, i, panes)
<1>0. CreateTmuxPanes(s, i, panes) = r[size] /\ r = CHOOSE f : f = [n \in 0..size |-> Val(f, n)]
  BY DEF CreateTmuxPanes, CreatingPanes
<1>u. \A x, n : Then(x, n) = CreateTmuxPane(x, i, panes[n])
  OBVIOUS
<1> HIDE DEF Then, r
<1>1. 0 \in T
  <2> DEFINE f == [n \in 0..0 |-> s]
  <2>1. f = [n \in 0..0 |-> Val(f, n)]
    OBVIOUS
  <2>2. \E h : h = [n \in 0..0 |-> Val(h, n)]
    <3> HIDE DEF f, Val
    <3> WITNESS f
    <3> QED BY <2>1
  <2> QED BY <2>2
<1>2. ASSUME NEW n \in 0..(size - 1), n \in T PROVE n + 1 \in T
  <2>1. PICK f : f = [k \in 0..n |-> Val(f, k)]
    BY <1>2
  <2> DEFINE g == [k \in 0..(n + 1) |-> IF k = n + 1 THEN Then(f[n], n + 1) ELSE f[k]]
  <2>2. ASSUME NEW k \in 0..(n + 1) PROVE g[k] = Val(g, k)
    <3>1. CASE k = n + 1
      BY <3>1
    <3>2. CASE k # n + 1
      <4>1. k \in 0..n /\ g[k] = f[k] /\ f[k] = Val(f, k)
        BY <2>1, <3>2
      <4>2. k # 0 => k - 1 \in 0..n /\ k - 1 # n + 1 /\ g[k - 1] = f[k - 1]
        BY <4>1
      <4> QED BY <4>1, <4>2
    <3> QED BY <3>1, <3>2
  <2>3. g = [k \in 0..(n + 1) |-> Val(g, k)]
    BY <2>2
  <2>4. \E h : h = [k \in 0..(n + 1) |-> Val(h, k)]
    <3> HIDE DEF g, Val
    <3> WITNESS g
    <3> QED BY <2>3
  <2>5. n + 1 \in 0..size
    OBVIOUS
  <2> HIDE DEF g, Val
  <2> QED BY <2>4, <2>5
<1>3. size \in T
  <2> HIDE DEF T
  <2>1. 0..size \subseteq T
    BY <1>1, <1>2, UpTo
  <2> QED BY <2>1
<1>4. PICK h : h = [n \in 0..size |-> Val(h, n)]
  BY <1>3
<1>5. r = [n \in 0..size |-> Val(r, n)]
  <2> HIDE DEF Val
  <2> QED BY <1>0, <1>4
<1>7. r[0] = s /\ \A n \in 1..size : r[n] = Then(r[n - 1], n)
  BY <1>5
<1>8. \A n \in 1..size : r[n] = CreateTmuxPane(r[n - 1], i, panes[n])
  BY <1>7, <1>u
<1> QED BY <1>0, <1>7, <1>8 DEF r

LEMMA CreateTmuxPanesOK ==
  ASSUME NEW s, Client(s), NEW i, NEW panes, IsSeq(panes)
  PROVE  Sends(s, CreateTmuxPanes(s, i, panes))
<1> DEFINE size == Len(panes)
           r == CreatingPanes(s, i, panes)
           T == {n \in 0..size : Sends(s, r[n])}
<1>1. size \in Nat
  BY SeqFacts
<1>2. CreateTmuxPanes(s, i, panes) = r[size] /\ r[0] = s
      /\ \A n \in 1..size : r[n] = CreateTmuxPane(r[n - 1], i, panes[n])
  BY <1>1, PanesUnfold
<1> HIDE DEF r, size
<1>3. 0 \in T
  BY <1>1, <1>2, SendsNone DEF Client
<1>4. ASSUME NEW n \in 0..(size - 1), n \in T PROVE n + 1 \in T
  <2>1. n + 1 \in 1..size /\ n + 1 \in 0..size /\ (n + 1) - 1 = n /\ Sends(s, r[n])
    BY <1>1, <1>4
  <2>2. r[n + 1] = CreateTmuxPane(r[n], i, panes[n + 1])
    BY <1>2, <2>1
  <2>3. Sends(r[n], r[n + 1])
    BY <2>1, <2>2, CreateTmuxPaneOK, SendsClient
  <2>4. Sends(s, r[n + 1])
    BY <2>1, <2>3, SendsOn
  <2> QED BY <2>1, <2>4
<1>5. size \in T
  <2> HIDE DEF T
  <2>1. 0..size \subseteq T
    BY <1>1, <1>3, <1>4, UpTo
  <2> QED BY <1>1, <2>1
<1> QED BY <1>2, <1>5

LEMMA OnLayoutChangeOK ==
  ASSUME NEW s, Client(s), NEW w, NEW panes, IsSeq(panes)
  PROVE  Sends(s, OnLayoutChange(s, w, panes))
<1> DEFINE t == IF w \in DOMAIN s.wins THEN s
                ELSE [s EXCEPT !.wins = With(@, w, s.m.next), !.m = NewEmptyTab(@)]
           i == TabOf(t, w)
           gone == PanesIn(t, i) \ ToSet(panes)
           new == Without(panes, PanesIn(t, i))
           made == CreateTmuxPanes(t, i, new)
           less == [made EXCEPT !.m = RemovePanes(@, i, {t.panes[p] : p \in gone})]
<1>1. OnLayoutChange(s, w, panes) = IF ~HasTab(t, w) THEN [s EXCEPT !.freed = TRUE] ELSE Forget(less, gone)
  BY DEF OnLayoutChange
<1>2. Sends(s, t)
  <2>1. DOMAIN t = ClientFields /\ t.queue = s.queue /\ t.cmds = s.cmds /\ t.early = s.early /\ t.crossed = s.crossed
    BY DEF Client, ClientFields
  <2> HIDE DEF t
  <2> QED BY <2>1, SendsNone
<1>3. CASE ~HasTab(t, w)
  <2> DEFINE u == [s EXCEPT !.freed = TRUE]
  <2>1. DOMAIN u = ClientFields /\ u.queue = s.queue /\ u.cmds = s.cmds /\ u.early = s.early /\ u.crossed = s.crossed
    BY DEF Client, ClientFields
  <2>2. OnLayoutChange(s, w, panes) = u
    BY <1>1, <1>3
  <2> HIDE DEF u
  <2> QED BY <2>1, <2>2, SendsNone
<1>4. CASE HasTab(t, w)
  <2> HIDE DEF t, i
  <2>1. Client(t)
    BY <1>2, SendsClient
  <2>2. IsSeq(new)
    <3>1. PICK S : panes \in Seq(S)
      BY DEF IsSeq
    <3>2. new \in Seq(S)
      BY <3>1, WithoutKeeps
    <3> QED BY <3>2 DEF IsSeq
  <2> HIDE DEF new
  <2>3. Sends(t, made)
    BY <2>1, <2>2, CreateTmuxPanesOK
  <2>4. Sends(s, made) /\ Client(made)
    BY <1>2, <2>3, SendsOn, SendsClient
  <2> DEFINE u == Forget(less, gone)
  <2>5. DOMAIN u = ClientFields /\ u.queue = made.queue /\ u.cmds = made.cmds /\ u.early = made.early
        /\ u.crossed = made.crossed
    <3> HIDE DEF made, gone
    <3>1. DOMAIN less = ClientFields /\ less.queue = made.queue /\ less.cmds = made.cmds
          /\ less.early = made.early /\ less.crossed = made.crossed
      BY <2>4 DEF Client, ClientFields
    <3> HIDE DEF less
    <3> QED BY <3>1 DEF Forget, ClientFields
  <2>6. OnLayoutChange(s, w, panes) = u
    BY <1>1, <1>4
  <2> HIDE DEF u, made
  <2>7. Sends(made, u)
    BY <2>4, <2>5, SendsNone
  <2> QED BY <2>4, <2>6, <2>7, SendsOn
<1> QED BY <1>3, <1>4

Changing(s, rows) ==
    LET made[n \in 0..Len(rows)] == IF n = 0 THEN s ELSE OnLayoutChange(made[n - 1], rows[n][1], rows[n][2])
    IN made

LEMMA ChangesUnfold ==
  ASSUME NEW s, NEW rows, NEW size \in Nat, size = Len(rows)
  PROVE  /\ OnLayoutChanges(s, rows) = Changing(s, rows)[size]
         /\ Changing(s, rows)[0] = s
         /\ \A n \in 1..size : Changing(s, rows)[n] = OnLayoutChange(Changing(s, rows)[n - 1], rows[n][1], rows[n][2])
<1> DEFINE Then(x, n) == OnLayoutChange(x, rows[n][1], rows[n][2])
           Val(f, n) == IF n = 0 THEN s ELSE Then(f[n - 1], n)
           T == {n \in 0..size : \E f : f = [k \in 0..n |-> Val(f, k)]}
           r == Changing(s, rows)
<1>0. OnLayoutChanges(s, rows) = r[size] /\ r = CHOOSE f : f = [n \in 0..size |-> Val(f, n)]
  BY DEF OnLayoutChanges, Changing
<1>u. \A x, n : Then(x, n) = OnLayoutChange(x, rows[n][1], rows[n][2])
  OBVIOUS
<1> HIDE DEF Then, r
<1>1. 0 \in T
  <2> DEFINE f == [n \in 0..0 |-> s]
  <2>1. f = [n \in 0..0 |-> Val(f, n)]
    OBVIOUS
  <2>2. \E h : h = [n \in 0..0 |-> Val(h, n)]
    <3> HIDE DEF f, Val
    <3> WITNESS f
    <3> QED BY <2>1
  <2> QED BY <2>2
<1>2. ASSUME NEW n \in 0..(size - 1), n \in T PROVE n + 1 \in T
  <2>1. PICK f : f = [k \in 0..n |-> Val(f, k)]
    BY <1>2
  <2> DEFINE g == [k \in 0..(n + 1) |-> IF k = n + 1 THEN Then(f[n], n + 1) ELSE f[k]]
  <2>2. ASSUME NEW k \in 0..(n + 1) PROVE g[k] = Val(g, k)
    <3>1. CASE k = n + 1
      BY <3>1
    <3>2. CASE k # n + 1
      <4>1. k \in 0..n /\ g[k] = f[k] /\ f[k] = Val(f, k)
        BY <2>1, <3>2
      <4>2. k # 0 => k - 1 \in 0..n /\ k - 1 # n + 1 /\ g[k - 1] = f[k - 1]
        BY <4>1
      <4> QED BY <4>1, <4>2
    <3> QED BY <3>1, <3>2
  <2>3. g = [k \in 0..(n + 1) |-> Val(g, k)]
    BY <2>2
  <2>4. \E h : h = [k \in 0..(n + 1) |-> Val(h, k)]
    <3> HIDE DEF g, Val
    <3> WITNESS g
    <3> QED BY <2>3
  <2>5. n + 1 \in 0..size
    OBVIOUS
  <2> HIDE DEF g, Val
  <2> QED BY <2>4, <2>5
<1>3. size \in T
  <2> HIDE DEF T
  <2>1. 0..size \subseteq T
    BY <1>1, <1>2, UpTo
  <2> QED BY <2>1
<1>4. PICK h : h = [n \in 0..size |-> Val(h, n)]
  BY <1>3
<1>5. r = [n \in 0..size |-> Val(r, n)]
  <2> HIDE DEF Val
  <2> QED BY <1>0, <1>4
<1>7. r[0] = s /\ \A n \in 1..size : r[n] = Then(r[n - 1], n)
  BY <1>5
<1>8. \A n \in 1..size : r[n] = OnLayoutChange(r[n - 1], rows[n][1], rows[n][2])
  BY <1>7, <1>u
<1> QED BY <1>0, <1>7, <1>8 DEF r

LEMMA OnLayoutChangesOK ==
  ASSUME NEW s, Client(s), NEW rows, IsSeq(rows), \A n \in 1..Len(rows) : IsSeq(rows[n][2])
  PROVE  Sends(s, OnLayoutChanges(s, rows))
<1> DEFINE size == Len(rows)
           r == Changing(s, rows)
           T == {n \in 0..size : Sends(s, r[n])}
<1>1. size \in Nat
  BY SeqFacts
<1>2. OnLayoutChanges(s, rows) = r[size] /\ r[0] = s
      /\ \A n \in 1..size : r[n] = OnLayoutChange(r[n - 1], rows[n][1], rows[n][2])
  BY <1>1, ChangesUnfold
<1> HIDE DEF r
<1>3. 0 \in T
  BY <1>1, <1>2, SendsNone DEF Client
<1>4. ASSUME NEW n \in 0..(size - 1), n \in T PROVE n + 1 \in T
  <2>1. n + 1 \in 1..size /\ n + 1 \in 0..size /\ (n + 1) - 1 = n /\ Sends(s, r[n])
    BY <1>1, <1>4
  <2>2. r[n + 1] = OnLayoutChange(r[n], rows[n + 1][1], rows[n + 1][2])
    BY <1>2, <2>1
  <2>3. Sends(r[n], r[n + 1])
    <3>1. Client(r[n]) /\ IsSeq(rows[n + 1][2])
      BY <2>1, SendsClient
    <3> QED BY <2>2, <3>1, OnLayoutChangeOK
  <2>4. Sends(s, r[n + 1])
    BY <2>1, <2>3, SendsOn
  <2> QED BY <2>1, <2>4
<1>5. size \in T
  <2> HIDE DEF T
  <2>1. 0..size \subseteq T
    BY <1>1, <1>3, <1>4, UpTo
  <2> QED BY <1>1, <2>1
<1> QED BY <1>2, <1>5

LEMMA OnWindowAddOK ==
  ASSUME NEW s, Client(s), NEW w PROVE Sends(s, OnWindowAdd(s, w))
<1> DEFINE cmd == Command("list", 0)  then == Command("added", w)
<1>1. cmd.k \in Asked /\ Awaits(then, cmd.k)
  BY DEF Command, Asked, Awaits
<1>2. Sends(s, Send(s, cmd, then))
  <2> HIDE DEF cmd, then
  <2> QED BY <1>1, SendOK
<1>3. Sends(s, s)
  BY SendsNone DEF Client
<1> QED BY <1>2, <1>3 DEF OnWindowAdd

LEMMA OnWindowCloseOK ==
  ASSUME NEW s, Client(s), NEW w PROVE Sends(s, OnWindowClose(s, w))
<1> DEFINE t == Forget(s, PanesIn(s, TabOf(s, w)))
           u == [t EXCEPT !.m = CloseTab(@, TabOf(s, w)), !.wins = Restrict(@, DOMAIN @ \ {w})]
           v == [u EXCEPT !.win = IF u.m.tabs = <<>> THEN "closing" ELSE @]
           x == [s EXCEPT !.freed = TRUE]
<1>1. OnWindowClose(s, w) = IF w \notin DOMAIN s.wins THEN s
                            ELSE IF ~HasTab(s, w) THEN x ELSE SaveAffinities(v)
  BY DEF OnWindowClose
<1>2. Sends(s, s)
  BY SendsNone DEF Client
<1>3. Sends(s, x)
  <2>1. DOMAIN x = ClientFields /\ x.queue = s.queue /\ x.cmds = s.cmds /\ x.early = s.early /\ x.crossed = s.crossed
    BY DEF Client, ClientFields
  <2> HIDE DEF x
  <2> QED BY <2>1, SendsNone
<1>4. Sends(s, v)
  <2>1. DOMAIN t = ClientFields /\ t.queue = s.queue /\ t.cmds = s.cmds /\ t.early = s.early /\ t.crossed = s.crossed
    BY DEF Forget, Client, ClientFields
  <2> HIDE DEF t
  <2>2. DOMAIN u = ClientFields /\ u.queue = s.queue /\ u.cmds = s.cmds /\ u.early = s.early /\ u.crossed = s.crossed
    BY <2>1 DEF ClientFields
  <2> HIDE DEF u
  <2>3. DOMAIN v = ClientFields /\ v.queue = s.queue /\ v.cmds = s.cmds /\ v.early = s.early /\ v.crossed = s.crossed
    BY <2>2 DEF ClientFields
  <2> HIDE DEF v
  <2> QED BY <2>3, SendsNone
<1> HIDE DEF v, x
<1>5. Sends(v, SaveAffinities(v))
  BY <1>4, SendsClient, SaveAffinitiesOK
<1>6. Sends(s, SaveAffinities(v))
  BY <1>4, <1>5, SendsOn
<1> QED BY <1>1, <1>2, <1>3, <1>6

LEMMA OnSessionChangedOK ==
  ASSUME NEW s, Client(s) PROVE Sends(s, OnSessionChanged(s))
<1> DEFINE fresh == Command("refresh", 0)  list == Command("list", 0)
           t == Send(s, fresh, NoCallback)
<1>1. fresh.k \in Asked /\ list.k \in Asked /\ Awaits(list, list.k)
  BY DEF Command, Asked, Awaits
<1>2. OnSessionChanged(s) = Send(t, list, list)
  BY DEF OnSessionChanged
<1> HIDE DEF fresh, list
<1>3. Sends(s, t)
  BY <1>1, SilentOK, SendOK
<1> HIDE DEF t
<1>4. Sends(t, Send(t, list, list))
  BY <1>1, <1>3, SendsClient, SendOK
<1> QED BY <1>2, <1>3, <1>4, SendsOn

LEMMA OnSessionWindowChangedOK ==
  ASSUME NEW s, Client(s), NEW w PROVE Sends(s, OnSessionWindowChanged(s, w))
<1> DEFINE t == [s EXCEPT !.m = ActivateTab(@, TabOf(s, w))]
<1>1. OnSessionWindowChanged(s, w) \in {s, t}
  BY DEF OnSessionWindowChanged
<1>2. DOMAIN t = ClientFields /\ t.queue = s.queue /\ t.cmds = s.cmds /\ t.early = s.early /\ t.crossed = s.crossed
  BY DEF Client, ClientFields
<1> HIDE DEF t
<1> QED BY <1>1, <1>2, SendsNone DEF Client

LEMMA OnOutputOK ==
  ASSUME NEW s, Client(s), NEW p PROVE Sends(s, OnOutput(s, p))
<1> DEFINE t == [s EXCEPT !.buf = @ \cup {p}]
           u == [s EXCEPT !.freed = @ \/ s.panes[p] \notin LivePanes(s.m)]
<1>1. OnOutput(s, p) \in {t, u}
  BY DEF OnOutput
<1>2. DOMAIN t = ClientFields /\ t.queue = s.queue /\ t.cmds = s.cmds /\ t.early = s.early /\ t.crossed = s.crossed
  BY DEF Client, ClientFields
<1>3. DOMAIN u = ClientFields /\ u.queue = s.queue /\ u.cmds = s.cmds /\ u.early = s.early /\ u.crossed = s.crossed
  BY DEF Client, ClientFields
<1> HIDE DEF t, u
<1> QED BY <1>1, <1>2, <1>3, SendsNone

LEMMA OnExitOK ==
  ASSUME NEW s, Client(s) PROVE Sends(s, OnExit(s))
<1> DEFINE n == [s.m EXCEPT !.act = 0, !.tabs = Without(s.m.tabs, {t \in ToSet(s.m.tabs) : t.id \in Range(s.wins)})]
           u == [s EXCEPT !.active = FALSE, !.win = "closing", !.wins = <<>>, !.panes = <<>>, !.buf = {}, !.m = n]
<1>1. OnExit(s) = u
  BY DEF OnExit
<1> HIDE DEF n
<1>2. DOMAIN u = ClientFields /\ u.queue = s.queue /\ u.cmds = s.cmds /\ u.early = s.early /\ u.crossed = s.crossed
  BY DEF Client, ClientFields
<1> HIDE DEF u
<1> QED BY <1>1, <1>2, SendsNone

LEMMA AnsweredOK ==
  ASSUME NEW s, Client(s), NEW then, NEW line, LineOK(line)
  PROVE  Sends(s, Answered(s, then, line))
<1> DEFINE rows == IF line.k = "list" THEN line.list ELSE <<>>
           mine == IF then.k = "list" THEN rows ELSE Without(rows, {r \in ToSet(rows) : r[1] # then.n})
           made == OnLayoutChanges(s, mine)
           named == RequestWindowNames(made)
           u == [s EXCEPT !.freed = @ \/ then.n \notin LivePanes(s.m)]
<1>1. Answered(s, then, line) \in {SaveAffinities(named), u, s}
  BY DEF Answered
<1>2. Sends(s, s)
  BY SendsNone DEF Client
<1>3. Sends(s, u)
  <2>1. DOMAIN u = ClientFields /\ u.queue = s.queue /\ u.cmds = s.cmds /\ u.early = s.early /\ u.crossed = s.crossed
    BY DEF Client, ClientFields
  <2> HIDE DEF u
  <2> QED BY <2>1, SendsNone
<1> HIDE DEF u
<1>4. IsSeq(rows) /\ \A i \in 1..Len(rows) : IsSeq(rows[i][2])
  BY SeqEmpty DEF LineOK
<1> HIDE DEF rows
<1>5. IsSeq(mine) /\ \A i \in 1..Len(mine) : IsSeq(mine[i][2])
  <2> DEFINE S == {rows[i] : i \in 1..Len(rows)}
             gone == {r \in ToSet(rows) : r[1] # then.n}
  <2>1. \A i \in 1..Len(rows) : rows[i] \in S
    OBVIOUS
  <2>2. \A r \in S : IsSeq(r[2])
    BY <1>4
  <2> HIDE DEF S, gone
  <2>3. /\ IsSeq(Without(rows, gone))
        /\ \A i \in 1..Len(Without(rows, gone)) : Without(rows, gone)[i] \in S
    BY <1>4, <2>1, WithoutSeq
  <2>4. mine \in {rows, Without(rows, gone)}
    BY DEF gone
  <2> QED BY <1>4, <2>2, <2>3, <2>4
<1> HIDE DEF mine
<1>6. Sends(s, made)
  BY <1>5, OnLayoutChangesOK
<1> HIDE DEF made
<1>7. Sends(made, named)
  BY <1>6, SendsClient, RequestWindowNamesOK
<1> HIDE DEF named
<1>8. Sends(named, SaveAffinities(named))
  BY <1>7, SendsClient, SaveAffinitiesOK
<1>9. Sends(s, named)
  BY <1>6, <1>7, SendsOn
<1>10. Sends(s, SaveAffinities(named))
  BY <1>8, <1>9, SendsOn
<1> QED BY <1>1, <1>2, <1>3, <1>10

-----------------------------------------------------------------------------
(* The answers on the wire come in the order of the callbacks that wait for *)
(* them, and behind them what tmux is still to read.                        *)

AllAsked(s) == \A j \in 1..Len(s.cmds) : s.cmds[j].k \in Asked

\* f[n] is how many of the first n lines are answers.
Counts(f, w) ==
    /\ f \in [0..Len(w) -> Nat] /\ f[0] = 0
    /\ \A n \in 1..Len(w) : f[n] = f[n - 1] + (IF w[n].k \in Asked THEN 1 ELSE 0)
    /\ \A i, j \in 0..Len(w) : i <= j => f[i] <= f[j]

InOrder(f, s, w, up) ==
    /\ Counts(f, w) /\ f[Len(w)] <= Len(s.queue)
    /\ \A n \in 1..Len(w) : w[n].k \in Asked => Awaits(s.queue[f[n]], w[n].k)
    /\ up => /\ Len(s.queue) = f[Len(w)] + Len(s.cmds)
             /\ \A j \in 1..Len(s.cmds) : Awaits(s.queue[f[Len(w)] + j], s.cmds[j].k)

Matched(s, w, up) == \E f : InOrder(f, s, w, up)

LEMMA AskedStays ==
  ASSUME NEW s, Client(s), NEW t, Sends(s, t), AllAsked(s) PROVE AllAsked(t)
<1> DEFINE x == Len(s.cmds)  y == Len(t.cmds)  a == Len(s.queue)  b == Len(t.queue)
<1>1. x \in Nat /\ y \in Nat /\ a \in Nat /\ b \in Nat /\ b - a = y - x
  <2>1. Client(t) /\ b - a = y - x
    BY SendsClient
  <2> QED BY <2>1, SeqFacts DEF Client
<1>2. ASSUME NEW j \in 1..y PROVE t.cmds[j].k \in Asked
  <2>1. CASE j \in 1..x
    BY <2>1 DEF Sends, AllAsked
  <2>2. CASE j \notin 1..x
    <3> DEFINE i == j - x
    <3>1. i \in 1..(b - a) /\ j = x + i
      <4> HIDE DEF x, y, a, b
      <4> QED BY <1>1, <2>2
    <3>2. t.cmds[x + i].k \in Asked
      <4> HIDE DEF i
      <4> QED BY <3>1 DEF Sends
    <3> QED BY <3>1, <3>2
  <2> QED BY <2>1, <2>2
<1> QED BY <1>2 DEF AllAsked

LEMMA MatchedSends ==
  ASSUME NEW s, Client(s), NEW t, Sends(s, t), NEW w, IsSeq(w), NEW up, Matched(s, w, up)
  PROVE  Matched(t, w, up)
<1> DEFINE L == Len(w)  x == Len(s.cmds)  y == Len(t.cmds)  a == Len(s.queue)  b == Len(t.queue)
<1>1. PICK f : InOrder(f, s, w, up)
  BY DEF Matched
<1>2. x \in Nat /\ y \in Nat /\ a \in Nat /\ b \in Nat /\ b - a = y - x /\ a <= b /\ L \in Nat
  <2>1. Client(t) /\ b - a = y - x /\ a <= b
    BY SendsClient
  <2> QED BY <2>1, SeqFacts DEF Client
<1>3. /\ f \in [0..L -> Nat] /\ f[L] <= a /\ f[L] \in Nat
      /\ \A n \in 1..L : f[n] <= f[L] /\ f[n] \in Nat /\ (w[n].k \in Asked => f[n] \in 1..a)
  <2>1. f \in [0..L -> Nat] /\ f[L] <= a /\ \A i, j \in 0..L : i <= j => f[i] <= f[j]
    BY <1>1 DEF InOrder, Counts
  <2>2. ASSUME NEW n \in 1..L
        PROVE  f[n] <= f[L] /\ f[n] \in Nat /\ (w[n].k \in Asked => f[n] \in 1..a)
    <3>1. n \in 0..L /\ L \in 0..L /\ n - 1 \in 0..L /\ n <= L
      <4> HIDE DEF L
      <4> QED BY <1>2
    <3>2. f[n] <= f[L] /\ f[n] \in Nat /\ f[n - 1] \in Nat /\ f[L] \in Nat
      BY <2>1, <3>1
    <3>3. w[n].k \in Asked => f[n] = f[n - 1] + 1
      BY <1>1 DEF InOrder, Counts
    <3> HIDE DEF L, a
    <3> QED BY <1>2, <2>1, <3>2, <3>3
  <2>3. f[L] \in Nat
    <3> HIDE DEF L
    <3> QED BY <1>2, <2>1
  <2> QED BY <2>1, <2>2, <2>3
<1>4. ASSUME NEW n \in 1..L, w[n].k \in Asked PROVE Awaits(t.queue[f[n]], w[n].k)
  <2>1. t.queue[f[n]] = s.queue[f[n]]
    BY <1>3, <1>4 DEF Sends
  <2>2. Awaits(s.queue[f[n]], w[n].k)
    BY <1>1, <1>4 DEF InOrder
  <2> QED BY <2>1, <2>2
<1>5. ASSUME up
      PROVE  b = f[L] + y /\ \A j \in 1..y : Awaits(t.queue[f[L] + j], t.cmds[j].k)
  <2>1. a = f[L] + x /\ \A j \in 1..x : Awaits(s.queue[f[L] + j], s.cmds[j].k)
    BY <1>1, <1>5 DEF InOrder
  <2>2. b = f[L] + y
    <3> DEFINE k == f[L]
    <3>1. k \in Nat /\ a = k + x
      BY <1>3, <2>1
    <3> HIDE DEF a, b, x, y, L, k
    <3>2. b = k + y
      BY <1>2, <3>1
    <3> QED BY <3>2 DEF k
  <2>3. ASSUME NEW j \in 1..y PROVE Awaits(t.queue[f[L] + j], t.cmds[j].k)
    <3>1. CASE j \in 1..x
      <4>1. f[L] + j \in 1..a
        <5> HIDE DEF a, x, L
        <5> QED BY <1>2, <1>3, <2>1, <3>1
      <4>2. t.queue[f[L] + j] = s.queue[f[L] + j] /\ t.cmds[j] = s.cmds[j]
        BY <3>1, <4>1 DEF Sends
      <4> QED BY <2>1, <3>1, <4>2
    <3>2. CASE j \notin 1..x
      <4> DEFINE i == j - x
      <4>1. i \in 1..(b - a) /\ j = x + i /\ f[L] + j = a + i
        <5> HIDE DEF a, b, x, y, L
        <5> QED BY <1>2, <1>3, <2>1, <3>2
      <4>2. Awaits(t.queue[a + i], t.cmds[x + i].k)
        <5> HIDE DEF i
        <5> QED BY <4>1 DEF Sends
      <4> QED BY <4>1, <4>2
    <3> QED BY <3>1, <3>2
  <2> QED BY <2>2, <2>3
<1>6. Counts(f, w)
  BY <1>1 DEF InOrder
<1>7. f[L] <= b
  <2> HIDE DEF a, b, L
  <2> QED BY <1>2, <1>3
<1>8. InOrder(f, t, w, up)
  BY <1>4, <1>5, <1>6, <1>7 DEF InOrder
<1> QED BY <1>8 DEF Matched

LEMMA CountsFacts ==
  ASSUME NEW f, NEW w, IsSeq(w), Counts(f, w)
  PROVE  /\ Len(w) \in Nat /\ f[0] = 0 /\ \A n \in 0..Len(w) : f[n] \in Nat
         /\ \A n \in 1..Len(w) : f[n] = f[n - 1] + (IF w[n].k \in Asked THEN 1 ELSE 0)
         /\ \A n \in 1..Len(w) : f[n] <= f[Len(w)] /\ (w[n].k \in Asked => f[n] \in 1..f[Len(w)])
<1> DEFINE L == Len(w)
<1>1. L \in Nat
  BY SeqFacts
<1>2. /\ f \in [0..L -> Nat] /\ f[0] = 0
      /\ \A n \in 1..L : f[n] = f[n - 1] + (IF w[n].k \in Asked THEN 1 ELSE 0)
      /\ \A i, j \in 0..L : i <= j => f[i] <= f[j]
  BY DEF Counts
<1> HIDE DEF L
<1>3. ASSUME NEW n \in 1..L PROVE f[n] <= f[L] /\ (w[n].k \in Asked => f[n] \in 1..f[L])
  <2>1. n \in 0..L /\ n - 1 \in 0..L /\ L \in 0..L /\ n <= L
    BY <1>1
  <2>2. f[n] \in Nat /\ f[n - 1] \in Nat /\ f[L] \in Nat /\ f[n] <= f[L]
    BY <1>2, <2>1
  <2>3. w[n].k \in Asked => f[n] = f[n - 1] + 1
    BY <1>2
  <2> QED BY <2>2, <2>3
<1> QED BY <1>1, <1>2, <1>3 DEF L

\* Lines that answer nothing change nothing.
LEMMA MatchedQuiet ==
  ASSUME NEW s, NEW w, IsSeq(w), NEW up \in BOOLEAN, Matched(s, w, up),
         NEW lines, Quiet(lines), NEW now \in BOOLEAN, now => up
  PROVE  Matched(s, w \o lines, now)
<1> DEFINE L == Len(w)  M == Len(lines)  v == w \o lines
<1>1. PICK f : InOrder(f, s, w, up)
  BY DEF Matched
<1>2. Counts(f, w)
  BY <1>1 DEF InOrder
<1>3. L \in Nat /\ M \in Nat /\ IsSeq(lines)
  BY SeqFacts DEF Quiet
<1>4. /\ Len(v) = L + M /\ \A i \in 1..L : v[i] = w[i]
      /\ \A i \in 1..(L + M) : i \in 1..L \/ (i - L \in 1..M /\ v[i] = lines[i - L])
  BY <1>3, SeqConcat
<1>5. \A i \in 1..(L + M) : i \notin 1..L => v[i].k \notin Asked
  <2>1. \A i \in 1..M : lines[i].k \notin Asked
    BY DEF Quiet, Asked, Notices
  <2> QED BY <1>4, <2>1
<1>6. /\ f[0] = 0 /\ \A n \in 0..L : f[n] \in Nat
      /\ \A n \in 1..L : f[n] = f[n - 1] + (IF w[n].k \in Asked THEN 1 ELSE 0)
      /\ \A i, j \in 0..L : i <= j => f[i] <= f[j]
  BY <1>2, CountsFacts DEF Counts
<1> DEFINE g == [n \in 0..(L + M) |-> IF n <= L THEN f[n] ELSE f[L]]
<1> HIDE DEF L, M, v
<1>7. g[L + M] = f[L] /\ L \in 0..L
  BY <1>3
<1>8. Counts(g, v)
  <2>1. g \in [0..(L + M) -> Nat] /\ g[0] = 0
    BY <1>3, <1>6, <1>7
  <2>2. ASSUME NEW n \in 1..(L + M) PROVE g[n] = g[n - 1] + (IF v[n].k \in Asked THEN 1 ELSE 0)
    <3>1. CASE n \in 1..L
      <4>1. g[n] = f[n] /\ g[n - 1] = f[n - 1] /\ v[n] = w[n]
        BY <1>3, <1>4, <3>1
      <4> QED BY <1>6, <3>1, <4>1
    <3>2. CASE n \notin 1..L
      <4>1. g[n] = f[L] /\ g[n - 1] = f[L] /\ f[L] \in Nat
        BY <1>3, <1>6, <1>7, <3>2
      <4> HIDE DEF g
      <4> QED BY <1>5, <3>2, <4>1
    <3> QED BY <3>1, <3>2
  <2>3. ASSUME NEW i \in 0..(L + M), NEW j \in 0..(L + M), i <= j PROVE g[i] <= g[j]
    <3>1. CASE j <= L
      <4>1. i \in 0..L /\ j \in 0..L /\ g[i] = f[i] /\ g[j] = f[j]
        BY <1>3, <2>3, <3>1
      <4> QED BY <1>6, <2>3, <4>1
    <3>2. CASE ~(j <= L)
      <4>1. g[j] = f[L] /\ f[L] \in Nat
        BY <1>3, <1>6, <1>7, <3>2
      <4>2. CASE i <= L
        <5>1. i \in 0..L /\ g[i] = f[i]
          BY <1>3, <4>2
        <5> QED BY <1>3, <1>6, <1>7, <4>1, <4>2, <5>1
      <4>3. CASE ~(i <= L)
        <5>1. g[i] = f[L]
          BY <4>3
        <5> QED BY <4>1, <5>1
      <4> QED BY <4>2, <4>3
    <3> QED BY <3>1, <3>2
  <2>4. Len(v) = L + M
    BY <1>4
  <2> HIDE DEF g
  <2> QED BY <2>1, <2>2, <2>3, <2>4 DEF Counts
<1>9. f[L] <= Len(s.queue) /\ \A n \in 1..L : w[n].k \in Asked => Awaits(s.queue[f[n]], w[n].k)
  BY <1>1 DEF InOrder, L
<1>10. ASSUME NEW n \in 1..(L + M), v[n].k \in Asked PROVE Awaits(s.queue[g[n]], v[n].k)
  <2>1. n \in 1..L
    BY <1>5, <1>10
  <2>2. g[n] = f[n] /\ v[n] = w[n]
    BY <1>3, <1>4, <2>1
  <2> QED BY <1>9, <1>10, <2>1, <2>2
<1>11. now => /\ Len(s.queue) = f[L] + Len(s.cmds)
              /\ \A j \in 1..Len(s.cmds) : Awaits(s.queue[f[L] + j], s.cmds[j].k)
  BY <1>1 DEF InOrder, L
<1>12. InOrder(g, s, v, now)
  <2>1. Len(v) = L + M
    BY <1>4
  <2> HIDE DEF g
  <2> QED BY <1>7, <1>8, <1>9, <1>10, <1>11, <2>1 DEF InOrder
<1> QED BY <1>12 DEF Matched, v

\* What tmux says of a command is for the callback that waits first behind the
\* answers on the wire.
LEMMA MatchedAnswer ==
  ASSUME NEW s, Client(s), NEW w, IsSeq(w), Matched(s, w, TRUE), s.cmds # <<>>, s.cmds[1].k \in Asked,
         NEW l, l.k = s.cmds[1].k, NEW t, t.queue = s.queue, t.cmds = Tail(s.cmds)
  PROVE  Matched(t, w \o <<l>>, TRUE)
<1> DEFINE L == Len(w)  v == w \o <<l>>  a == Len(s.queue)  x == Len(s.cmds)
<1>1. PICK f : InOrder(f, s, w, TRUE)
  BY DEF Matched
<1>2. Counts(f, w)
  BY <1>1 DEF InOrder
<1>3. L \in Nat /\ a \in Nat /\ x \in Nat \ {0}
  BY SeqFacts, SeqTail DEF Client
<1>4. Len(v) = L + 1 /\ v[L + 1] = l /\ \A i \in 1..L : v[i] = w[i]
  <2>1. IsSeq(<<l>>) /\ Len(<<l>>) = 1 /\ <<l>>[1] = l
    BY SeqOne
  <2> QED BY <2>1, SeqConcat
<1>5. Len(t.cmds) = x - 1 /\ \A j \in 1..(x - 1) : t.cmds[j] = s.cmds[j + 1]
  BY SeqTail DEF Client
<1>6. /\ f[0] = 0 /\ \A n \in 0..L : f[n] \in Nat
      /\ \A n \in 1..L : f[n] = f[n - 1] + (IF w[n].k \in Asked THEN 1 ELSE 0)
      /\ \A i, j \in 0..L : i <= j => f[i] <= f[j]
  BY <1>2, CountsFacts DEF Counts
<1>7. /\ a = f[L] + x /\ \A j \in 1..x : Awaits(s.queue[f[L] + j], s.cmds[j].k)
      /\ \A n \in 1..L : w[n].k \in Asked => Awaits(s.queue[f[n]], w[n].k)
  BY <1>1 DEF InOrder
<1> DEFINE g == [n \in 0..(L + 1) |-> IF n <= L THEN f[n] ELSE f[L] + 1]
<1> HIDE DEF L, v, a, x
<1>8. g[L + 1] = f[L] + 1 /\ L \in 0..L /\ f[L] \in Nat
  BY <1>3, <1>6
<1>9. \A n \in 0..L : g[n] = f[n]
  BY <1>3
<1>10. Counts(g, v)
  <2>1. g \in [0..(L + 1) -> Nat] /\ g[0] = 0
    BY <1>3, <1>6, <1>8
  <2>2. ASSUME NEW n \in 1..(L + 1) PROVE g[n] = g[n - 1] + (IF v[n].k \in Asked THEN 1 ELSE 0)
    <3>1. CASE n \in 1..L
      <4>1. n \in 0..L /\ n - 1 \in 0..L
        BY <1>3, <3>1
      <4>2. g[n] = f[n] /\ g[n - 1] = f[n - 1] /\ v[n] = w[n]
        BY <1>4, <1>9, <3>1, <4>1
      <4> QED BY <1>6, <3>1, <4>2
    <3>2. CASE n \notin 1..L
      <4>1. n = L + 1 /\ n - 1 = L
        BY <1>3, <3>2
      <4>2. g[n] = f[L] + 1 /\ g[n - 1] = f[L] /\ v[n].k \in Asked
        BY <1>4, <1>8, <1>9, <4>1
      <4> QED BY <4>2
    <3> QED BY <3>1, <3>2
  <2>3. ASSUME NEW i \in 0..(L + 1), NEW j \in 0..(L + 1), i <= j PROVE g[i] <= g[j]
    <3>1. CASE j \in 0..L
      <4>1. i \in 0..L
        BY <1>3, <2>3, <3>1
      <4> QED BY <1>6, <1>9, <2>3, <3>1, <4>1
    <3>2. CASE j \notin 0..L
      <4>1. j = L + 1
        BY <1>3, <3>2
      <4>2. CASE i \in 0..L
        <5>1. g[i] = f[i] /\ f[i] \in Nat /\ f[i] <= f[L]
          BY <1>3, <1>6, <1>8, <1>9, <4>2
        <5> HIDE DEF g
        <5> QED BY <1>8, <4>1, <5>1
      <4>3. CASE i \notin 0..L
        <5>1. i = L + 1
          BY <1>3, <4>3
        <5> HIDE DEF g
        <5> QED BY <1>8, <4>1, <5>1
      <4> QED BY <4>2, <4>3
    <3> QED BY <3>1, <3>2
  <2> HIDE DEF g
  <2> QED BY <1>4, <2>1, <2>2, <2>3 DEF Counts
<1> HIDE DEF g
<1>11. ASSUME NEW n \in 1..(L + 1), v[n].k \in Asked PROVE Awaits(t.queue[g[n]], v[n].k)
  <2>1. CASE n \in 1..L
    <3>1. n \in 0..L
      BY <1>3, <2>1
    <3>2. v[n] = w[n] /\ g[n] = f[n]
      BY <1>4, <1>9, <2>1, <3>1
    <3> QED BY <1>7, <1>11, <2>1, <3>2
  <2>2. CASE n \notin 1..L
    <3>1. n = L + 1 /\ 1 \in 1..x
      BY <1>3, <2>2
    <3>2. Awaits(s.queue[f[L] + 1], s.cmds[1].k)
      BY <1>7, <3>1
    <3> QED BY <1>4, <1>8, <3>1, <3>2
  <2> QED BY <2>1, <2>2
<1>12. ASSUME NEW j \in 1..(x - 1) PROVE Awaits(t.queue[g[L + 1] + j], t.cmds[j].k)
  <2>1. j + 1 \in 1..x /\ f[L] + 1 + j = f[L] + (j + 1)
    BY <1>3, <1>8
  <2>2. Awaits(s.queue[f[L] + (j + 1)], s.cmds[j + 1].k)
    BY <1>7, <2>1
  <2> QED BY <1>5, <1>8, <2>1, <2>2
<1>13. Len(t.queue) = g[L + 1] + Len(t.cmds) /\ g[L + 1] <= Len(t.queue) /\ Len(t.cmds) = x - 1
  <2> DEFINE k == f[L]  y == Len(t.cmds)  h == g[L + 1]
  <2>1. k \in Nat /\ a = k + x /\ y = x - 1 /\ h = k + 1
    BY <1>5, <1>7, <1>8
  <2>2. Len(t.queue) = a
    BY DEF a
  <2> HIDE DEF k, y, h
  <2>3. a = h + y /\ h <= a /\ y = x - 1
    BY <1>3, <2>1
  <2> QED BY <2>2, <2>3 DEF y, h
<1>14. InOrder(g, t, v, TRUE)
  <2>1. Len(v) = L + 1
    BY <1>4
  <2> QED BY <1>10, <1>11, <1>12, <1>13, <2>1 DEF InOrder
<1> QED BY <1>14 DEF Matched, v

\* Without its first line the wire still answers in order.
LEMMA CountsTail ==
  ASSUME NEW f, NEW w, IsSeq(w), w # <<>>, Counts(f, w)
  PROVE  /\ f[1] = IF w[1].k \in Asked THEN 1 ELSE 0
         /\ Counts([n \in 0..(Len(w) - 1) |-> f[n + 1] - f[1]], Tail(w))
         /\ \A n \in 0..(Len(w) - 1) : f[n + 1] \in Nat /\ f[1] <= f[n + 1]
<1> DEFINE L == Len(w)  v == Tail(w)  g == [n \in 0..(L - 1) |-> f[n + 1] - f[1]]
<1>1. L \in Nat \ {0} /\ Len(v) = L - 1 /\ \A i \in 1..(L - 1) : v[i] = w[i + 1]
  BY SeqTail
<1>2. /\ f[0] = 0 /\ \A n \in 0..L : f[n] \in Nat
      /\ \A n \in 1..L : f[n] = f[n - 1] + (IF w[n].k \in Asked THEN 1 ELSE 0)
      /\ \A i, j \in 0..L : i <= j => f[i] <= f[j]
  BY CountsFacts DEF Counts
<1> HIDE DEF L, v
<1>3. f[1] = (IF w[1].k \in Asked THEN 1 ELSE 0)
  <2>1. 1 \in 1..L
    BY <1>1
  <2> QED BY <1>2, <2>1
<1>4. ASSUME NEW n \in 0..(L - 1) PROVE f[n + 1] \in Nat /\ f[1] <= f[n + 1] /\ n + 1 \in 0..L /\ f[1] \in Nat
  <2>1. n + 1 \in 0..L /\ 1 \in 0..L /\ 1 <= n + 1
    BY <1>1
  <2> QED BY <1>2, <2>1
<1>5. g \in [0..(L - 1) -> Nat] /\ g[0] = 0
  <2>1. ASSUME NEW n \in 0..(L - 1) PROVE f[n + 1] - f[1] \in Nat
    BY <1>4
  <2>2. 0 \in 0..(L - 1) /\ f[1] \in Nat
    BY <1>1, <1>3
  <2> QED BY <2>1, <2>2
<1>6. ASSUME NEW n \in 1..(L - 1) PROVE g[n] = g[n - 1] + (IF v[n].k \in Asked THEN 1 ELSE 0)
  <2>1. n \in 0..(L - 1) /\ n - 1 \in 0..(L - 1) /\ n + 1 \in 1..L /\ (n + 1) - 1 = n /\ (n - 1) + 1 = n
    BY <1>1
  <2>2. g[n] = f[n + 1] - f[1] /\ g[n - 1] = f[n] - f[1] /\ v[n] = w[n + 1]
    BY <1>1, <2>1
  <2>3. f[n + 1] = f[n] + (IF w[n + 1].k \in Asked THEN 1 ELSE 0) /\ f[n] \in Nat /\ f[1] \in Nat
    BY <1>2, <1>4, <2>1
  <2> HIDE DEF g
  <2> QED BY <2>2, <2>3
<1>7. ASSUME NEW i \in 0..(L - 1), NEW j \in 0..(L - 1), i <= j PROVE g[i] <= g[j]
  <2>1. f[i + 1] <= f[j + 1] /\ f[i + 1] \in Nat /\ f[j + 1] \in Nat /\ f[1] \in Nat
    BY <1>2, <1>4, <1>7
  <2>2. g[i] = f[i + 1] - f[1] /\ g[j] = f[j + 1] - f[1]
    OBVIOUS
  <2> HIDE DEF g
  <2> QED BY <2>1, <2>2
<1>8. Counts(g, v)
  <2> HIDE DEF g
  <2> QED BY <1>1, <1>5, <1>6, <1>7 DEF Counts
<1> QED BY <1>3, <1>4, <1>8 DEF g, v, L

LEMMA MatchedTail ==
  ASSUME NEW s, IsSeq(s.queue), NEW w, IsSeq(w), w # <<>>, NEW up \in BOOLEAN, Matched(s, w, up),
         w[1].k \notin Asked
  PROVE  Matched(s, Tail(w), up)
<1> DEFINE L == Len(w)  v == Tail(w)
<1>1. PICK f : InOrder(f, s, w, up)
  BY DEF Matched
<1> DEFINE g == [n \in 0..(L - 1) |-> f[n + 1] - f[1]]
<1>2. /\ Counts(g, v) /\ f[1] = 0 /\ \A n \in 0..(L - 1) : f[n + 1] \in Nat
  <2>1. Counts(f, w)
    BY <1>1 DEF InOrder
  <2> QED BY <2>1, CountsTail
<1>3. L \in Nat \ {0} /\ Len(v) = L - 1 /\ \A i \in 1..(L - 1) : v[i] = w[i + 1]
  BY SeqTail
<1>4. /\ f[L] <= Len(s.queue)
      /\ \A n \in 1..L : w[n].k \in Asked => Awaits(s.queue[f[n]], w[n].k)
      /\ up => /\ Len(s.queue) = f[L] + Len(s.cmds)
               /\ \A j \in 1..Len(s.cmds) : Awaits(s.queue[f[L] + j], s.cmds[j].k)
  BY <1>1 DEF InOrder
<1> HIDE DEF L, v
<1>5. ASSUME NEW n \in 0..(L - 1) PROVE g[n] = f[n + 1]
  BY <1>2
<1>6. g[L - 1] = f[L]
  <2>1. L - 1 \in 0..(L - 1) /\ (L - 1) + 1 = L
    BY <1>3
  <2> HIDE DEF g
  <2> QED BY <1>5, <2>1
<1> HIDE DEF g
<1>7. ASSUME NEW n \in 1..(L - 1), v[n].k \in Asked PROVE Awaits(s.queue[g[n]], v[n].k)
  <2>1. n \in 0..(L - 1) /\ n + 1 \in 1..L
    BY <1>3
  <2>2. g[n] = f[n + 1] /\ v[n] = w[n + 1]
    BY <1>3, <1>5, <2>1
  <2> QED BY <1>4, <1>7, <2>1, <2>2
<1>8. InOrder(g, s, v, up)
  BY <1>2, <1>3, <1>4, <1>6, <1>7 DEF InOrder
<1> QED BY <1>8 DEF Matched, v

\* The first line, when it is an answer, is for the callback that waits first.
LEMMA MatchedTaken ==
  ASSUME NEW s, Client(s), NEW w, IsSeq(w), w # <<>>, NEW up \in BOOLEAN, Matched(s, w, up),
         w[1].k \in Asked
  PROVE  /\ s.queue # <<>> /\ Awaits(Head(s.queue), w[1].k)
         /\ \A t : t.queue = Tail(s.queue) /\ t.cmds = s.cmds => Matched(t, Tail(w), up)
<1> DEFINE L == Len(w)  v == Tail(w)  a == Len(s.queue)
<1>1. PICK f : InOrder(f, s, w, up)
  BY DEF Matched
<1> DEFINE g == [n \in 0..(L - 1) |-> f[n + 1] - f[1]]
<1>2. /\ Counts(g, v) /\ f[1] = 1 /\ \A n \in 0..(L - 1) : f[n + 1] \in Nat /\ f[1] <= f[n + 1]
  <2>1. Counts(f, w)
    BY <1>1 DEF InOrder
  <2> QED BY <2>1, CountsTail
<1>3. L \in Nat \ {0} /\ Len(v) = L - 1 /\ \A i \in 1..(L - 1) : v[i] = w[i + 1]
  BY SeqTail
<1>4. /\ f[L] <= a
      /\ \A n \in 1..L : w[n].k \in Asked => Awaits(s.queue[f[n]], w[n].k)
  BY <1>1 DEF InOrder
<1>5. up => a = f[L] + Len(s.cmds) /\ \A j \in 1..Len(s.cmds) : Awaits(s.queue[f[L] + j], s.cmds[j].k)
  BY <1>1 DEF InOrder
<1>6. /\ \A n \in 1..L : w[n].k \in Asked => f[n] \in 1..f[L]
      /\ \A n \in 0..L : f[n] \in Nat
      /\ \A n \in 1..L : f[n] <= f[L]
  <2>1. Counts(f, w)
    BY <1>1 DEF InOrder
  <2> QED BY <2>1, CountsFacts
<1>7. a \in Nat /\ Len(s.cmds) \in Nat
  BY SeqFacts DEF Client
<1>8. f[L] \in Nat /\ f[L] \in 1..a /\ a # 0
  <2>1. L \in 0..L /\ 1 \in 1..L
    BY <1>3
  <2>2. f[1] <= f[L] /\ f[L] \in Nat
    BY <1>6, <2>1
  <2> HIDE DEF a, L
  <2> QED BY <1>2, <1>4, <1>7, <2>2
<1>9. s.queue # <<>>
  BY <1>8, SeqEmpty
<1>10. /\ IsSeq(Tail(s.queue)) /\ Len(Tail(s.queue)) = a - 1 /\ Head(s.queue) = s.queue[1]
       /\ \A i \in 1..(a - 1) : Tail(s.queue)[i] = s.queue[i + 1]
  BY <1>9, SeqTail DEF Client
<1>11. Awaits(Head(s.queue), w[1].k)
  <2>1. 1 \in 1..L
    BY <1>3
  <2> QED BY <1>2, <1>4, <1>10, <2>1
<1>12. ASSUME NEW t, t.queue = Tail(s.queue), t.cmds = s.cmds PROVE Matched(t, v, up)
  <2> HIDE DEF L, v, a
  <2>1. ASSUME NEW n \in 0..(L - 1) PROVE g[n] = f[n + 1] - 1
    BY <1>2
  <2>2. g[L - 1] = f[L] - 1
    <3>1. L - 1 \in 0..(L - 1) /\ (L - 1) + 1 = L
      BY <1>3
    <3> HIDE DEF g
    <3> QED BY <2>1, <3>1
  <2> HIDE DEF g
  <2>3. ASSUME NEW n \in 1..(L - 1), v[n].k \in Asked PROVE Awaits(t.queue[g[n]], v[n].k)
    <3>1. n \in 0..(L - 1) /\ n + 1 \in 1..L
      BY <1>3
    <3>2. g[n] = f[n + 1] - 1 /\ v[n] = w[n + 1]
      BY <1>3, <2>1, <3>1
    <3>3. f[n + 1] \in 1..f[L] /\ Awaits(s.queue[f[n + 1]], w[n + 1].k)
      BY <1>4, <1>6, <2>3, <3>1, <3>2
    <3> DEFINE k == f[n + 1]
    <3>4. k \in 1..f[L] /\ k # 0 /\ f[n + 1] = k
      BY <3>3
    <3>5. g[n] # 0
      <4>1. g[n - 1] \in Nat /\ g[n] = g[n - 1] + 1
        <5>1. n \in 1..Len(v) /\ n - 1 \in 0..Len(v)
          BY <1>3
        <5> QED BY <1>2, <2>3, <5>1 DEF Counts
      <4> QED BY <4>1
    <3> HIDE DEF k
    <3>6. k \in 1..a /\ g[n] = k - 1
      BY <1>7, <1>8, <3>2, <3>4
    <3>7. g[n] \in 1..(a - 1) /\ g[n] + 1 = k
      <4> DEFINE h == g[n]
      <4> HIDE DEF h
      <4>1. h \in 1..(a - 1) /\ h + 1 = k
        BY <1>7, <3>5, <3>6 DEF h
      <4> QED BY <4>1 DEF h
    <3>8. t.queue[g[n]] = s.queue[k]
      BY <1>10, <3>7, <2>1, <1>12
    <3> QED BY <3>2, <3>3, <3>4, <3>8
  <2>4. g[L - 1] <= Len(t.queue) /\ Len(t.queue) = a - 1
    <3>1. Len(t.queue) = a - 1
      BY <1>10, <1>12
    <3> QED BY <1>7, <1>8, <2>2, <3>1
  <2>5. ASSUME up
        PROVE  /\ Len(t.queue) = g[L - 1] + Len(t.cmds)
               /\ \A j \in 1..Len(t.cmds) : Awaits(t.queue[g[L - 1] + j], t.cmds[j].k)
    <3> DEFINE k == f[L]  x == Len(s.cmds)
    <3>1. a = k + x /\ k \in 1..a /\ x \in Nat /\ g[L - 1] = k - 1
      BY <1>5, <1>7, <1>8, <2>2, <2>5
    <3>2. \A j \in 1..x : Awaits(s.queue[k + j], s.cmds[j].k)
      BY <1>5, <2>5
    <3>3. Len(t.cmds) = x /\ Len(t.queue) = a - 1 /\ t.cmds = s.cmds
      BY <1>12, <2>4
    <3> HIDE DEF k, x
    <3>4. a - 1 = (k - 1) + x
      BY <1>7, <3>1
    <3>5. ASSUME NEW j \in 1..x PROVE Awaits(t.queue[(k - 1) + j], s.cmds[j].k)
      <4>1. (k - 1) + j \in 1..(a - 1) /\ ((k - 1) + j) + 1 = k + j
        BY <1>7, <3>1
      <4>2. t.queue[(k - 1) + j] = s.queue[k + j]
        BY <1>10, <1>12, <4>1
      <4> QED BY <3>2, <4>2
    <3> QED BY <3>1, <3>3, <3>4, <3>5
  <2>6. InOrder(g, t, v, up)
    BY <1>2, <1>3, <2>3, <2>4, <2>5 DEF InOrder
  <2> QED BY <2>6 DEF Matched
<1> QED BY <1>9, <1>11, <1>12

-----------------------------------------------------------------------------
(* One line read.                                                           *)

LEMMA ParseLineSends ==
  ASSUME NEW s, Client(s), NEW line, LineOK(line), line.k \in Notices
  PROVE  Sends(s, ParseLine(s, line))
<1>1. CASE line.k = "output"
  BY <1>1, OnOutputOK DEF ParseLine
<1>2. CASE line.k = "window-add"
  BY <1>2, OnWindowAddOK DEF ParseLine
<1>3. CASE line.k = "window-close"
  BY <1>3, OnWindowCloseOK DEF ParseLine
<1>4. CASE line.k = "layout-change"
  <2>1. IsSeq(line.list)
    BY <1>4 DEF LineOK
  <2> QED BY <1>4, <2>1, OnLayoutChangeOK DEF ParseLine
<1>5. CASE line.k = "session-changed"
  BY <1>5, OnSessionChangedOK DEF ParseLine
<1>6. CASE line.k = "window-changed"
  BY <1>6, OnSessionWindowChangedOK DEF ParseLine
<1>7. CASE line.k = "exit"
  BY <1>7, OnExitOK DEF ParseLine
<1>8. CASE line.k = "ST"
  <2>1. Sends(s, s)
    BY SendsNone DEF Client
  <2> QED BY <1>8, <2>1 DEF ParseLine
<1> QED BY <1>1, <1>2, <1>3, <1>4, <1>5, <1>6, <1>7, <1>8 DEF Notices

LEMMA ParseLineBlock ==
  ASSUME NEW s, NEW line, line.k \notin Notices
  PROVE  ParseLine(s, line) = OnBlock(s, line)
BY DEF ParseLine, Notices

\* A block takes the callback that waits first, and then what it does.
LEMMA OnBlockTakes ==
  ASSUME NEW s, Client(s), NEW line, LineOK(line), s.queue # <<>>
  PROVE  \E t : /\ Client(t) /\ Sends(t, OnBlock(s, line))
                /\ t.queue = Tail(s.queue) /\ t.cmds = s.cmds /\ t.early = s.early
                /\ line.k \in Asked /\ Awaits(Head(s.queue), line.k) /\ ~s.crossed => ~t.crossed
<1> DEFINE then == Head(s.queue)
           ask == CASE then.k = "added" -> "list" [] OTHER -> then.k
           t == [s EXCEPT !.queue = Tail(@),
                          !.crossed = @ \/ line.k = "attached" \/ (ask # "none" /\ ask # line.k)]
<1>1. OnBlock(s, line) = Answered(t, then, line)
  BY DEF OnBlock
<1>2. DOMAIN t = ClientFields /\ t.queue = Tail(s.queue) /\ t.cmds = s.cmds /\ t.early = s.early
      /\ t.crossed = (s.crossed \/ line.k = "attached" \/ (ask # "none" /\ ask # line.k))
  <2> HIDE DEF ask
  <2> QED BY DEF Client, ClientFields
<1>3. ask = IF then.k = "added" THEN "list" ELSE then.k
  OBVIOUS
<1> HIDE DEF t, ask
<1>4. Client(t)
  BY <1>2, SeqTail DEF Client
<1> HIDE DEF then
<1>5. Sends(t, OnBlock(s, line))
  BY <1>1, <1>4, AnsweredOK
<1>6. line.k \in Asked /\ Awaits(then, line.k) /\ ~s.crossed => ~t.crossed
  BY <1>2, <1>3 DEF Awaits, Asked
<1> QED BY <1>2, <1>4, <1>5, <1>6 DEF then

-----------------------------------------------------------------------------
(* The invariant.                                                           *)

\* Only the first line can be the block that tells of the attachment.
WireOK(w) == IsSeq(w) /\ \A i \in 1..Len(w) : LineOK(w[i]) /\ (i # 1 => w[i].k # "attached")

\* Nothing is sent before that block, and there is nothing to type into.
Unsent(s) == s.queue = <<>> /\ s.cmds = <<>> /\ s.m = NoTabs

Answering(s, w, g, up) ==
    /\ ~s.crossed
    /\ g = "client" => /\ Matched(s, w, up)
                       /\ w # <<>> /\ w[1].k = "attached" => Unsent(s)

TmuxInv ==
    /\ ServerOK(srv) /\ WireOK(wire) /\ Client(c) /\ AllAsked(c)
    /\ ~c.early => Answering(c, wire, gw, srv.up)

LEMMA MatchedSame ==
  ASSUME NEW s, NEW w, NEW up \in BOOLEAN, Matched(s, w, up), NEW t, t.queue = s.queue, t.cmds = s.cmds
  PROVE  Matched(t, w, up)
BY DEF Matched, InOrder

LEMMA MatchedDown ==
  ASSUME NEW s, NEW w, Matched(s, w, FALSE), NEW t, t.queue = s.queue
  PROVE  Matched(t, w, FALSE)
BY DEF Matched, InOrder

LEMMA WireTail ==
  ASSUME NEW w, WireOK(w), w # <<>>
  PROVE  /\ WireOK(Tail(w)) /\ IsSeq(w) /\ LineOK(w[1]) /\ Head(w) = w[1]
         /\ Tail(w) # <<>> => Tail(w)[1].k # "attached"
<1>1. /\ IsSeq(w) /\ IsSeq(Tail(w)) /\ Len(Tail(w)) = Len(w) - 1 /\ Len(w) \in Nat \ {0} /\ Head(w) = w[1]
      /\ \A i \in 1..(Len(w) - 1) : Tail(w)[i] = w[i + 1]
  BY SeqTail DEF WireOK
<1>2. ASSUME NEW i \in 1..(Len(w) - 1) PROVE LineOK(Tail(w)[i]) /\ Tail(w)[i].k # "attached"
  <2>1. i + 1 \in 1..Len(w) /\ i + 1 # 1
    BY <1>1
  <2> QED BY <1>1, <2>1 DEF WireOK
<1>3. Tail(w) # <<>> => 1 \in 1..(Len(w) - 1)
  <2>1. Tail(w) # <<>> => Len(Tail(w)) \in Nat \ {0}
    BY <1>1, SeqTail
  <2> QED BY <1>1, <2>1
<1>4. 1 \in 1..Len(w)
  BY <1>1
<1> QED BY <1>1, <1>2, <1>3, <1>4 DEF WireOK

LEMMA WireMore ==
  ASSUME NEW w, WireOK(w), NEW lines, IsSeq(lines),
         \A i \in 1..Len(lines) : LineOK(lines[i]) /\ lines[i].k # "attached"
  PROVE  /\ WireOK(w \o lines)
         /\ w \o lines # <<>> /\ (w \o lines)[1].k = "attached" => w # <<>> /\ w[1].k = "attached"
<1> DEFINE v == w \o lines  L == Len(w)
<1>1. /\ IsSeq(v) /\ \A i \in 1..L : v[i] = w[i]
      /\ \A i \in 1..Len(v) : i \in 1..L \/ (i - L \in 1..Len(lines) /\ v[i] = lines[i - L])
  BY SeqConcat DEF WireOK
<1>2. L \in Nat /\ Len(v) \in Nat
  BY <1>1, SeqFacts DEF WireOK
<1> HIDE DEF v, L
<1>3. ASSUME NEW i \in 1..Len(v)
      PROVE  LineOK(v[i]) /\ (v[i].k = "attached" => i \in 1..L /\ v[i] = w[i])
  BY <1>1 DEF WireOK, L
<1>4. WireOK(v)
  BY <1>1, <1>3 DEF WireOK, L
<1>5. ASSUME v # <<>>, v[1].k = "attached" PROVE w # <<>> /\ w[1].k = "attached"
  <2>1. Len(v) \in Nat \ {0}
    BY <1>1, <1>5, SeqTail
  <2>2. 1 \in 1..L /\ v[1] = w[1]
    BY <1>3, <1>5, <2>1
  <2>3. w # <<>>
    BY <1>2, <2>2, SeqEmpty DEF L
  <2> QED BY <1>5, <2>2, <2>3
<1> QED BY <1>4, <1>5 DEF v

LEMMA QuietSaid ==
  ASSUME NEW lines, Quiet(lines)
  PROVE  IsSeq(lines) /\ \A i \in 1..Len(lines) : LineOK(lines[i]) /\ lines[i].k # "attached"
BY DEF Quiet, Notices

\* A step of the window alone keeps the invariant when it keeps what waits.
LEMMA WindowStep ==
  ASSUME TmuxInv, UNCHANGED <<srv, wire>>, gw' = "client" => gw = "client", DOMAIN c' = ClientFields,
         c'.queue = c.queue, c'.cmds = c.cmds, c'.crossed = c.crossed, ~c'.early => ~c.early,
         c.m = NoTabs => c'.m = NoTabs
  PROVE  TmuxInv'
<1>1. ServerOK(srv') /\ WireOK(wire') /\ Client(c') /\ AllAsked(c')
  BY DEF TmuxInv, Client, AllAsked
<1>2. ASSUME ~c'.early PROVE Answering(c', wire', gw', srv'.up)
  <2>1. Answering(c, wire, gw, srv.up) /\ srv.up \in BOOLEAN
    BY <1>2 DEF TmuxInv, ServerOK
  <2>2. ASSUME gw' = "client" PROVE Matched(c', wire', srv'.up)
    <3>1. Matched(c, wire, srv.up)
      BY <2>1, <2>2 DEF Answering
    <3> QED BY <2>1, <3>1, MatchedSame
  <2> QED BY <2>1, <2>2 DEF Answering, Unsent
<1> QED BY <1>1, <1>2 DEF TmuxInv

\* So does a step that sends, unless the first block is still to be read.
LEMMA WindowSends ==
  ASSUME TmuxInv, UNCHANGED <<srv, wire, gw>>, NEW s, Client(s), Sends(s, c'),
         s.queue = c.queue, s.cmds = c.cmds, s.crossed = c.crossed,
         ~c'.early => ~c.early /\ ~(gw = "client" /\ wire # <<>> /\ wire[1].k = "attached")
  PROVE  TmuxInv'
<1>1. ServerOK(srv') /\ WireOK(wire')
  BY DEF TmuxInv
<1>2. Client(c') /\ c'.crossed = s.crossed
  BY SendsClient
<1>3. AllAsked(c')
  <2>1. AllAsked(s)
    BY DEF TmuxInv, AllAsked
  <2> QED BY <2>1, AskedStays
<1>4. ASSUME ~c'.early PROVE Answering(c', wire', gw', srv'.up)
  <2>1. Answering(c, wire, gw, srv.up) /\ srv.up \in BOOLEAN
    BY <1>4 DEF TmuxInv, ServerOK
  <2>2. ~c'.crossed
    BY <1>2, <2>1 DEF Answering
  <2>3. ASSUME gw' = "client" PROVE Matched(c', wire', srv'.up)
    <3>1. Matched(c, wire, srv.up)
      BY <2>1, <2>3 DEF Answering
    <3>2. Matched(s, wire, srv.up)
      BY <2>1, <3>1, MatchedSame
    <3>3. Matched(c', wire, srv.up)
      BY <3>2, MatchedSends DEF TmuxInv, WireOK
    <3> QED BY <3>3
  <2> QED BY <1>4, <2>2, <2>3 DEF Answering
<1> QED BY <1>1, <1>2, <1>3, <1>4 DEF TmuxInv

LEMMA InitInv == Init => TmuxInv
<1> SUFFICES ASSUME Init PROVE TmuxInv
  OBVIOUS
<1>1. ServerOK(srv)
  <2>0. DOMAIN srv = ServerFields /\ srv.up = TRUE /\ srv.nextW = 2 /\ srv.cur = 1
    BY DEF Init, ServerFields
  <2>1. srv.wins = <<<<1>>>> /\ srv.act = <<1>>
    BY DEF Init
  <2>2. DOMAIN <<<<1>>>> = {1} /\ <<<<1>>>>[1] = <<1>> /\ <<1>>[1] = 1 /\ IsSeq(<<1>>) /\ 1 \in ToSet(<<1>>)
    BY SeqOne DEF ToSet
  <2>3. <<<<1>>>> = [w \in {1} |-> <<1>>] /\ <<1>> = [w \in {1} |-> 1]
    BY <2>2
  <2>4. Windows(srv) = {1} /\ srv.wins[1] = <<1>> /\ srv.act[1] = 1
    BY <2>1, <2>2 DEF Windows
  <2>5. srv.wins = [w \in {1} |-> srv.wins[w]] /\ srv.act = [w \in {1} |-> srv.act[w]]
    BY <2>1, <2>3
  <2>6. \A w \in {1} : IsSeq(srv.wins[w]) /\ srv.act[w] \in ToSet(srv.wins[w])
    BY <2>2, <2>4
  <2>u. srv.up \in BOOLEAN
    BY <2>0, Zenon
  <2>7. /\ DOMAIN srv = ServerFields /\ srv.up \in BOOLEAN /\ srv.nextW \in Nat /\ srv.cur \in {1}
        /\ {1} \subseteq Nat
    BY <2>0, <2>u
  <2>8. Windows(srv) = {1}
    BY <2>4
  <2> QED BY <2>5, <2>6, <2>7, <2>8 DEF ServerOK
<1> DEFINE first == Line("attached", 0)  second == Line("session-changed", 0)
<1>2. IsSeq(wire) /\ Len(wire) = 2 /\ wire[1] = first /\ wire[2] = second
  BY SeqTwo DEF Init
<1>3. /\ first.k = "attached" /\ second.k = "session-changed" /\ LineOK(first) /\ LineOK(second)
  BY DEF Line, LineOK, Notices
<1>4. WireOK(wire)
  BY <1>2, <1>3 DEF WireOK
<1>5. DOMAIN c = ClientFields /\ c.queue = <<>> /\ c.cmds = <<>> /\ c.m = NoTabs /\ c.crossed = FALSE
  BY DEF Init, ClientFields
<1>6. Client(c) /\ AllAsked(c) /\ Unsent(c)
  BY <1>5, SeqEmpty DEF Client, AllAsked, Unsent
<1>7. Matched(c, wire, srv.up)
  <2> DEFINE f == [n \in 0..2 |-> 0]
  <2>1. \A n \in 1..2 : wire[n].k \notin Asked
    BY <1>2, <1>3 DEF Asked
  <2>2. f \in [0..2 -> Nat] /\ f[0] = 0 /\ f[2] = 0
        /\ (\A n \in 1..2 : f[n] = f[n - 1]) /\ (\A n \in 1..2 : f[n] \in Nat)
        /\ \A i, j \in 0..2 : i <= j => f[i] <= f[j]
    OBVIOUS
  <2> HIDE DEF f
  <2>3. Counts(f, wire)
    <3>1. ASSUME NEW n \in 1..2 PROVE f[n] = f[n - 1] + (IF wire[n].k \in Asked THEN 1 ELSE 0)
      BY <2>1, <2>2
    <3> QED BY <1>2, <2>2, <3>1 DEF Counts
  <2>4. InOrder(f, c, wire, srv.up)
    <3>1. Len(c.queue) = 0 /\ Len(c.cmds) = 0
      BY <1>5, SeqEmpty
    <3> QED BY <1>2, <2>1, <2>2, <2>3, <3>1 DEF InOrder
  <2> QED BY <2>4 DEF Matched
<1> QED BY <1>1, <1>4, <1>5, <1>6, <1>7 DEF TmuxInv, Answering

LEMMA ReceiveInv ==
  ASSUME TmuxInv, Receive PROVE TmuxInv'
<1> DEFINE line == Head(wire)
<1>1. /\ wire # <<>> /\ wire' = Tail(wire) /\ srv' = srv
      /\ gw' = GatewayAfter(line, torn') /\ c' = IF gw = "client" THEN ParseLine(c, line) ELSE c
  BY DEF Receive, Reads
<1>2. /\ WireOK(wire') /\ IsSeq(wire) /\ line = wire[1] /\ LineOK(line)
      /\ wire' # <<>> => wire'[1].k # "attached"
  BY <1>1, WireTail DEF TmuxInv
<1>3. ServerOK(srv') /\ Client(c) /\ AllAsked(c) /\ srv.up \in BOOLEAN
  BY <1>1 DEF TmuxInv, ServerOK
<1>4. gw' = "client" => gw = "client"
  BY <1>1 DEF GatewayAfter
<1> HIDE DEF line
<1>5. CASE gw # "client"
  <2>1. c' = c
    BY <1>1, <1>5
  <2>2. Client(c') /\ AllAsked(c')
    BY <1>3, <2>1
  <2>3. ~c'.early => Answering(c', wire', gw', srv'.up)
    BY <1>4, <1>5, <2>1 DEF TmuxInv, Answering
  <2> QED BY <1>2, <1>3, <2>2, <2>3 DEF TmuxInv
<1>6. CASE gw = "client"
  <2>1. c' = ParseLine(c, line)
    BY <1>1, <1>6
  <2>2. ASSUME ~c.early
        PROVE  /\ ~c.crossed /\ Matched(c, wire, srv.up) /\ (line.k = "attached" => Unsent(c))
    BY <1>1, <1>2, <1>6, <2>2 DEF TmuxInv, Answering
  <2>3. CASE line.k \in Notices
    <3>1. Sends(c, c')
      BY <1>2, <1>3, <2>1, <2>3, ParseLineSends
    <3>2. Client(c') /\ AllAsked(c') /\ c'.early = c.early /\ c'.crossed = c.crossed
      BY <1>3, <3>1, SendsClient, AskedStays
    <3>3. ASSUME ~c.early PROVE Answering(c', wire', gw', srv'.up)
      <4>1. line.k \notin Asked
        BY <2>3 DEF Asked, Notices
      <4>2. Matched(c, Tail(wire), srv.up)
        BY <1>1, <1>2, <1>3, <2>2, <3>3, <4>1, MatchedTail DEF Client
      <4>3. IsSeq(Tail(wire))
        BY <1>1, <1>2 DEF WireOK
      <4>4. Matched(c', Tail(wire), srv.up)
        BY <1>3, <3>1, <4>2, <4>3, MatchedSends
      <4> QED BY <1>1, <1>2, <2>2, <3>2, <3>3, <4>4 DEF Answering
    <3> QED BY <1>2, <1>3, <3>2, <3>3 DEF TmuxInv
  <2>4. CASE line.k \notin Notices /\ c.queue = <<>>
    <3>1. c' = c
      BY <2>1, <2>4, ParseLineBlock DEF OnBlock
    <3>2. ASSUME ~c.early PROVE Answering(c', wire', gw', srv'.up)
      <4>1. line.k \notin Asked
        BY <1>1, <1>2, <1>3, <2>2, <2>4, <3>2, MatchedTaken
      <4>2. Matched(c, Tail(wire), srv.up)
        BY <1>1, <1>2, <1>3, <2>2, <3>2, <4>1, MatchedTail DEF Client
      <4> QED BY <1>1, <1>2, <2>2, <3>1, <3>2, <4>2 DEF Answering
    <3> QED BY <1>2, <1>3, <3>1, <3>2 DEF TmuxInv
  <2>5. CASE line.k \notin Notices /\ c.queue # <<>>
    <3>1. c' = OnBlock(c, line)
      BY <2>1, <2>5, ParseLineBlock
    <3>2. PICK t : /\ Client(t) /\ Sends(t, c')
                   /\ t.queue = Tail(c.queue) /\ t.cmds = c.cmds /\ t.early = c.early
                   /\ line.k \in Asked /\ Awaits(Head(c.queue), line.k) /\ ~c.crossed => ~t.crossed
      BY <1>2, <1>3, <2>5, <3>1, OnBlockTakes
    <3>3. Client(c') /\ c'.early = c.early /\ c'.crossed = t.crossed
      BY <3>2, SendsClient
    <3>4. AllAsked(c')
      <4>1. AllAsked(t)
        BY <1>3, <3>2 DEF AllAsked
      <4> QED BY <3>2, <4>1, AskedStays
    <3>5. ASSUME ~c.early PROVE Answering(c', wire', gw', srv'.up)
      <4>1. line.k # "attached"
        BY <2>2, <2>5, <3>5 DEF Unsent
      <4>2. line.k \in Asked
        BY <1>2, <2>5, <4>1 DEF LineOK
      <4>3. /\ Awaits(Head(c.queue), line.k)
            /\ \A u : u.queue = Tail(c.queue) /\ u.cmds = c.cmds => Matched(u, Tail(wire), srv.up)
        BY <1>1, <1>2, <1>3, <2>2, <3>5, <4>2, MatchedTaken
      <4>4. ~t.crossed /\ Matched(t, Tail(wire), srv.up)
        BY <2>2, <3>2, <3>5, <4>2, <4>3
      <4>5. IsSeq(Tail(wire))
        BY <1>1, <1>2 DEF WireOK
      <4>6. Matched(c', Tail(wire), srv.up)
        BY <3>2, <4>4, <4>5, MatchedSends
      <4> QED BY <1>1, <1>2, <3>3, <4>4, <4>6 DEF Answering
    <3> QED BY <1>2, <1>3, <3>3, <3>4, <3>5 DEF TmuxInv
  <2> QED BY <2>3, <2>4, <2>5
<1> QED BY <1>5, <1>6

LEMMA SweepInv ==
  ASSUME TmuxInv, Sweep PROVE TmuxInv'
<1> SUFFICES ASSUME UNCHANGED <<srv, wire>>, c' = Gone(c), gw' = LetGo(gw) PROVE TmuxInv'
  BY DEF Sweep
<1>1. gw' # "client"
  BY DEF LetGo
<1>2. Client(c) /\ ServerOK(srv) /\ WireOK(wire) /\ AllAsked(c)
  BY DEF TmuxInv
<1>3. DOMAIN c' = ClientFields /\ c'.queue = <<>> /\ c'.cmds = c.cmds /\ c'.early = c.early /\ c'.crossed = c.crossed
  BY <1>2 DEF Gone, Client, ClientFields
<1>4. Client(c') /\ AllAsked(c')
  BY <1>2, <1>3, SeqEmpty DEF Client, AllAsked
<1>5. ~c'.early => Answering(c', wire', gw', srv'.up)
  BY <1>1, <1>3 DEF TmuxInv, Answering
<1> QED BY <1>2, <1>4, <1>5 DEF TmuxInv

LEMMA ReapEmptyInv ==
  ASSUME TmuxInv, ReapEmpty PROVE TmuxInv'
<1> SUFFICES ASSUME UNCHANGED <<srv, wire>>, c' = Gone(c), gw' = LetGo(gw) PROVE TmuxInv'
  BY DEF ReapEmpty
<1>1. gw' # "client"
  BY DEF LetGo
<1>2. Client(c) /\ ServerOK(srv) /\ WireOK(wire) /\ AllAsked(c)
  BY DEF TmuxInv
<1>3. DOMAIN c' = ClientFields /\ c'.queue = <<>> /\ c'.cmds = c.cmds /\ c'.early = c.early /\ c'.crossed = c.crossed
  BY <1>2 DEF Gone, Client, ClientFields
<1>4. Client(c') /\ AllAsked(c')
  BY <1>2, <1>3, SeqEmpty DEF Client, AllAsked
<1>5. ~c'.early => Answering(c', wire', gw', srv'.up)
  BY <1>1, <1>3 DEF TmuxInv, Answering
<1> QED BY <1>2, <1>4, <1>5 DEF TmuxInv

LEMMA ServerCommandInv ==
  ASSUME TmuxInv, ServerCommand PROVE TmuxInv'
<1> DEFINE cmd == Head(c.cmds)
           done == Obeyed(srv, cmd)
           block == [Line(cmd.k, 0) EXCEPT !.list = IF cmd.k = "list" THEN Rows(srv) ELSE @]
<1>1. /\ c.cmds # <<>> /\ c' = [c EXCEPT !.cmds = Tail(@)] /\ gw' = gw
      /\ IF srv.up THEN srv' = done.s /\ wire' = wire \o <<block>> \o done.lines ELSE UNCHANGED <<srv, wire>>
  BY DEF ServerCommand, Arrives
<1>2. ServerOK(srv) /\ WireOK(wire) /\ IsSeq(wire) /\ Client(c) /\ AllAsked(c) /\ srv.up \in BOOLEAN
  BY DEF TmuxInv, ServerOK, WireOK
<1>3. DOMAIN c' = ClientFields /\ c'.queue = c.queue /\ c'.cmds = Tail(c.cmds) /\ c'.early = c.early
      /\ c'.crossed = c.crossed
  BY <1>1, <1>2 DEF Client, ClientFields
<1>4. /\ IsSeq(c'.cmds) /\ cmd = c.cmds[1] /\ Len(c.cmds) \in Nat \ {0} /\ Len(c'.cmds) = Len(c.cmds) - 1
      /\ \A i \in 1..(Len(c.cmds) - 1) : c'.cmds[i] = c.cmds[i + 1]
  BY <1>1, <1>2, <1>3, SeqTail DEF Client
<1>5. Client(c')
  BY <1>2, <1>3, <1>4 DEF Client
<1>6. AllAsked(c') /\ cmd.k \in Asked
  <2>1. ASSUME NEW j \in 1..(Len(c.cmds) - 1) PROVE c'.cmds[j].k \in Asked
    <3>1. j + 1 \in 1..Len(c.cmds)
      BY <1>4
    <3> QED BY <1>2, <1>4, <3>1 DEF AllAsked
  <2>2. 1 \in 1..Len(c.cmds)
    BY <1>4
  <2> QED BY <1>2, <1>4, <2>1, <2>2 DEF AllAsked
<1> HIDE DEF cmd
<1>7. block.k = cmd.k /\ LineOK(block)
  <2>1. block = [k |-> cmd.k, n |-> 0, list |-> IF cmd.k = "list" THEN Rows(srv) ELSE <<>>]
    BY DEF Line
  <2>2. IsSeq(Rows(srv)) /\ \A i \in 1..Len(Rows(srv)) : IsSeq(Rows(srv)[i][2])
    BY <1>2, RowsFine
  <2> QED BY <1>6, <2>1, <2>2 DEF LineOK, Asked
<1> HIDE DEF block, done
<1>8. ASSUME ~c'.early
      PROVE  /\ Answering(c, wire, gw, srv.up) /\ ~c'.crossed
             /\ ~(gw = "client" /\ wire # <<>> /\ wire[1].k = "attached")
  <2>1. Answering(c, wire, gw, srv.up)
    BY <1>3, <1>8 DEF TmuxInv
  <2>2. ~c'.crossed
    BY <1>3, <2>1 DEF Answering
  <2>3. ~(gw = "client" /\ wire # <<>> /\ wire[1].k = "attached")
    BY <1>1, <2>1 DEF Answering, Unsent
  <2> QED BY <2>1, <2>2, <2>3
<1>9. CASE srv.up
  <2>1. srv' = done.s /\ wire' = wire \o <<block>> \o done.lines
    BY <1>1, <1>9
  <2>2. ServerOK(srv') /\ Quiet(done.lines) /\ srv'.up \in BOOLEAN
    <3>1. Fine(done)
      BY <1>2, <1>9, ObeyedFine DEF done
    <3> QED BY <2>1, <3>1 DEF Fine, ServerOK
  <2> DEFINE w == wire \o <<block>>
  <2>3. WireOK(w) /\ (w # <<>> /\ w[1].k = "attached" => wire # <<>> /\ wire[1].k = "attached")
    <3>1. IsSeq(<<block>>) /\ Len(<<block>>) = 1 /\ <<block>>[1] = block /\ block.k # "attached"
      BY <1>6, <1>7, SeqOne DEF Asked
    <3>2. \A i \in 1..Len(<<block>>) : LineOK(<<block>>[i]) /\ <<block>>[i].k # "attached"
      BY <1>7, <3>1
    <3> QED BY <1>2, <3>1, <3>2, WireMore
  <2>4. ASSUME Matched(c, wire, TRUE) PROVE Matched(c', w, TRUE)
    <3>1. c.cmds[1].k \in Asked /\ block.k = c.cmds[1].k
      BY <1>4, <1>6, <1>7
    <3> QED BY <1>1, <1>2, <1>3, <2>4, <3>1, MatchedAnswer
  <2>5. wire' = w \o done.lines /\ IsSeq(w)
    BY <2>1, <2>3 DEF WireOK
  <2> HIDE DEF w
  <2>6. WireOK(wire') /\ (wire' # <<>> /\ wire'[1].k = "attached" => wire # <<>> /\ wire[1].k = "attached")
    <3>1. WireOK(wire') /\ (wire' # <<>> /\ wire'[1].k = "attached" => w # <<>> /\ w[1].k = "attached")
      BY <2>2, <2>3, <2>5, QuietSaid, WireMore
    <3> QED BY <2>3, <3>1
  <2>7. ASSUME ~c'.early PROVE Answering(c', wire', gw', srv'.up)
    <3>1. ASSUME gw' = "client" PROVE Matched(c', wire', srv'.up)
      <4>1. srv.up = TRUE
        BY <1>2, <1>9
      <4>2. Matched(c, wire, srv.up)
        BY <1>1, <1>8, <2>7, <3>1 DEF Answering
      <4>3. Matched(c', w, TRUE)
        BY <2>4, <4>1, <4>2
      <4> QED BY <2>2, <2>5, <4>3, MatchedQuiet
    <3> QED BY <1>1, <1>8, <2>6, <2>7, <3>1 DEF Answering
  <2> QED BY <1>5, <1>6, <2>2, <2>6, <2>7 DEF TmuxInv
<1>10. CASE ~srv.up
  <2>1. srv' = srv /\ wire' = wire
    BY <1>1, <1>10
  <2>2. ASSUME ~c'.early PROVE Answering(c', wire', gw', srv'.up)
    <3>1. ASSUME gw' = "client" PROVE Matched(c', wire', srv'.up)
      <4>1. srv.up = FALSE
        BY <1>2, <1>10
      <4>2. Matched(c, wire, srv.up)
        BY <1>1, <1>8, <2>2, <3>1 DEF Answering
      <4> QED BY <1>3, <2>1, <4>1, <4>2, MatchedDown
    <3> QED BY <1>1, <1>8, <2>1, <2>2, <3>1 DEF Answering
  <2> QED BY <1>2, <1>5, <1>6, <2>1, <2>2 DEF TmuxInv
<1> QED BY <1>9, <1>10

LEMMA ElsewhereInv ==
  ASSUME TmuxInv, NEW done, Fine(done), NEW swapped, Elsewhere(done, swapped)
  PROVE  TmuxInv'
<1>1. /\ srv.up /\ srv' = done.s /\ wire' = wire \o done.lines /\ gw' = gw
      /\ c' = [c EXCEPT !.moved = @ \/ swapped]
  BY DEF Elsewhere
<1>2. WireOK(wire) /\ IsSeq(wire) /\ Client(c) /\ AllAsked(c) /\ srv.up = TRUE
  BY <1>1 DEF TmuxInv, ServerOK, WireOK
<1>3. ServerOK(srv') /\ Quiet(done.lines) /\ srv'.up \in BOOLEAN
  BY <1>1 DEF Fine, ServerOK
<1>4. DOMAIN c' = ClientFields /\ c'.queue = c.queue /\ c'.cmds = c.cmds /\ c'.early = c.early
      /\ c'.crossed = c.crossed /\ c'.m = c.m
  BY <1>1, <1>2 DEF Client, ClientFields
<1>5. Client(c') /\ AllAsked(c')
  BY <1>2, <1>4 DEF Client, AllAsked
<1>6. WireOK(wire') /\ (wire' # <<>> /\ wire'[1].k = "attached" => wire # <<>> /\ wire[1].k = "attached")
  BY <1>1, <1>2, <1>3, QuietSaid, WireMore
<1>7. ASSUME ~c'.early PROVE Answering(c', wire', gw', srv'.up)
  <2>1. Answering(c, wire, gw, TRUE)
    BY <1>2, <1>4, <1>7 DEF TmuxInv
  <2>2. ASSUME gw' = "client" PROVE Matched(c', wire', srv'.up)
    <3>1. Matched(c, wire, TRUE)
      BY <1>1, <2>1, <2>2 DEF Answering
    <3>2. Matched(c', wire, TRUE)
      BY <1>4, <3>1, MatchedSame
    <3> QED BY <1>1, <1>2, <1>3, <3>2, MatchedQuiet
  <2> QED BY <1>1, <1>4, <1>6, <2>1, <2>2 DEF Answering, Unsent
<1> QED BY <1>3, <1>5, <1>6, <1>7 DEF TmuxInv

LEMMA KeyInv ==
  ASSUME TmuxInv, NEW k \in {"new", "split", "kill", "keys"}, Key(k) PROVE TmuxInv'
<1> DEFINE cmd == Command(k, 0)
<1>1. UNCHANGED <<srv, wire, gw>> /\ FocusedPane(c.m) # 0 /\ c' = Send(c, cmd, NoCallback)
  BY DEF Key, User
<1>2. c.m # NoTabs
  BY <1>1 DEF FocusedPane, NoTabs
<1>3. cmd.k \in Asked
  BY DEF Command, Asked
<1> HIDE DEF cmd
<1>4. Client(c)
  BY DEF TmuxInv
<1>5. Sends(c, c')
  BY <1>1, <1>3, <1>4, SilentOK, SendOK
<1>6. c'.early = c.early
  BY <1>5, SendsClient
<1>7. ~c'.early => ~c.early /\ ~(gw = "client" /\ wire # <<>> /\ wire[1].k = "attached")
  BY <1>2, <1>6 DEF TmuxInv, Answering, Unsent
<1> QED BY <1>1, <1>4, <1>5, <1>7, WindowSends

LEMMA EarlyOK ==
  ASSUME NEW s, Client(s), IsSeq(wire)
  PROVE  /\ Client(Early(s)) /\ Early(s).queue = s.queue /\ Early(s).cmds = s.cmds /\ Early(s).crossed = s.crossed
         /\ ~Early(s).early => ~s.early /\ ~(wire # <<>> /\ wire[1].k = "attached")
<1> DEFINE t == [s EXCEPT !.early = @ \/ (wire # <<>> /\ Head(wire).k = "attached")]
<1>1. Early(s) = t
  BY DEF Early
<1>2. DOMAIN t = ClientFields /\ t.queue = s.queue /\ t.cmds = s.cmds /\ t.crossed = s.crossed
      /\ t.early = (s.early \/ (wire # <<>> /\ Head(wire).k = "attached"))
  BY DEF Client, ClientFields
<1> HIDE DEF t
<1>3. Client(t)
  BY <1>2 DEF Client
<1>4. wire # <<>> => Head(wire) = wire[1]
  BY SeqTail
<1>5. ~t.early => ~s.early /\ ~(wire # <<>> /\ wire[1].k = "attached")
  BY <1>2, <1>4
<1> QED BY <1>1, <1>2, <1>3, <1>5

LEMMA ResizeInv ==
  ASSUME TmuxInv, NEW size, Resize(size) PROVE TmuxInv'
<1> DEFINE cmd == Command("refresh", 0)
           t == [c EXCEPT !.size = size]
           s == Early(t)
<1>1. UNCHANGED <<srv, wire, gw>> /\ c' = Send(s, cmd, NoCallback)
  BY DEF Resize, User
<1>2. cmd.k \in Asked
  BY DEF Command, Asked
<1> HIDE DEF cmd
<1>3. Client(c) /\ IsSeq(wire)
  BY DEF TmuxInv, WireOK
<1>4. DOMAIN t = ClientFields /\ t.queue = c.queue /\ t.cmds = c.cmds /\ t.crossed = c.crossed /\ t.early = c.early
  BY <1>3 DEF Client, ClientFields
<1> HIDE DEF t
<1>5. Client(t)
  BY <1>3, <1>4 DEF Client
<1>6. /\ Client(s) /\ s.queue = c.queue /\ s.cmds = c.cmds /\ s.crossed = c.crossed
      /\ ~s.early => ~c.early /\ ~(wire # <<>> /\ wire[1].k = "attached")
  BY <1>3, <1>4, <1>5, EarlyOK
<1> HIDE DEF s
<1>7. Sends(s, c')
  BY <1>1, <1>2, <1>6, SilentOK, SendOK
<1>8. c'.early = s.early
  BY <1>7, SendsClient
<1>9. ~c'.early => ~c.early /\ ~(gw = "client" /\ wire # <<>> /\ wire[1].k = "attached")
  BY <1>6, <1>8
<1> QED BY <1>1, <1>6, <1>7, <1>9, WindowSends

LEMMA CloseWindowInv ==
  ASSUME TmuxInv, CloseWindow PROVE TmuxInv'
<1> DEFINE cmd == Command("detach", 0)
           s == Early(c)
           t == Send(s, cmd, NoCallback)
           u == [t EXCEPT !.active = FALSE, !.win = "closing"]
           v == [c EXCEPT !.active = FALSE, !.win = "closing"]
<1>1. UNCHANGED <<srv, wire, gw>> /\ c' = IF c.active THEN u ELSE v
  BY DEF CloseWindow, User
<1>2. cmd.k \in Asked
  BY DEF Command, Asked
<1> HIDE DEF cmd
<1>3. Client(c) /\ IsSeq(wire)
  BY DEF TmuxInv, WireOK
<1>4. CASE c.active
  <2>1. /\ Client(s) /\ s.queue = c.queue /\ s.cmds = c.cmds /\ s.crossed = c.crossed
        /\ ~s.early => ~c.early /\ ~(wire # <<>> /\ wire[1].k = "attached")
    BY <1>3, EarlyOK
  <2> HIDE DEF s
  <2>2. Sends(s, t) /\ Client(t)
    BY <1>2, <2>1, SilentOK, SendOK, SendsClient
  <2> HIDE DEF t
  <2>3. DOMAIN u = ClientFields /\ u.queue = t.queue /\ u.cmds = t.cmds /\ u.early = t.early /\ u.crossed = t.crossed
    BY <2>2 DEF Client, ClientFields
  <2>4. c' = u
    BY <1>1, <1>4
  <2> HIDE DEF u
  <2>5. Sends(s, c')
    BY <2>1, <2>2, <2>3, <2>4, SendsNone, SendsOn
  <2>6. ~c'.early => ~c.early /\ ~(gw = "client" /\ wire # <<>> /\ wire[1].k = "attached")
    BY <2>1, <2>5, SendsClient
  <2> QED BY <1>1, <2>1, <2>5, <2>6, WindowSends
<1>5. CASE ~c.active
  <2>1. DOMAIN v = ClientFields /\ v.queue = c.queue /\ v.cmds = c.cmds /\ v.early = c.early
        /\ v.crossed = c.crossed /\ v.m = c.m
    BY <1>3 DEF Client, ClientFields
  <2>2. c' = v
    BY <1>1, <1>5
  <2> HIDE DEF v
  <2> QED BY <1>1, <2>1, <2>2, WindowStep
<1> QED BY <1>4, <1>5

LEMMA ChooseInv ==
  ASSUME TmuxInv, Choose PROVE TmuxInv'
<1>1. UNCHANGED <<srv, wire, gw>> /\ c.m.act # 0
  BY DEF Choose, User
<1>2. PICK i \in Tabs(c.m) : \E p \in ToSet(c.m.tabs[i].panes) : c' = [c EXCEPT !.m.act = i, !.m.tabs[i].focus = p]
  BY DEF Choose
<1>3. PICK p : c' = [c EXCEPT !.m.act = i, !.m.tabs[i].focus = p]
  BY <1>2
<1>4. Client(c)
  BY DEF TmuxInv
<1>5. DOMAIN c' = ClientFields /\ c'.queue = c.queue /\ c'.cmds = c.cmds /\ c'.early = c.early
      /\ c'.crossed = c.crossed
  BY <1>3, <1>4 DEF Client, ClientFields
<1>6. c.m # NoTabs
  BY <1>1 DEF NoTabs
<1> QED BY <1>1, <1>5, <1>6, WindowStep

LEMMA CloseClickInv ==
  ASSUME TmuxInv, NEW i, CloseClick(i) PROVE TmuxInv'
<1>1. UNCHANGED <<srv, wire, gw>> /\ Len(c.m.tabs) > 1 /\ c' = [c EXCEPT !.m = CloseTab(@, i), !.here = TRUE]
  BY DEF CloseClick, User
<1>2. Client(c)
  BY DEF TmuxInv
<1>3. DOMAIN c' = ClientFields /\ c'.queue = c.queue /\ c'.cmds = c.cmds /\ c'.early = c.early
      /\ c'.crossed = c.crossed
  BY <1>1, <1>2 DEF Client, ClientFields
<1>4. c.m # NoTabs
  <2>1. NoTabs.tabs = <<>>
    BY DEF NoTabs
  <2> QED BY <1>1, <2>1, SeqEmpty
<1> QED BY <1>1, <1>3, <1>4, WindowStep

LEMMA NextInv == TmuxInv /\ [Next]_vars => TmuxInv'
<1> SUFFICES ASSUME TmuxInv, [Next]_vars PROVE TmuxInv'
  OBVIOUS
<1>s. ServerOK(srv)
  BY DEF TmuxInv
<1>1. CASE Receive
  BY <1>1, ReceiveInv
<1>2. CASE Sweep
  BY <1>2, SweepInv
<1>3. CASE ServerCommand
  BY <1>3, ServerCommandInv
<1>4. CASE Choose
  BY <1>4, ChooseInv
<1>5. CASE CloseWindow
  BY <1>5, CloseWindowInv
<1>6. CASE ReapEmpty
  BY <1>6, ReapEmptyInv
<1>7. ASSUME NEW k \in {"new", "split", "kill", "keys"}, Key(k) PROVE TmuxInv'
  BY <1>7, KeyInv
<1>8. ASSUME NEW i \in Tabs(c.m), CloseClick(i) PROVE TmuxInv'
  BY <1>8, CloseClickInv
<1>9. ASSUME NEW size \in Resizes, Resize(size) PROVE TmuxInv'
  BY <1>9, ResizeInv
<1>10. CASE Elsewhere(NewWindow(srv), FALSE)
  BY <1>10, <1>s, NewWindowFine, ElsewhereInv
<1>11. CASE Elsewhere(SplitWindow(srv), FALSE)
  <2>1. srv.up
    BY <1>11 DEF Elsewhere
  <2> QED BY <1>11, <1>s, <2>1, SplitWindowFine, ElsewhereInv
<1>12. ASSUME NEW w \in Windows(srv), NEW p \in ToSet(srv.wins[w]), Elsewhere(PaneEnds(srv, p), FALSE)
       PROVE  TmuxInv'
  BY <1>12, <1>s, PaneEndsFine, ElsewhereInv
<1>13. ASSUME NEW p, Elsewhere(Does(srv, <<Line("output", p)>>), FALSE) PROVE TmuxInv'
  <2>1. "output" \in Notices \ {"layout-change"}
    BY DEF Notices
  <2>2. Quiet(<<Line("output", p)>>)
    BY <2>1, LineFine, QuietOne
  <2>3. Fine(Does(srv, <<Line("output", p)>>))
    BY <1>s, <2>2 DEF Fine, Does
  <2> QED BY <1>13, <2>3, ElsewhereInv
<1>14. ASSUME NEW v \in Windows(srv), NEW w \in Windows(srv), v < w, Elsewhere(SwapPanes(srv, v, w), TRUE)
       PROVE  TmuxInv'
  BY <1>14, <1>s, SwapPanesFine, ElsewhereInv
<1>15. CASE UNCHANGED vars
  BY <1>15 DEF vars, TmuxInv, ServerOK, Windows, WireOK, Client, AllAsked, Answering, Matched, InOrder, Unsent
<1> QED BY <1>1, <1>2, <1>3, <1>4, <1>5, <1>6, <1>7, <1>8, <1>9, <1>10, <1>11, <1>12, <1>13, <1>14, <1>15 DEF Next

\* Every callback of a tmux window gets the answer to its own command, in every
\* order of what users, shells and tmux do, unless a command overtook the block
\* tmux sends when a client attaches (TmuxClient::parse_line, send_command).
THEOREM AnswersAlwaysMatch == Spec => []AnswersMatch
<1>1. TmuxInv => AnswersMatch
  BY DEF TmuxInv, AnswersMatch, Answering
<1> QED BY <1>1, InitInv, NextInv, PTL DEF Spec

=============================================================================
