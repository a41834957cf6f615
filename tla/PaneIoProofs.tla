---------------------------- MODULE PaneIoProofs -----------------------------
(***************************************************************************)
(* Input: nothing overtakes, nothing is lost, and a pane whose input waits *)
(* is always watched for room.  The argument is about one sequence, what   *)
(* the terminal took followed by what waits: a write appends to it, a      *)
(* flush only moves the boundary, and a hang-up or an upgrade cuts it      *)
(* there.                                                                  *)
(*                                                                         *)
(* Output: both ends parse the same.  A byte is parsed with a look at the  *)
(* next one of its read, so two reads are parsed as one unless they were   *)
(* cut in a string's terminator; and what is under way leads the replica   *)
(* to the parser's state however it is put together.                       *)
(***************************************************************************)
EXTENDS PaneIo, SequenceTheorems, WellFoundedInduction, TLAPS

\* The pieces of s are in the order written, none later than the k-th.
Ordered(s, k) ==
    /\ s \in Seq(Nat)
    /\ \A i \in 1..Len(s) : s[i] <= k
    /\ \A i, j \in 1..Len(s) : i < j => s[i] < s[j]

Numbers == typed \in Nat /\ held \in Nat /\ queue \in Seq(Nat) /\ got \in Seq(Nat)

Whole == ~lost /\ life = "open" => Len(got \o queue) = typed

\* What the pane remembers having asked for is what it asked for.
Watched ==
    /\ pty = [paused |-> pty.paused, armed |-> pty.armed, mask |-> pty.mask]
    /\ pty.armed = (queue # <<>>)
    /\ pty.mask = Mask(pty.paused, pty.armed)

InputInv == Numbers /\ Ordered(got \o queue, typed) /\ Whole /\ Watched

-----------------------------------------------------------------------------
LEMMA AppendOrdered ==
  ASSUME NEW k \in Nat, NEW s, Ordered(s, k)
  PROVE  Ordered(Append(s, k + 1), k + 1)
<1> DEFINE t == Append(s, k + 1)
<1>1. s \in Seq(Nat) /\ k + 1 \in Nat
  BY DEF Ordered
<1>2. t \in Seq(Nat) /\ Len(t) = Len(s) + 1 /\ t[Len(s) + 1] = k + 1
      /\ \A i \in 1..Len(s) : t[i] = s[i]
  BY <1>1
<1> HIDE DEF t
<1>3. ASSUME NEW i \in 1..Len(t) PROVE t[i] <= k + 1
  <2>1. CASE i = Len(s) + 1
    BY <1>2, <2>1
  <2>2. CASE i \in 1..Len(s)
    <3>1. t[i] = s[i] /\ s[i] \in Nat /\ s[i] <= k
      BY <1>1, <1>2, <2>2 DEF Ordered
    <3> QED BY <3>1
  <2>3. Len(s) \in Nat
    BY <1>1
  <2> QED BY <1>2, <2>1, <2>2, <2>3
<1>4. ASSUME NEW i \in 1..Len(t), NEW j \in 1..Len(t), i < j PROVE t[i] < t[j]
  <2>0. Len(s) \in Nat
    BY <1>1
  <2>1. i \in 1..Len(s) /\ t[i] = s[i] /\ s[i] \in Nat
    <3>1. i \in 1..Len(s)
      BY <1>2, <1>4, <2>0
    <3>2. s[i] \in Nat
      BY <1>1, <3>1
    <3> QED BY <1>2, <3>1, <3>2
  <2>2. CASE j = Len(s) + 1
    BY <1>2, <2>1, <2>2 DEF Ordered
  <2>3. CASE j \in 1..Len(s)
    BY <1>2, <1>4, <2>1, <2>3 DEF Ordered
  <2> QED BY <1>2, <2>0, <2>2, <2>3
<1>5. Ordered(t, k + 1)
  BY <1>2, <1>3, <1>4 DEF Ordered
<1> QED BY <1>5 DEF t

\* A write comes to wait behind all that was written.
LEMMA AppendConcat ==
  ASSUME NEW g \in Seq(Nat), NEW q \in Seq(Nat), NEW e \in Nat
  PROVE  g \o Append(q, e) = Append(g \o q, e)
OBVIOUS

\* What is dropped is dropped from the end.
LEMMA PrefixOrdered ==
  ASSUME NEW g \in Seq(Nat), NEW q \in Seq(Nat), NEW k \in Nat, Ordered(g \o q, k)
  PROVE  Ordered(g \o <<>>, k) /\ Ordered(g \o <<>>, k + 1)
<1>1. g \o <<>> = g
  OBVIOUS
<1>2. Len(g \o q) = Len(g) + Len(q) /\ \A i \in 1..Len(g) : (g \o q)[i] = g[i] /\ g[i] \in Nat
  OBVIOUS
<1>3. 1..Len(g) \subseteq 1..Len(g \o q)
  BY <1>2
<1>4. \A i \in 1..Len(g) : g[i] <= k /\ g[i] <= k + 1
  BY <1>2, <1>3 DEF Ordered
<1>5. \A i, j \in 1..Len(g) : i < j => g[i] < g[j]
  BY <1>2, <1>3 DEF Ordered
<1> QED BY <1>1, <1>4, <1>5 DEF Ordered

LEMMA RegroupConcat ==
  ASSUME NEW s \in Seq(Nat), NEW t \in Seq(Nat), NEW u \in Seq(Nat)
  PROVE  (s \o t) \o u = s \o (t \o u)
<1> DEFINE a == (s \o t) \o u
           b == s \o (t \o u)
<1>1. /\ s \o t \in Seq(Nat) /\ Len(s \o t) = Len(s) + Len(t)
      /\ t \o u \in Seq(Nat) /\ Len(t \o u) = Len(t) + Len(u)
  OBVIOUS
<1>2. a \in Seq(Nat) /\ b \in Seq(Nat) /\ Len(a) = Len(b)
  BY <1>1
<1>3. \A i \in 1..Len(a) : a[i] = b[i]
  BY <1>1
<1> HIDE DEF a, b
<1>4. a = b
  BY <1>2, <1>3, SeqEqual
<1> QED BY <1>4 DEF a, b

\* A flush moves pieces over the boundary.
LEMMA MoveConcat ==
  ASSUME NEW g \in Seq(Nat), NEW q \in Seq(Nat), NEW n \in 1..Len(q)
  PROVE  /\ g \o SubSeq(q, 1, n) \in Seq(Nat)
         /\ SubSeq(q, n + 1, Len(q)) \in Seq(Nat)
         /\ (g \o SubSeq(q, 1, n)) \o SubSeq(q, n + 1, Len(q)) = g \o q
<1> DEFINE a == SubSeq(q, 1, n)
           b == SubSeq(q, n + 1, Len(q))
<1>1. Len(q) \in Nat /\ 1 \in 1..Len(q)+1 /\ n \in 1-1..Len(q) /\ Len(q) \in n..Len(q)
  OBVIOUS
<1>2. a \o b = SubSeq(q, 1, Len(q))
  BY <1>1, ConcatAdjacentSubSeq
<1>3. SubSeq(q, 1, Len(q)) = q
  OBVIOUS
<1>4. a \in Seq(Nat) /\ b \in Seq(Nat)
  <2>1. a \in Seq(Nat)
    OBVIOUS
  <2>2. b \in Seq(Nat)
    OBVIOUS
  <2> QED BY <2>1, <2>2
<1> HIDE DEF a, b
<1>5. (g \o a) \o b = g \o q
  <2>1. (g \o a) \o b = g \o (a \o b)
    BY <1>4, RegroupConcat
  <2> QED BY <1>2, <1>3, <2>1
<1>6. g \o a \in Seq(Nat)
  BY <1>4
<1> QED BY <1>4, <1>5, <1>6 DEF a, b

\* The mask follows the queue whenever the interest is computed anew.
LEMMA InterestWatches ==
  ASSUME Watched, NEW q, pty' = WriteInterest(q), q = queue'
  PROVE  Watched'
<1>1. CASE pty.armed = (q # <<>>)
  BY <1>1 DEF Watched, WriteInterest
<1>2. CASE pty.armed # (q # <<>>)
  BY <1>2 DEF Watched, WriteInterest
<1> QED BY <1>1, <1>2

-----------------------------------------------------------------------------
\* Whatever leaves the input, the pty and the shell's life as they are.
LEMMA OutputStep ==
  ASSUME InputInv, UNCHANGED <<inVars, pty, life>> PROVE InputInv'
BY DEF InputInv, Numbers, Whole, Watched, inVars, Ordered

LEMMA ShellStep ==
  ASSUME InputInv, ShellReads \/ ShellExits \/ Die PROVE InputInv'
<1>1. Numbers'
  BY DEF InputInv, Numbers, ShellReads, ShellExits, Die, inVars
<1>2. UNCHANGED <<queue, got, typed, lost, pty>>
  BY DEF ShellReads, ShellExits, Die, inVars
<1>3. life' = "open" => life = "open"
  BY DEF ShellReads, ShellExits, Die
<1>4. Ordered(got \o queue, typed)' /\ Whole' /\ Watched'
  BY <1>2, <1>3 DEF InputInv, Ordered, Whole, Watched
<1> QED BY <1>1, <1>4 DEF InputInv

LEMMA WriteStep ==
  ASSUME InputInv, Write PROVE InputInv'
<1> DEFINE e == typed + 1
<1>1. /\ typed \in Nat /\ e \in Nat /\ typed' = e /\ lost' = lost /\ life' = life
      /\ held \in Nat /\ queue \in Seq(Nat) /\ got \in Seq(Nat)
  BY DEF InputInv, Numbers, Write
<1>2. Watched'
  BY InterestWatches DEF InputInv, Write
<1>3. Ordered(Append(got \o queue, e), e)
  BY <1>1, AppendOrdered DEF InputInv
<1>4. Len(Append(got \o queue, e)) = Len(got \o queue) + 1
  BY <1>1
<1>5. CASE life = "open" /\ queue = <<>> /\ got' = Append(got, e) /\ held' = held + 1 /\ queue' = queue
  <2>1. got \o queue = got /\ got' \o queue' = Append(got, e)
    BY <1>1, <1>5
  <2>2. Numbers'
    BY <1>1, <1>5 DEF Numbers
  <2>3. Ordered(got \o queue, typed)' /\ Whole'
    BY <1>1, <1>3, <1>4, <2>1 DEF InputInv, Whole
  <2> QED BY <1>2, <2>2, <2>3 DEF InputInv
<1>6. CASE queue' = Append(queue, e) /\ got' = got /\ held' = held
  <2>1. got' \o queue' = Append(got \o queue, e)
    BY <1>1, <1>6, AppendConcat
  <2>2. Numbers'
    BY <1>1, <1>6 DEF Numbers
  <2>3. Ordered(got \o queue, typed)' /\ Whole'
    BY <1>1, <1>3, <1>4, <2>1 DEF InputInv, Whole
  <2> QED BY <1>2, <2>2, <2>3 DEF InputInv
<1>7. CASE life = "hup" /\ queue' = <<>> /\ got' = got /\ held' = held
  <2>1. Ordered(got' \o queue', typed')
    BY <1>1, <1>7, PrefixOrdered DEF InputInv
  <2>2. Numbers' /\ Whole'
    BY <1>1, <1>7 DEF Numbers, Whole
  <2> QED BY <1>2, <2>1, <2>2 DEF InputInv
<1>8. \/ life = "open" /\ queue = <<>> /\ got' = Append(got, e) /\ held' = held + 1 /\ queue' = queue
      \/ queue' = Append(queue, e) /\ got' = got /\ held' = held
      \/ life = "hup" /\ queue' = <<>> /\ got' = got /\ held' = held
  BY DEF Write
<1> QED BY <1>5, <1>6, <1>7, <1>8

LEMMA FlushStep ==
  ASSUME InputInv, Flush PROVE InputInv'
<1>1. /\ typed \in Nat /\ typed' = typed /\ lost' = lost /\ life' = life
      /\ held \in Nat /\ queue \in Seq(Nat) /\ got \in Seq(Nat)
      /\ Ordered(got \o queue, typed)
  BY DEF InputInv, Numbers, Flush
<1>2. Watched'
  BY InterestWatches DEF InputInv, Flush
<1>3. CASE life = "hup" /\ queue' = <<>> /\ got' = got /\ held' = held
  <2>1. Ordered(got' \o queue', typed')
    BY <1>1, <1>3, PrefixOrdered
  <2>2. Numbers' /\ Whole'
    BY <1>1, <1>3 DEF Numbers, Whole
  <2> QED BY <1>2, <2>1, <2>2 DEF InputInv
<1>4. ASSUME NEW n \in 1..Len(queue), life = "open", held' = held + n,
             got' = got \o SubSeq(queue, 1, n), queue' = SubSeq(queue, n + 1, Len(queue))
      PROVE  InputInv'
  <2>1. got' \in Seq(Nat) /\ queue' \in Seq(Nat) /\ got' \o queue' = got \o queue
    BY <1>1, <1>4, MoveConcat
  <2>2. Numbers'
    BY <1>1, <1>4, <2>1 DEF Numbers
  <2>3. Ordered(got \o queue, typed)' /\ Whole'
    BY <1>1, <2>1 DEF InputInv, Whole
  <2> QED BY <1>2, <2>2, <2>3 DEF InputInv
<1>5. CASE life = "open" /\ held < MaxTty /\ queue # <<>>
  <2> DEFINE n == IF Len(queue) <= MaxTty - held THEN Len(queue) ELSE MaxTty - held
  <2>1. n \in 1..Len(queue)
    <3>1. Len(queue) \in Nat /\ Len(queue) # 0
      BY <1>1, <1>5
    <3>2. MaxTty - held \in Nat /\ MaxTty - held # 0
      BY <1>1, <1>5, PaneIoAssumption
    <3> QED BY <3>1, <3>2
  <2>2. /\ got' = got \o SubSeq(queue, 1, n) /\ held' = held + n
        /\ queue' = SubSeq(queue, n + 1, Len(queue))
    BY <1>5 DEF Flush
  <2> HIDE DEF n
  <2> QED BY <1>4, <1>5, <2>1, <2>2
<1> QED BY <1>3, <1>5 DEF Flush

LEMMA PauseStep ==
  ASSUME InputInv, NEW paused \in BOOLEAN, SetReadPaused(paused) PROVE InputInv'
<1>1. UNCHANGED <<inVars, life>> /\ queue' = queue
  BY DEF SetReadPaused, inVars
<1>2. Numbers' /\ Ordered(got \o queue, typed)' /\ Whole'
  BY <1>1 DEF InputInv, Numbers, Ordered, Whole, inVars
<1>3. Watched'
  BY <1>1 DEF InputInv, Watched, SetReadPaused
<1> QED BY <1>2, <1>3 DEF InputInv

\* The queue is not handed over, and the flag `lost` says when it was not empty.
LEMMA UpgradeStep ==
  ASSUME InputInv, Upgrade PROVE InputInv'
<1>1. /\ typed \in Nat /\ typed' = typed /\ held \in Nat /\ held' = held /\ life' = life
      /\ queue \in Seq(Nat) /\ got \in Seq(Nat) /\ got' = got /\ queue' = <<>>
      /\ Ordered(got \o queue, typed)
  BY DEF InputInv, Numbers, Upgrade
<1>2. Ordered(got' \o queue', typed')
  BY <1>1, PrefixOrdered
<1>3. Numbers'
  BY <1>1 DEF Numbers
<1>4. lost' = (lost \/ queue # <<>>)
  BY DEF Upgrade
<1>5. Whole'
  <2>1. CASE queue = <<>>
    BY <1>1, <1>4, <2>1 DEF InputInv, Whole
  <2>2. CASE queue # <<>>
    BY <1>4, <2>2 DEF Whole
  <2> QED BY <2>1, <2>2
<1>6. Watched'
  BY <1>1 DEF Watched, Upgrade, Registered, Mask
<1> QED BY <1>2, <1>3, <1>5, <1>6 DEF InputInv

LEMMA InputStep ==
  ASSUME InputInv, [Next]_vars PROVE InputInv'
<1>1. CASE \E output \in Outputs : ShellWrites(output)
  BY <1>1, OutputStep DEF ShellWrites
<1>2. CASE ShellReads \/ ShellExits \/ Die
  BY <1>2, ShellStep
<1>3. CASE Read
  BY <1>3, OutputStep DEF Read
<1>4. CASE FeedData \/ Resume \/ Reattach
  BY <1>4, OutputStep DEF FeedData, Resume, Reattach
<1>5. CASE UNCHANGED vars
  BY <1>5, OutputStep DEF vars
<1> QED BY <1>1, <1>2, <1>3, <1>4, <1>5, WriteStep, FlushStep, PauseStep, UpgradeStep DEF Next

LEMMA InputAtStart == Init => InputInv
<1> SUFFICES ASSUME Init PROVE InputInv
  OBVIOUS
<1>1. Numbers /\ got \o queue = <<>> /\ typed = 0
  BY DEF Init, Numbers
<1>2. Ordered(got \o queue, typed)
  BY <1>1 DEF Ordered
<1>3. Whole
  BY <1>1 DEF Whole
<1>4. Watched
  BY DEF Init, Watched, Registered, Mask
<1> QED BY <1>1, <1>2, <1>3, <1>4 DEF InputInv

-----------------------------------------------------------------------------
\* Input reaches the shell in the order it was written, and whole unless an
\* upgrade dropped some (pty.cpp: write, flush_writes), for every terminal
\* however little it takes at a time.
THEOREM InputIsInOrder == Spec => []InputInOrder
<1>1. InputInv => InputInOrder
  BY DEF InputInv, Ordered, Whole, InputInOrder
<1> QED BY <1>1, InputAtStart, InputStep, PTL DEF Spec

\* The loop watches a pane for exactly what it waits for (pane.cpp:
\* set_read_paused and update_pty_write_interest, which each compute it).
THEOREM NothingIsForgotten == Spec => []NothingForgotten
<1>1. InputInv => NothingForgotten
  BY DEF InputInv, Watched, NothingForgotten
<1> QED BY <1>1, InputAtStart, InputStep, PTL DEF Spec

-----------------------------------------------------------------------------
\* Induction up to m, as a fact about a set.
LEMMA UpTo ==
  ASSUME NEW m \in Nat, NEW T, 0 \in T, \A n \in 0..(m - 1) : n \in T => n + 1 \in T
  PROVE  0..m \subseteq T
<1> DEFINE U == 0..m \ T
<1> SUFFICES ASSUME U # {} PROVE FALSE
  OBVIOUS
<1>1. U \subseteq Nat
  OBVIOUS
<1>2. PICK x \in U : \A y \in U : ~(<<y, x>> \in OpToRel(<, Nat))
  BY <1>1, WFMin, NatLessThanWellFounded
<1>3. x \in 0..m /\ x \notin T /\ x # 0
  BY <1>2
<1>4. x - 1 \in 0..(m - 1) /\ x - 1 \in Nat /\ x \in Nat /\ x - 1 < x /\ x = (x - 1) + 1
  BY <1>3
<1>5. x - 1 \in U
  BY <1>3, <1>4
<1>6. <<x - 1, x>> \in OpToRel(<, Nat)
  BY <1>4 DEF OpToRel
<1> QED BY <1>2, <1>5, <1>6

-----------------------------------------------------------------------------
\* What Run computes, byte by byte.
LEMMA RunUnfolds ==
  ASSUME NEW p, NEW c, NEW m \in Nat, m = Len(c)
  PROVE  /\ Run(p, c)[0] = p
         /\ \A i \in 1..m : Run(p, c)[i] = Step(Run(p, c)[i - 1], c[i], Following(c, i))
<1> DEFINE Val(f, i) == IF i = 0 THEN p ELSE Step(f[i - 1], c[i], Following(c, i))
           T == {n \in 0..m : \E f : f = [i \in 0..n |-> Val(f, i)]}
<1>1. 0 \in T
  <2> DEFINE f == [i \in 0..0 |-> p]
  <2>1. f = [i \in 0..0 |-> Val(f, i)]
    OBVIOUS
  <2>2. \E h : h = [i \in 0..0 |-> Val(h, i)]
    <3> HIDE DEF f, Val
    <3> WITNESS f
    <3> QED BY <2>1
  <2> QED BY <2>2
<1>2. ASSUME NEW n \in 0..(m - 1), n \in T PROVE n + 1 \in T
  <2>1. PICK f : f = [i \in 0..n |-> Val(f, i)]
    BY <1>2
  <2> DEFINE g == [i \in 0..(n + 1) |-> IF i = n + 1 THEN Step(f[n], c[n + 1], Following(c, n + 1)) ELSE f[i]]
  <2>2. ASSUME NEW i \in 0..(n + 1) PROVE g[i] = Val(g, i)
    <3>1. CASE i = n + 1
      BY <3>1
    <3>2. CASE i # n + 1
      <4>1. i \in 0..n /\ g[i] = f[i] /\ f[i] = Val(f, i)
        BY <2>1, <3>2
      <4>2. i # 0 => i - 1 \in 0..n /\ i - 1 # n + 1 /\ g[i - 1] = f[i - 1]
        BY <4>1
      <4> QED BY <4>1, <4>2
    <3> QED BY <3>1, <3>2
  <2>3. g = [i \in 0..(n + 1) |-> Val(g, i)]
    BY <2>2
  <2>4. \E h : h = [i \in 0..(n + 1) |-> Val(h, i)]
    <3> HIDE DEF g, Val
    <3> WITNESS g
    <3> QED BY <2>3
  <2> QED BY <2>4
<1>3. m \in T
  <2> HIDE DEF T
  <2>1. 0..m \subseteq T
    BY <1>1, <1>2, UpTo
  <2> QED BY <2>1
<1>4. PICK h : h = [i \in 0..m |-> Val(h, i)]
  BY <1>3
<1>5. Run(p, c) = CHOOSE f : f = [i \in 0..m |-> Val(f, i)]
  BY DEF Run
<1>6. Run(p, c) = [i \in 0..m |-> Val(Run(p, c), i)]
  <2> HIDE DEF Val
  <2> QED BY <1>4, <1>5
<1> DEFINE r == Run(p, c)
<1>7. r = [i \in 0..m |-> Val(r, i)]
  BY <1>6
<1> HIDE DEF r
<1>8. r[0] = p /\ \A i \in 1..m : r[i] = Step(r[i - 1], c[i], Following(c, i))
  BY <1>7
<1> QED BY <1>8 DEF r

\* A read that ends between the two bytes of a string's terminator.
Tear(p, b, next) == p.state \in Strings /\ b = "ESC" /\ next = "backslash"

\* Only there does the byte after it make a difference.
LEMMA StepLooksAhead ==
  ASSUME NEW p, NEW b, NEW next, ~Tear(Step(p, b, "none"), b, next)
  PROVE  Step(p, b, next) = Step(p, b, "none")
<1> DEFINE q == IF p.state = "Utf8" /\ b # "cont" THEN Go(p, "Ground") ELSE p
<1>1. CASE ~q.skip /\ q.state \in Strings
  <2>1. q.state # "Utf8"
    BY <1>1 DEF Strings
  <2>2. \A n : Step(p, b, n) = OnString(q, b, n)
    BY <1>1, <2>1 DEF Step
  <2> HIDE DEF q
  <2>3. CASE b = "ESC"
    <3>1. OnString(q, b, "none") = q
      BY <2>3 DEF OnString
    <3>2. next # "backslash"
      BY <1>1, <2>2, <2>3, <3>1 DEF Tear
    <3>3. OnString(q, b, next) = q
      BY <2>3, <3>2 DEF OnString
    <3> QED BY <2>2, <3>1, <3>3
  <2>4. CASE b # "ESC"
    BY <2>2, <2>4 DEF OnString
  <2> QED BY <2>3, <2>4
<1>2. CASE q.skip \/ q.state \notin Strings
  <2>1. CASE q.skip
    BY <2>1 DEF Step
  <2>2. CASE ~q.skip /\ q.state \notin Strings
    BY <2>2 DEF Step
  <2> QED BY <1>2, <2>1, <2>2
<1> QED BY <1>1, <1>2

\* Two reads in one: the same parser, unless they were cut in a terminator.
LEMMA FeedConcat ==
  ASSUME NEW p, NEW a \in Seq(Bytes), NEW b \in Seq(Bytes), a # <<>>, b # <<>>,
         ~Tear(Feed(p, a), a[Len(a)], b[1])
  PROVE  Feed(p, a \o b) = Feed(Feed(p, a), b)
<1> DEFINE k == Len(a)
           m == Len(b)
           c == a \o b
           q == Feed(p, a)
<1>1. /\ k \in Nat /\ k # 0 /\ m \in Nat /\ m # 0 /\ Len(c) = k + m
      /\ \A i \in 1..k : c[i] = a[i]
      /\ \A j \in 1..m : c[k + j] = b[j]
  <2>1. k \in Nat /\ m \in Nat /\ Len(c) = k + m
    OBVIOUS
  <2>2. k # 0 /\ m # 0
    OBVIOUS
  <2>3. \A i \in 1..k : c[i] = a[i]
    OBVIOUS
  <2>4. \A j \in 1..m : c[k + j] = b[j]
    OBVIOUS
  <2> QED BY <2>1, <2>2, <2>3, <2>4
<1> HIDE DEF c
<1>2. /\ Run(p, c)[0] = p
      /\ \A i \in 1..(k + m) : Run(p, c)[i] = Step(Run(p, c)[i - 1], c[i], Following(c, i))
  <2>1. k + m \in Nat /\ k + m = Len(c)
    BY <1>1
  <2> QED BY <2>1, RunUnfolds
<1>3. /\ Run(p, a)[0] = p /\ Run(p, a)[k] = q
      /\ \A i \in 1..k : Run(p, a)[i] = Step(Run(p, a)[i - 1], a[i], Following(a, i))
  BY <1>1, RunUnfolds DEF Feed
<1>4. /\ Run(q, b)[0] = q /\ Run(q, b)[m] = Feed(q, b)
      /\ \A i \in 1..m : Run(q, b)[i] = Step(Run(q, b)[i - 1], b[i], Following(b, i))
  BY <1>1, RunUnfolds DEF Feed
<1> HIDE DEF q
<1>5. Run(p, c)[k - 1] = Run(p, a)[k - 1]
  <2> DEFINE T == {i \in 0..(k - 1) : Run(p, c)[i] = Run(p, a)[i]}
  <2>1. 0 \in T
    BY <1>1, <1>2, <1>3
  <2>2. ASSUME NEW n \in 0..(k - 1 - 1), n \in T PROVE n + 1 \in T
    <3>1. /\ n + 1 \in 1..k /\ n + 1 \in 1..(k + m) /\ (n + 1) - 1 = n /\ n + 1 \in 0..(k - 1)
          /\ n + 2 \in 1..k /\ (n + 1) + 1 = n + 2 /\ n + 1 < k /\ n + 1 < k + m
      BY <1>1
    <3>2. Following(c, n + 1) = Following(a, n + 1)
      BY <1>1, <3>1 DEF Following
    <3>3. Run(p, c)[n + 1] = Run(p, a)[n + 1]
      BY <1>1, <1>2, <1>3, <2>2, <3>1, <3>2
    <3> QED BY <3>1, <3>3
  <2>3. k - 1 \in T
    <3> HIDE DEF T
    <3>1. k - 1 \in Nat
      BY <1>1
    <3>2. 0..(k - 1) \subseteq T
      BY <2>1, <2>2, <3>1, UpTo
    <3> QED BY <3>1, <3>2
  <2> QED BY <2>3
<1>6. Run(p, c)[k] = q
  <2>1. k \in 1..k /\ k \in 1..(k + m) /\ 1 \in 1..m /\ k < k + m /\ ~(k < k)
    BY <1>1
  <2>2. Following(c, k) = b[1] /\ Following(a, k) = "none" /\ c[k] = a[k]
    BY <1>1, <2>1 DEF Following
  <2>3. q = Step(Run(p, a)[k - 1], a[k], "none")
    BY <1>3, <2>1, <2>2
  <2>4. Run(p, c)[k] = Step(Run(p, a)[k - 1], a[k], b[1])
    BY <1>2, <1>5, <2>1, <2>2
  <2>5. ~Tear(Step(Run(p, a)[k - 1], a[k], "none"), a[k], b[1])
    BY <2>3 DEF q
  <2> HIDE DEF k
  <2>6. Step(Run(p, a)[k - 1], a[k], b[1]) = Step(Run(p, a)[k - 1], a[k], "none")
    BY <2>5, StepLooksAhead
  <2> QED BY <2>3, <2>4, <2>6
<1>7. Run(p, c)[k + m] = Run(q, b)[m]
  <2> DEFINE T == {j \in 0..m : Run(p, c)[k + j] = Run(q, b)[j]}
  <2>1. 0 \in T
    BY <1>1, <1>4, <1>6
  <2>2. ASSUME NEW n \in 0..(m - 1), n \in T PROVE n + 1 \in T
    <3>1. /\ n + 1 \in 1..m /\ n + 1 \in 0..m /\ k + (n + 1) \in 1..(k + m)
          /\ (n + 1) - 1 = n /\ (k + (n + 1)) - 1 = k + n
          /\ (k + (n + 1)) + 1 = k + ((n + 1) + 1)
          /\ (n + 1 < m <=> k + (n + 1) < k + m)
          /\ (n + 1 < m => (n + 1) + 1 \in 1..m)
      BY <1>1
    <3>2. Following(c, k + (n + 1)) = Following(b, n + 1)
      BY <1>1, <3>1 DEF Following
    <3>3. Run(p, c)[k + (n + 1)] = Run(q, b)[n + 1]
      BY <1>1, <1>2, <1>4, <2>2, <3>1, <3>2
    <3> QED BY <3>1, <3>3
  <2>3. m \in T
    <3> HIDE DEF T
    <3>1. 0..m \subseteq T
      BY <1>1, <2>1, <2>2, UpTo
    <3> QED BY <1>1, <3>1
  <2> QED BY <2>3
<1>8. Feed(p, c) = Run(p, c)[k + m]
  BY <1>1 DEF Feed
<1> QED BY <1>4, <1>7, <1>8 DEF c, q

-----------------------------------------------------------------------------
\* What After computes, read by read.
LEMMA AfterUnfolds ==
  ASSUME NEW p, NEW c, NEW m \in Nat, m = Len(c)
  PROVE  /\ After(p, c)[0] = p
         /\ \A i \in 1..m : After(p, c)[i] = Feed(After(p, c)[i - 1], c[i])
<1> DEFINE Val(f, i) == IF i = 0 THEN p ELSE Feed(f[i - 1], c[i])
           T == {n \in 0..m : \E f : f = [i \in 0..n |-> Val(f, i)]}
<1>1. 0 \in T
  <2> DEFINE f == [i \in 0..0 |-> p]
  <2>1. f = [i \in 0..0 |-> Val(f, i)]
    OBVIOUS
  <2>2. \E h : h = [i \in 0..0 |-> Val(h, i)]
    <3> HIDE DEF f, Val
    <3> WITNESS f
    <3> QED BY <2>1
  <2> QED BY <2>2
<1>2. ASSUME NEW n \in 0..(m - 1), n \in T PROVE n + 1 \in T
  <2>1. PICK f : f = [i \in 0..n |-> Val(f, i)]
    BY <1>2
  <2> DEFINE g == [i \in 0..(n + 1) |-> IF i = n + 1 THEN Feed(f[n], c[n + 1]) ELSE f[i]]
  <2>2. ASSUME NEW i \in 0..(n + 1) PROVE g[i] = Val(g, i)
    <3>1. CASE i = n + 1
      BY <3>1
    <3>2. CASE i # n + 1
      <4>1. i \in 0..n /\ g[i] = f[i] /\ f[i] = Val(f, i)
        BY <2>1, <3>2
      <4>2. i # 0 => i - 1 \in 0..n /\ i - 1 # n + 1 /\ g[i - 1] = f[i - 1]
        BY <4>1
      <4> QED BY <4>1, <4>2
    <3> QED BY <3>1, <3>2
  <2>3. g = [i \in 0..(n + 1) |-> Val(g, i)]
    BY <2>2
  <2>4. \E h : h = [i \in 0..(n + 1) |-> Val(h, i)]
    <3> HIDE DEF g, Val
    <3> WITNESS g
    <3> QED BY <2>3
  <2> QED BY <2>4
<1>3. m \in T
  <2> HIDE DEF T
  <2>1. 0..m \subseteq T
    BY <1>1, <1>2, UpTo
  <2> QED BY <2>1
<1>4. PICK h : h = [i \in 0..m |-> Val(h, i)]
  BY <1>3
<1>5. After(p, c) = CHOOSE f : f = [i \in 0..m |-> Val(f, i)]
  BY DEF After
<1>6. After(p, c) = [i \in 0..m |-> Val(After(p, c), i)]
  <2> HIDE DEF Val
  <2> QED BY <1>4, <1>5
<1> DEFINE r == After(p, c)
<1>7. r = [i \in 0..m |-> Val(r, i)]
  BY <1>6
<1> HIDE DEF r
<1>8. r[0] = p /\ \A i \in 1..m : r[i] = Feed(r[i - 1], c[i])
  BY <1>7
<1> QED BY <1>8 DEF r

Chunks == Seq(Bytes) \ {<<>>}

\* What the reads are put together to, up to each of them.
Joined(c) ==
    LET flatten[i \in 1..Len(c)] == IF i = 1 THEN c[i] ELSE flatten[i - 1] \o c[i]
    IN flatten

LEMMA JoinedUnfolds ==
  ASSUME NEW c, NEW m \in Nat, m = Len(c), m # 0
  PROVE  /\ FlattenSeq(c) = Joined(c)[m]
         /\ Joined(c)[1] = c[1]
         /\ \A i \in 2..m : Joined(c)[i] = Joined(c)[i - 1] \o c[i]
<1> DEFINE Cat(x, y) == x \o y
           Val(f, i) == IF i = 1 THEN c[i] ELSE Cat(f[i - 1], c[i])
           T == {n \in 0..(m - 1) : \E f : f = [i \in 1..(n + 1) |-> Val(f, i)]}
<1>0. FlattenSeq(c) = Joined(c)[m]
  BY DEF FlattenSeq, Joined
<1>5. Joined(c) = CHOOSE f : f = [i \in 1..m |-> Val(f, i)]
  BY DEF Joined
<1> HIDE DEF Cat
<1>1. 0 \in T
  <2> DEFINE f == [i \in 1..1 |-> c[1]]
  <2>1. f = [i \in 1..(0 + 1) |-> Val(f, i)]
    OBVIOUS
  <2>2. \E h : h = [i \in 1..(0 + 1) |-> Val(h, i)]
    <3> HIDE DEF f, Val
    <3> WITNESS f
    <3> QED BY <2>1
  <2>3. 0 \in 0..(m - 1)
    OBVIOUS
  <2> HIDE DEF Val
  <2> QED BY <2>2, <2>3
<1>2. ASSUME NEW n \in 0..(m - 1 - 1), n \in T PROVE n + 1 \in T
  <2>1. PICK f : f = [i \in 1..(n + 1) |-> Val(f, i)]
    BY <1>2
  <2> DEFINE g == [i \in 1..((n + 1) + 1) |-> IF i = n + 2 THEN Cat(f[n + 1], c[n + 2]) ELSE f[i]]
  <2>2. ASSUME NEW i \in 1..((n + 1) + 1) PROVE g[i] = Val(g, i)
    <3>1. CASE i = n + 2
      BY <3>1
    <3>2. CASE i # n + 2
      <4>1. i \in 1..(n + 1) /\ g[i] = f[i] /\ f[i] = Val(f, i)
        BY <2>1, <3>2
      <4>2. i # 1 => i - 1 \in 1..(n + 1) /\ i - 1 # n + 2 /\ g[i - 1] = f[i - 1]
        BY <4>1
      <4> QED BY <4>1, <4>2
    <3> QED BY <3>1, <3>2
  <2>3. g = [i \in 1..((n + 1) + 1) |-> Val(g, i)]
    BY <2>2
  <2>4. \E h : h = [i \in 1..((n + 1) + 1) |-> Val(h, i)]
    <3> HIDE DEF g, Val
    <3> WITNESS g
    <3> QED BY <2>3
  <2>5. n + 1 \in 0..(m - 1)
    OBVIOUS
  <2> HIDE DEF Val
  <2> QED BY <2>4, <2>5
<1>3. m - 1 \in T
  <2> HIDE DEF T
  <2>1. m - 1 \in Nat /\ m - 1 \in 0..(m - 1)
    OBVIOUS
  <2>2. 0..(m - 1) \subseteq T
    BY <1>1, <1>2, <2>1, UpTo
  <2> QED BY <2>1, <2>2
<1>4. PICK h : h = [i \in 1..m |-> Val(h, i)]
  <2>1. (m - 1) + 1 = m
    OBVIOUS
  <2>2. \E h : h = [i \in 1..((m - 1) + 1) |-> Val(h, i)]
    BY <1>3
  <2> HIDE DEF Val
  <2> QED BY <2>1, <2>2
<1>6. Joined(c) = [i \in 1..m |-> Val(Joined(c), i)]
  <2> HIDE DEF Val
  <2> QED BY <1>4, <1>5
<1> DEFINE r == Joined(c)
<1>7. r = [i \in 1..m |-> Val(r, i)]
  BY <1>6
<1> HIDE DEF r
<1>8. r[1] = c[1] /\ \A i \in 2..m : r[i] = Cat(r[i - 1], c[i])
  <2>1. r[1] = Val(r, 1)
    BY <1>7
  <2>2. \A i \in 2..m : r[i] = Val(r, i)
    BY <1>7
  <2> QED BY <2>1, <2>2
<1> QED BY <1>0, <1>8 DEF r, Cat

LastOf(chunk) == chunk[Len(chunk)]

\* No two reads under way were cut in a terminator.
Untorn(p, reads) ==
    \A i \in 1..(Len(reads) - 1) : ~Tear(After(p, reads)[i], LastOf(reads[i]), reads[i + 1][1])

\* Reads that are put together are a read that ends like the last of them.
LEMMA JoinedReads ==
  ASSUME NEW c \in Seq(Chunks), NEW m \in Nat, m = Len(c), m # 0
  PROVE  \A n \in 1..m : Joined(c)[n] \in Chunks /\ LastOf(Joined(c)[n]) = LastOf(c[n])
<1> DEFINE J == Joined(c)
           Good(n) == J[n] \in Chunks /\ LastOf(J[n]) = LastOf(c[n])
           T == {n \in 0..(m - 1) : Good(n + 1)}
<1>1. \A i \in 1..m : c[i] \in Chunks
  OBVIOUS
<1>2. J[1] = c[1] /\ \A i \in 2..m : J[i] = J[i - 1] \o c[i]
  BY JoinedUnfolds
<1> HIDE DEF J
<1>3. 0 \in T
  <2>1. 1 \in 1..m /\ 0 + 1 = 1 /\ 0 \in 0..(m - 1)
    OBVIOUS
  <2>2. Good(1)
    BY <1>1, <1>2, <2>1
  <2> HIDE DEF Good
  <2> QED BY <2>1, <2>2
<1>4. ASSUME NEW n \in 0..(m - 1 - 1), n \in T PROVE n + 1 \in T
  <2> DEFINE a == J[n + 1]
             b == c[(n + 1) + 1]
  <2>1. /\ (n + 1) + 1 \in 2..m /\ (n + 1) + 1 \in 1..m /\ n + 1 \in 0..(m - 1)
        /\ ((n + 1) + 1) - 1 = n + 1
    OBVIOUS
  <2>2. a \in Chunks /\ b \in Chunks
    BY <1>1, <1>4, <2>1
  <2>3. J[(n + 1) + 1] = a \o b
    BY <1>2, <2>1
  <2> HIDE DEF a, b
  <2>4. a \in Seq(Bytes) /\ b \in Seq(Bytes) /\ b # <<>>
    BY <2>2 DEF Chunks
  <2>5. a \o b \in Seq(Bytes) /\ Len(a \o b) # 0 /\ (a \o b)[Len(a \o b)] = b[Len(b)]
    <3>1. Len(a) \in Nat /\ Len(b) \in Nat /\ Len(b) # 0
      <4>1. Len(b) # 0
        BY <2>4
      <4> QED BY <2>4, <4>1
    <3>2. a \o b \in Seq(Bytes) /\ Len(a \o b) = Len(a) + Len(b)
      BY <2>4
    <3>3. (a \o b)[Len(a) + Len(b)] = b[Len(b)]
      BY <2>4, <3>1
    <3> QED BY <3>1, <3>2, <3>3
  <2>6. a \o b \in Chunks /\ LastOf(a \o b) = LastOf(b)
    <3>1. a \o b # <<>>
      BY <2>5
    <3> QED BY <2>5, <3>1 DEF Chunks, LastOf
  <2>7. Good((n + 1) + 1)
    BY <2>3, <2>6 DEF b
  <2> HIDE DEF Good
  <2> QED BY <2>1, <2>7
<1>5. 0..(m - 1) \subseteq T
  <2>1. m - 1 \in Nat
    OBVIOUS
  <2> HIDE DEF T
  <2> QED BY <1>3, <1>4, <2>1, UpTo
<1>6. ASSUME NEW n \in 1..m PROVE Good(n)
  <2>1. n - 1 \in 0..(m - 1) /\ (n - 1) + 1 = n
    OBVIOUS
  <2>2. Good((n - 1) + 1)
    BY <1>5, <2>1
  <2> HIDE DEF Good
  <2> QED BY <2>1, <2>2
<1> QED BY <1>6 DEF J

\* Such reads may as well be one.
LEMMA FeedFlattened ==
  ASSUME NEW p, NEW c \in Seq(Chunks), NEW m \in Nat, m = Len(c), m # 0, Untorn(p, c)
  PROVE  Feed(p, FlattenSeq(c)) = After(p, c)[m]
<1> DEFINE J == Joined(c)
           A == After(p, c)
           Good(n) == Feed(p, J[n]) = A[n]
           T == {n \in 0..(m - 1) : Good(n + 1)}
<1>1. \A i \in 1..m : c[i] \in Chunks /\ J[i] \in Chunks /\ LastOf(J[i]) = LastOf(c[i])
  <2>1. \A i \in 1..m : c[i] \in Chunks
    OBVIOUS
  <2> QED BY <2>1, JoinedReads
<1>2. FlattenSeq(c) = J[m] /\ J[1] = c[1] /\ \A i \in 2..m : J[i] = J[i - 1] \o c[i]
  BY JoinedUnfolds
<1>3. A[0] = p /\ \A i \in 1..m : A[i] = Feed(A[i - 1], c[i])
  BY AfterUnfolds
<1>4. \A i \in 1..(m - 1) : ~Tear(A[i], LastOf(c[i]), c[i + 1][1])
  BY DEF Untorn
<1> HIDE DEF J, A
<1>5. 0 \in T
  <2>1. 1 \in 1..m /\ 1 - 1 = 0 /\ 0 + 1 = 1 /\ 0 \in 0..(m - 1)
    OBVIOUS
  <2>2. Good(1)
    BY <1>2, <1>3, <2>1
  <2> HIDE DEF Good
  <2> QED BY <2>1, <2>2
<1>6. ASSUME NEW n \in 0..(m - 1 - 1), n \in T PROVE n + 1 \in T
  <2> DEFINE a == J[n + 1]
             b == c[(n + 1) + 1]
  <2>1. /\ (n + 1) + 1 \in 2..m /\ (n + 1) + 1 \in 1..m /\ n + 1 \in 1..(m - 1) /\ n + 1 \in 0..(m - 1)
        /\ n + 1 \in 1..m /\ ((n + 1) + 1) - 1 = n + 1
    OBVIOUS
  <2>2. a \in Chunks /\ LastOf(a) = LastOf(c[n + 1]) /\ Feed(p, a) = A[n + 1] /\ b \in Chunks
    BY <1>1, <1>6, <2>1
  <2>3. ~Tear(Feed(p, a), a[Len(a)], b[1])
    BY <1>4, <2>1, <2>2 DEF LastOf
  <2>4. J[(n + 1) + 1] = a \o b /\ A[(n + 1) + 1] = Feed(Feed(p, a), b)
    BY <1>2, <1>3, <2>1, <2>2
  <2> HIDE DEF a, b
  <2>5. a \in Seq(Bytes) /\ a # <<>> /\ b \in Seq(Bytes) /\ b # <<>>
    BY <2>2 DEF Chunks
  <2>6. Feed(p, a \o b) = Feed(Feed(p, a), b)
    BY <2>3, <2>5, FeedConcat
  <2>7. Good((n + 1) + 1)
    BY <2>4, <2>6
  <2> HIDE DEF Good
  <2> QED BY <2>1, <2>7
<1>7. Good(m)
  <2>1. m - 1 \in Nat /\ m - 1 \in 0..(m - 1) /\ (m - 1) + 1 = m
    OBVIOUS
  <2>2. m - 1 \in T
    <3> HIDE DEF T
    <3>1. 0..(m - 1) \subseteq T
      BY <1>5, <1>6, <2>1, UpTo
    <3> QED BY <2>1, <3>1
  <2>3. Good((m - 1) + 1)
    BY <2>2
  <2> HIDE DEF Good
  <2> QED BY <2>1, <2>3
<1> QED BY <1>2, <1>7 DEF A

-----------------------------------------------------------------------------
\* Reads that come, and the first of them fed.
LEMMA AfterAppend ==
  ASSUME NEW p, NEW c \in Seq(Chunks), NEW e \in Chunks
  PROVE  /\ \A i \in 0..Len(c) : After(p, Append(c, e))[i] = After(p, c)[i]
         /\ After(p, Append(c, e))[Len(c) + 1] = Feed(After(p, c)[Len(c)], e)
<1> DEFINE m == Len(c)
           d == Append(c, e)
<1>1. m \in Nat /\ m + 1 \in Nat /\ Len(d) = m + 1 /\ d[m + 1] = e /\ \A i \in 1..m : d[i] = c[i]
  OBVIOUS
<1> HIDE DEF d
<1>2. After(p, c)[0] = p /\ \A i \in 1..m : After(p, c)[i] = Feed(After(p, c)[i - 1], c[i])
  BY <1>1, AfterUnfolds
<1>3. After(p, d)[0] = p /\ \A i \in 1..(m + 1) : After(p, d)[i] = Feed(After(p, d)[i - 1], d[i])
  BY <1>1, AfterUnfolds
<1> HIDE DEF m
<1>4. \A i \in 0..m : After(p, d)[i] = After(p, c)[i]
  <2> DEFINE T == {i \in 0..m : After(p, d)[i] = After(p, c)[i]}
  <2>1. 0 \in T
    BY <1>1, <1>2, <1>3
  <2>2. ASSUME NEW n \in 0..(m - 1), n \in T PROVE n + 1 \in T
    <3>1. n + 1 \in 1..m /\ n + 1 \in 1..(m + 1) /\ (n + 1) - 1 = n /\ n + 1 \in 0..m
      BY <1>1
    <3> QED BY <1>1, <1>2, <1>3, <2>2, <3>1
  <2>3. 0..m \subseteq T
    <3> HIDE DEF T
    <3> QED BY <1>1, <2>1, <2>2, UpTo
  <2> QED BY <2>3
<1>5. After(p, d)[m + 1] = Feed(After(p, c)[m], e)
  <2>1. m + 1 \in 1..(m + 1) /\ (m + 1) - 1 = m /\ m \in 0..m
    BY <1>1
  <2> QED BY <1>1, <1>3, <1>4, <2>1
<1> QED BY <1>4, <1>5 DEF m, d

LEMMA AfterSteps ==
  ASSUME NEW p, NEW c \in Seq(Chunks)
  PROVE  /\ After(p, c)[0] = p
         /\ \A i \in 1..Len(c) : After(p, c)[i] = Feed(After(p, c)[i - 1], c[i])
<1> DEFINE m == Len(c)
<1>1. m \in Nat /\ m = Len(c)
  OBVIOUS
<1> HIDE DEF m
<1>2. After(p, c)[0] = p /\ \A i \in 1..m : After(p, c)[i] = Feed(After(p, c)[i - 1], c[i])
  BY <1>1, AfterUnfolds
<1> QED BY <1>1, <1>2

LEMMA AfterTail ==
  ASSUME NEW p, NEW c \in Seq(Chunks), c # <<>>
  PROVE  \A i \in 0..Len(Tail(c)) : After(Feed(p, Head(c)), Tail(c))[i] = After(p, c)[i + 1]
<1> DEFINE d == Tail(c)
           m == Len(d)
           q == Feed(p, Head(c))
<1>1. m \in Nat /\ m + 1 \in Nat /\ Len(c) = m + 1 /\ Len(d) = m /\ Head(c) = c[1] /\ \A i \in 1..m : d[i] = c[i + 1]
  <2>1. Len(c) \in Nat /\ Len(c) # 0 /\ Head(c) = c[1]
    OBVIOUS
  <2>2. m = Len(c) - 1
    OBVIOUS
  <2>3. \A i \in 1..m : d[i] = c[i + 1]
    OBVIOUS
  <2>4. Len(d) = m
    OBVIOUS
  <2> HIDE DEF m, d
  <2> QED BY <2>1, <2>2, <2>3, <2>4
<1> HIDE DEF m, d
<1>2. After(p, c)[0] = p /\ \A i \in 1..(m + 1) : After(p, c)[i] = Feed(After(p, c)[i - 1], c[i])
  <2>1. After(p, c)[0] = p /\ \A i \in 1..Len(c) : After(p, c)[i] = Feed(After(p, c)[i - 1], c[i])
    BY AfterSteps
  <2> QED BY <1>1, <2>1
<1>q. q = Feed(p, c[1])
  BY <1>1
<1> HIDE DEF q
<1>3. After(q, d)[0] = q /\ \A i \in 1..m : After(q, d)[i] = Feed(After(q, d)[i - 1], d[i])
  <2>1. m \in Nat /\ m = Len(d)
    BY <1>1
  <2> QED BY <2>1, AfterUnfolds
<1>4. q = After(p, c)[0 + 1]
  <2>1. 1 \in 1..(m + 1) /\ 1 - 1 = 0 /\ 0 + 1 = 1
    BY <1>1
  <2> QED BY <1>q, <1>2, <2>1
<1> DEFINE T == {i \in 0..m : After(q, d)[i] = After(p, c)[i + 1]}
<1>5. 0 \in T
  BY <1>1, <1>3, <1>4
<1>6. ASSUME NEW n \in 0..(m - 1), n \in T PROVE n + 1 \in T
  <2>1. /\ n + 1 \in 1..m /\ n + 1 \in 0..m /\ (n + 1) + 1 \in 1..(m + 1)
        /\ (n + 1) - 1 = n /\ ((n + 1) + 1) - 1 = n + 1
    BY <1>1
  <2>2. After(q, d)[n + 1] = Feed(After(q, d)[n], d[n + 1])
    BY <1>3, <2>1
  <2>3. After(p, c)[(n + 1) + 1] = Feed(After(p, c)[n + 1], c[(n + 1) + 1])
    BY <1>2, <2>1
  <2>4. d[n + 1] = c[(n + 1) + 1] /\ After(q, d)[n] = After(p, c)[n + 1]
    BY <1>1, <1>6, <2>1
  <2> QED BY <2>1, <2>2, <2>3, <2>4
<1>7. 0..m \subseteq T
  <2> HIDE DEF T
  <2> QED BY <1>1, <1>5, <1>6, UpTo
<1> QED BY <1>7 DEF m, d, q

-----------------------------------------------------------------------------
\* The replica will be what the parser is once it is fed what is under way,
\* no two reads of which were cut in a terminator, and `last' is the byte the
\* next read follows.
Faithful ==
    /\ After(replica, sent)[Len(sent)] = parser
    /\ Untorn(replica, sent)
    /\ sent # <<>> => last = LastOf(sent[Len(sent)])

OutputInv == tty \in Seq(Bytes) /\ sent \in Seq(Chunks) /\ (torn \/ Faithful)

\* A parser that is fed nothing.
LEMMA NothingToFeed ==
  ASSUME NEW p PROVE After(p, <<>>)[Len(<<>>)] = p /\ Untorn(p, <<>>)
<1>1. 0 \in Nat /\ 0 = Len(<<>>)
  OBVIOUS
<1>2. After(p, <<>>)[0] = p
  BY <1>1, AfterUnfolds
<1>3. 1..(Len(<<>>) - 1) = {}
  BY <1>1
<1> QED BY <1>1, <1>2, <1>3 DEF Untorn

LEMMA ReadFaithful ==
  ASSUME OutputInv, Read PROVE OutputInv'
<1>1. PICK n \in 1..Len(tty) :
        /\ parser' = Feed(parser, SubSeq(tty, 1, n))
        /\ sent' = Append(sent, SubSeq(tty, 1, n))
        /\ last' = SubSeq(tty, 1, n)[n]
        /\ tty' = SubSeq(tty, n + 1, Len(tty))
        /\ torn' = (torn \/ (parser.state \in Strings /\ last = "ESC" /\ SubSeq(tty, 1, n)[1] = "backslash"))
        /\ replica' = replica
  BY DEF Read
<1> DEFINE e == SubSeq(tty, 1, n)
           m == Len(sent)
<1>2. e \in Seq(Bytes) /\ Len(e) = n /\ n # 0 /\ tty' \in Seq(Bytes)
  <2>1. tty \in Seq(Bytes) /\ Len(tty) \in Nat
    BY DEF OutputInv
  <2>2. e \in Seq(Bytes) /\ Len(e) = n /\ n # 0
    BY <2>1
  <2>3. SubSeq(tty, n + 1, Len(tty)) \in Seq(Bytes)
    BY <2>1
  <2> QED BY <1>1, <2>2, <2>3
<1>3. e \in Chunks /\ last' = LastOf(e)
  <2> HIDE DEF e
  <2>1. e # <<>>
    BY <1>2
  <2>2. last' = e[n]
    BY <1>1 DEF e
  <2> QED BY <1>2, <2>1, <2>2 DEF Chunks, LastOf
<1>4. /\ sent' = Append(sent, e) /\ parser' = Feed(parser, e) /\ replica' = replica
      /\ torn' = (torn \/ Tear(parser, last, e[1]))
  BY <1>1 DEF Tear
<1> HIDE DEF e
<1>5. /\ m \in Nat /\ Len(sent') = m + 1 /\ sent'[m + 1] = e /\ sent' \in Seq(Chunks)
      /\ \A i \in 1..m : sent'[i] = sent[i]
  <2>1. sent \in Seq(Chunks)
    BY DEF OutputInv
  <2> QED BY <1>3, <1>4, <2>1
<1>6. ASSUME ~torn' PROVE Faithful'
  <2>1. Faithful /\ ~Tear(parser, last, e[1]) /\ sent \in Seq(Chunks)
    BY <1>4, <1>6 DEF OutputInv
  <2>2. /\ \A i \in 0..m : After(replica, sent')[i] = After(replica, sent)[i]
        /\ After(replica, sent')[m + 1] = Feed(After(replica, sent)[m], e)
    BY <1>3, <1>4, <2>1, AfterAppend
  <2>3. After(replica', sent')[Len(sent')] = parser'
    BY <1>4, <1>5, <2>1, <2>2 DEF Faithful
  <2>4. ASSUME NEW i \in 1..(Len(sent') - 1)
        PROVE  ~Tear(After(replica', sent')[i], LastOf(sent'[i]), sent'[i + 1][1])
    <3>1. i \in 1..m /\ i \in 0..m /\ m # 0
      BY <1>5
    <3>2. After(replica', sent')[i] = After(replica, sent)[i] /\ sent'[i] = sent[i]
      BY <1>4, <1>5, <2>2, <3>1
    <3>3. CASE i = m
      <4>1. sent # <<>>
        BY <2>1, <3>1
      <4>2. LastOf(sent[i]) = last /\ After(replica, sent)[i] = parser /\ sent'[i + 1] = e
        BY <1>5, <2>1, <3>3, <4>1 DEF Faithful
      <4> QED BY <2>1, <3>2, <4>2
    <3>4. CASE i # m
      <4>1. i \in 1..(m - 1) /\ i + 1 \in 1..m
        BY <1>5, <3>1, <3>4
      <4>2. ~Tear(After(replica, sent)[i], LastOf(sent[i]), sent[i + 1][1])
        BY <2>1, <4>1 DEF Faithful, Untorn
      <4> QED BY <1>5, <3>2, <4>1, <4>2
    <3> QED BY <3>3, <3>4
  <2>5. Untorn(replica', sent')
    BY <2>4 DEF Untorn
  <2>6. last' = LastOf(sent'[Len(sent')])
    BY <1>3, <1>5
  <2> QED BY <2>3, <2>5, <2>6 DEF Faithful
<1> QED BY <1>2, <1>5, <1>6 DEF OutputInv

LEMMA FeedFaithful ==
  ASSUME OutputInv, FeedData PROVE OutputInv'
<1> DEFINE d == Tail(sent)
           m == Len(d)
<1>1. /\ sent \in Seq(Chunks) /\ sent # <<>> /\ sent' = d /\ replica' = Feed(replica, Head(sent))
      /\ UNCHANGED <<tty, parser, last, torn>>
  BY DEF OutputInv, FeedData
<1>2. /\ d \in Seq(Chunks) /\ m \in Nat /\ Len(sent) = m + 1 /\ \A i \in 1..m : d[i] = sent[i + 1]
  BY <1>1
<1>3. \A i \in 0..m : After(replica', d)[i] = After(replica, sent)[i + 1]
  BY <1>1, AfterTail
<1> HIDE DEF d
<1>4. ASSUME Faithful PROVE Faithful'
  <2>1. After(replica', d)[m] = parser
    <3>1. m \in 0..m
      BY <1>2
    <3> QED BY <1>2, <1>3, <1>4, <3>1 DEF Faithful
  <2>2. ASSUME NEW i \in 1..(m - 1)
        PROVE  ~Tear(After(replica', d)[i], LastOf(d[i]), d[i + 1][1])
    <3>1. i + 1 \in 1..(Len(sent) - 1) /\ i \in 0..m /\ i \in 1..m /\ i + 1 \in 1..m
      BY <1>2
    <3>2. ~Tear(After(replica, sent)[i + 1], LastOf(sent[i + 1]), sent[(i + 1) + 1][1])
      BY <1>4, <3>1 DEF Faithful, Untorn
    <3> QED BY <1>2, <1>3, <3>1, <3>2
  <2>3. d # <<>> => last = LastOf(d[m])
    <3>1. ASSUME d # <<>> PROVE last = LastOf(d[m])
      <4>1. m # 0
        BY <1>2, <3>1
      <4>2. m \in 1..m /\ sent # <<>>
        BY <1>1, <1>2, <4>1
      <4>3. last = LastOf(sent[m + 1])
        BY <1>2, <1>4, <4>2 DEF Faithful
      <4> QED BY <1>2, <4>2, <4>3
    <3> QED BY <3>1
  <2>4. Untorn(replica', d)
    BY <2>2 DEF Untorn
  <2> QED BY <1>1, <2>1, <2>3, <2>4 DEF Faithful
<1> QED BY <1>1, <1>2, <1>4 DEF OutputInv

LEMMA OneRead ==
  ASSUME NEW p, NEW e PROVE After(p, <<e>>)[1] = Feed(p, e)
<1> DEFINE c == <<e>>
           m == 1
<1>1. m \in Nat /\ m = Len(c) /\ c[m] = e /\ m \in 1..m /\ m - 1 = 0
  OBVIOUS
<1> HIDE DEF c, m
<1>2. After(p, c)[0] = p /\ \A i \in 1..m : After(p, c)[i] = Feed(After(p, c)[i - 1], c[i])
  BY <1>1, AfterUnfolds
<1>3. After(p, c)[m] = Feed(p, e)
  BY <1>1, <1>2
<1> QED BY <1>3 DEF c, m

\* One read in the place of several.
LEMMA ResumeFaithful ==
  ASSUME OutputInv, Resume PROVE OutputInv'
<1>1. /\ UNCHANGED <<tty, parser, last, replica, torn>>
      /\ sent' = IF sent = <<>> THEN <<>> ELSE <<FlattenSeq(sent)>>
  BY DEF Resume
<1>2. CASE sent = <<>>
  BY <1>1, <1>2 DEF OutputInv, Faithful
<1>3. CASE sent # <<>>
  <2> DEFINE J == FlattenSeq(sent)
             m == Len(sent)
  <2>1. sent' = <<J>> /\ sent \in Seq(Chunks) /\ m \in Nat /\ m # 0
    <3>1. sent \in Seq(Chunks)
      BY DEF OutputInv
    <3>2. m # 0
      BY <1>3, <3>1
    <3> QED BY <1>1, <1>3, <3>1, <3>2
  <2>2. J \in Chunks /\ LastOf(J) = LastOf(sent[m])
    <3>1. J = Joined(sent)[m]
      BY <2>1, JoinedUnfolds
    <3>2. m \in 1..m
      BY <2>1
    <3> QED BY <2>1, <3>1, <3>2, JoinedReads
  <2>3. ASSUME Faithful PROVE Feed(replica, J) = parser
    <3>1. Feed(replica, J) = After(replica, sent)[m]
      BY <2>1, <2>3, FeedFlattened DEF Faithful
    <3> QED BY <2>3, <3>1 DEF Faithful
  <2> HIDE DEF J
  <2>4. /\ sent' \in Seq(Chunks) /\ 1 \in Nat /\ 1 = Len(sent') /\ sent'[1] = J
        /\ 1..(Len(sent') - 1) = {} /\ 1 \in 1..1 /\ 1 - 1 = 0
    BY <2>1, <2>2
  <2>5. After(replica, sent')[1] = Feed(replica, J)
    BY <2>1, OneRead
  <2>6. Faithful => Faithful'
    <3> SUFFICES ASSUME Faithful PROVE Faithful'
      OBVIOUS
    <3>1. last = LastOf(sent'[Len(sent')])
      BY <1>3, <2>2, <2>4 DEF Faithful
    <3>2. After(replica, sent')[Len(sent')] = parser
      BY <2>3, <2>4, <2>5
    <3>3. Untorn(replica, sent')
      BY <2>4 DEF Untorn
    <3> QED BY <1>1, <3>1, <3>2, <3>3 DEF Faithful
  <2> QED BY <1>1, <2>4, <2>6 DEF OutputInv
<1> QED BY <1>2, <1>3

\* A parser that starts again from the other's state, or is itself handed on.
LEMMA SnapshotFaithful ==
  ASSUME OutputInv, Reattach \/ Upgrade PROVE OutputInv'
<1>1. CASE Reattach
  <2>1. sent' = <<>> /\ replica' = parser /\ UNCHANGED <<tty, parser>>
    BY <1>1 DEF Reattach, Snapshot
  <2>2. Faithful'
    BY <2>1, NothingToFeed DEF Faithful
  <2>3. tty' \in Seq(Bytes) /\ sent' \in Seq(Chunks)
    BY <2>1 DEF OutputInv
  <2> QED BY <2>2, <2>3 DEF OutputInv
<1>2. CASE Upgrade
  BY <1>2 DEF Upgrade, Snapshot, OutputInv, Faithful
<1> QED BY <1>1, <1>2

LEMMA ShellFaithful ==
  ASSUME OutputInv, NEW output \in Outputs, ShellWrites(output) PROVE OutputInv'
<1>1. output \in Seq(Bytes) /\ tty \in Seq(Bytes) /\ tty' = tty \o output
  BY PaneIoAssumption DEF OutputInv, ShellWrites
<1>2. tty' \in Seq(Bytes)
  BY <1>1
<1>3. UNCHANGED <<parser, last, sent, replica, torn>>
  BY DEF ShellWrites
<1> QED BY <1>2, <1>3 DEF OutputInv, Faithful

\* Whatever leaves the output alone.
LEMMA NoOutput ==
  ASSUME OutputInv, UNCHANGED outVars PROVE OutputInv'
BY DEF outVars, OutputInv, Faithful

LEMMA OutputFaithful ==
  ASSUME OutputInv, [Next]_vars PROVE OutputInv'
<1>1. CASE \E output \in Outputs : ShellWrites(output)
  BY <1>1, ShellFaithful
<1>2. CASE ShellReads \/ ShellExits \/ Flush \/ Die \/ Write
  BY <1>2, NoOutput DEF ShellReads, ShellExits, Flush, Die, Write
<1>3. CASE \E paused \in BOOLEAN : SetReadPaused(paused)
  BY <1>3, NoOutput DEF SetReadPaused
<1>4. CASE UNCHANGED vars
  BY <1>4, NoOutput DEF vars
<1> QED BY <1>1, <1>2, <1>3, <1>4, ReadFaithful, FeedFaithful, ResumeFaithful, SnapshotFaithful DEF Next

\* However output is cut into reads and put together again, the client's
\* parser comes to the daemon's by the same calls (vt_parser.cpp: feed), for
\* every output and every number of reads, reconnects and upgrades; unless a
\* string's terminator is cut in two.
THEOREM BothParseTheSame == Spec => []SameParse
<1>1. Init => OutputInv
  <2> SUFFICES ASSUME Init PROVE OutputInv
    OBVIOUS
  <2>1. tty = <<>> /\ sent = <<>> /\ replica = parser
    BY DEF Init
  <2>2. Faithful
    BY <2>1, NothingToFeed DEF Faithful
  <2> QED BY <2>1, <2>2 DEF OutputInv
<1>2. OutputInv => SameParse
  BY DEF OutputInv, Faithful, SameParse
<1> QED BY <1>1, <1>2, OutputFaithful, PTL DEF Spec
=============================================================================
