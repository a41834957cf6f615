-------------------------- MODULE MembershipProofs ---------------------------
(***************************************************************************)
(* Whatever races there are for the file and at the rendezvous, a device   *)
(* only ever holds logs that verify: what is fetched or received may be    *)
(* any sequence of operations, it is checked before it is adopted, and an  *)
(* operation is signed over a log the signer is a member of.               *)
(*                                                                         *)
(* The rendezvous never checks: with two inviters it can be left with a    *)
(* log that mixes two branches.  With one, whose device runs no daemon,    *)
(* that device's file is the whole log of its set, and every other copy,   *)
(* in a file, in a process, at the rendezvous or in a mailbox, is a prefix *)
(* of it; so the logs agree, verify and only grow.                         *)
(***************************************************************************)
EXTENDS Membership, SequenceTheorems, TLAPS

\* A sequence, of whatever operations.
Log(l) == \E S : l \in Seq(S)

\* A log a device may hold.
Held(l) == Log(l) /\ Verified(l) /\ SetId(l) \in Devices

Past == {"fetch", "adopt", "count", "push", "wait", "answer"}

Process(p) ==
    /\ DOMAIN p = {"pc", "log", "cand", "have", "added"}
    /\ p.pc \in {"idle", "load"} \cup Past
    /\ Log(p.cand)
    /\ p.pc \in Past => Held(p.log)

Letter(m) ==
    /\ DOMAIN m = {"offer", "answer", "set"}
    /\ Log(m.answer) /\ m.set \in Devices

Disks   == DOMAIN disk = Devices /\ \A d \in Devices : disk[d] = <<>> \/ Held(disk[d])
Remotes == DOMAIN remote = Devices /\ \A s \in Devices : Log(remote[s])
Mails   == DOMAIN mail = Devices /\ \A d \in Devices : Letter(mail[d])
Procs   == /\ DOMAIN proc = Devices
           /\ \A d \in Devices : /\ DOMAIN proc[d] = Kinds
                                 /\ \A k \in Kinds : Process(proc[d][k])
Joining == joining \in [Devices -> Devices \cup {Nobody}]

OwnInv == Disks /\ Remotes /\ Mails /\ Procs /\ Joining

-----------------------------------------------------------------------------
LEMMA EmptyLog == Log(<<>>)
<1>1. <<>> \in Seq({})
  OBVIOUS
<1> QED BY <1>1 DEF Log

LEMMA AppendLog ==
  ASSUME NEW l, Log(l), NEW e PROVE Log(Append(l, e))
<1>1. PICK S : l \in Seq(S)
  BY DEF Log
<1>2. l \in Seq(S \cup {e}) /\ e \in S \cup {e}
  BY <1>1
<1>3. Append(l, e) \in Seq(S \cup {e})
  BY <1>2
<1> QED BY <1>3 DEF Log

\* A set begins with a log of one operation.
LEMMA GenesisHeld ==
  ASSUME NEW d \in Devices PROVE Held(<<Genesis(d)>>)
<1> DEFINE g == Genesis(d)
<1>1. <<g>> \in Seq({g}) /\ Len(<<g>>) = 1 /\ <<g>>[1] = g /\ <<g>> # <<>>
  OBVIOUS
<1>2. g.subject = d
  BY DEF Genesis
<1> HIDE DEF g
<1>3. <<g>>[1] = Genesis(<<g>>[1].subject)
  BY <1>1, <1>2 DEF g
<1>4. Verified(<<g>>)
  BY <1>1, <1>3 DEF Verified
<1>5. Log(<<g>>) /\ SetId(<<g>>) \in Devices
  BY <1>1, <1>2 DEF Log, SetId
<1>6. Held(<<g>>)
  BY <1>4, <1>5 DEF Held
<1> QED BY <1>6 DEF g

\* What a member signs onto a log verifies.
LEMMA SignedHeld ==
  ASSUME NEW l, Held(l), NEW s \in Members(l), NEW d PROVE Held(Signed(l, s, d))
<1> DEFINE e == [seq |-> Len(l), prev |-> <<l[Len(l)]>>, subject |-> d, signer |-> s]
           m == Append(l, e)
<1>1. PICK S : l \in Seq(S)
  BY DEF Held, Log
<1>2. l \in Seq(S \cup {e}) /\ e \in S \cup {e} /\ l # <<>> /\ Len(l) \in Nat /\ Len(l) >= 1
  BY <1>1 DEF Held, Verified
<1>3. /\ m \in Seq(S \cup {e}) /\ Len(m) = Len(l) + 1 /\ m[Len(l) + 1] = e
      /\ \A i \in 1..Len(l) : m[i] = l[i]
  <2> HIDE DEF e
  <2> QED BY <1>2
<1>4. e.seq = Len(l) /\ e.prev = <<l[Len(l)]>> /\ e.signer = s
  OBVIOUS
<1>5. ASSUME NEW i \in 1..Len(l) PROVE SubSeq(m, 1, i) = SubSeq(l, 1, i)
  <2> HIDE DEF m
  <2> QED BY <1>2, <1>3
<1>6. SubSeq(m, 1, Len(l)) = l
  BY <1>1, <1>2, <1>5
<1> HIDE DEF e, m
<1>7. m # <<>> /\ m[1] = l[1]
  BY <1>2, <1>3
<1>8. ASSUME NEW i \in 2..Len(m)
      PROVE /\ m[i].seq = i - 1 /\ m[i].prev = <<m[i - 1]>>
            /\ m[i].signer \in Members(SubSeq(m, 1, i - 1))
  <2>1. CASE i = Len(l) + 1
    <3>1. m[i - 1] = l[Len(l)] /\ m[i] = e /\ i - 1 = Len(l)
      BY <1>2, <1>3, <2>1
    <3> QED BY <1>4, <1>6, <3>1
  <2>2. CASE i \in 2..Len(l)
    <3>1. m[i] = l[i] /\ m[i - 1] = l[i - 1] /\ SubSeq(m, 1, i - 1) = SubSeq(l, 1, i - 1)
      BY <1>2, <1>3, <1>5, <2>2
    <3> QED BY <2>2, <3>1 DEF Held, Verified
  <2> QED BY <1>2, <1>3, <2>1, <2>2
<1>9. Verified(m) /\ SetId(m) \in Devices
  BY <1>7, <1>8 DEF Held, Verified, SetId
<1>10. m = Signed(l, s, d)
  BY DEF m, e, Signed
<1> QED BY <1>3, <1>9, <1>10 DEF Held, Log

LEMMA IdleProcess == Process(Idle)
BY EmptyLog DEF Process, Idle, Past

\* A process goes on with what is in order.
LEMMA GotoProcs ==
  ASSUME Procs, NEW d \in Devices, NEW k \in Kinds, NEW r, Process(r), Goto(d, k, r)
  PROVE  Procs'
<1>1. proc' = [proc EXCEPT ![d] = [proc[d] EXCEPT ![k] = r]]
  BY DEF Goto
<1>2. DOMAIN proc' = Devices /\ \A e \in Devices : DOMAIN proc'[e] = Kinds
  BY <1>1 DEF Procs
<1>3. ASSUME NEW e \in Devices, NEW j \in Kinds PROVE Process(proc'[e][j])
  <2>1. proc'[e][j] = IF e = d /\ j = k THEN r ELSE proc[e][j]
    BY <1>1 DEF Procs
  <2> QED BY <2>1 DEF Procs
<1> QED BY <1>2, <1>3 DEF Procs

\* A process that holds a log, or comes by one, goes on.
LEMMA Begins ==
  ASSUME NEW p, Process(p), NEW q \in Past, NEW l, Held(l)
  PROVE  Process([p EXCEPT !.pc = q, !.log = l])
BY DEF Process

LEMMA Advances ==
  ASSUME NEW p, Process(p), p.pc \in Past, NEW q \in Past
  PROVE  /\ Process([p EXCEPT !.pc = q])
         /\ \A c : Log(c) => Process([p EXCEPT !.pc = q, !.cand = c])
         /\ \A c, l : Log(c) /\ Held(l) => Process([p EXCEPT !.pc = q, !.cand = c, !.log = l])
BY DEF Process

LEMMA Counts ==
  ASSUME NEW p, Process(p), p.pc \in Past, NEW h
  PROVE  /\ Process([p EXCEPT !.have = h])
         /\ \A q \in Past : Process([p EXCEPT !.pc = q, !.have = h])
BY DEF Process

LEMMA Approves ==
  ASSUME NEW p, Process(p), NEW q \in Past, NEW l, Held(l), NEW a
  PROVE  Process([p EXCEPT !.pc = q, !.log = l, !.added = a])
BY DEF Process

LEMMA SetKnown ==
  ASSUME OwnInv, NEW d \in Devices, NEW k \in Kinds, proc[d][k].pc \in Past
  PROVE  SetOf(d, k) \in Devices
BY DEF OwnInv, Procs, Process, Mails, Letter, Held, SetOf

-----------------------------------------------------------------------------
LEMMA SyncStep ==
  ASSUME OwnInv, NEW d \in Devices, NEW k \in Kinds,
         Begin(d, k) \/ Step(d, k) \/ Die(d, k)
  PROVE  OwnInv'
<1> DEFINE p == proc[d][k]
<1>0. /\ \A q \in {"fetch", "adopt", "count", "push", "wait", "answer"} : q \in Past
      /\ "load" \notin Past /\ "idle" \notin Past
  BY DEF Past
<1>1. Process(p) /\ Log(p.cand) /\ Log(<<>>) /\ (p.pc \in Past => Held(p.log))
  BY EmptyLog DEF OwnInv, Procs, Process
<1>2. CASE Begin(d, k)
  <2>1. Process([Idle EXCEPT !.pc = "load"])
    BY EmptyLog DEF Process, Idle, Past
  <2>2. Procs'
    BY <1>2, <2>1, GotoProcs DEF Begin, OwnInv
  <2> QED BY <1>2, <2>2 DEF Begin, OwnInv, Disks, Remotes, Mails, Joining
<1>3. CASE Load(d, k)
  <2>1. UNCHANGED <<remote, mail, joining>>
    BY <1>3 DEF Load
  <2>2. CASE /\ disk[d] # <<>> /\ Goto(d, k, [p EXCEPT !.pc = "fetch", !.log = disk[d]])
             /\ UNCHANGED disk
    <3>1. Held(disk[d])
      BY <2>2 DEF OwnInv, Disks
    <3>2. Process([p EXCEPT !.pc = "fetch", !.log = disk[d]])
      BY <1>0, <1>1, <3>1, Begins
    <3>3. Procs'
      BY <2>2, <3>2, GotoProcs DEF OwnInv
    <3> QED BY <2>1, <2>2, <3>3 DEF OwnInv, Disks, Remotes, Mails, Joining
  <2>3. CASE /\ disk' = [disk EXCEPT ![d] = <<Genesis(d)>>]
             /\ Goto(d, k, [p EXCEPT !.pc = "fetch", !.log = <<Genesis(d)>>])
    <3>1. Held(<<Genesis(d)>>)
      BY GenesisHeld
    <3>2. Process([p EXCEPT !.pc = "fetch", !.log = <<Genesis(d)>>])
      BY <1>0, <1>1, <3>1, Begins
    <3>3. Procs'
      BY <2>3, <3>2, GotoProcs DEF OwnInv
    <3>4. Disks'
      BY <2>3, <3>1 DEF OwnInv, Disks
    <3> QED BY <2>1, <3>3, <3>4 DEF OwnInv, Remotes, Mails, Joining
  <2>4. CASE Goto(d, k, Idle) /\ UNCHANGED disk
    <3>1. Procs'
      BY <2>4, IdleProcess, GotoProcs DEF OwnInv
    <3> QED BY <2>1, <2>4, <3>1 DEF OwnInv, Disks, Remotes, Mails, Joining
  <2> QED BY <1>3, <2>2, <2>3, <2>4 DEF Load
<1>4. CASE Fetch(d, k)
  <2>1. p.pc = "fetch" /\ UNCHANGED <<disk, remote, mail, joining>>
    BY <1>4 DEF Fetch
  <2>2. SetOf(d, k) \in Devices
    BY <1>0, <2>1, SetKnown
  <2>3. Log(remote[SetOf(d, k)])
    BY <2>2 DEF OwnInv, Remotes
  <2>4. Process([p EXCEPT !.pc = "adopt", !.cand = remote[SetOf(d, k)]])
    BY <1>0, <1>1, <2>1, <2>3, Advances
  <2>5. Process([p EXCEPT !.pc = "count"])
    BY <1>0, <1>1, <2>1, Advances
  <2>6. Procs'
    BY <1>4, <2>4, <2>5, GotoProcs DEF Fetch, OwnInv
  <2> QED BY <2>1, <2>6 DEF OwnInv, Disks, Remotes, Mails, Joining
<1>5. CASE Adopt(d, k)
  <2> DEFINE better == Len(p.cand) > Len(p.log) /\ Verified(p.cand) /\ SetId(p.cand) = SetId(p.log)
             r == [p EXCEPT !.pc = "count", !.cand = <<>>, !.log = IF better THEN p.cand ELSE p.log]
  <2>1. /\ p.pc = "adopt" /\ UNCHANGED <<remote, mail, joining>> /\ Goto(d, k, r)
        /\ disk' = IF better THEN [disk EXCEPT ![d] = p.cand] ELSE disk
    BY <1>5 DEF Adopt
  <2>2. Held(p.log) /\ (better => Held(p.cand))
    BY <1>0, <1>1, <2>1 DEF Held
  <2>3. Process(r)
    <3> DEFINE l == IF better THEN p.cand ELSE p.log
    <3>1. Held(l)
      BY <2>2
    <3> HIDE DEF l
    <3>2. Process([p EXCEPT !.pc = "count", !.cand = <<>>, !.log = l])
      BY <1>0, <1>1, <2>1, <3>1, Advances
    <3> QED BY <3>2 DEF l
  <2>4. Procs'
    BY <2>1, <2>3, GotoProcs DEF OwnInv
  <2>5. Disks'
    <3> HIDE DEF better
    <3> QED BY <2>1, <2>2 DEF OwnInv, Disks
  <2> QED BY <2>1, <2>4, <2>5 DEF OwnInv, Remotes, Mails, Joining
<1>6. CASE Count(d, k)
  <2>1. p.pc = "count" /\ UNCHANGED <<disk, remote, mail, joining>>
    BY <1>6 DEF Count
  <2>2. PICK h : Goto(d, k, [p EXCEPT !.pc = "push", !.have = h])
    BY <1>6 DEF Count
  <2>3. Process([p EXCEPT !.pc = "push", !.have = h])
    BY <1>0, <1>1, <2>1, Counts
  <2>4. Procs'
    BY <2>2, <2>3, GotoProcs DEF OwnInv
  <2> QED BY <2>1, <2>4 DEF OwnInv, Disks, Remotes, Mails, Joining
<1>7. CASE Push(d, k)
  <2> DEFINE set == SetOf(d, k)
  <2>1. /\ p.pc = "push" /\ UNCHANGED <<disk, mail, joining>>
        /\ Goto(d, k, [p EXCEPT !.have = @ + 1])
        /\ \/ remote' = [remote EXCEPT ![set] = Append(@, p.log[p.have + 1])]
           \/ remote' = remote
    BY <1>7 DEF Push
  <2>2. Process([p EXCEPT !.have = @ + 1])
    BY <1>0, <1>1, <2>1, Counts
  <2>3. Procs'
    BY <2>1, <2>2, GotoProcs DEF OwnInv
  <2>4. set \in Devices
    BY <1>0, <2>1, SetKnown
  <2>5. Log(Append(remote[set], p.log[p.have + 1]))
    BY <2>4, AppendLog DEF OwnInv, Remotes
  <2>6. Remotes'
    BY <2>1, <2>4, <2>5 DEF OwnInv, Remotes
  <2> QED BY <2>1, <2>3, <2>6 DEF OwnInv, Disks, Mails, Joining
<1>8. CASE WriteBundle(d, k)
  <2>1. /\ p.pc = "push" /\ UNCHANGED <<disk, remote, joining>>
        /\ mail' \in {mail, [mail EXCEPT ![d] = [offer |-> Nobody, answer |-> <<>>,
                                                 set |-> SetId(p.log)]]}
    BY <1>8 DEF WriteBundle
  <2>2. PICK r \in {Idle, [p EXCEPT !.pc = "answer", !.have = 0], [p EXCEPT !.pc = "wait", !.have = 0]} :
          Goto(d, k, r)
    BY <1>8 DEF WriteBundle
  <2>3. Process(r)
    <3>1. Process([p EXCEPT !.pc = "answer", !.have = 0]) /\ Process([p EXCEPT !.pc = "wait", !.have = 0])
      BY <1>0, <1>1, <2>1, Counts
    <3> QED BY <2>2, <3>1, IdleProcess
  <2>4. Procs'
    BY <2>2, <2>3, GotoProcs DEF OwnInv
  <2>5. SetId(p.log) \in Devices
    BY <1>0, <1>1, <2>1 DEF Held
  <2>6. Letter([offer |-> Nobody, answer |-> <<>>, set |-> SetId(p.log)])
    BY <2>5, EmptyLog DEF Letter
  <2>7. Mails'
    BY <2>1, <2>6 DEF OwnInv, Mails
  <2> QED BY <2>1, <2>4, <2>7 DEF OwnInv, Disks, Remotes, Joining
<1>9. CASE Die(d, k)
  <2>1. Procs'
    BY <1>9, IdleProcess, GotoProcs DEF Die, OwnInv
  <2> QED BY <1>9, <2>1 DEF Die, OwnInv, Disks, Remotes, Mails, Joining
<1> QED BY <1>2, <1>3, <1>4, <1>5, <1>6, <1>7, <1>8, <1>9 DEF Step

LEMMA PairStep ==
  ASSUME OwnInv, NEW d \in Devices, Approve(d) \/ Answer(d) PROVE OwnInv'
<1> DEFINE p == proc[d]["pair"]
<1>0. /\ \A q \in {"fetch", "adopt", "count", "push", "wait", "answer"} : q \in Past
      /\ "load" \notin Past /\ "idle" \notin Past
  BY DEF Past
<1>1. Process(p) /\ Log(p.cand) /\ (p.pc \in Past => Held(p.log)) /\ "pair" \in Kinds
  BY DEF OwnInv, Procs, Process, Kinds
<1>2. CASE Approve(d)
  <2> DEFINE log == Signed(disk[d], d, mail[d].offer)
  <2>1. /\ disk' = [disk EXCEPT ![d] = log] /\ UNCHANGED <<remote, mail, joining>>
        /\ Goto(d, "pair", [p EXCEPT !.pc = "count", !.log = log, !.added = TRUE])
        /\ d \in Members(disk[d])
    BY <1>2 DEF Approve
  <2>2. disk[d] # <<>>
    BY <2>1 DEF Members
  <2>3. Held(log)
    BY <2>1, <2>2, SignedHeld DEF OwnInv, Disks
  <2> HIDE DEF log
  <2>4. Process([p EXCEPT !.pc = "count", !.log = log, !.added = TRUE])
    BY <1>0, <1>1, <2>3, Approves
  <2>5. Procs'
    BY <1>1, <2>1, <2>4, GotoProcs DEF OwnInv
  <2>6. Disks'
    BY <2>1, <2>3 DEF OwnInv, Disks
  <2> QED BY <2>1, <2>5, <2>6 DEF OwnInv, Remotes, Mails, Joining
<1>3. CASE Answer(d)
  <2>1. /\ p.pc = "answer" /\ mail' = [mail EXCEPT ![d].answer = p.log]
        /\ Goto(d, "pair", Idle) /\ UNCHANGED <<disk, remote, joining>>
    BY <1>3 DEF Answer
  <2>2. Procs'
    BY <1>1, <2>1, IdleProcess, GotoProcs DEF OwnInv
  <2>3. Log(p.log)
    BY <1>0, <1>1, <2>1 DEF Held
  <2>4. Letter([mail[d] EXCEPT !.answer = p.log])
    BY <2>3 DEF OwnInv, Mails, Letter
  <2>5. Mails'
    BY <2>1, <2>4 DEF OwnInv, Mails
  <2> QED BY <2>1, <2>2, <2>5 DEF OwnInv, Disks, Remotes, Joining
<1> QED BY <1>2, <1>3

LEMMA JoinStep ==
  ASSUME OwnInv, NEW n \in Devices,
         (\E d \in Devices : Join(n, d)) \/ Joined(n) \/ GiveUp(n)
  PROVE  OwnInv'
<1>1. ASSUME NEW d \in Devices, Join(n, d) PROVE OwnInv'
  <2>1. /\ mail' = [mail EXCEPT ![d].offer = n] /\ joining' = [joining EXCEPT ![n] = d]
        /\ UNCHANGED <<disk, remote, proc>>
    BY <1>1 DEF Join
  <2>2. Letter([mail[d] EXCEPT !.offer = n])
    BY DEF OwnInv, Mails, Letter
  <2>3. Mails' /\ Joining'
    BY <2>1, <2>2 DEF OwnInv, Mails, Joining
  <2> QED BY <2>1, <2>3 DEF OwnInv, Disks, Remotes, Procs
<1>2. CASE Joined(n)
  <2> DEFINE d == joining[n]
  <2>1. /\ d # Nobody /\ Verified(mail[d].answer) /\ SetId(mail[d].answer) = mail[d].set
        /\ disk' = [disk EXCEPT ![n] = mail[d].answer]
        /\ joining' = [joining EXCEPT ![n] = Nobody]
        /\ mail' = [mail EXCEPT ![d].offer = Nobody, ![d].answer = <<>>]
        /\ UNCHANGED <<remote, proc>>
    BY <1>2 DEF Joined
  <2>2. d \in Devices
    BY <2>1 DEF OwnInv, Joining
  <2>3. Held(mail[d].answer)
    BY <2>1, <2>2 DEF OwnInv, Mails, Letter, Held
  <2>4. Letter([[mail[d] EXCEPT !.offer = Nobody] EXCEPT !.answer = <<>>])
    BY <2>2, EmptyLog DEF OwnInv, Mails, Letter
  <2>5. Mails' /\ Joining'
    BY <2>1, <2>2, <2>4 DEF OwnInv, Mails, Joining
  <2>6. Disks'
    BY <2>1, <2>3 DEF OwnInv, Disks
  <2> QED BY <2>1, <2>5, <2>6 DEF OwnInv, Remotes, Procs
<1>3. CASE GiveUp(n)
  BY <1>3 DEF GiveUp, OwnInv, Disks, Remotes, Mails, Procs, Joining
<1> QED BY <1>1, <1>2, <1>3

LEMMA OwnStarts == ASSUME Init PROVE OwnInv
<1>1. \A d \in Devices : Letter([offer |-> Nobody, answer |-> <<>>, set |-> d])
  BY EmptyLog DEF Letter
<1> QED BY <1>1, EmptyLog, IdleProcess DEF Init, OwnInv, Disks, Remotes, Mails, Procs, Joining

LEMMA OwnInductive == OwnInv /\ [Next]_vars => OwnInv'
<1> SUFFICES ASSUME OwnInv, [Next]_vars PROVE OwnInv'
  OBVIOUS
<1>1. CASE UNCHANGED vars
  BY <1>1 DEF vars, OwnInv, Disks, Remotes, Mails, Procs, Joining
<1> QED BY <1>1, SyncStep, PairStep, JoinStep DEF Next

\* Every log a device keeps, or acts on, verifies: whichever processes write
\* the file at the same time, and whatever the rendezvous was left with.
THEOREM OwnLogsAreGood == Spec => []OwnLogsVerify
<1>1. Init => OwnInv
  BY OwnStarts
<1>2. OwnInv => OwnLogsVerify
  BY DEF OwnInv, OwnLogsVerify, Disks, Procs, Process, Held
<1> QED BY <1>1, <1>2, OwnInductive, PTL DEF Spec

-----------------------------------------------------------------------------
(* Prefixes.                                                               *)

LEMMA PrefixMeans ==
  ASSUME NEW s, NEW t, Log(s), Log(t)
  PROVE  Prefix(s, t) <=> /\ Len(s) <= Len(t)
                          /\ \A i \in 1..Len(s) : s[i] = t[i]
<1>1. PICK S : s \in Seq(S)
  BY DEF Log
<1>2. PICK T : t \in Seq(T)
  BY DEF Log
<1>3. PICK U : U = S \cup T
  OBVIOUS
<1>4. s \in Seq(U) /\ t \in Seq(U) /\ Len(s) \in Nat /\ Len(t) \in Nat
  BY <1>1, <1>2, <1>3
<1>5. CASE Len(s) <= Len(t)
  <2> DEFINE p == SubSeq(t, 1, Len(s))
  <2>1. /\ p \in Seq(U) /\ Len(p) = Len(s)
        /\ \A i \in 1..Len(s) : p[i] = t[i]
    BY <1>4, <1>5
  <2> HIDE DEF p
  <2>2. s = p <=> \A i \in 1..Len(s) : s[i] = p[i]
    BY <1>4, <2>1, SeqEqual
  <2>3. Prefix(s, t) <=> s = p
    BY <1>5 DEF Prefix, p
  <2> QED BY <1>5, <2>1, <2>2, <2>3
<1> QED BY <1>5 DEF Prefix

LEMMA LogLen == ASSUME NEW s, Log(s) PROVE Len(s) \in Nat /\ (s # <<>> <=> Len(s) > 0)
BY DEF Log

LEMMA PrefixSelf == ASSUME NEW s, Log(s) PROVE Prefix(s, s)
BY PrefixMeans, LogLen

LEMMA PrefixNone == ASSUME NEW t, Log(t) PROVE Prefix(<<>>, t)
<1> DEFINE s == <<>>
<1>1. Log(s) /\ Len(s) = 0 /\ Len(t) \in Nat
  BY EmptyLog, LogLen
<1> HIDE DEF s
<1>2. Prefix(s, t)
  BY <1>1, PrefixMeans
<1> QED BY <1>2 DEF s

LEMMA PrefixOn ==
  ASSUME NEW s, NEW t, NEW u, Log(s), Log(t), Log(u), Prefix(s, t), Prefix(t, u)
  PROVE  Prefix(s, u)
<1>1. Len(s) \in Nat /\ Len(t) \in Nat /\ Len(u) \in Nat
  BY LogLen
<1>2. Len(s) <= Len(t) /\ \A i \in 1..Len(s) : s[i] = t[i]
  BY PrefixMeans
<1>3. Len(t) <= Len(u) /\ \A i \in 1..Len(t) : t[i] = u[i]
  BY PrefixMeans
<1>4. Len(s) <= Len(u) /\ \A i \in 1..Len(s) : s[i] = u[i]
  BY <1>1, <1>2, <1>3
<1> QED BY <1>4, PrefixMeans

\* Two prefixes of a log are prefixes of each other.
LEMMA PrefixOrder ==
  ASSUME NEW s, NEW t, NEW u, Log(s), Log(t), Log(u), Prefix(s, u), Prefix(t, u),
         Len(s) <= Len(t)
  PROVE  Prefix(s, t)
<1>1. Len(s) \in Nat /\ Len(t) \in Nat /\ Len(u) \in Nat
  BY LogLen
<1>2. \A i \in 1..Len(s) : s[i] = u[i]
  BY PrefixMeans
<1>3. \A i \in 1..Len(t) : t[i] = u[i]
  BY PrefixMeans
<1>4. \A i \in 1..Len(s) : s[i] = t[i]
  BY <1>1, <1>2, <1>3
<1> QED BY <1>4, PrefixMeans

LEMMA PrefixMore == ASSUME NEW s, Log(s), NEW e PROVE Prefix(s, Append(s, e))
<1> DEFINE t == Append(s, e)
<1>1. PICK S : s \in Seq(S)
  BY DEF Log
<1>2. s \in Seq(S \cup {e}) /\ e \in S \cup {e}
  BY <1>1
<1>3. Len(t) = Len(s) + 1 /\ Len(s) \in Nat /\ \A i \in 1..Len(s) : t[i] = s[i]
  BY <1>2
<1>4. Log(t)
  BY AppendLog
<1> HIDE DEF t
<1>5. Prefix(s, t)
  BY <1>3, <1>4, PrefixMeans
<1> QED BY <1>5 DEF t

\* A prefix grows by the next operation of a longer one.
LEMMA PrefixNext ==
  ASSUME NEW r, NEW s, NEW u, Log(r), Log(s), Log(u), Prefix(r, u), Prefix(s, u),
         Len(r) < Len(s)
  PROVE  Prefix(Append(r, s[Len(r) + 1]), u)
<1> DEFINE e == s[Len(r) + 1]
           t == Append(r, e)
<1>1. Len(r) \in Nat /\ Len(s) \in Nat /\ Len(u) \in Nat
  BY LogLen
<1>2. PICK S : r \in Seq(S)
  BY DEF Log
<1>3. r \in Seq(S \cup {e}) /\ e \in S \cup {e}
  BY <1>2
<1>4. Len(t) = Len(r) + 1 /\ t[Len(r) + 1] = e /\ \A i \in 1..Len(r) : t[i] = r[i]
  <2> HIDE DEF e
  <2> QED BY <1>3
<1>5. Log(t)
  BY AppendLog
<1>6. Len(s) <= Len(u) /\ \A i \in 1..Len(s) : s[i] = u[i]
  BY PrefixMeans
<1>7. \A i \in 1..Len(r) : r[i] = u[i]
  BY PrefixMeans
<1>8. e = u[Len(r) + 1]
  BY <1>1, <1>6
<1> HIDE DEF e, t
<1>9. Len(t) <= Len(u) /\ \A i \in 1..Len(t) : t[i] = u[i]
  BY <1>1, <1>4, <1>6, <1>7, <1>8
<1>10. Prefix(t, u)
  BY <1>5, <1>9, PrefixMeans
<1> QED BY <1>10 DEF t, e

LEMMA PrefixHeld ==
  ASSUME NEW s, NEW t, Log(s), Held(t), s # <<>>, Prefix(s, t)
  PROVE  Verified(s) /\ SetId(s) = SetId(t)
<1>1. Log(t) /\ Len(s) \in Nat /\ Len(s) > 0 /\ Len(t) \in Nat
  BY LogLen DEF Held
<1>2. Len(s) <= Len(t) /\ \A i \in 1..Len(s) : s[i] = t[i]
  BY <1>1, PrefixMeans
<1>3. s[1] = t[1]
  BY <1>1, <1>2
<1>4. PICK S : s \in Seq(S)
  BY DEF Log
<1>5. PICK T : t \in Seq(T)
  BY <1>1 DEF Log
<1>6. PICK U : U = S \cup T
  OBVIOUS
<1>7. s \in Seq(U) /\ t \in Seq(U)
  BY <1>4, <1>5, <1>6
<1>8. ASSUME NEW i \in 2..Len(s)
      PROVE  SubSeq(s, 1, i - 1) = SubSeq(t, 1, i - 1)
  BY <1>1, <1>2, <1>7
<1>9. ASSUME NEW i \in 2..Len(s)
      PROVE /\ s[i].seq = i - 1 /\ s[i].prev = <<s[i - 1]>>
            /\ s[i].signer \in Members(SubSeq(s, 1, i - 1))
  <2>1. s[i] = t[i] /\ s[i - 1] = t[i - 1] /\ i \in 2..Len(t)
    BY <1>1, <1>2
  <2>2. /\ t[i].seq = i - 1 /\ t[i].prev = <<t[i - 1]>>
        /\ t[i].signer \in Members(SubSeq(t, 1, i - 1))
    BY <2>1 DEF Held, Verified
  <2> QED BY <1>8, <2>1, <2>2
<1> QED BY <1>3, <1>9 DEF Held, Verified, SetId

-----------------------------------------------------------------------------
(* One inviter, whose device runs no daemon: its file is the whole log,    *)
(* and every other copy is as much of it as was read.                      *)

OneInviter ==
    /\ \A d, e \in Inviters : d = e
    /\ Inviters \cap Syncers = {}

\* All of the log of set s when the files are D, <<>> before it is founded.
Full(D, s) == IF s \in Inviters THEN D[s] ELSE <<Genesis(s)>>

Copy(D, l) == l # <<>> => Prefix(l, Full(D, SetId(l)))

Files(D) == DOMAIN D = Devices /\ \A d \in Devices : D[d] = <<>> \/ Held(D[d])

Grown(D, E) == \A s \in Devices : Prefix(Full(D, s), Full(E, s))

\* The file of an inviter, its `rivt pair' and the mailbox go together.
Owner(d, log, p, m) ==
    /\ log # <<>> => SetId(log) = d
    /\ p.pc \in Past => p.log = log
    /\ p.pc = "wait" \/ p.added => m.set = d /\ m.answer = <<>>
    /\ m.answer # <<>> => m.answer = log

\* Where a sync runs and where the user pairs.
Serves(d, k) == IF k = "pair" THEN d \in Inviters ELSE d \in Syncers

\* A process holds a copy, and has fetched another one.
Fit(D, d, k, p) ==
    /\ p.pc # "idle" => Serves(d, k)
    /\ p.pc \in Past => Copy(D, p.log)
    /\ p.pc = "adopt" => Prefix(p.cand, Full(D, SetId(p.log)))
    /\ p.have \in Nat /\ p.added \in BOOLEAN
    /\ p.added => k = "pair" /\ p.pc \in {"count", "push", "answer"}

Owners  == \A d \in Inviters : Owner(d, disk[d], proc[d]["pair"], mail[d])
Fits    == \A d \in Devices, k \in Kinds : Fit(disk, d, k, proc[d][k])
Copies  == \A d \in Devices : Copy(disk, disk[d])
Shared  == \A s \in Devices : Prefix(remote[s], Full(disk, s))
Answers == \A d \in Devices : mail[d].answer # <<>> => d \in Inviters
Joiners == \A d \in Devices :
              joining[d] # Nobody => d \notin Inviters /\ joining[d] \in Inviters

OneLogInv == OwnInv /\ Owners /\ Fits /\ Copies /\ Shared /\ Answers /\ Joiners

LEMMA FullLog ==
  ASSUME NEW D, Files(D), NEW s \in Devices
  PROVE  Log(Full(D, s)) /\ (Full(D, s) # <<>> => Held(Full(D, s)))
<1>1. CASE s \in Inviters
  BY <1>1, EmptyLog DEF Full, Files, Held
<1>2. CASE s \notin Inviters
  BY <1>2, GenesisHeld DEF Full, Held
<1> QED BY <1>1, <1>2

\* What was a part of the log stays one.
LEMMA PartGrows ==
  ASSUME NEW D, NEW E, Files(D), Files(E), Grown(D, E), NEW s \in Devices, NEW l, Log(l),
         Prefix(l, Full(D, s))
  PROVE  Prefix(l, Full(E, s))
<1>1. Log(Full(D, s)) /\ Log(Full(E, s))
  BY FullLog
<1>2. Prefix(Full(D, s), Full(E, s))
  BY DEF Grown
<1> QED BY <1>1, <1>2, PrefixOn

LEMMA CopyGrows ==
  ASSUME NEW D, NEW E, Files(D), Files(E), Grown(D, E), NEW l, Held(l) \/ l = <<>>, Copy(D, l)
  PROVE  Copy(E, l)
<1>1. CASE l # <<>>
  <2>1. SetId(l) \in Devices /\ Log(l) /\ Prefix(l, Full(D, SetId(l)))
    BY <1>1 DEF Held, Copy
  <2> QED BY <2>1, PartGrows DEF Copy
<1> QED BY <1>1 DEF Copy

LEMMA FilesStay == ASSUME NEW D, Files(D) PROVE Grown(D, D)
BY FullLog, PrefixSelf DEF Grown

\* One file is written: an inviter's only to go on with it.
LEMMA FileGrows ==
  ASSUME NEW D, Files(D), NEW d \in Devices, NEW l, Held(l),
         d \in Inviters => Prefix(D[d], l)
  PROVE  LET E == [D EXCEPT ![d] = l] IN Files(E) /\ Grown(D, E)
<1> DEFINE E == [D EXCEPT ![d] = l]
<1>1. /\ DOMAIN E = Devices /\ E[d] = l
      /\ \A e \in Devices \ {d} : E[e] = D[e]
  BY DEF Files
<1> HIDE DEF E
<1>2. Files(E)
  BY <1>1 DEF Files
<1>3. ASSUME NEW s \in Devices PROVE Prefix(Full(D, s), Full(E, s))
  <2>1. CASE s \in Inviters /\ s = d
    BY <1>1, <2>1 DEF Full
  <2>2. CASE ~(s \in Inviters /\ s = d)
    <3>1. Full(E, s) = Full(D, s)
      BY <1>1, <2>2 DEF Full
    <3> QED BY <3>1, FullLog, PrefixSelf
  <2> QED BY <2>1, <2>2
<1> QED BY <1>2, <1>3 DEF Grown, E

\* A step of one process, when it keeps what it must.
LEMMA ProcessMoves ==
  ASSUME OneLogInv, OwnInv', Grown(disk, disk'), Copies',
         NEW d \in Devices, NEW k \in Kinds, NEW r, Goto(d, k, r), Fit(disk', d, k, r),
         d \in Inviters => k = "pair" /\ Owner(d, disk'[d], r, mail'[d]),
         \A e \in Devices \ {d} : disk'[e] = disk[e] /\ mail'[e] = mail[e],
         Shared', Answers', UNCHANGED joining
  PROVE  OneLogInv'
<1>1. proc' = [proc EXCEPT ![d] = [proc[d] EXCEPT ![k] = r]]
  BY DEF Goto
<1>2. \A e \in Devices, j \in Kinds :
         proc'[e][j] = IF e = d /\ j = k THEN r ELSE proc[e][j]
  BY <1>1 DEF OneLogInv, OwnInv, Procs
<1>3. Files(disk) /\ Files(disk')
  BY DEF OneLogInv, OwnInv, Disks, Files
<1>4. Fits'
  <2>1. ASSUME NEW e \in Devices, NEW j \in Kinds PROVE Fit(disk', e, j, proc'[e][j])
    <3>1. CASE e = d /\ j = k
      BY <1>2, <3>1
    <3>2. CASE ~(e = d /\ j = k)
      <4> DEFINE p == proc[e][j]
      <4>1. p = proc'[e][j] /\ Fit(disk, e, j, p) /\ Process(p)
        BY <1>2, <3>2 DEF OneLogInv, Fits, OwnInv, Procs
      <4> HIDE DEF p
      <4>2. ASSUME p.pc \in Past PROVE Copy(disk', p.log)
        <5>1. Held(p.log) /\ Copy(disk, p.log)
          BY <4>1, <4>2 DEF Fit, Process
        <5> QED BY <1>3, <5>1, CopyGrows
      <4>3. ASSUME p.pc = "adopt" PROVE Prefix(p.cand, Full(disk', SetId(p.log)))
        <5>1. Log(p.cand) /\ SetId(p.log) \in Devices /\ Prefix(p.cand, Full(disk, SetId(p.log)))
          BY <4>1, <4>3 DEF Fit, Process, Past, Held
        <5> QED BY <1>3, <5>1, PartGrows
      <4> QED BY <4>1, <4>2, <4>3 DEF Fit
    <3> QED BY <3>1, <3>2
  <2> QED BY <2>1 DEF Fits
<1>5. Owners'
  <2>1. ASSUME NEW e \in Inviters PROVE Owner(e, disk'[e], proc'[e]["pair"], mail'[e])
    <3>1. e \in Devices /\ "pair" \in Kinds
      BY MembershipAssumption DEF Kinds
    <3>2. CASE e = d
      BY <1>2, <3>1, <3>2
    <3>3. CASE e # d
      BY <1>2, <3>1, <3>3 DEF OneLogInv, Owners
    <3> QED BY <3>2, <3>3
  <2> QED BY <2>1 DEF Owners
<1> QED BY <1>4, <1>5 DEF OneLogInv, Joiners

LEMMA CopiesGrow ==
  ASSUME OneLogInv, OwnInv', Grown(disk, disk'), NEW d \in Devices,
         \A e \in Devices \ {d} : disk'[e] = disk[e], Copy(disk', disk'[d])
  PROVE  Copies'
<1>1. Files(disk) /\ Files(disk')
  BY DEF OneLogInv, OwnInv, Disks, Files
<1>2. ASSUME NEW e \in Devices, e # d PROVE Copy(disk', disk'[e])
  <2>1. disk'[e] = disk[e] /\ Copy(disk, disk[e]) /\ (disk[e] = <<>> \/ Held(disk[e]))
    BY <1>1, <1>2 DEF OneLogInv, Copies, Files
  <2> QED BY <1>1, <2>1, CopyGrows
<1> QED BY <1>2 DEF Copies

LEMMA SharedGrows ==
  ASSUME OneLogInv, OwnInv', Grown(disk, disk'), UNCHANGED remote
  PROVE  Shared'
<1>1. Files(disk) /\ Files(disk')
  BY DEF OneLogInv, OwnInv, Disks, Files
<1>2. ASSUME NEW s \in Devices PROVE Prefix(remote[s], Full(disk', s))
  BY <1>1, PartGrows DEF OneLogInv, Shared, OwnInv, Remotes
<1> QED BY <1>2 DEF Shared

\* A step that writes neither the file nor the shared log.
LEMMA QuietMoves ==
  ASSUME OneLogInv, OwnInv', NEW d \in Devices, NEW k \in Kinds, NEW r, Goto(d, k, r),
         UNCHANGED <<disk, remote, joining>>, Fit(disk, d, k, r),
         d \in Inviters => k = "pair" /\ Owner(d, disk[d], r, mail'[d]),
         \A e \in Devices \ {d} : mail'[e] = mail[e], Answers'
  PROVE  OneLogInv'
<1>1. Grown(disk, disk')
  BY FilesStay DEF OneLogInv, OwnInv, Disks, Files
<1>2. Copies'
  BY DEF OneLogInv, Copies
<1>3. Shared'
  BY <1>1, SharedGrows
<1> QED BY <1>1, <1>2, <1>3, ProcessMoves

LEMMA OwnerRests ==
  ASSUME NEW d, NEW log, NEW p, NEW m, NEW r, Owner(d, log, p, m),
         r.pc \in {"idle", "load"}, ~r.added
  PROVE  Owner(d, log, r, m)
BY DEF Owner, Past

LEMMA FitRests ==
  ASSUME NEW D, NEW d, NEW k, NEW r, r.pc \in {"idle", "load"},
         r.pc = "idle" \/ Serves(d, k), r.have = 0,
         r.added \in BOOLEAN, ~r.added
  PROVE  Fit(D, d, k, r)
<1>1. r.pc \notin Past /\ r.pc # "adopt" /\ r.have \in Nat
  BY DEF Past
<1> QED BY <1>1 DEF Fit

LEMMA InviterPairs ==
  ASSUME OneInviter, NEW d, NEW k, Serves(d, k)
  PROVE  d \in Inviters => k = "pair"
BY DEF OneInviter, Serves

\* A process at work.
LEMMA AtWork ==
  ASSUME OneInviter, OneLogInv, NEW d \in Devices, NEW k \in Kinds, proc[d][k].pc # "idle"
  PROVE  LET p == proc[d][k]
         IN /\ Process(p) /\ Fit(disk, d, k, p)
            /\ d \in Inviters => k = "pair" /\ Owner(d, disk[d], p, mail[d])
<1>1. Process(proc[d][k]) /\ Fit(disk, d, k, proc[d][k])
  BY DEF OneLogInv, OwnInv, Procs, Fits
<1>2. d \in Inviters => k = "pair"
  BY <1>1, InviterPairs DEF Fit
<1> QED BY <1>1, <1>2 DEF OneLogInv, Owners

LEMMA BeginKeeps ==
  ASSUME OneInviter, OneLogInv, OwnInv', NEW d \in Devices, NEW k \in Kinds,
         Begin(d, k) \/ Die(d, k)
  PROVE  OneLogInv'
<1>1. CASE Begin(d, k)
  <2> DEFINE r == [Idle EXCEPT !.pc = "load"]
  <2>1. r.pc = "load" /\ r.have = 0 /\ r.added \in BOOLEAN /\ ~r.added
    BY DEF Idle
  <2>2. /\ Goto(d, k, r) /\ UNCHANGED <<disk, remote, joining, mail>>
        /\ Serves(d, k)
    BY <1>1 DEF Begin, Serves
  <2> HIDE DEF r
  <2>3. Fit(disk, d, k, r)
    BY <2>1, <2>2, FitRests
  <2>4. d \in Inviters => k = "pair"
    BY <2>2, InviterPairs
  <2>5. d \in Inviters => Owner(d, disk[d], r, mail[d])
    BY <2>1, OwnerRests DEF OneLogInv, Owners
  <2> QED BY <2>2, <2>3, <2>4, <2>5, QuietMoves DEF OneLogInv, Answers
<1>2. CASE Die(d, k)
  <2>1. Idle.pc = "idle" /\ Idle.have = 0 /\ Idle.added \in BOOLEAN /\ ~Idle.added
    BY DEF Idle
  <2>2. /\ Goto(d, k, Idle) /\ UNCHANGED <<disk, remote, joining, mail>>
        /\ proc[d][k].pc # "idle"
    BY <1>2 DEF Die
  <2>3. Fit(disk, d, k, Idle)
    BY <2>1, FitRests
  <2>4. d \in Inviters => k = "pair" /\ Owner(d, disk[d], Idle, mail[d])
    BY <2>1, <2>2, AtWork, OwnerRests
  <2> QED BY <2>2, <2>3, <2>4, QuietMoves DEF OneLogInv, Answers
<1> QED BY <1>1, <1>2

LEMMA LoadKeeps ==
  ASSUME OneInviter, OneLogInv, OwnInv', NEW d \in Devices, NEW k \in Kinds, Load(d, k)
  PROVE  OneLogInv'
<1> DEFINE p == proc[d][k]
<1>1. p.pc = "load" /\ UNCHANGED <<remote, mail, joining>>
  BY DEF Load
<1>2. /\ Process(p) /\ Fit(disk, d, k, p)
      /\ d \in Inviters => k = "pair" /\ Owner(d, disk[d], p, mail[d])
  BY <1>1, AtWork
<1>3. ~p.added /\ Serves(d, k)
  BY <1>1, <1>2 DEF Fit
<1>4. Answers'
  BY <1>1 DEF OneLogInv, Answers
<1>5. CASE disk[d] # <<>> /\ Goto(d, k, [p EXCEPT !.pc = "fetch", !.log = disk[d]]) /\ UNCHANGED disk
  <2> DEFINE r == [p EXCEPT !.pc = "fetch", !.log = disk[d]]
  <2>1. /\ r.pc = "fetch" /\ r.log = disk[d] /\ r.have = p.have /\ r.added = p.added
    BY <1>2 DEF Process
  <2>2. Goto(d, k, r) /\ UNCHANGED disk
    BY <1>5
  <2> HIDE DEF p, r
  <2>3. Copy(disk, disk[d])
    BY DEF OneLogInv, Copies
  <2>4. Fit(disk, d, k, r)
    BY <1>2, <1>3, <2>1, <2>3 DEF Fit
  <2>5. d \in Inviters => Owner(d, disk[d], r, mail[d])
    BY <1>2, <1>3, <2>1 DEF Owner
  <2> QED BY <1>1, <1>2, <1>4, <2>2, <2>4, <2>5, QuietMoves
<1>6. CASE /\ disk[d] = <<>> /\ disk' = [disk EXCEPT ![d] = <<Genesis(d)>>]
           /\ Goto(d, k, [p EXCEPT !.pc = "fetch", !.log = <<Genesis(d)>>])
  <2> DEFINE l == <<Genesis(d)>>
             r == [p EXCEPT !.pc = "fetch", !.log = l]
  <2>1. /\ r.pc = "fetch" /\ r.log = l /\ r.have = p.have /\ r.added = p.added
    BY <1>2 DEF Process
  <2>2. Held(l) /\ SetId(l) = d /\ l # <<>>
    BY GenesisHeld DEF SetId, Genesis
  <2>3. l = <<Genesis(d)>>
    OBVIOUS
  <2>4. Goto(d, k, r) /\ disk' = [disk EXCEPT ![d] = l]
    BY <1>6
  <2> HIDE DEF p, l, r
  <2>5. Log(l) /\ Prefix(<<>>, l) /\ Prefix(l, l)
    BY <2>2, PrefixNone, PrefixSelf DEF Held
  <2>6. Files(disk)
    BY DEF OneLogInv, OwnInv, Disks, Files
  <2>7. Grown(disk, disk')
    <3>1. Prefix(disk[d], l)
      BY <1>6, <2>5
    <3> QED BY <2>2, <2>4, <2>6, <3>1, FileGrows
  <2>8. disk'[d] = l /\ \A e \in Devices \ {d} : disk'[e] = disk[e]
    BY <2>4, <2>6 DEF Files
  <2>9. Copy(disk', l)
    <3>1. Full(disk', d) = l
      BY <2>3, <2>8 DEF Full
    <3> QED BY <2>2, <2>5, <3>1 DEF Copy
  <2>10. Copies'
    BY <2>7, <2>8, <2>9, CopiesGrow
  <2>11. Shared'
    BY <1>1, <2>7, SharedGrows
  <2>12. Fit(disk', d, k, r)
    BY <1>2, <1>3, <2>1, <2>9 DEF Fit
  <2>13. d \in Inviters => Owner(d, l, r, mail[d])
    BY <1>2, <1>3, <1>6, <2>1, <2>2 DEF Owner
  <2> QED BY <1>1, <1>2, <1>4, <2>4, <2>7, <2>8, <2>10, <2>11, <2>12, <2>13, ProcessMoves
<1>7. CASE Goto(d, k, Idle) /\ UNCHANGED disk
  <2>1. Idle.pc = "idle" /\ Idle.have = 0 /\ Idle.added \in BOOLEAN /\ ~Idle.added
    BY DEF Idle
  <2>2. Fit(disk, d, k, Idle)
    BY <2>1, FitRests
  <2>3. d \in Inviters => Owner(d, disk[d], Idle, mail[d])
    BY <1>2, <2>1, OwnerRests
  <2> QED BY <1>1, <1>2, <1>4, <1>7, <2>2, <2>3, QuietMoves
<1> QED BY <1>5, <1>6, <1>7 DEF Load

LEMMA FetchKeeps ==
  ASSUME OneInviter, OneLogInv, OwnInv', NEW d \in Devices, NEW k \in Kinds,
         Fetch(d, k) \/ Count(d, k)
  PROVE  OneLogInv'
<1> DEFINE p == proc[d][k]
<1>1. p.pc \in {"fetch", "count"} /\ UNCHANGED <<disk, remote, mail, joining>>
  BY DEF Fetch, Count
<1>2. /\ Process(p) /\ Fit(disk, d, k, p)
      /\ d \in Inviters => k = "pair" /\ Owner(d, disk[d], p, mail[d])
  BY <1>1, AtWork
<1>3. Answers'
  BY <1>1 DEF OneLogInv, Answers
<1>4. CASE Fetch(d, k)
  <2>1. p.pc = "fetch" /\ ~p.added /\ SetOf(d, k) = SetId(p.log)
    BY <1>2, <1>4 DEF Fetch, Fit, SetOf
  <2>2. SetId(p.log) \in Devices
    BY <1>2, <2>1 DEF Process, Past, Held
  <2> DEFINE c == remote[SetId(p.log)]
  <2>3. Prefix(c, Full(disk, SetId(p.log)))
    BY <2>2 DEF OneLogInv, Shared
  <2>4. PICK r : /\ Goto(d, k, r)
                 /\ \/ r = [p EXCEPT !.pc = "adopt", !.cand = c]
                    \/ r = [p EXCEPT !.pc = "count"]
    BY <1>4, <2>1 DEF Fetch
  <2>5. /\ r.pc \in {"adopt", "count"} /\ r.log = p.log /\ r.have = p.have
        /\ r.added = p.added /\ (r.pc = "adopt" => r.cand = c)
    BY <1>2, <2>4 DEF Process
  <2> HIDE DEF p, c
  <2>6. Fit(disk, d, k, r)
    BY <1>2, <2>1, <2>3, <2>5 DEF Fit, Past
  <2>7. d \in Inviters => Owner(d, disk[d], r, mail[d])
    BY <1>2, <2>1, <2>5 DEF Owner, Past
  <2> QED BY <1>1, <1>2, <1>3, <2>4, <2>6, <2>7, QuietMoves
<1>5. CASE Count(d, k)
  <2>1. p.pc = "count" /\ SetOf(d, k) \in Devices
    BY <1>5, SetKnown DEF Count, Past, OneLogInv
  <2>2. Len(remote[SetOf(d, k)]) \in Nat
    BY <2>1, LogLen DEF OneLogInv, OwnInv, Remotes
  <2>3. PICK h \in Nat : Goto(d, k, [p EXCEPT !.pc = "push", !.have = h])
    BY <1>5, <2>2 DEF Count
  <2> DEFINE r == [p EXCEPT !.pc = "push", !.have = h]
  <2>4. Goto(d, k, r)
    BY <2>3
  <2>5. r.pc = "push" /\ r.log = p.log /\ r.have = h /\ r.added = p.added
    BY <1>2 DEF Process
  <2> HIDE DEF p, r
  <2>6. Fit(disk, d, k, r)
    BY <1>2, <2>1, <2>5 DEF Fit, Past
  <2>7. d \in Inviters => Owner(d, disk[d], r, mail[d])
    BY <1>2, <2>1, <2>5 DEF Owner, Past
  <2> QED BY <1>1, <1>2, <1>3, <2>4, <2>6, <2>7, QuietMoves
<1> QED BY <1>4, <1>5

\* What is adopted goes on from what the process read, and on an inviter's
\* device there is nothing to adopt.
LEMMA AdoptsMore ==
  ASSUME OneInviter, OneLogInv, NEW d \in Devices, NEW k \in Kinds, Adopt(d, k)
  PROVE  LET p == proc[d][k]
             better == Len(p.cand) > Len(p.log) /\ Verified(p.cand) /\ SetId(p.cand) = SetId(p.log)
         IN better => d \notin Inviters /\ Held(p.cand) /\ Prefix(p.log, p.cand)
<1> DEFINE p == proc[d][k]
<1> SUFFICES ASSUME Len(p.cand) > Len(p.log), Verified(p.cand), SetId(p.cand) = SetId(p.log)
             PROVE  d \notin Inviters /\ Held(p.cand) /\ Prefix(p.log, p.cand)
  OBVIOUS
<1> DEFINE s == SetId(p.log)
           F == Full(disk, s)
<1>1. p.pc = "adopt"
  BY DEF Adopt
<1>2. /\ Process(p) /\ Fit(disk, d, k, p)
      /\ d \in Inviters => k = "pair" /\ Owner(d, disk[d], p, mail[d])
  BY <1>1, AtWork
<1>3. Held(p.log) /\ Log(p.cand)
  BY <1>1, <1>2 DEF Process, Past
<1>4. Log(p.log) /\ s \in Devices /\ p.log # <<>>
  BY <1>3 DEF Held, Verified
<1>5. Log(F)
  BY <1>4, FullLog DEF OneLogInv, OwnInv, Disks, Files
<1>6. Prefix(p.log, F) /\ Prefix(p.cand, F)
  BY <1>1, <1>2, <1>4 DEF Fit, Copy, Past
<1>7. Len(p.log) \in Nat /\ Len(p.cand) \in Nat /\ Len(F) \in Nat /\ Len(p.cand) <= Len(F)
  BY <1>3, <1>4, <1>5, <1>6, LogLen DEF Prefix
<1>8. Prefix(p.log, p.cand)
  <2> HIDE DEF p, F
  <2> QED BY <1>3, <1>4, <1>5, <1>6, <1>7, PrefixOrder
<1>9. ASSUME d \in Inviters PROVE FALSE
  <2>1. p.log = disk[d] /\ s = d
    BY <1>1, <1>2, <1>4, <1>9 DEF Owner, Past
  <2>2. F = p.log
    BY <1>9, <2>1 DEF Full
  <2> QED BY <1>7, <2>2
<1> QED BY <1>3, <1>4, <1>8, <1>9 DEF Held

LEMMA AdoptKeeps ==
  ASSUME OneInviter, OneLogInv, OwnInv', NEW d \in Devices, NEW k \in Kinds, Adopt(d, k)
  PROVE  OneLogInv'
<1> DEFINE p == proc[d][k]
           better == Len(p.cand) > Len(p.log) /\ Verified(p.cand) /\ SetId(p.cand) = SetId(p.log)
           l == IF better THEN p.cand ELSE p.log
           r == [p EXCEPT !.pc = "count", !.cand = <<>>, !.log = l]
<1>1. /\ p.pc = "adopt" /\ UNCHANGED <<remote, mail, joining>> /\ Goto(d, k, r)
      /\ disk' = IF better THEN [disk EXCEPT ![d] = p.cand] ELSE disk
  BY DEF Adopt
<1>2. /\ Process(p) /\ Fit(disk, d, k, p)
      /\ d \in Inviters => k = "pair" /\ Owner(d, disk[d], p, mail[d])
  BY <1>1, AtWork
<1>3. Answers'
  BY <1>1 DEF OneLogInv, Answers
<1>4. r.pc = "count" /\ r.log = l /\ r.have = p.have /\ r.added = p.added
  BY <1>2 DEF Process
<1>5. better => d \notin Inviters /\ Held(p.cand) /\ Prefix(p.log, p.cand)
  BY AdoptsMore
<1>6. Files(disk)
  BY DEF OneLogInv, OwnInv, Disks, Files
<1>7. CASE ~better
  <2>1. l = p.log /\ UNCHANGED disk
    BY <1>1, <1>7
  <2> HIDE DEF p, r, l, better
  <2>2. Fit(disk, d, k, r)
    BY <1>1, <1>2, <1>4, <2>1 DEF Fit, Past
  <2>3. d \in Inviters => Owner(d, disk[d], r, mail[d])
    BY <1>1, <1>2, <1>4, <2>1 DEF Owner, Past
  <2> QED BY <1>1, <1>2, <1>3, <2>1, <2>2, <2>3, QuietMoves
<1>8. CASE better
  <2>1. /\ l = p.cand /\ disk' = [disk EXCEPT ![d] = l] /\ d \notin Inviters /\ Held(l)
        /\ SetId(l) = SetId(p.log)
    BY <1>1, <1>5, <1>8
  <2>2. Prefix(l, Full(disk, SetId(l))) /\ SetId(l) \in Devices /\ Log(l)
    BY <1>1, <1>2, <2>1 DEF Fit, Held
  <2> HIDE DEF p, r, l, better
  <2>3. Grown(disk, disk') /\ Files(disk')
    BY <1>6, <2>1, FileGrows
  <2>4. disk'[d] = l /\ \A e \in Devices \ {d} : disk'[e] = disk[e]
    BY <1>6, <2>1 DEF Files
  <2>5. Copy(disk', l)
    BY <1>6, <2>2, <2>3, PartGrows DEF Copy
  <2>6. Copies'
    BY <2>3, <2>4, <2>5, CopiesGrow
  <2>7. Shared'
    BY <1>1, <2>3, SharedGrows
  <2>8. Fit(disk', d, k, r)
    BY <1>1, <1>2, <1>4, <2>5 DEF Fit, Past
  <2> QED BY <1>1, <1>3, <2>1, <2>3, <2>4, <2>6, <2>7, <2>8, ProcessMoves
<1> QED BY <1>7, <1>8

LEMMA PushKeeps ==
  ASSUME OneInviter, OneLogInv, OwnInv', NEW d \in Devices, NEW k \in Kinds, Push(d, k)
  PROVE  OneLogInv'
<1> DEFINE p == proc[d][k]
           s == SetOf(d, k)
           r == [p EXCEPT !.have = @ + 1]
<1>1. /\ p.pc = "push" /\ p.have < Len(p.log) /\ UNCHANGED <<disk, mail, joining>> /\ Goto(d, k, r)
      /\ \/ remote' = remote
         \/ /\ p.have = Len(remote[s])
            /\ remote' = [remote EXCEPT ![s] = Append(@, p.log[p.have + 1])]
  BY DEF Push
<1>2. /\ Process(p) /\ Fit(disk, d, k, p)
      /\ d \in Inviters => k = "pair" /\ Owner(d, disk[d], p, mail[d])
  BY <1>1, AtWork
<1>3. r.pc = p.pc /\ r.log = p.log /\ r.have = p.have + 1 /\ r.added = p.added
  BY <1>2 DEF Process
<1>4. Files(disk) /\ Grown(disk, disk')
  BY <1>1, FilesStay DEF OneLogInv, OwnInv, Disks, Files
<1>5. Held(p.log) /\ Copy(disk, p.log)
  BY <1>1, <1>2 DEF Process, Fit, Past
<1>6. s \in Devices /\ s = SetId(p.log)
  <2>1. p.log # <<>> /\ SetId(p.log) \in Devices
    BY <1>5 DEF Held, Verified
  <2>2. CASE p.added
    <3>1. k = "pair" /\ d \in Inviters
      BY <1>1, <1>2, <2>2 DEF Fit, Serves
    <3>2. mail[d].set = d /\ p.log = disk[d] /\ SetId(p.log) = d
      BY <1>1, <1>2, <2>1, <2>2, <3>1 DEF Owner, Past
    <3> QED BY <2>2, <3>2 DEF SetOf
  <2>3. CASE ~p.added
    BY <2>1, <2>3 DEF SetOf
  <2> QED BY <2>2, <2>3
<1> HIDE DEF p, r, s
<1>7. Fit(disk, d, k, r)
  BY <1>1, <1>2, <1>3 DEF Fit
<1>8. d \in Inviters => Owner(d, disk[d], r, mail[d])
  BY <1>1, <1>2, <1>3 DEF Owner
<1>9. Shared'
  <2>1. CASE remote' = remote
    BY <1>4, <2>1, SharedGrows
  <2>2. CASE p.have = Len(remote[s]) /\ remote' = [remote EXCEPT ![s] = Append(@, p.log[p.have + 1])]
    <3> DEFINE q == remote[s]
               l == p.log
               F == Full(disk, s)
    <3>1. Log(q) /\ Log(l) /\ Log(F) /\ Prefix(q, F) /\ Prefix(l, F) /\ Len(q) < Len(l)
      BY <1>1, <1>4, <1>5, <1>6, <2>2, FullLog
         DEF OneLogInv, OwnInv, Remotes, Shared, Held, Verified, Copy
    <3> HIDE DEF q, l, F
    <3>2. Prefix(Append(q, l[Len(q) + 1]), F)
      BY <3>1, PrefixNext
    <3>3. remote' = [remote EXCEPT ![s] = Append(q, l[Len(q) + 1])]
      BY <2>2 DEF q, l
    <3>4. \A e \in Devices : remote'[e] = IF e = s THEN Append(q, l[Len(q) + 1]) ELSE remote[e]
      BY <3>3 DEF OneLogInv, OwnInv, Remotes
    <3> QED BY <1>1, <3>2, <3>4 DEF OneLogInv, Shared, F
  <2> QED BY <1>1, <2>1, <2>2
<1>10. Copies' /\ Answers'
  BY <1>1 DEF OneLogInv, Copies, Answers
<1> QED BY <1>1, <1>2, <1>4, <1>7, <1>8, <1>9, <1>10, ProcessMoves

LEMMA WriteBundleKeeps ==
  ASSUME OneInviter, OneLogInv, OwnInv', NEW d \in Devices, NEW k \in Kinds, WriteBundle(d, k)
  PROVE  OneLogInv'
<1> DEFINE p == proc[d][k]
           m == [offer |-> Nobody, answer |-> <<>>, set |-> SetId(p.log)]
<1>1. p.pc = "push" /\ UNCHANGED <<disk, remote, joining>>
  BY DEF WriteBundle
<1>2. /\ Process(p) /\ Fit(disk, d, k, p)
      /\ d \in Inviters => k = "pair" /\ Owner(d, disk[d], p, mail[d])
  BY <1>1, AtWork
<1>3. /\ mail' = IF k = "pair" /\ ~p.added THEN [mail EXCEPT ![d] = m] ELSE mail
      /\ Goto(d, k, IF k = "sync" THEN Idle
                    ELSE [p EXCEPT !.pc = IF p.added THEN "answer" ELSE "wait", !.have = 0])
  BY DEF WriteBundle
<1>4. DOMAIN mail = Devices /\ m.answer = <<>> /\ m.set = SetId(p.log)
  BY DEF OneLogInv, OwnInv, Mails
<1> HIDE DEF m
<1>5. /\ \A e \in Devices \ {d} : mail'[e] = mail[e]
      /\ mail'[d] = IF k = "pair" /\ ~p.added THEN m ELSE mail[d]
  BY <1>3, <1>4
<1>6. Answers'
  BY <1>4, <1>5 DEF OneLogInv, Answers
<1>7. CASE k = "sync"
  <2>1. Idle.pc = "idle" /\ Idle.have = 0 /\ Idle.added \in BOOLEAN /\ ~Idle.added
    BY DEF Idle
  <2>2. Fit(disk, d, k, Idle)
    BY <2>1, FitRests
  <2>3. d \notin Inviters /\ Goto(d, k, Idle)
    BY <1>2, <1>3, <1>7
  <2> QED BY <1>1, <1>5, <1>6, <2>2, <2>3, QuietMoves
<1>8. CASE k = "pair"
  <2> DEFINE r == [p EXCEPT !.pc = IF p.added THEN "answer" ELSE "wait", !.have = 0]
  <2>1. Goto(d, k, r)
    BY <1>3, <1>8
  <2>2. /\ r.log = p.log /\ r.have = 0 /\ r.added = p.added
        /\ r.pc = IF p.added THEN "answer" ELSE "wait"
    BY <1>2 DEF Process
  <2>3. Held(p.log) /\ p.log # <<>> /\ d \in Inviters
    BY <1>1, <1>2, <1>8 DEF Process, Past, Held, Verified, Fit, Serves
  <2> HIDE DEF p, r
  <2>4. Fit(disk, d, k, r)
    BY <1>1, <1>2, <1>8, <2>2 DEF Fit, Past
  <2>5. Owner(d, disk[d], r, mail'[d])
    <3>1. p.log = disk[d] /\ SetId(disk[d]) = d
      BY <1>1, <1>2, <2>3 DEF Owner, Past
    <3>2. CASE p.added
      BY <1>1, <1>2, <1>5, <2>2, <2>3, <3>1, <3>2 DEF Owner
    <3>3. CASE ~p.added
      BY <1>4, <1>5, <1>8, <2>2, <3>1, <3>3 DEF Owner
    <3> QED BY <3>2, <3>3
  <2> QED BY <1>1, <1>5, <1>6, <1>8, <2>1, <2>4, <2>5, QuietMoves
<1> QED BY <1>7, <1>8 DEF Kinds

LEMMA ApproveKeeps ==
  ASSUME OneInviter, OneLogInv, OwnInv', NEW d \in Devices, Approve(d)
  PROVE  OneLogInv' /\ Prefix(disk[d], disk'[d])
<1> DEFINE p == proc[d]["pair"]
           l == Signed(disk[d], d, mail[d].offer)
           r == [p EXCEPT !.pc = "count", !.log = l, !.added = TRUE]
<1>1. /\ p.pc = "wait" /\ UNCHANGED <<remote, mail, joining>> /\ Goto(d, "pair", r)
      /\ disk' = [disk EXCEPT ![d] = l] /\ d \in Members(disk[d])
  BY DEF Approve
<1>2. Process(p) /\ Fit(disk, d, "pair", p) /\ "pair" \in Kinds
  BY <1>1, AtWork DEF Kinds
<1>3. d \in Inviters /\ Owner(d, disk[d], p, mail[d])
  BY <1>1, <1>2, AtWork DEF Fit, Serves
<1>4. r.pc = "count" /\ r.log = l /\ r.have = p.have /\ r.added = TRUE
  BY <1>2 DEF Process
<1>5. Files(disk)
  BY DEF OneLogInv, OwnInv, Disks, Files
<1>6. disk[d] # <<>> /\ Held(disk[d]) /\ Log(disk[d]) /\ SetId(disk[d]) = d
  BY <1>1, <1>3, <1>5 DEF Members, Files, Held, Owner
<1>7. Held(l)
  BY <1>1, <1>6, SignedHeld
<1>8. Prefix(disk[d], l)
  BY <1>6, PrefixMore DEF Signed
<1>9. SetId(l) = d /\ Log(l) /\ l # <<>>
  BY <1>6, <1>7, <1>8, PrefixHeld DEF Held, Verified
<1>10. mail[d].answer = <<>> /\ mail[d].set = d
  BY <1>1, <1>3 DEF Owner
<1> HIDE DEF p, l, r
<1>11. Grown(disk, disk')
  BY <1>1, <1>5, <1>7, <1>8, FileGrows
<1>12. disk'[d] = l /\ \A e \in Devices \ {d} : disk'[e] = disk[e]
  BY <1>1, <1>5 DEF Files
<1>13. Copy(disk', l)
  BY <1>3, <1>9, <1>12, PrefixSelf DEF Copy, Full
<1>14. Copies'
  BY <1>11, <1>12, <1>13, CopiesGrow
<1>15. Shared'
  BY <1>1, <1>11, SharedGrows
<1>16. Fit(disk', d, "pair", r)
  BY <1>1, <1>2, <1>4, <1>13 DEF Fit
<1>17. Owner(d, l, r, mail[d])
  BY <1>4, <1>9, <1>10 DEF Owner
<1>18. Answers'
  BY <1>1 DEF OneLogInv, Answers
<1> QED BY <1>1, <1>2, <1>8, <1>11, <1>12, <1>14, <1>15, <1>16, <1>17, <1>18, ProcessMoves

LEMMA AnswerKeeps ==
  ASSUME OneInviter, OneLogInv, OwnInv', NEW d \in Devices, Answer(d)
  PROVE  OneLogInv'
<1> DEFINE p == proc[d]["pair"]
<1>1. /\ p.pc = "answer" /\ mail' = [mail EXCEPT ![d].answer = p.log] /\ Goto(d, "pair", Idle)
      /\ UNCHANGED <<disk, remote, joining>>
  BY DEF Answer
<1>2. Fit(disk, d, "pair", p) /\ "pair" \in Kinds
  BY <1>1, AtWork DEF Kinds
<1>3. d \in Inviters /\ Owner(d, disk[d], p, mail[d])
  BY <1>1, <1>2, AtWork DEF Fit, Serves
<1>4. Idle.pc = "idle" /\ Idle.have = 0 /\ Idle.added \in BOOLEAN /\ ~Idle.added
  BY DEF Idle
<1>5. Fit(disk, d, "pair", Idle)
  BY <1>4, FitRests
<1>6. p.log = disk[d]
  BY <1>1, <1>3 DEF Owner, Past
<1>7. /\ \A e \in Devices \ {d} : mail'[e] = mail[e]
      /\ mail'[d].answer = disk[d]
  BY <1>1, <1>6 DEF OneLogInv, OwnInv, Mails, Letter
<1>8. Owner(d, disk[d], Idle, mail'[d])
  BY <1>3, <1>4, <1>7 DEF Owner, Past
<1>9. Answers'
  BY <1>3, <1>7 DEF OneLogInv, Answers
<1> QED BY <1>1, <1>2, <1>5, <1>7, <1>8, <1>9, QuietMoves

\* The answer a device waits for is all there is of the set.
LEMMA JoinedMore ==
  ASSUME OneInviter, OneLogInv, NEW n \in Devices, Joined(n)
  PROVE  LET d == joining[n]
         IN /\ d \in Inviters /\ n \notin Inviters /\ mail[d].answer = disk[d]
            /\ disk[d] # <<>> /\ SetId(disk[d]) = d
<1> DEFINE d == joining[n]
<1>1. d # Nobody /\ mail[d].answer # <<>>
  BY DEF Joined
<1>2. d \in Inviters /\ n \notin Inviters
  BY <1>1 DEF OneLogInv, Joiners
<1> QED BY <1>1, <1>2 DEF OneLogInv, Owners, Owner

LEMMA JoinKeeps ==
  ASSUME OneInviter, OneLogInv, OwnInv', NEW n \in Devices,
         (\E d \in Devices : Join(n, d)) \/ Joined(n) \/ GiveUp(n)
  PROVE  OneLogInv'
<1>1. Files(disk) /\ Files(disk')
  BY DEF OneLogInv, OwnInv, Disks, Files
<1>2. ASSUME NEW d \in Devices, Join(n, d) PROVE OneLogInv'
  <2>1. /\ mail' = [mail EXCEPT ![d].offer = n] /\ joining' = [joining EXCEPT ![n] = d]
        /\ UNCHANGED <<disk, remote, proc>> /\ n # d /\ proc[d]["pair"].pc = "wait"
    BY <1>2 DEF Join
  <2>2. \A e \in Devices : mail'[e].answer = mail[e].answer /\ mail'[e].set = mail[e].set
    BY <2>1 DEF OneLogInv, OwnInv, Mails, Letter
  <2>3. Owners' /\ Answers'
    BY <2>1, <2>2, MembershipAssumption DEF OneLogInv, Owners, Owner, Answers
  <2>4. d \in Inviters /\ n \notin Inviters
    BY <2>1, AtWork DEF Fit, Serves, Kinds, OneInviter
  <2>5. Joiners'
    BY <2>1, <2>4 DEF OneLogInv, Joiners, OwnInv, Joining
  <2> QED BY <2>1, <2>3, <2>5 DEF OneLogInv, Fits, Copies, Shared
<1>3. CASE Joined(n)
  <2> DEFINE d == joining[n]
             l == disk[d]
  <2>1. /\ d \in Inviters /\ n \notin Inviters /\ mail[d].answer = l
        /\ l # <<>> /\ SetId(l) = d /\ d \in Devices
    BY <1>3, JoinedMore, MembershipAssumption
  <2>2. /\ disk' = [disk EXCEPT ![n] = mail[d].answer]
        /\ joining' = [joining EXCEPT ![n] = Nobody]
        /\ mail' = [mail EXCEPT ![d].offer = Nobody, ![d].answer = <<>>]
        /\ UNCHANGED <<remote, proc>>
    BY <1>3 DEF Joined
  <2>3. disk' = [disk EXCEPT ![n] = l]
    BY <2>1, <2>2
  <2>4. Held(l) /\ Log(l) /\ Full(disk, d) = l
    BY <1>1, <2>1 DEF Files, Held, Full
  <2>5. \A e \in Devices :
           /\ mail'[e].set = mail[e].set
           /\ mail'[e].answer = IF e = d THEN <<>> ELSE mail[e].answer
    BY <2>1, <2>2 DEF OneLogInv, OwnInv, Mails, Letter
  <2>6. \A e \in Devices : joining'[e] = IF e = n THEN Nobody ELSE joining[e]
    BY <2>2 DEF OneLogInv, OwnInv, Joining
  <2> HIDE DEF d, l
  <2>7. Grown(disk, disk')
    BY <1>1, <2>1, <2>3, <2>4, FileGrows
  <2>8. disk'[n] = l /\ \A e \in Devices \ {n} : disk'[e] = disk[e]
    BY <1>1, <2>3 DEF Files
  <2>9. Copy(disk', l)
    <3>1. Prefix(l, Full(disk, d))
      BY <2>4, PrefixSelf
    <3> QED BY <1>1, <2>1, <2>4, <2>7, <3>1, PartGrows DEF Copy
  <2>10. Copies'
    BY <2>7, <2>8, <2>9, CopiesGrow
  <2>11. Shared'
    BY <2>2, <2>7, SharedGrows
  <2>12. Fits'
    <3>1. ASSUME NEW e \in Devices, NEW k \in Kinds PROVE Fit(disk', e, k, proc[e][k])
      <4> DEFINE p == proc[e][k]
      <4>1. Fit(disk, e, k, p) /\ Process(p)
        BY DEF OneLogInv, Fits, OwnInv, Procs
      <4> HIDE DEF p
      <4>2. ASSUME p.pc \in Past PROVE Copy(disk', p.log)
        <5>1. Held(p.log) /\ Copy(disk, p.log)
          BY <4>1, <4>2 DEF Fit, Process
        <5> QED BY <1>1, <2>7, <5>1, CopyGrows
      <4>3. ASSUME p.pc = "adopt" PROVE Prefix(p.cand, Full(disk', SetId(p.log)))
        <5>1. Log(p.cand) /\ SetId(p.log) \in Devices /\ Prefix(p.cand, Full(disk, SetId(p.log)))
          BY <4>1, <4>3 DEF Fit, Process, Past, Held
        <5> QED BY <1>1, <2>7, <5>1, PartGrows
      <4>4. Fit(disk', e, k, p)
        BY <4>1, <4>2, <4>3 DEF Fit
      <4> QED BY <4>4 DEF p
    <3> QED BY <2>2, <3>1 DEF Fits
  <2>13. Owners'
    <3>1. ASSUME NEW e \in Inviters PROVE Owner(e, disk'[e], proc'[e]["pair"], mail'[e])
      <4>1. e \in Devices /\ e # n
        BY <2>1, MembershipAssumption
      <4>2. Owner(e, disk[e], proc[e]["pair"], mail[e]) /\ disk'[e] = disk[e]
        BY <2>8, <4>1 DEF OneLogInv, Owners
      <4> QED BY <2>2, <2>5, <4>1, <4>2 DEF Owner
    <3> QED BY <3>1 DEF Owners
  <2>14. Answers' /\ Joiners'
    BY <2>5, <2>6 DEF OneLogInv, Answers, Joiners
  <2> QED BY <2>10, <2>11, <2>12, <2>13, <2>14 DEF OneLogInv
<1>4. CASE GiveUp(n)
  <2>1. joining' = [joining EXCEPT ![n] = Nobody] /\ UNCHANGED <<disk, remote, proc, mail>>
    BY <1>4 DEF GiveUp
  <2>2. Joiners'
    BY <2>1 DEF OneLogInv, OwnInv, Joining, Joiners
  <2> QED BY <2>1, <2>2 DEF OneLogInv, Owners, Fits, Copies, Shared, Answers
<1> QED BY <1>2, <1>3, <1>4

LEMMA OneLogInductive ==
  ASSUME OneInviter, OneLogInv, [Next]_vars PROVE OneLogInv'
<1>1. OwnInv'
  BY OwnInductive DEF OneLogInv
<1>2. CASE UNCHANGED vars
  BY <1>1, <1>2 DEF vars, OneLogInv, Owners, Fits, Copies, Shared, Answers, Joiners
<1>3. CASE Next
  <2>1. ASSUME NEW d \in Devices, NEW k \in Kinds, Begin(d, k) \/ Step(d, k) \/ Die(d, k)
        PROVE  OneLogInv'
    BY <1>1, <2>1, BeginKeeps, LoadKeeps, FetchKeeps, AdoptKeeps, PushKeeps, WriteBundleKeeps
       DEF Step
  <2>2. ASSUME NEW d \in Devices, Approve(d) \/ Answer(d) PROVE OneLogInv'
    BY <1>1, <2>2, ApproveKeeps, AnswerKeeps
  <2>3. ASSUME NEW n \in Devices, (\E d \in Devices : Join(n, d)) \/ Joined(n) \/ GiveUp(n)
        PROVE  OneLogInv'
    BY <1>1, <2>3, JoinKeeps
  <2> QED BY <1>3, <2>1, <2>2, <2>3 DEF Next
<1> QED BY <1>2, <1>3

LEMMA OneLogStarts == ASSUME Init PROVE OneLogInv
<1>1. OwnInv
  BY OwnStarts
<1>2. Idle.pc = "idle" /\ Idle.have = 0 /\ Idle.added \in BOOLEAN /\ ~Idle.added
  BY DEF Idle
<1>3. Owners
  BY <1>2, MembershipAssumption DEF Init, Owners, Owner, Past, Kinds
<1>4. Fits
  BY <1>2, FitRests DEF Init, Fits
<1>5. Shared
  <2>1. Files(disk)
    BY <1>1 DEF OwnInv, Disks, Files
  <2> QED BY <2>1, FullLog, PrefixNone DEF Init, Shared
<1> QED BY <1>1, <1>3, <1>4, <1>5 DEF Init, OneLogInv, Copies, Copy, Answers, Joiners

\* With one inviter whose device runs no daemon, the rendezvous' log of every
\* set verifies like the devices' own, though it never looks at one.
THEOREM SharedLogsAreGood == OneInviter => (Spec => []LogsVerify)
<1> SUFFICES ASSUME OneInviter PROVE Spec => []LogsVerify
  OBVIOUS
<1>1. ASSUME OneLogInv PROVE LogsVerify
  <2>1. OwnLogsVerify
    BY <1>1 DEF OneLogInv, OwnInv, OwnLogsVerify, Disks, Procs, Process, Held
  <2>2. ASSUME NEW s \in Devices, remote[s] # <<>> PROVE Verified(remote[s])
    <3> DEFINE F == Full(disk, s)
    <3>1. Log(remote[s]) /\ Prefix(remote[s], F)
      BY <1>1 DEF OneLogInv, OwnInv, Remotes, Shared
    <3>2. Log(F) /\ (F # <<>> => Held(F))
      BY <1>1, FullLog DEF OneLogInv, OwnInv, Disks, Files
    <3> HIDE DEF F
    <3>3. F # <<>>
      BY <2>2, <3>1, <3>2, LogLen DEF Prefix
    <3> QED BY <2>2, <3>1, <3>2, <3>3, PrefixHeld
  <2> QED BY <2>1, <2>2 DEF LogsVerify
<1>2. OneLogInv /\ [Next]_vars => OneLogInv'
  BY OneLogInductive
<1> QED BY <1>1, <1>2, OneLogStarts, PTL DEF Spec

\* Under the same condition the logs of a set's devices are one log, read
\* further or less far, whatever requests fail and processes die.
THEOREM ThereIsOneLog == OneInviter => (Spec => []LogsAgree)
<1> SUFFICES ASSUME OneInviter PROVE Spec => []LogsAgree
  OBVIOUS
<1>1. ASSUME OneLogInv PROVE LogsAgree
  <2>1. ASSUME NEW d \in Devices, NEW e \in Devices, SameSet(d, e)
        PROVE  Prefix(disk[d], disk[e]) \/ Prefix(disk[e], disk[d])
    <3> DEFINE s == disk[d]
               t == disk[e]
               F == Full(disk, SetId(disk[d]))
    <3>1. s # <<>> /\ t # <<>> /\ SetId(s) = SetId(t)
      BY <2>1 DEF SameSet
    <3>2. Held(s) /\ Held(t) /\ Copy(disk, s) /\ Copy(disk, t)
      BY <1>1, <3>1 DEF OneLogInv, OwnInv, Disks, Copies
    <3>3. Prefix(s, F) /\ Prefix(t, F) /\ Log(s) /\ Log(t)
      BY <3>1, <3>2 DEF Copy, Held
    <3>4. Log(F)
      BY <1>1, <3>2, FullLog DEF OneLogInv, OwnInv, Disks, Files, Held
    <3> HIDE DEF s, t, F
    <3>5. Len(s) \in Nat /\ Len(t) \in Nat
      BY <3>3, LogLen
    <3>6. Prefix(s, t) \/ Prefix(t, s)
      BY <3>3, <3>4, <3>5, PrefixOrder
    <3> QED BY <3>6 DEF s, t
  <2> QED BY <2>1 DEF LogsAgree
<1>2. OneLogInv /\ [Next]_vars => OneLogInv'
  BY OneLogInductive
<1> QED BY <1>1, <1>2, OneLogStarts, PTL DEF Spec

\* Only what is adopted, approved or joined changes a file that is there.
LEMMA FileGoesOn ==
  ASSUME OneInviter, OneLogInv, Next, NEW d \in Devices, disk[d] # <<>>,
         SetId(disk[d]) = SetId(disk'[d]), ~Outdated(d)
  PROVE  Prefix(disk[d], disk'[d])
<1>1. Files(disk) /\ Held(disk[d]) /\ Log(disk[d])
  BY DEF OneLogInv, OwnInv, Disks, Files, Held
<1>2. ASSUME disk'[d] = disk[d] PROVE Prefix(disk[d], disk'[d])
  BY <1>1, <1>2, PrefixSelf
<1>3. ASSUME NEW e \in Devices, NEW k \in Kinds, Begin(e, k) \/ Step(e, k) \/ Die(e, k)
      PROVE  Prefix(disk[d], disk'[d])
  <2>1. CASE Begin(e, k) \/ Die(e, k) \/ Fetch(e, k) \/ Count(e, k) \/ Push(e, k) \/ WriteBundle(e, k)
    <3>1. UNCHANGED disk
      BY <2>1 DEF Begin, Die, Fetch, Count, Push, WriteBundle
    <3> QED BY <1>2, <3>1
  <2>2. CASE Load(e, k)
    <3>1. \/ UNCHANGED disk
          \/ disk[e] = <<>> /\ disk' = [disk EXCEPT ![e] = <<Genesis(e)>>]
      BY <2>2 DEF Load
    <3> QED BY <1>1, <1>2, <3>1 DEF Files
  <2>3. CASE Adopt(e, k)
    <3> DEFINE p == proc[e][k]
               better == Len(p.cand) > Len(p.log) /\ Verified(p.cand) /\ SetId(p.cand) = SetId(p.log)
    <3>1. p.pc = "adopt" /\ disk' = IF better THEN [disk EXCEPT ![e] = p.cand] ELSE disk
      BY <2>3 DEF Adopt
    <3>2. better => Prefix(p.log, p.cand)
      BY <2>3, AdoptsMore
    <3>3. CASE e = d /\ better
      <4>1. p.log = disk[d]
        BY <3>1, <3>3 DEF Outdated
      <4>2. disk'[d] = p.cand
        BY <1>1, <3>1, <3>3 DEF Files
      <4> QED BY <3>2, <3>3, <4>1, <4>2
    <3>4. CASE ~(e = d /\ better)
      <4>1. disk'[d] = disk[d]
        BY <3>1, <3>4
      <4> QED BY <1>2, <4>1
    <3> QED BY <3>3, <3>4
  <2> QED BY <1>3, <2>1, <2>2, <2>3 DEF Step
<1>4. ASSUME NEW e \in Devices, Approve(e) \/ Answer(e) PROVE Prefix(disk[d], disk'[d])
  <2>1. CASE Approve(e)
    <3>1. OwnInv'
      BY OwnInductive DEF OneLogInv
    <3>2. CASE e = d
      BY <2>1, <3>1, <3>2, ApproveKeeps
    <3>3. CASE e # d
      BY <1>2, <2>1, <3>3 DEF Approve
    <3> QED BY <3>2, <3>3
  <2>2. CASE Answer(e)
    BY <1>2, <2>2 DEF Answer
  <2> QED BY <1>4, <2>1, <2>2
<1>5. ASSUME NEW n \in Devices, (\E e \in Devices : Join(n, e)) \/ Joined(n) \/ GiveUp(n)
      PROVE  Prefix(disk[d], disk'[d])
  <2>1. CASE Joined(n)
    <3> DEFINE e == joining[n]
    <3>1. /\ e \in Inviters /\ mail[e].answer = disk[e] /\ SetId(disk[e]) = e
          /\ disk' = [disk EXCEPT ![n] = mail[e].answer]
      BY <2>1, JoinedMore DEF Joined
    <3>2. CASE n = d
      <4>1. disk'[d] = disk[e] /\ Full(disk, e) = disk[e]
        BY <1>1, <3>1, <3>2 DEF Files, Full
      <4>2. Copy(disk, disk[d])
        BY DEF OneLogInv, Copies
      <4> QED BY <3>1, <4>1, <4>2 DEF Copy
    <3>3. CASE n # d
      BY <1>2, <3>1, <3>3
    <3> QED BY <3>2, <3>3
  <2>2. CASE (\E e \in Devices : Join(n, e)) \/ GiveUp(n)
    <3>1. UNCHANGED disk
      BY <2>2 DEF Join, GiveUp
    <3> QED BY <1>2, <3>1
  <2> QED BY <1>5, <2>1, <2>2
<1> QED BY <1>3, <1>4, <1>5 DEF Next

\* Under the same condition no step makes a device forget an operation of its
\* set, but a sync that saves over a file written since it was read.
THEOREM LogsOnlyGrow == OneInviter => (Spec => DiskGrows)
<1> SUFFICES ASSUME OneInviter PROVE Spec => DiskGrows
  OBVIOUS
<1> DEFINE Keeps == \A d \in Devices :
                       /\ disk[d] # <<>> /\ SetId(disk[d]) = SetId(disk'[d])
                       /\ ~Outdated(d)
                       => Prefix(disk[d], disk'[d])
<1>1. OneLogInv /\ [Next]_vars => [Keeps]_vars
  BY FileGoesOn
<1>2. OneLogInv /\ [Next]_vars => OneLogInv'
  BY OneLogInductive
<1> QED BY <1>1, <1>2, OneLogStarts, PTL DEF Spec, DiskGrows, Keeps

=============================================================================
