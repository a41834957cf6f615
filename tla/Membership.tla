------------------------------ MODULE Membership ------------------------------
(***************************************************************************)
(* The device set: a signed, append-only log that every device keeps in a  *)
(* file and shares through the rendezvous.                                 *)
(*                                                                         *)
(* On each device two processes use the file without a lock: the periodic  *)
(* sync of the daemon, and `rivt pair`, which adds a device.  Both read    *)
(* the file, talk to the rendezvous for as long as that takes, and write   *)
(* the file and the trust bundle from what they hold in memory.  The       *)
(* rendezvous does not read the log: it only wants the next position.      *)
(*                                                                         *)
(* Nothing in the program signs a remove or an expiry, so there is none.   *)
(*                                                                         *)
(* Sources: src/src/net/membership.cpp, src/src/net/pairing.cpp and        *)
(* src/spike/rendezvous/src/index.js.                                      *)
(***************************************************************************)
EXTENDS Naturals, Sequences

CONSTANTS
    Devices,
    Syncers,    \* devices where a sync runs
    Founders,   \* those that run rivtd: a sync founds a missing set
    Inviters,   \* devices whose user runs `rivt pair`
    MaxOps,     \* bound: operations in a log
    MaxFaults   \* bound: requests that fail and processes that die

ASSUME MembershipAssumption ==
    /\ Founders \subseteq Syncers /\ Syncers \subseteq Devices
    /\ Inviters \subseteq Devices
    /\ MaxOps \in Nat /\ MaxFaults \in Nat

VARIABLES
    disk,      \* membership.log of each device, <<>> if there is none
    bundle,    \* authorized_certs.pem: the devices each device trusts
    remote,    \* the log the rendezvous keeps for the set of each founder
    proc,      \* the processes of each device
    mail,      \* the mailbox of each inviter's last invite
    joining,   \* the inviter whose answer a device waits for
    faults

vars == <<disk, bundle, remote, proc, mail, joining, faults>>

Nobody == "nobody"
Kinds == {"sync", "pair"}

-----------------------------------------------------------------------------
(* The log.  A signature cannot be forged and a hash names what it is of:  *)
(* an operation carries the operation before it.                           *)

Genesis(d) == [seq |-> 0, prev |-> <<>>, subject |-> d, signer |-> d]

Signed(log, signer, d) ==
    Append(log, [seq |-> Len(log), prev |-> <<log[Len(log)]>>,
                 subject |-> d, signer |-> signer])

Members(log) == {log[i].subject : i \in DOMAIN log}

SetId(log) == log[1].subject

\* load: append_verified on every operation.
Verified(log) ==
    /\ log # <<>> /\ log[1] = Genesis(log[1].subject)
    /\ \A i \in 2..Len(log) :
          /\ log[i].seq = i - 1
          /\ log[i].prev = <<log[i - 1]>>
          /\ log[i].signer \in Members(SubSeq(log, 1, i - 1))

Idle == [pc |-> "idle", log |-> <<>>, cand |-> <<>>, have |-> 0, added |-> FALSE]

Init ==
    /\ disk = [d \in Devices |-> <<>>]
    /\ bundle = [d \in Devices |-> {}]
    /\ remote = [d \in Devices |-> <<>>]
    /\ proc = [d \in Devices |-> [k \in Kinds |-> Idle]]
    /\ mail = [d \in Devices |-> [offer |-> Nobody, answer |-> <<>>, set |-> d]]
    /\ joining = [d \in Devices |-> Nobody]
    /\ faults = 0

\* The set a process asks the rendezvous about; an approval stays with the
\* set its code was made for.
SetOf(d, k) ==
    IF proc[d][k].added THEN mail[d].set ELSE SetId(proc[d][k].log)

Goto(d, k, r) == proc' = [proc EXCEPT ![d][k] = r]

-----------------------------------------------------------------------------
(* sync_membership, one step for each request and each file it touches.    *)

Begin(d, k) ==
    /\ proc[d][k].pc = "idle"
    /\ IF k = "pair" THEN d \in Inviters ELSE d \in Syncers
    /\ Goto(d, k, [Idle EXCEPT !.pc = "load"])
    /\ UNCHANGED <<disk, bundle, remote, mail, joining, faults>>

\* load_file; a daemon or an inviter without a log founds a set.
Load(d, k) ==
    /\ proc[d][k].pc = "load"
    /\ \/ /\ disk[d] # <<>>
          /\ Goto(d, k, [proc[d][k] EXCEPT !.pc = "fetch", !.log = disk[d]])
          /\ UNCHANGED disk
       \/ /\ disk[d] = <<>> /\ (k = "pair" \/ d \in Founders)
          /\ disk' = [disk EXCEPT ![d] = <<Genesis(d)>>]
          /\ Goto(d, k, [proc[d][k] EXCEPT !.pc = "fetch", !.log = <<Genesis(d)>>])
       \/ /\ disk[d] = <<>> /\ k = "sync" /\ d \notin Founders
          /\ Goto(d, k, Idle) /\ UNCHANGED disk
    /\ UNCHANGED <<bundle, remote, mail, joining, faults>>

\* membership_fetch: what the rendezvous has, or nothing if it cannot be asked.
Fetch(d, k) ==
    LET set == SetOf(d, k)
    IN /\ proc[d][k].pc = "fetch"
       /\ \/ /\ Goto(d, k, [proc[d][k] EXCEPT !.pc = "adopt", !.cand = remote[set]])
             /\ UNCHANGED faults
          \/ /\ faults < MaxFaults /\ faults' = faults + 1
             /\ Goto(d, k, [proc[d][k] EXCEPT !.pc = "count"])
       /\ UNCHANGED <<disk, bundle, remote, mail, joining>>

\* Mutant: any verified log is adopted, a shorter one too.
AdoptAny(d, k) ==
    LET p == proc[d][k]
        better == Verified(p.cand)
    IN /\ p.pc = "adopt"
       /\ Goto(d, k, [p EXCEPT !.pc = "count", !.cand = <<>>,
                               !.log = IF better THEN p.cand ELSE p.log])
       /\ disk' = IF better THEN [disk EXCEPT ![d] = p.cand] ELSE disk
       /\ UNCHANGED <<bundle, remote, mail, joining, faults>>

\* A longer verified log of the same set replaces the one in memory and on disk.
Adopt(d, k) ==
    LET p == proc[d][k]
        better == Len(p.cand) > Len(p.log) /\ Verified(p.cand)
                  /\ SetId(p.cand) = SetId(p.log)
    IN /\ p.pc = "adopt"
       /\ Goto(d, k, [p EXCEPT !.pc = "count", !.cand = <<>>,
                               !.log = IF better THEN p.cand ELSE p.log])
       /\ disk' = IF better THEN [disk EXCEPT ![d] = p.cand] ELSE disk
       /\ UNCHANGED <<bundle, remote, mail, joining, faults>>

\* The second fetch only counts: where to start pushing.
Count(d, k) ==
    LET p == proc[d][k]
    IN /\ p.pc = "count"
       /\ \/ /\ Goto(d, k, [p EXCEPT !.pc = "push", !.have = Len(remote[SetOf(d, k)])])
             /\ UNCHANGED faults
          \/ /\ faults < MaxFaults /\ faults' = faults + 1
             /\ Goto(d, k, [p EXCEPT !.pc = "push", !.have = 0])
       /\ UNCHANGED <<disk, bundle, remote, mail, joining>>

\* Mutant: /log/append takes an operation at any position.
PushAnySeq(d, k) ==
    LET p == proc[d][k]  set == SetOf(d, k)
    IN /\ p.pc = "push" /\ p.have < Len(p.log)
       /\ Goto(d, k, [p EXCEPT !.have = @ + 1])
       /\ remote' = [remote EXCEPT ![set] = Append(@, p.log[p.have + 1])]
       /\ UNCHANGED <<disk, bundle, mail, joining, faults>>

\* membership_push of the next operation, which /log/append takes if its
\* position is the number of operations it has.  The answer is ignored.
Push(d, k) ==
    LET p == proc[d][k]  set == SetOf(d, k)
    IN /\ p.pc = "push" /\ p.have < Len(p.log)
       /\ Goto(d, k, [p EXCEPT !.have = @ + 1])
       /\ \/ /\ remote' = IF p.have = Len(remote[set])
                          THEN [remote EXCEPT ![set] = Append(@, p.log[p.have + 1])]
                          ELSE remote
             /\ UNCHANGED faults
          \/ faults < MaxFaults /\ faults' = faults + 1 /\ UNCHANGED remote
       /\ UNCHANGED <<disk, bundle, mail, joining>>

\* Mutant: only a pairing writes the bundle.
WriteBundleWhenPairing(d, k) ==
    LET p == proc[d][k]
    IN /\ p.pc = "push" /\ p.have >= Len(p.log)
       /\ bundle' = IF k = "pair" THEN [bundle EXCEPT ![d] = Members(p.log)] ELSE bundle
       /\ Goto(d, k, IF k = "sync" THEN Idle
                     ELSE [p EXCEPT !.pc = IF p.added THEN "answer" ELSE "wait",
                                    !.have = 0])
       /\ mail' = IF k = "pair" /\ ~p.added
                  THEN [mail EXCEPT ![d] = [offer |-> Nobody, answer |-> <<>>,
                                          set |-> SetId(p.log)]]
                  ELSE mail
       /\ UNCHANGED <<disk, remote, joining, faults>>

\* write_bundle, and what comes next: a sync ends, an invite is shown and
\* waits for its offer, an approval is answered.
WriteBundle(d, k) ==
    LET p == proc[d][k]
    IN /\ p.pc = "push" /\ p.have >= Len(p.log)
       /\ bundle' = [bundle EXCEPT ![d] = Members(p.log)]
       /\ Goto(d, k, IF k = "sync" THEN Idle
                     ELSE [p EXCEPT !.pc = IF p.added THEN "answer" ELSE "wait",
                                    !.have = 0])
       /\ mail' = IF k = "pair" /\ ~p.added
                  THEN [mail EXCEPT ![d] = [offer |-> Nobody, answer |-> <<>>,
                                          set |-> SetId(p.log)]]
                  ELSE mail
       /\ UNCHANGED <<disk, remote, joining, faults>>

-----------------------------------------------------------------------------
(* Pairing.                                                                *)

\* pair_join with d's code: the offer is in the mailbox.
Join(n, d) ==
    /\ n # d /\ joining[n] = Nobody
    /\ proc[d]["pair"].pc = "wait" /\ mail[d].offer = Nobody
    /\ mail' = [mail EXCEPT ![d].offer = n]
    /\ joining' = [joining EXCEPT ![n] = d]
    /\ UNCHANGED <<disk, bundle, remote, proc, faults>>

\* Mutant: the extended log is pushed but not saved.
ApproveNoSave(d) ==
    LET p == proc[d]["pair"]  log == disk[d]  n == mail[d].offer
    IN /\ p.pc = "wait" /\ n # Nobody
       /\ Len(log) < MaxOps
       /\ d \in Members(log)
       /\ Goto(d, "pair", [p EXCEPT !.pc = "count", !.log = Signed(log, d, n),
                                    !.added = TRUE])
       /\ UNCHANGED <<disk, bundle, remote, mail, joining, faults>>

\* pair_invite approves: the log is read again, extended and saved, and what
\* the rendezvous lacks is pushed.
Approve(d) ==
    LET p == proc[d]["pair"]  log == disk[d]  n == mail[d].offer
    IN /\ p.pc = "wait" /\ n # Nobody
       /\ Len(log) < MaxOps
       /\ d \in Members(log)
       /\ disk' = [disk EXCEPT ![d] = Signed(log, d, n)]
       /\ Goto(d, "pair", [p EXCEPT !.pc = "count", !.log = Signed(log, d, n),
                                    !.added = TRUE])
       /\ UNCHANGED <<bundle, remote, mail, joining, faults>>

Answer(d) ==
    /\ proc[d]["pair"].pc = "answer"
    /\ mail' = [mail EXCEPT ![d].answer = proc[d]["pair"].log]
    /\ Goto(d, "pair", Idle)
    /\ UNCHANGED <<disk, bundle, remote, joining, faults>>

\* pair_join reads the answer: the log replaces whatever the device had.
Joined(n) ==
    LET d == joining[n]
    IN /\ d # Nobody
       /\ mail[d].offer = n /\ mail[d].answer # <<>>
       /\ Verified(mail[d].answer) /\ SetId(mail[d].answer) = mail[d].set
       /\ n \in Members(mail[d].answer)
       /\ disk' = [disk EXCEPT ![n] = mail[d].answer]
       /\ bundle' = [bundle EXCEPT ![n] = Members(mail[d].answer)]
       /\ joining' = [joining EXCEPT ![n] = Nobody]
       /\ mail' = [mail EXCEPT ![d].offer = Nobody, ![d].answer = <<>>]
       /\ UNCHANGED <<remote, proc, faults>>

\* The user interrupts a process, declines, or the invite times out.
Die(d, k) ==
    /\ proc[d][k].pc # "idle" /\ faults < MaxFaults
    /\ faults' = faults + 1
    /\ Goto(d, k, Idle)
    /\ UNCHANGED <<disk, bundle, remote, mail, joining>>

\* The joiner gives up.
GiveUp(n) ==
    /\ joining[n] # Nobody /\ faults < MaxFaults
    /\ faults' = faults + 1
    /\ joining' = [joining EXCEPT ![n] = Nobody]
    /\ UNCHANGED <<disk, bundle, remote, proc, mail>>

Step(d, k) ==
    \/ Load(d, k) \/ Fetch(d, k) \/ Adopt(d, k) \/ Count(d, k)
    \/ Push(d, k) \/ WriteBundle(d, k)

Next ==
    \/ \E d \in Devices, k \in Kinds : Begin(d, k) \/ Step(d, k) \/ Die(d, k)
    \/ \E d \in Devices : Approve(d) \/ Answer(d) \/ Joined(d) \/ GiveUp(d)
    \/ \E n, d \in Devices : Join(n, d)

Spec == Init /\ [][Next]_vars

\* The daemon's timer starts a sync every minute, and a process whose
\* requests are answered runs to its end.
FairSpec ==
    /\ Spec
    /\ \A d \in Devices :
          /\ WF_vars(Begin(d, "sync"))
          /\ WF_vars(Step(d, "sync"))
          /\ WF_vars(Step(d, "pair"))

-----------------------------------------------------------------------------
(* Properties.                                                             *)

Prefix(s, t) == Len(s) <= Len(t) /\ s = SubSeq(t, 1, Len(s))

SameSet(d, e) == disk[d] # <<>> /\ disk[e] # <<>> /\ SetId(disk[d]) = SetId(disk[e])

\* "A signed, append-only operation log": a device's copy of its set never
\* loses an operation.  Not so: a join or an approval may write the file
\* between the load and the save of a sync, which puts back what it read.
NeverForgets ==
    [][\A d \in Devices :
          disk[d] # <<>> /\ SetId(disk[d]) = SetId(disk'[d])
          => Prefix(disk[d], disk'[d])]_vars

\* A process is about to save over a file that is no longer the one it read.
Outdated(d) == \E k \in Kinds : proc[d][k].pc = "adopt" /\ proc[d][k].log # disk[d]

\* But for that race, a device's copy of its set never loses an operation:
\* what is adopted, approved or joined goes on from what the device has.
DiskGrows ==
    [][\A d \in Devices :
          /\ disk[d] # <<>> /\ SetId(disk[d]) = SetId(disk'[d])
          /\ ~Outdated(d)
          => Prefix(disk[d], disk'[d])]_vars

\* "Append requires the expected seq to serialize concurrent writers": the
\* logs of two devices of a set are one log, read further or less far.
LogsAgree ==
    \A d, e \in Devices :
        SameSet(d, e) => Prefix(disk[d], disk[e]) \/ Prefix(disk[e], disk[d])

\* Every log of a device verifies, on disk and in the hands of a process that
\* got past load_file: a daemon never founds a set over one it has
\* (membership.cpp load_file, verify).
OwnLogsVerify ==
    /\ \A d \in Devices : disk[d] # <<>> => Verified(disk[d])
    /\ \A d \in Devices, k \in Kinds :
          proc[d][k].pc \notin {"idle", "load"} => Verified(proc[d][k].log)

\* And so does what the rendezvous has of every set, though it never looks.
LogsVerify ==
    /\ OwnLogsVerify
    /\ \A s \in Devices : remote[s] # <<>> => Verified(remote[s])

\* "This device is now trusted": a device whose join succeeded is in the
\* bundle of the device that approved it.
JoinedIsTrusted ==
    \A n, d \in Devices :
        (n # d /\ SameSet(n, d) /\ \E i \in DOMAIN disk[n] :
            disk[n][i].subject = n /\ disk[n][i].signer = d) => n \in bundle[d]

\* "Enroll a device once and every box derives the new member from the
\* synced log": once approvals have stopped, every device whose daemon syncs
\* trusts all members of its set, and goes on trusting them.
Converges ==
    <>[](\A d \in Syncers :
            disk[d] # <<>> => Members(remote[SetId(disk[d])]) \subseteq bundle[d])
=============================================================================
