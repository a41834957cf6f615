----------------------------- MODULE PaneStream ------------------------------
(***************************************************************************)
(* One pane's output on its way from rivtd to one client's replica:        *)
(* PANE_OUT frames, the 256 KiB replay ring with absolute offsets, the     *)
(* Hello / HelloOk / Attach handshake that resumes or snapshots, daemon    *)
(* upgrades (exec with a new epoch and an empty ring), connections that    *)
(* die and are replaced, and the parking of frames that arrive before the  *)
(* layout that creates their pane.                                         *)
(*                                                                         *)
(* Sources: src/src/daemon/rivtd.cpp, src/src/remote/remote_client.cpp and *)
(* src/src/remote/remote_controller.cpp.                                   *)
(*                                                                         *)
(* Bytes are numbered from the pane's birth: `total' is how many the shell *)
(* has written, and a frame carries the interval (from, to] it stands for. *)
(* Those positions are history, not protocol; what the protocol compares   *)
(* is the offset `off', counted from `base', the total when the running    *)
(* daemon image took over.                                                 *)
(***************************************************************************)
EXTENDS Integers, Sequences

CONSTANTS
    MaxOut,        \* bound: bytes the shell writes
    MaxChunk,      \* bound: bytes of one PTY read
    MaxLife,       \* bound: daemon images (1 + upgrades)
    RingMax,       \* PANE_RING_MAX
    EarlyMax,      \* frames m_early holds for a pane that has no layout yet
    EarlyOverflow, \* may a pane see more frames than that before its layout?
    UniqueEpochs,  \* does every daemon image draw an epoch of its own?
    LateDelivery   \* may a link presumed dead still deliver?

ASSUME BoundsAssumption ==
    /\ MaxOut \in Nat /\ MaxChunk \in Nat /\ MaxLife \in Nat
    /\ RingMax \in Nat /\ EarlyMax \in Nat
ASSUME SwitchAssumption ==
    /\ EarlyOverflow \in BOOLEAN /\ UniqueEpochs \in BOOLEAN
    /\ LateDelivery \in BOOLEAN

VARIABLES
    total, base,           \* bytes written; bytes written before this image
    ring_end, ring_len,    \* PaneRef::ring_end and PaneRef::ring.size()
    life, epoch,           \* which daemon image runs; its m_epoch
    conn,                  \* the connection, as the daemon sees it
    hs, hs_epoch, hs_off,  \* handshake message under way and its payload
    layout,                \* a LayoutUpdate is on the control stream
    pane,                  \* frames on the pane's stream, oldest first
    link,                  \* the connection, as the client sees it
    stale,                 \* m_qin bytes left there by a parked engine
    cepoch, off,           \* m_daemon_epoch and m_pane_off[pane]
    known, early,          \* pane in m_pane_map; m_early[pane].size()
    rep, torn,             \* replica = first rep bytes; or garbled
    rcvd, dropped, replayed \* history: last position received; damage causes

daemonVars == <<total, base, ring_end, ring_len, life, epoch>>
wireVars   == <<conn, hs, hs_epoch, hs_off, layout, pane>>
offVars    == <<cepoch, off>>
screenVars == <<known, early, rep, torn, rcvd, dropped, replayed>>
vars == <<daemonVars, wireVars, link, stale, offVars, screenVars>>

None == -1   \* no entry in m_pane_off (or no entry sent in Attach)

Frames == [kind : {"OUT", "SNAP", "RESUME"}, from : Nat, to : Nat, off : Nat]

Out(a, b)     == [kind |-> "OUT",    from |-> a, to |-> b, off |-> 0]
Snap(a)       == [kind |-> "SNAP",   from |-> a, to |-> a, off |-> 0]
Resume(a, o)  == [kind |-> "RESUME", from |-> a, to |-> a, off |-> o]

Attached == conn = "open" /\ hs = "attached"

TypeOK ==
    /\ total \in Nat /\ base \in Nat
    /\ ring_end \in Nat /\ ring_len \in 0..RingMax
    /\ life \in Nat /\ epoch \in Nat
    /\ conn \in {"none", "open", "closed"}
    /\ hs \in {"hello", "hello_ok", "attach", "attached"}
    /\ hs_epoch \in Nat /\ hs_off \in Nat \cup {None}
    /\ layout \in BOOLEAN
    /\ pane \in Seq(Frames) /\ stale \in Seq(Frames)
    /\ link \in {"down", "up", "parked"}
    /\ cepoch \in Nat /\ off \in Nat \cup {None}
    /\ known \in BOOLEAN /\ early \in Nat
    /\ rep \in Nat /\ torn \in BOOLEAN
    /\ rcvd \in Nat /\ dropped \in BOOLEAN /\ replayed \in BOOLEAN

Init ==
    /\ total = 0 /\ base = 0 /\ ring_end = 0 /\ ring_len = 0
    /\ life = 1 /\ epoch = 1
    /\ conn = "none" /\ hs = "hello" /\ hs_epoch = 0 /\ hs_off = None
    /\ layout = FALSE /\ pane = <<>>
    /\ link = "down" /\ stale = <<>>
    /\ cepoch = 0 /\ off = None
    /\ known = FALSE /\ early = 0
    /\ rep = 0 /\ torn = FALSE
    /\ rcvd = 0 /\ dropped = FALSE /\ replayed = FALSE

-----------------------------------------------------------------------------
(* The daemon.                                                             *)

\* Pane::on_output: append to the ring, trim it to RingMax, broadcast.
Output(n) ==
    /\ total + n <= MaxOut
    /\ total' = total + n
    /\ ring_end' = ring_end + n
    /\ ring_len' = IF ring_len + n > RingMax THEN RingMax ELSE ring_len + n
    /\ pane' = IF Attached THEN Append(pane, Out(total, total + n)) ELSE pane
    /\ UNCHANGED <<base, life, epoch, conn, hs, hs_epoch, hs_off, layout,
                   link, stale, offVars, screenVars>>

\* Hello: reply HelloOk with this image's epoch.
HandleHello ==
    /\ conn = "open" /\ hs = "hello"
    /\ hs' = "hello_ok" /\ hs_epoch' = epoch
    /\ UNCHANGED <<daemonVars, conn, hs_off, layout, pane, link, stale,
                   offVars, screenVars>>

RingStart == ring_end - ring_len

\* Mutant: an offset older than the ring is accepted.
ResumableAnyOld(o) == o # None /\ o <= ring_end

\* The offset is still in the ring: the gap can be replayed.
Resumable(o) == o # None /\ RingStart <= o /\ o <= ring_end

\* Mutant: the whole ring is replayed.
ReplayWhole(o) ==
    <<Resume(base + RingStart, RingStart),
      Out(base + RingStart, base + ring_end)>>

\* RESUME at the client's offset, then what the ring holds past it (no
\* PANE_OUT when that is nothing, or when the unsigned skip wraps).
Replay(o) ==
    IF RingStart <= o /\ o < ring_end
    THEN <<Resume(base + o, o), Out(base + o, base + ring_end)>>
    ELSE <<Resume(base + o, o)>>

\* A snapshot of the screen as it is now, then the anchor of its offset.
Reset == <<Snap(total), Resume(total, ring_end)>>

\* Mutant: a resumed client is not sent the layout.
HandleAttachNoLayout ==
    /\ conn = "open" /\ hs = "attach"
    /\ hs' = "attached" /\ layout' = ~Resumable(hs_off)
    /\ pane' = pane \o (IF Resumable(hs_off) THEN Replay(hs_off) ELSE Reset)
    /\ UNCHANGED <<daemonVars, conn, hs_epoch, hs_off, link, stale,
                   offVars, screenVars>>

\* Attach: LayoutUpdate on the control stream, replay or reset on the pane's.
HandleAttach ==
    /\ conn = "open" /\ hs = "attach"
    /\ hs' = "attached" /\ layout' = TRUE
    /\ pane' = pane \o (IF Resumable(hs_off) THEN Replay(hs_off) ELSE Reset)
    /\ UNCHANGED <<daemonVars, conn, hs_epoch, hs_off, link, stale,
                   offVars, screenVars>>

\* upgrade() and restore_handover(): connections closed, exec, screens and
\* ids kept, rings empty, offsets from zero.  The epoch is clock ^ pid: exec
\* keeps the pid, so two images of the same second share it.
Upgrade ==
    /\ life < MaxLife
    /\ life' = life + 1
    /\ epoch' \in IF UniqueEpochs THEN {epoch + 1} ELSE {epoch, epoch + 1}
    /\ base' = total /\ ring_end' = 0 /\ ring_len' = 0
    /\ conn' = IF conn = "open" THEN "closed" ELSE conn
    /\ UNCHANGED <<total, hs, hs_epoch, hs_off, layout, pane, link, stale,
                   offVars, screenVars>>

\* kill_client + sweep (full buffer, reset, idle timeout, failed exec).
DropClient ==
    /\ conn = "open"
    /\ conn' = "closed"
    /\ UNCHANGED <<daemonVars, hs, hs_epoch, hs_off, layout, pane, link,
                   stale, offVars, screenVars>>

-----------------------------------------------------------------------------
(* The client's connection.                                                *)

\* A reconnect attempt adopts a connection; hello() was queued for it.  What
\* a parked engine left in m_qin is still there; the engine itself is gone.
Connect ==
    /\ link \in {"down", "parked"}
    /\ link' = "up" /\ conn' = "open" /\ hs' = "hello"
    /\ layout' = FALSE /\ pane' = <<>>
    /\ UNCHANGED <<daemonVars, hs_epoch, hs_off, stale, offVars, screenVars>>

\* fail() on a connection that is really gone: close() drops everything read
\* or unread, but keeps the offsets and the epoch.
Teardown ==
    /\ link' = "down" /\ conn' = "none"
    /\ layout' = FALSE /\ pane' = <<>> /\ stale' = <<>>
    /\ UNCHANGED <<daemonVars, hs, hs_epoch, hs_off, offVars, screenVars>>

LinkFail    == link = "up" /\ Teardown
NoticeClose == link = "up" /\ conn = "closed" /\ Teardown

\* fail() from the ack probe: the engine is parked, not closed, and its
\* on_data callback stays wired to m_qin until the next connect().
PresumeDead ==
    /\ LateDelivery /\ link = "up"
    /\ link' = "parked" /\ stale' = <<>> /\ layout' = FALSE
    /\ UNCHANGED <<daemonVars, conn, hs, hs_epoch, hs_off, pane, offVars,
                   screenVars>>

\* The path comes back before the next attempt: bytes pile up in m_qin.
LateDeliver ==
    /\ link = "parked" /\ pane # <<>>
    /\ stale' = Append(stale, Head(pane))
    /\ pane' = Tail(pane)
    /\ UNCHANGED <<daemonVars, conn, hs, hs_epoch, hs_off, layout, link,
                   offVars, screenVars>>

-----------------------------------------------------------------------------
(* The client's handlers.                                                  *)

\* Mutant: offsets of another daemon image are kept.
RecvHelloOkKeep ==
    /\ link = "up" /\ hs = "hello_ok"
    /\ off' = off
    /\ cepoch' = hs_epoch
    /\ hs' = "attach" /\ hs_off' = off'
    /\ UNCHANGED <<daemonVars, conn, hs_epoch, layout, pane, link, stale,
                   screenVars>>

\* HelloOk: a new epoch voids the offsets; then attach with what is left.
RecvHelloOk ==
    /\ link = "up" /\ hs = "hello_ok"
    /\ off' = IF hs_epoch # cepoch THEN None ELSE off
    /\ cepoch' = hs_epoch
    /\ hs' = "attach" /\ hs_off' = off'
    /\ UNCHANGED <<daemonVars, conn, hs_epoch, layout, pane, link, stale,
                   screenVars>>

\* LayoutUpdate: the pane is created and its parked frames are replayed.
\* (They were applied to `rep' when they were parked: replay keeps order.)
RecvLayout ==
    /\ link = "up" /\ layout
    /\ layout' = FALSE /\ known' = TRUE /\ early' = 0
    /\ UNCHANGED <<daemonVars, conn, hs, hs_epoch, hs_off, pane, link, stale,
                   offVars, rep, torn, rcvd, dropped, replayed>>

\* A frame for a pane without layout finds m_early full.
Overflows(f) ==
    EarlyOverflow /\ ~known /\ early >= EarlyMax /\ f.kind # "RESUME"

\* Mutant: output is not counted.
AccountNoOut(f) ==
    off' = CASE f.kind = "OUT"    -> off
             [] f.kind = "RESUME" -> f.off
             [] OTHER             -> None

\* process_buffer's offset accounting: it runs whether or not the frame then
\* finds a pane or a place in m_early.
Account(f) ==
    off' = CASE f.kind = "OUT"    -> IF off = None THEN None
                                     ELSE off + (f.to - f.from)
             [] f.kind = "RESUME" -> f.off
             [] OTHER             -> None

\* on_snapshot / on_output: replace the screen, or feed it.
Apply(f) ==
    IF f.kind = "RESUME" \/ Overflows(f) THEN UNCHANGED <<rep, torn>>
    ELSE IF f.kind = "SNAP" THEN rep' = f.to /\ torn' = FALSE
    ELSE IF f.from = rep THEN rep' = f.to /\ UNCHANGED torn
    ELSE torn' = TRUE /\ UNCHANGED rep

Heals(f) == f.kind = "SNAP" /\ ~Overflows(f)

Take(f) ==
    /\ Account(f)
    /\ Apply(f)
    /\ rcvd' = f.to
    /\ dropped' = (Overflows(f) \/ (dropped /\ ~Heals(f)))
    /\ early' = IF known \/ f.kind = "RESUME" \/ early >= EarlyMax
                THEN early ELSE early + 1
    /\ UNCHANGED <<known, cepoch>>

RecvFrame ==
    /\ link = "up" /\ stale = <<>> /\ pane # <<>>
    /\ Take(Head(pane))
    /\ pane' = Tail(pane)
    /\ replayed' = (replayed /\ ~Heals(Head(pane)))
    /\ UNCHANGED <<daemonVars, conn, hs, hs_epoch, hs_off, layout, link,
                   stale>>

\* New bytes land behind the residue in m_qin, so the residue is parsed first.
RecvStale ==
    /\ link = "up" /\ stale # <<>> /\ pane # <<>>
    /\ Take(Head(stale))
    /\ stale' = Tail(stale)
    /\ replayed' = TRUE
    /\ UNCHANGED <<daemonVars, wireVars, link>>

-----------------------------------------------------------------------------
Next ==
    \/ \E n \in 1..MaxChunk : Output(n)
    \/ HandleHello \/ HandleAttach \/ Upgrade \/ DropClient
    \/ Connect \/ LinkFail \/ NoticeClose \/ PresumeDead \/ LateDeliver
    \/ RecvHelloOk \/ RecvLayout \/ RecvFrame \/ RecvStale

Spec == Init /\ [][Next]_vars

\* The event loops run every ready handler, the reconnect timer fires, and a
\* closed socket is reported.  Nothing obliges links to fail or shells to
\* write.
Fairness ==
    /\ WF_vars(HandleHello) /\ WF_vars(HandleAttach)
    /\ WF_vars(Connect) /\ WF_vars(NoticeClose)
    /\ WF_vars(RecvHelloOk) /\ WF_vars(RecvLayout)
    /\ WF_vars(RecvFrame) /\ WF_vars(RecvStale)

FairSpec == Spec /\ Fairness

-----------------------------------------------------------------------------
(* Properties.                                                             *)

\* Two things damage a replica: a frame that m_early had no room for, and
\* bytes that a parked engine left behind.  The next snapshot heals it.
Damaged == dropped \/ replayed

\* Undamaged, the replica never shows bytes twice, out of order or with a
\* hole, through any interleaving of output, reconnects, resumes, late bytes
\* and daemon upgrades.
ReplicaFaithful == ~Damaged => ~torn

\* messages.h on PANE_RESUME: "the client's replica is current through it".
ResumeCurrent ==
    (~Damaged /\ link = "up" /\ pane # <<>> /\ Head(pane).kind = "RESUME")
        => (~torn /\ rep = Head(pane).to)

\* Within one daemon image the client's offset never moves back: it is what
\* the client will ask to resume from, so moving back would replay bytes.
OffsetMonotone ==
    [][(~replayed' /\ off # None /\ off' # None /\ cepoch' = cepoch) => off' >= off]_vars

\* Once links stop failing and upgrades stop, every byte the shell wrote
\* reaches the screen, unless it is damaged.
CatchUp ==
    (<>[][~(LinkFail \/ DropClient \/ Upgrade \/ PresumeDead)]_vars)
        => <>[](known /\ (Damaged \/ (~torn /\ rep = total)))

\* The protocol implements the promise, from one damage to the next: a
\* garbled screen is no prefix.
Garbled == -1
Replica == INSTANCE PaneReplica
             WITH produced <- total, shown <- IF torn THEN Garbled ELSE rep
ReplicaSpec ==
    Replica!Init /\ [][(~Damaged /\ ~Damaged') => Replica!Next]_Replica!vars
=============================================================================
