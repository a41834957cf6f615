---------------------------- MODULE StreamProofs -----------------------------
(***************************************************************************)
(* The two streams of bytes between the daemon and a client lose nothing:  *)
(* a pane's output through reconnects and upgrades (PaneStream), and the   *)
(* connections to the agent, for any number of them, of sockets and of     *)
(* ended sessions (AgentForward).                                          *)
(***************************************************************************)
EXTENDS PaneStream, AgentForward, SequenceTheorems, WellFoundedInduction, TLAPS

-----------------------------------------------------------------------------
(* A pane's output.                                                        *)

\* The positions of the frames on the pane's stream are those of the bytes:
\* each continues the one before it, none is ahead of the shell.
FrameOK(f, t) == f.from <= f.to /\ f.to <= t /\ (f.kind # "OUT" => f.from = f.to)

FramesInv ==
    /\ \A i \in 1..Len(pane) : FrameOK(pane[i], total)
    /\ \A i \in 1..Len(stale) : FrameOK(stale[i], total)

ChainInv == \A i \in 1..Len(pane) : i > 1 => pane[i].from = pane[i-1].to

\* What the first frame may be, given what the client has received.
HeadInv ==
    pane # <<>> =>
        /\ pane[1].kind = "OUT" => pane[1].from = rcvd /\ stale = <<>>
        /\ (pane[1].kind = "RESUME" /\ ~replayed) => pane[1].from = rcvd
        /\ ~replayed => rcvd <= pane[1].from

\* While the daemon is sending, the stream reaches up to the last byte.
TailInv ==
    Attached => IF pane = <<>> THEN rcvd = total
                ELSE pane[Len(pane)].to = total

\* Anchors sent by this image name the position they stand for.
AnchorInv ==
    cepoch = epoch =>
        \A i \in 1..Len(pane) : pane[i].kind = "RESUME" => base + pane[i].off = pane[i].to

HandshakeInv ==
    /\ hs # "attached" => pane = <<>>
    /\ (hs = "attached" /\ pane = <<>>) => stale = <<>>
    /\ hs = "attach" => hs_off = off
    /\ (conn = "open" /\ hs \in {"attach", "attached"}) => cepoch = epoch
    /\ (conn = "open" /\ hs = "hello_ok") => hs_epoch = epoch

LinkInv ==
    /\ link = "up" => conn # "none"
    /\ link = "up" => ChainInv /\ HeadInv /\ TailInv /\ AnchorInv /\ HandshakeInv

CountInv ==
    /\ ring_len <= ring_end /\ base + ring_end = total
    /\ cepoch <= epoch /\ hs_epoch <= epoch /\ rcvd <= total

OffInv == (off # None /\ cepoch = epoch /\ ~replayed) => base + off = rcvd

ScreenInv == (~dropped /\ ~replayed) => (rep = rcvd /\ ~torn)

IInv == TypeOK /\ CountInv /\ FramesInv /\ LinkInv /\ OffInv /\ ScreenInv
-----------------------------------------------------------------------------
(* Frames and sequences of frames.                                         *)

LEMMA FrameTypes ==
    ASSUME NEW a \in Nat, NEW b \in Nat, NEW o \in Nat
    PROVE  Out(a, b) \in Frames /\ Snap(a) \in Frames /\ Resume(a, o) \in Frames
  BY DEF Out, Snap, Resume, Frames

LEMMA FrameFields ==
    ASSUME NEW f \in Frames
    PROVE  /\ f.kind \in {"OUT", "SNAP", "RESUME"}
           /\ f.from \in Nat /\ f.to \in Nat /\ f.off \in Nat
  BY DEF Frames

LEMMA ElementTypes ==
    ASSUME NEW s \in Seq(Frames)
    PROVE  /\ Len(s) \in Nat
           /\ (s = <<>>) <=> (Len(s) = 0)
           /\ \A i \in 1..Len(s) : s[i] \in Frames
  OBVIOUS

\* What Tail does to the frames that stay.
LEMMA TailFacts ==
    ASSUME NEW s \in Seq(Frames), s # <<>>
    PROVE  /\ Tail(s) \in Seq(Frames) /\ Head(s) \in Frames /\ Head(s) = s[1]
           /\ Len(Tail(s)) = Len(s) - 1
           /\ \A i \in 1..Len(Tail(s)) : Tail(s)[i] = s[i+1]
  BY HeadTailProperties

\* What Append does.
LEMMA AppendFacts ==
    ASSUME NEW s \in Seq(Frames), NEW f \in Frames
    PROVE  /\ Append(s, f) \in Seq(Frames) /\ Append(s, f) # <<>>
           /\ Len(Append(s, f)) = Len(s) + 1
           /\ \A i \in 1..Len(s) : Append(s, f)[i] = s[i]
           /\ Append(s, f)[Len(s) + 1] = f
  BY AppendProperties
-----------------------------------------------------------------------------
(* The inductive invariant holds initially and is kept by every action.    *)

LEMMA InitIInv == Init => IInv
<1> SUFFICES ASSUME Init PROVE IInv
  OBVIOUS
<1>1. TypeOK
  <2>1. <<>> \in Seq(Frames)
    BY EmptySeq
  <2>2. 0 \in 0..RingMax
    BY BoundsAssumption
  <2>3. 0 \in Nat /\ 1 \in Nat
    OBVIOUS
  <2> QED
    BY <2>1, <2>2, <2>3 DEF Init, TypeOK
<1>2. FramesInv
  BY DEF Init, FramesInv
<1>3. CountInv /\ LinkInv /\ OffInv /\ ScreenInv
  BY DEF Init, CountInv, LinkInv, OffInv, ScreenInv, None
<1> QED
  BY <1>1, <1>2, <1>3 DEF IInv

LEMMA OutputStep ==
    ASSUME IInv, NEW n \in 1..MaxChunk, Output(n)
    PROVE  IInv'
<1> USE BoundsAssumption DEF IInv
<1>1. n \in Nat /\ n > 0 /\ total \in Nat
  BY DEF TypeOK
<1>2. PICK f \in Frames : f = Out(total, total + n)
  BY <1>1, FrameTypes
<1>3. f.from = total /\ f.to = total + n /\ f.kind = "OUT"
  BY <1>2 DEF Out
<1>4. pane' = IF Attached THEN Append(pane, f) ELSE pane
  BY <1>2 DEF Output
<1>5. TypeOK'
  BY <1>1, <1>4, AppendFacts DEF TypeOK, Output, offVars, screenVars
<1>6. CountInv'
  BY <1>1 DEF TypeOK, CountInv, Output, offVars, screenVars
<1>7. pane \in Seq(Frames) /\ stale \in Seq(Frames) /\ rcvd \in Nat
  BY DEF TypeOK
<1>8. FramesInv'
  <2>1. \A g \in Frames : FrameOK(g, total) => FrameOK(g, total')
    BY <1>1, FrameFields DEF FrameOK, Output
  <2>2. FrameOK(f, total')
    BY <1>1, <1>3 DEF Output, FrameOK
  <2>3. \A i \in 1..Len(pane') : FrameOK(pane'[i], total')
    BY <1>4, <1>7, <2>1, <2>2, AppendFacts, ElementTypes DEF FramesInv
  <2>4. \A i \in 1..Len(stale') : FrameOK(stale'[i], total')
    BY <1>7, <2>1, ElementTypes DEF FramesInv, Output
  <2> QED
    BY <2>3, <2>4 DEF FramesInv
<1>9. LinkInv'
  <2>1. CASE ~Attached
    BY <1>4, <2>1 DEF LinkInv, ChainInv, HeadInv, TailInv, AnchorInv, HandshakeInv, Attached,
       Output, offVars, screenVars
  <2>2. CASE Attached
    <3>1. SUFFICES ASSUME link = "up"
                   PROVE  LinkInv'
      BY DEF LinkInv, Output
    <3>2. pane' = Append(pane, f)
      BY <1>4, <2>2
    <3>3. ChainInv'
      BY <3>1, <3>2, <1>3, <1>7, <2>2, AppendFacts, ElementTypes DEF LinkInv, ChainInv, TailInv
    <3>4. HeadInv'
      <4>1. CASE pane = <<>>
        BY <4>1, <3>1, <3>2, <1>1, <1>3, <1>7, <2>2, AppendFacts, ElementTypes
        DEF LinkInv, TailInv, HandshakeInv, HeadInv, Attached, Output, screenVars
      <4>2. CASE pane # <<>>
        BY <4>2, <3>1, <3>2, <1>7, AppendFacts, ElementTypes DEF LinkInv, HeadInv, Output, screenVars
      <4> QED
        BY <4>1, <4>2
    <3>5. TailInv'
      BY <3>2, <1>1, <1>3, <1>7, AppendFacts, ElementTypes DEF TailInv, Output
    <3>6. AnchorInv'
      BY <3>1, <3>2, <1>3, <1>7, AppendFacts, ElementTypes DEF LinkInv, AnchorInv, Output, offVars
    <3>7. HandshakeInv'
      BY <3>1, <3>2, <1>7, <2>2, AppendFacts DEF LinkInv, HandshakeInv, Attached, Output, offVars
    <3> QED
      BY <3>1, <3>3, <3>4, <3>5, <3>6, <3>7 DEF LinkInv, Output
  <2> QED
    BY <2>1, <2>2
<1>10. OffInv' /\ ScreenInv'
  BY DEF OffInv, ScreenInv, Output, offVars, screenVars
<1> QED
  BY <1>5, <1>6, <1>8, <1>9, <1>10

LEMMA HelloStep == IInv /\ HandleHello => IInv'
<1> SUFFICES ASSUME IInv, HandleHello PROVE IInv'
  OBVIOUS
<1> USE DEF IInv, HandleHello, daemonVars, offVars, screenVars
<1>1. TypeOK'
  BY DEF TypeOK
<1>2. CountInv'
  BY DEF TypeOK, CountInv
<1>3. FramesInv' /\ OffInv' /\ ScreenInv'
  BY DEF FramesInv, OffInv, ScreenInv
<1>4. LinkInv'
  BY DEF LinkInv, ChainInv, HeadInv, TailInv, AnchorInv, HandshakeInv, Attached
<1> QED
  BY <1>1, <1>2, <1>3, <1>4

\* The frames Attach queues: they start where the client stands, end at the
\* last byte, and their anchors name the position they stand for.
AttachFrames(X) ==
    /\ X \in Seq(Frames) /\ X # <<>>
    /\ \A i \in 1..Len(X) : FrameOK(X[i], total)
    /\ \A i \in 1..Len(X) : i > 1 => X[i].from = X[i-1].to
    /\ X[1].kind # "OUT"
    /\ (link = "up" /\ ~replayed) =>
          (rcvd <= X[1].from /\ (X[1].kind = "RESUME" => X[1].from = rcvd))
    /\ X[Len(X)].to = total
    /\ \A i \in 1..Len(X) : X[i].kind = "RESUME" => base + X[i].off = X[i].to

LEMMA ShortSeq ==
    ASSUME NEW f \in Frames, NEW g \in Frames
    PROVE  /\ <<f>> \in Seq(Frames) /\ Len(<<f>>) = 1 /\ <<f>>[1] = f /\ <<f>> # <<>>
           /\ <<f, g>> \in Seq(Frames) /\ Len(<<f, g>>) = 2 /\ <<f, g>> # <<>>
           /\ <<f, g>>[1] = f /\ <<f, g>>[2] = g
  OBVIOUS

LEMMA AttachSends ==
    ASSUME IInv, HandleAttach
    PROVE  \E X : AttachFrames(X) /\ pane' = pane \o X
<1>0. /\ total \in Nat /\ base \in Nat /\ ring_end \in Nat /\ ring_len \in Nat
      /\ hs_off \in Nat \cup {None} /\ off \in Nat \cup {None} /\ rcvd \in Nat
      /\ ring_len <= ring_end /\ base + ring_end = total /\ rcvd <= total
  BY BoundsAssumption DEF IInv, TypeOK, CountInv
<1>1. (link = "up" /\ ~replayed /\ hs_off # None) => base + hs_off = rcvd
  BY DEF IInv, LinkInv, HandshakeInv, OffInv, HandleAttach
<1>2. CASE Resumable(hs_off)
  <2>1. hs_off \in Nat /\ RingStart <= hs_off /\ hs_off <= ring_end /\ hs_off # None
    BY <1>0, <1>2 DEF Resumable
  <2>2. PICK f \in Frames : f = Resume(base + hs_off, hs_off)
    BY <1>0, <2>1, FrameTypes
  <2>3. PICK g \in Frames : g = Out(base + hs_off, base + ring_end)
    BY <1>0, <2>1, FrameTypes
  <2>4. /\ f.kind = "RESUME" /\ f.from = base + hs_off /\ f.to = base + hs_off
        /\ f.off = hs_off
        /\ g.kind = "OUT" /\ g.from = base + hs_off /\ g.to = total
    BY <1>0, <2>2, <2>3 DEF Resume, Out
  <2>5. FrameOK(f, total) /\ FrameOK(g, total)
    BY <1>0, <2>1, <2>4 DEF FrameOK
  <2>6. Replay(hs_off) = IF hs_off < ring_end THEN <<f, g>> ELSE <<f>>
    BY <2>1, <2>2, <2>3 DEF Replay
  <2>7. CASE hs_off < ring_end
    <3>1. AttachFrames(<<f, g>>)
      BY <1>0, <1>1, <2>1, <2>4, <2>5, ShortSeq DEF AttachFrames
    <3> QED
      BY <3>1, <2>6, <2>7, <1>2 DEF HandleAttach
  <2>8. CASE ~(hs_off < ring_end)
    <3>1. base + hs_off = total
      BY <1>0, <2>1, <2>8
    <3>2. AttachFrames(<<f>>)
      BY <1>0, <1>1, <2>1, <2>4, <2>5, <3>1, ShortSeq DEF AttachFrames
    <3> QED
      BY <3>2, <2>6, <2>8, <1>2 DEF HandleAttach
  <2> QED
    BY <2>7, <2>8
<1>3. CASE ~Resumable(hs_off)
  <2>1. PICK f \in Frames : f = Snap(total)
    BY <1>0, FrameTypes
  <2>2. PICK g \in Frames : g = Resume(total, ring_end)
    BY <1>0, FrameTypes
  <2>3. /\ f.kind = "SNAP" /\ f.from = total /\ f.to = total
        /\ g.kind = "RESUME" /\ g.from = total /\ g.to = total /\ g.off = ring_end
    BY <2>1, <2>2 DEF Snap, Resume
  <2>4. FrameOK(f, total) /\ FrameOK(g, total)
    BY <1>0, <2>3 DEF FrameOK
  <2>5. AttachFrames(<<f, g>>)
    BY <1>0, <2>3, <2>4, ShortSeq DEF AttachFrames
  <2> QED
    BY <2>1, <2>2, <2>5, <1>3 DEF HandleAttach, Reset
<1> QED
  BY <1>2, <1>3

LEMMA AttachStep == IInv /\ HandleAttach => IInv'
<1> SUFFICES ASSUME IInv, HandleAttach PROVE IInv'
  OBVIOUS
<1> USE DEF IInv, daemonVars, offVars, screenVars
<1>1. PICK X : AttachFrames(X) /\ pane' = pane \o X
  BY AttachSends
<1>2. pane \in Seq(Frames) /\ X \in Seq(Frames) /\ stale \in Seq(Frames) /\ X # <<>>
  BY <1>1 DEF TypeOK, AttachFrames
<1>3. TypeOK'
  BY <1>1, <1>2, ConcatProperties DEF TypeOK, HandleAttach
<1>4. CountInv' /\ OffInv' /\ ScreenInv'
  BY DEF HandleAttach, CountInv, OffInv, ScreenInv
<1>5. FramesInv'
  <2>1. /\ Len(pane') = Len(pane) + Len(X)
        /\ \A i \in 1..Len(pane') :
              pane'[i] = IF i <= Len(pane) THEN pane[i] ELSE X[i - Len(pane)]
    BY <1>1, <1>2, ConcatProperties
  <2>2. \A i \in 1..Len(pane') : FrameOK(pane'[i], total)
    <3>1. /\ Len(pane) \in Nat /\ Len(X) \in Nat
          /\ \A i \in 1..Len(pane) : FrameOK(pane[i], total)
          /\ \A i \in 1..Len(X) : FrameOK(X[i], total)
      BY <1>1, <1>2, ElementTypes DEF FramesInv, AttachFrames
    <3>2. ASSUME NEW i \in 1..Len(pane') PROVE FrameOK(pane'[i], total)
      <4>1. CASE i <= Len(pane)
        BY <2>1, <3>1, <4>1
      <4>2. CASE ~(i <= Len(pane))
        <5>1. i - Len(pane) \in 1..Len(X) /\ pane'[i] = X[i - Len(pane)]
          BY <2>1, <3>1, <4>2
        <5> QED BY <3>1, <5>1
      <4> QED BY <4>1, <4>2
    <3> QED BY <3>2
  <2> QED
    BY <2>2 DEF FramesInv, HandleAttach
<1>6. LinkInv'
  <2>1. CASE link # "up"
    BY <2>1 DEF LinkInv, HandleAttach
  <2>2. CASE link = "up"
    <3>1. pane' = X
      BY <1>1, <1>2, <2>2, ConcatEmptySeq DEF LinkInv, HandshakeInv, HandleAttach
    <3>3. ChainInv' /\ AnchorInv'
      BY <1>1, <3>1 DEF ChainInv, AnchorInv, AttachFrames, HandleAttach
    <3>5. HeadInv'
      BY <1>1, <2>2, <3>1 DEF HeadInv, AttachFrames, HandleAttach
    <3>6. TailInv'
      BY <1>1, <1>2, <3>1 DEF TailInv, AttachFrames, HandleAttach
    <3>4. HandshakeInv'
      BY <1>2, <2>2, <3>1 DEF LinkInv, HandshakeInv, HandleAttach
    <3> QED
      BY <2>2, <3>3, <3>4, <3>5, <3>6 DEF LinkInv, HandleAttach
  <2> QED
    BY <2>1, <2>2
<1> QED
  BY <1>3, <1>4, <1>5, <1>6

LEMMA UpgradeStep ==
    ASSUME UniqueEpochs, IInv, Upgrade
    PROVE  IInv'
<1> USE DEF IInv, Upgrade, offVars, screenVars
<1>1. epoch' = epoch + 1 /\ epoch \in Nat /\ cepoch \in Nat /\ cepoch <= epoch
  BY DEF TypeOK, CountInv
<1>2. TypeOK'
  BY <1>1, BoundsAssumption DEF TypeOK
<1>3. CountInv' /\ OffInv'
  BY <1>1 DEF TypeOK, CountInv, OffInv
<1>4. FramesInv' /\ ScreenInv'
  BY DEF FramesInv, ScreenInv
<1>5. LinkInv'
  BY <1>1 DEF TypeOK, LinkInv, ChainInv, HeadInv, TailInv, AnchorInv, HandshakeInv, Attached
<1> QED
  BY <1>2, <1>3, <1>4, <1>5

LEMMA DropClientStep == IInv /\ DropClient => IInv'
<1> SUFFICES ASSUME IInv, DropClient PROVE IInv'
  OBVIOUS
<1> USE DEF IInv, DropClient, daemonVars, offVars, screenVars
<1>1. TypeOK' /\ CountInv' /\ FramesInv' /\ OffInv' /\ ScreenInv'
  BY DEF TypeOK, CountInv, FramesInv, OffInv, ScreenInv
<1>2. LinkInv'
  BY DEF LinkInv, ChainInv, HeadInv, TailInv, AnchorInv, HandshakeInv, Attached
<1> QED
  BY <1>1, <1>2

LEMMA ConnectStep == IInv /\ Connect => IInv'
<1> SUFFICES ASSUME IInv, Connect PROVE IInv'
  OBVIOUS
<1> USE DEF IInv, Connect, daemonVars, offVars, screenVars
<1>1. <<>> \in Seq(Frames)
  BY EmptySeq
<1>2. TypeOK'
  BY <1>1 DEF TypeOK
<1>3. CountInv' /\ OffInv' /\ ScreenInv'
  BY DEF CountInv, OffInv, ScreenInv
<1>4. FramesInv'
  BY DEF FramesInv
<1>5. LinkInv'
  BY DEF LinkInv, ChainInv, HeadInv, TailInv, AnchorInv, HandshakeInv, Attached
<1> QED
  BY <1>2, <1>3, <1>4, <1>5

LEMMA TeardownStep == IInv /\ Teardown => IInv'
<1> SUFFICES ASSUME IInv, Teardown PROVE IInv'
  OBVIOUS
<1> USE DEF IInv, Teardown, daemonVars, offVars, screenVars
<1>1. <<>> \in Seq(Frames)
  BY EmptySeq
<1>2. TypeOK'
  BY <1>1 DEF TypeOK
<1>3. CountInv' /\ OffInv' /\ ScreenInv' /\ LinkInv'
  BY DEF CountInv, OffInv, ScreenInv, LinkInv
<1>4. FramesInv'
  BY DEF FramesInv
<1> QED
  BY <1>2, <1>3, <1>4

LEMMA PresumeDeadStep == IInv /\ PresumeDead => IInv'
<1> SUFFICES ASSUME IInv, PresumeDead PROVE IInv'
  OBVIOUS
<1> USE DEF IInv, PresumeDead, daemonVars, offVars, screenVars
<1>1. <<>> \in Seq(Frames)
  BY EmptySeq
<1>2. TypeOK'
  BY <1>1 DEF TypeOK
<1>3. CountInv' /\ OffInv' /\ ScreenInv' /\ LinkInv'
  BY DEF CountInv, OffInv, ScreenInv, LinkInv
<1>4. FramesInv'
  BY DEF FramesInv
<1> QED
  BY <1>2, <1>3, <1>4

LEMMA LateDeliverStep == IInv /\ LateDeliver => IInv'
<1> SUFFICES ASSUME IInv, LateDeliver PROVE IInv'
  OBVIOUS
<1> USE DEF IInv, LateDeliver, daemonVars, offVars, screenVars
<1>1. pane \in Seq(Frames) /\ pane # <<>> /\ stale \in Seq(Frames)
  BY DEF TypeOK
<1>2. TypeOK'
  BY <1>1, TailFacts, AppendFacts DEF TypeOK
<1>3. CountInv' /\ OffInv' /\ ScreenInv' /\ LinkInv'
  BY DEF CountInv, OffInv, ScreenInv, LinkInv
<1>4. FramesInv'
  BY <1>1, TailFacts, AppendFacts, ElementTypes DEF FramesInv
<1> QED
  BY <1>2, <1>3, <1>4

LEMMA HelloOkStep == IInv /\ RecvHelloOk => IInv'
<1> SUFFICES ASSUME IInv, RecvHelloOk PROVE IInv'
  OBVIOUS
<1> USE DEF IInv, RecvHelloOk, daemonVars, screenVars
<1>1. TypeOK'
  BY DEF TypeOK
<1>2. CountInv' /\ FramesInv' /\ ScreenInv'
  BY DEF CountInv, FramesInv, ScreenInv
<1>3. OffInv'
  BY DEF OffInv
<1>4. LinkInv'
  BY DEF TypeOK, LinkInv, ChainInv, HeadInv, TailInv, AnchorInv, HandshakeInv, Attached
<1> QED
  BY <1>1, <1>2, <1>3, <1>4

LEMMA LayoutStep == IInv /\ RecvLayout => IInv'
<1> SUFFICES ASSUME IInv, RecvLayout PROVE IInv'
  OBVIOUS
<1> USE DEF IInv, RecvLayout, daemonVars, offVars
<1>1. TypeOK'
  BY DEF TypeOK
<1>2. CountInv' /\ FramesInv' /\ OffInv' /\ ScreenInv'
  BY DEF CountInv, FramesInv, OffInv, ScreenInv
<1>3. LinkInv'
  BY DEF LinkInv, ChainInv, HeadInv, TailInv, AnchorInv, HandshakeInv, Attached
<1> QED
  BY <1>1, <1>2, <1>3
\* What taking a frame does to the client, whichever buffer it came from.
LEMMA TakeFacts ==
    ASSUME IInv, NEW f \in Frames, FrameOK(f, total), Take(f),
           f.kind = "OUT" /\ off # None => off + (f.to - f.from) \in Nat
    PROVE  /\ off' \in Nat \cup {None} /\ rep' \in Nat /\ torn' \in BOOLEAN
           /\ rcvd' = f.to /\ rcvd' \in Nat /\ rcvd' <= total
           /\ early' \in Nat /\ known' = known /\ cepoch' = cepoch
           /\ dropped' \in BOOLEAN
<1> USE DEF Take, IInv
<1>1. off' \in Nat \cup {None}
  BY FrameFields DEF Account, TypeOK
<1>2. rep' \in Nat /\ torn' \in BOOLEAN
  BY FrameFields DEF Apply, TypeOK
<1>3. rcvd' = f.to /\ rcvd' \in Nat /\ rcvd' <= total
  BY FrameFields DEF FrameOK
<1>4. early' \in Nat /\ known' = known /\ cepoch' = cepoch
  BY DEF TypeOK
<1>5. dropped' \in BOOLEAN
  BY DEF TypeOK
<1> QED
  BY <1>1, <1>2, <1>3, <1>4, <1>5

LEMMA FrameStep == IInv /\ RecvFrame => IInv'
<1> SUFFICES ASSUME IInv, RecvFrame PROVE IInv'
  OBVIOUS
<1>1. /\ pane \in Seq(Frames) /\ pane # <<>> /\ stale = <<>> /\ link = "up"
      /\ Len(pane) \in Nat /\ Len(pane) >= 1 /\ total \in Nat /\ base \in Nat
      /\ off \in Nat \cup {None} /\ rcvd \in Nat /\ rep \in Nat
  BY ElementTypes DEF IInv, TypeOK, RecvFrame
<1>2. PICK f \in Frames : f = Head(pane) /\ f = pane[1]
  BY <1>1, TailFacts
<1>3. FrameOK(f, total) /\ f.from \in Nat /\ f.to \in Nat /\ f.off \in Nat
      /\ f.kind \in {"OUT", "SNAP", "RESUME"}
  BY <1>1, <1>2, FrameFields DEF IInv, FramesInv
<1>4. Take(f) /\ replayed' = (replayed /\ ~Heals(f))
  BY <1>2 DEF RecvFrame
<1>5. f.kind = "OUT" /\ off # None => off + (f.to - f.from) \in Nat
  BY <1>1, <1>3 DEF FrameOK
<1>6. /\ off' \in Nat \cup {None} /\ rep' \in Nat /\ torn' \in BOOLEAN
      /\ rcvd' = f.to /\ rcvd' \in Nat /\ rcvd' <= total
      /\ early' \in Nat /\ known' = known /\ cepoch' = cepoch
      /\ dropped' \in BOOLEAN
  BY <1>3, <1>4, <1>5, TakeFacts
<1>7. /\ pane' = Tail(pane) /\ pane' \in Seq(Frames) /\ Len(pane') = Len(pane) - 1
      /\ \A i \in 1..Len(pane') : pane'[i] = pane[i+1]
      /\ (pane' = <<>>) <=> (Len(pane') = 0)
  BY <1>1, TailFacts, ElementTypes DEF RecvFrame
<1>8. /\ UNCHANGED <<daemonVars, conn, hs, hs_epoch, hs_off, layout, link, stale>>
  BY DEF RecvFrame
<1>9. TypeOK'
  <2>1. replayed' \in BOOLEAN
    BY <1>4 DEF IInv, TypeOK
  <2> QED
    BY <2>1, <1>6, <1>7, <1>8 DEF IInv, TypeOK, daemonVars
<1>10. CountInv'
  BY <1>6, <1>8 DEF IInv, CountInv, daemonVars
<1>11. FramesInv'
  BY <1>1, <1>7, <1>8 DEF IInv, FramesInv, daemonVars
<1>12. ChainInv'
  BY <1>1, <1>7 DEF IInv, LinkInv, ChainInv
<1>13. HeadInv'
  <2>1. SUFFICES ASSUME pane' # <<>> PROVE HeadInv'
    BY DEF HeadInv
  <2>2. pane'[1] = pane[2] /\ pane[2].from = f.to
    BY <2>1, <1>1, <1>2, <1>7 DEF IInv, LinkInv, ChainInv
  <2> QED
    BY <2>1, <2>2, <1>1, <1>6, <1>8 DEF HeadInv
<1>14. TailInv'
  <2>1. SUFFICES ASSUME Attached PROVE TailInv'
    BY <1>8 DEF TailInv, Attached
  <2>2. pane[Len(pane)].to = total
    BY <2>1, <1>1 DEF IInv, LinkInv, TailInv
  <2> QED
    BY <2>2, <1>1, <1>2, <1>6, <1>7, <1>8 DEF TailInv, daemonVars
<1>15. AnchorInv'
  BY <1>1, <1>6, <1>7, <1>8 DEF IInv, LinkInv, AnchorInv, daemonVars
<1>16. HandshakeInv'
  BY <1>1, <1>6, <1>7, <1>8 DEF IInv, LinkInv, HandshakeInv, daemonVars
<1>17. OffInv'
  <2>1. SUFFICES ASSUME off' # None, cepoch = epoch, ~replayed'
                 PROVE  base + off' = rcvd'
    BY <1>6, <1>8 DEF OffInv, daemonVars
  <2>2. CASE f.kind = "OUT"
    <3>1. f.from = rcvd /\ off # None /\ off' = off + (f.to - f.from) /\ ~replayed
      BY <2>1, <2>2, <1>1, <1>2, <1>4
      DEF IInv, LinkInv, HeadInv, Take, Account, Heals
    <3>2. base + off = rcvd /\ off \in Nat
      BY <3>1, <2>1, <1>1 DEF IInv, OffInv
    <3>3. rcvd' = f.to /\ base \in Nat /\ rcvd \in Nat /\ f.to \in Nat
      BY <1>1, <1>3, <1>6
    <3> QED
      BY ONLY <3>1, <3>2, <3>3
  <2>3. CASE f.kind = "RESUME"
    <3>1. off' = f.off /\ base + f.off = f.to
      BY <2>1, <2>3, <1>1, <1>2, <1>4 DEF IInv, LinkInv, AnchorInv, Take, Account
    <3> QED
      BY <3>1, <1>6
  <2>4. CASE f.kind = "SNAP"
    BY <2>1, <2>4, <1>4 DEF Take, Account
  <2> QED
    BY <2>2, <2>3, <2>4, <1>3
<1>18. ScreenInv'
  <2>1. SUFFICES ASSUME ~dropped', ~replayed'
                 PROVE  rep' = rcvd' /\ ~torn'
    BY DEF ScreenInv
  <2>2. CASE f.kind = "SNAP"
    BY <2>1, <2>2, <1>4 DEF Take, Apply
  <2>3. CASE f.kind # "SNAP"
    <3>1. ~dropped /\ ~replayed /\ ~Overflows(f)
      BY <2>1, <2>3, <1>4 DEF Take, Heals
    <3>2. rep = rcvd /\ ~torn /\ f.from = rcvd
      BY <3>1, <2>3, <1>1, <1>2, <1>3 DEF IInv, ScreenInv, LinkInv, HeadInv
    <3>3. f.kind = "RESUME" => f.from = f.to
      BY <1>3 DEF FrameOK
    <3> QED
      BY <2>3, <3>1, <3>2, <3>3, <1>3, <1>4 DEF Take, Apply
  <2> QED
    BY <2>2, <2>3
<1> QED
  BY <1>1, <1>8, <1>9, <1>10, <1>11, <1>12, <1>13, <1>14, <1>15, <1>16, <1>17, <1>18
  DEF IInv, LinkInv

LEMMA StaleStep == IInv /\ RecvStale => IInv'
<1> SUFFICES ASSUME IInv, RecvStale PROVE IInv'
  OBVIOUS
<1>1. /\ stale \in Seq(Frames) /\ stale # <<>> /\ pane # <<>> /\ link = "up"
      /\ pane \in Seq(Frames) /\ off \in Nat \cup {None}
      /\ Len(stale) \in Nat /\ Len(stale) >= 1
  BY ElementTypes DEF IInv, TypeOK, RecvStale
<1>2. PICK f \in Frames : f = Head(stale) /\ f = stale[1]
  BY <1>1, TailFacts
<1>3. FrameOK(f, total) /\ f.from \in Nat /\ f.to \in Nat
  BY <1>1, <1>2, FrameFields DEF IInv, FramesInv
<1>4. Take(f) /\ replayed' = TRUE
  BY <1>2 DEF RecvStale
<1>5. f.kind = "OUT" /\ off # None => off + (f.to - f.from) \in Nat
  BY <1>1, <1>3 DEF FrameOK
<1>6. /\ off' \in Nat \cup {None} /\ rep' \in Nat /\ torn' \in BOOLEAN
      /\ rcvd' = f.to /\ rcvd' \in Nat /\ rcvd' <= total
      /\ early' \in Nat /\ known' = known /\ cepoch' = cepoch
      /\ dropped' \in BOOLEAN
  BY <1>3, <1>4, <1>5, TakeFacts
<1>7. /\ stale' = Tail(stale) /\ stale' \in Seq(Frames) /\ Len(stale') = Len(stale) - 1
      /\ \A i \in 1..Len(stale') : stale'[i] = stale[i+1]
  BY <1>1, TailFacts DEF RecvStale
<1>8. UNCHANGED <<daemonVars, wireVars, link>>
  BY DEF RecvStale
<1>9. TypeOK'
  BY <1>4, <1>6, <1>7, <1>8 DEF IInv, TypeOK, daemonVars, wireVars
<1>10. CountInv' /\ FramesInv'
  BY <1>1, <1>6, <1>7, <1>8 DEF IInv, CountInv, FramesInv, daemonVars, wireVars
<1>11. ChainInv' /\ AnchorInv' /\ TailInv'
  BY <1>1, <1>6, <1>8
  DEF IInv, LinkInv, ChainInv, AnchorInv, TailInv, Attached, daemonVars, wireVars
<1>12. HeadInv'
  BY <1>1, <1>4, <1>8 DEF IInv, LinkInv, HeadInv, wireVars
<1>13. (hs = "attach" => hs_off' = off')
  BY <1>1 DEF IInv, LinkInv, HandshakeInv
<1>14. HandshakeInv'
  BY <1>1, <1>6, <1>8, <1>13 DEF IInv, LinkInv, HandshakeInv, daemonVars, wireVars
<1>15. OffInv' /\ ScreenInv'
  BY <1>4 DEF OffInv, ScreenInv
<1> QED
  BY <1>1, <1>8, <1>9, <1>10, <1>11, <1>12, <1>14, <1>15 DEF IInv, LinkInv, wireVars
-----------------------------------------------------------------------------
(* The theorems.                                                           *)

LEMMA IInvStep ==
    ASSUME UniqueEpochs
    PROVE  IInv /\ [Next]_vars => IInv'
<1> SUFFICES ASSUME IInv, [Next]_vars PROVE IInv'
  OBVIOUS
<1>1. CASE UNCHANGED vars
  BY <1>1 DEF vars, daemonVars, wireVars, offVars, screenVars, IInv, TypeOK, CountInv,
     FramesInv, LinkInv, ChainInv, HeadInv, TailInv, AnchorInv, HandshakeInv, Attached,
     OffInv, ScreenInv
<1>2. ASSUME NEW n \in 1..MaxChunk, Output(n) PROVE IInv'
  BY <1>2, OutputStep
<1>3. CASE LinkFail \/ NoticeClose
  BY <1>3, TeardownStep DEF LinkFail, NoticeClose
<1> QED
  BY <1>1, <1>2, <1>3, HelloStep, AttachStep, UpgradeStep, DropClientStep, ConnectStep,
     PresumeDeadStep, LateDeliverStep, HelloOkStep, LayoutStep, FrameStep, StaleStep
  DEF Next

\* Every variable keeps its type and the ring its bound, in every execution.
THEOREM TypeCorrect == UniqueEpochs => (Spec => []TypeOK)
<1> SUFFICES ASSUME UniqueEpochs PROVE Spec => []TypeOK
  OBVIOUS
<1>1. Init => IInv
  BY InitIInv
<1>2. IInv /\ [Next]_vars => IInv'
  BY IInvStep
<1>3. IInv => TypeOK
  BY DEF IInv
<1> QED
  BY <1>1, <1>2, <1>3, PTL DEF Spec

\* Whatever the bounds, the ring size and the parking limit, and even when
\* parked engines deliver late: a replica is garbled only by a frame m_early
\* refused or by such late bytes, and the next snapshot repairs it.
THEOREM FaithfulReplica == UniqueEpochs => (Spec => []ReplicaFaithful)
<1> SUFFICES ASSUME UniqueEpochs PROVE Spec => []ReplicaFaithful
  OBVIOUS
<1>1. Init => IInv
  BY InitIInv
<1>2. IInv /\ [Next]_vars => IInv'
  BY IInvStep
<1>3. IInv => ReplicaFaithful
  BY DEF IInv, ScreenInv, ReplicaFaithful, Damaged
<1> QED
  BY <1>1, <1>2, <1>3, PTL DEF Spec

\* An undamaged client that is resumed really is current through the offset
\* it is resumed at.
THEOREM ResumeIsCurrent == UniqueEpochs => (Spec => []ResumeCurrent)
<1> SUFFICES ASSUME UniqueEpochs PROVE Spec => []ResumeCurrent
  OBVIOUS
<1>1. Init => IInv
  BY InitIInv
<1>2. IInv /\ [Next]_vars => IInv'
  BY IInvStep
<1>3. IInv => ResumeCurrent
  <2> SUFFICES ASSUME IInv, ~Damaged, link = "up", pane # <<>>, Head(pane).kind = "RESUME"
               PROVE  ~torn /\ rep = Head(pane).to
    BY DEF ResumeCurrent
  <2>1. pane \in Seq(Frames) /\ Len(pane) \in Nat /\ Len(pane) >= 1 /\ Head(pane) = pane[1]
    BY TailFacts, ElementTypes DEF IInv, TypeOK
  <2>2. pane[1].from = pane[1].to /\ pane[1].from = rcvd
    BY <2>1 DEF IInv, FramesInv, FrameOK, LinkInv, HeadInv, Damaged
  <2> QED
    BY <2>1, <2>2 DEF IInv, ScreenInv, Damaged
<1> QED
  BY <1>1, <1>2, <1>3, PTL DEF Spec

\* From one damage to the next the stream protocol implements PaneReplica:
\* the replica is a prefix of the output, it only moves forward, and it never
\* runs ahead.
THEOREM Implements == UniqueEpochs => (Spec => ReplicaSpec)
<1> SUFFICES ASSUME UniqueEpochs PROVE Spec => ReplicaSpec
  OBVIOUS
<1>1. Init => Replica!Init
  BY DEF Init, Replica!Init
<1>2. IInv /\ IInv' /\ [Next]_vars => [(~Damaged /\ ~Damaged') => Replica!Next]_Replica!vars
  <2> SUFFICES ASSUME IInv, IInv', [Next]_vars, ~Damaged, ~Damaged'
               PROVE  [Replica!Next]_Replica!vars
    OBVIOUS
  <2>1. ~torn /\ ~torn' /\ rep = rcvd /\ rep' = rcvd' /\ rep \in Nat /\ rep' \in Nat
        /\ total \in Nat /\ total' \in Nat /\ rep' <= total'
    BY DEF IInv, Damaged, ScreenInv, TypeOK, CountInv
  <2>2. CASE UNCHANGED <<total, rep, torn>>
    BY <2>2 DEF Replica!vars
  <2>3. ASSUME NEW n \in 1..MaxChunk, Output(n) PROVE Replica!Produce
    BY <2>1, <2>3, BoundsAssumption DEF Output, screenVars, Replica!Produce
  <2>4. CASE RecvFrame
    <3>0. pane \in Seq(Frames) /\ pane # <<>>
      BY <2>4 DEF RecvFrame, IInv, TypeOK
    <3>1. /\ Len(pane) \in Nat /\ Len(pane) >= 1
          /\ Head(pane) = pane[1] /\ pane[1] \in Frames
      BY <3>0, TailFacts, ElementTypes
    <3>2. rcvd <= pane[1].from /\ pane[1].from <= pane[1].to /\ rcvd' = pane[1].to
      BY <3>1, <2>4 DEF RecvFrame, Take, IInv, LinkInv, HeadInv, FramesInv, FrameOK, Damaged
    <3>3. rep <= rep' /\ total' = total
      BY <3>1, <3>2, <2>1, <2>4, FrameFields DEF RecvFrame, daemonVars
    <3>4. CASE rep' = rep
      BY <3>3, <3>4, <2>1 DEF Replica!vars
    <3>5. CASE rep' > rep
      BY <3>3, <3>5, <2>1 DEF Replica!Next, Replica!Show
    <3> QED
      BY <3>3, <3>4, <3>5, <2>1
  <2>5. CASE UNCHANGED vars \/ HandleHello \/ HandleAttach \/ Upgrade \/ DropClient \/ Connect
    BY <2>5, <2>2 DEF vars, daemonVars, screenVars, HandleHello, HandleAttach, Upgrade,
       DropClient, Connect
  <2>6. CASE LinkFail \/ NoticeClose \/ RecvHelloOk \/ RecvLayout
    BY <2>6, <2>2 DEF LinkFail, NoticeClose, Teardown, RecvHelloOk, RecvLayout, daemonVars,
       screenVars
  <2>7. CASE PresumeDead \/ LateDeliver
    BY <2>7, <2>2 DEF PresumeDead, LateDeliver, daemonVars, screenVars
  <2>8. CASE RecvStale
    BY <2>8 DEF RecvStale, Damaged
  <2> QED
    BY <2>3, <2>4, <2>5, <2>6, <2>7, <2>8 DEF Next, Replica!Next
<1>3. Init => IInv
  BY InitIInv
<1>4. IInv /\ [Next]_vars => IInv'
  BY IInvStep
<1> QED
  BY <1>1, <1>2, <1>3, <1>4, PTL DEF Spec, ReplicaSpec
-----------------------------------------------------------------------------
(* With room in m_early and no late delivery nothing is ever damaged.      *)

CleanInv == ~dropped /\ ~replayed /\ stale = <<>> /\ link # "parked"

LEMMA CleanStep ==
    ASSUME ~EarlyOverflow, ~LateDelivery
    PROVE  CleanInv /\ [Next]_vars => CleanInv'
<1> SUFFICES ASSUME CleanInv, [Next]_vars PROVE CleanInv'
  OBVIOUS
<1> USE DEF CleanInv
<1>1. CASE UNCHANGED vars
  BY <1>1 DEF vars, wireVars, screenVars
<1>2. ASSUME NEW n \in 1..MaxChunk, Output(n) PROVE CleanInv'
  BY <1>2 DEF Output, screenVars
<1>3. CASE HandleHello \/ HandleAttach \/ Upgrade \/ DropClient \/ Connect
  BY <1>3 DEF HandleHello, HandleAttach, Upgrade, DropClient, Connect, screenVars
<1>4. CASE LinkFail \/ NoticeClose \/ RecvHelloOk \/ RecvLayout
  BY <1>4 DEF LinkFail, NoticeClose, Teardown, RecvHelloOk, RecvLayout, screenVars
<1>5. CASE PresumeDead \/ LateDeliver \/ RecvStale
  BY <1>5 DEF PresumeDead, LateDeliver, RecvStale
<1>6. CASE RecvFrame
  BY <1>6 DEF RecvFrame, Take, Overflows
<1> QED
  BY <1>1, <1>2, <1>3, <1>4, <1>5, <1>6 DEF Next

\* A link presumed dead that stays dead, and room for every early frame: the
\* screen is never garbled, whatever else fails.
THEOREM NeverGarbled ==
    (UniqueEpochs /\ ~EarlyOverflow /\ ~LateDelivery) => (Spec => [](~torn))
<1> SUFFICES ASSUME UniqueEpochs, ~EarlyOverflow, ~LateDelivery
             PROVE  Spec => [](~torn)
  OBVIOUS
<1>1. Init => IInv /\ CleanInv
  BY InitIInv DEF Init, CleanInv
<1>2. IInv /\ CleanInv /\ [Next]_vars => IInv' /\ CleanInv'
  BY IInvStep, CleanStep
<1>3. IInv /\ CleanInv => ~torn
  BY DEF IInv, ScreenInv, CleanInv
<1> QED
  BY <1>1, <1>2, <1>3, PTL DEF Spec
-----------------------------------------------------------------------------
(* The client's offset.                                                    *)

\* Besides output, only a RESUME sets the offset.  One that is not preceded
\* by a snapshot, which voids the offset, is the answer to the offset sent.
ResumeInv ==
    link = "up" =>
        /\ \A i \in 1..Len(pane) :
              (i > 1 /\ pane[i].kind = "RESUME") => (i = 2 /\ pane[1].kind = "SNAP")
        /\ (~replayed /\ off # None /\ pane # <<>> /\ pane[1].kind = "RESUME")
              => off <= pane[1].off

LEMMA ResumeOutput ==
    ASSUME IInv, ResumeInv, NEW n \in 1..MaxChunk, Output(n)
    PROVE  ResumeInv'
<1>1. n \in Nat /\ total \in Nat /\ pane \in Seq(Frames)
  BY BoundsAssumption DEF IInv, TypeOK
<1>2. PICK f \in Frames : f = Out(total, total + n)
  BY <1>1, FrameTypes
<1>3. f.kind = "OUT"
  BY <1>2 DEF Out
<1>4. UNCHANGED <<link, off, replayed>>
  BY DEF Output, offVars, screenVars
<1>5. CASE pane' = pane
  BY <1>4, <1>5 DEF ResumeInv
<1>6. CASE pane' = Append(pane, f)
  <2>1. /\ Len(pane') = Len(pane) + 1 /\ Len(pane) \in Nat
        /\ \A i \in 1..Len(pane) : pane'[i] = pane[i]
        /\ pane'[Len(pane) + 1] = f
    BY <1>1, <1>6, AppendFacts, ElementTypes
  <2>2. CASE pane = <<>>
    BY <1>3, <1>4, <2>1, <2>2 DEF ResumeInv
  <2>3. CASE pane # <<>>
    <3>1. Len(pane) >= 1 /\ pane'[1] = pane[1]
      BY <1>1, <2>1, <2>3, ElementTypes
    <3> QED
      BY <1>3, <1>4, <2>1, <2>3, <3>1 DEF ResumeInv
  <2> QED
    BY <2>2, <2>3
<1> QED
  BY <1>2, <1>5, <1>6 DEF Output

LEMMA ResumeAttach ==
    ASSUME IInv, ResumeInv, HandleAttach
    PROVE  ResumeInv'
<1> SUFFICES ASSUME link = "up" PROVE ResumeInv'
  BY DEF ResumeInv, HandleAttach
<1>1. UNCHANGED <<link, off, replayed>>
  BY DEF HandleAttach, offVars, screenVars
<1>2. pane = <<>> /\ hs_off = off
  BY DEF IInv, LinkInv, HandshakeInv, HandleAttach
<1>3. /\ total \in Nat /\ base \in Nat /\ ring_end \in Nat
      /\ off \in Nat \cup {None} /\ pane \in Seq(Frames)
  BY <1>2 DEF IInv, TypeOK
<1>4. CASE Resumable(off)
  <2>1. off \in Nat
    BY <1>3, <1>4 DEF Resumable
  <2>2. PICK f \in Frames : f = Resume(base + off, off)
    BY <1>3, <2>1, FrameTypes
  <2>3. PICK g \in Frames : g = Out(base + off, base + ring_end)
    BY <1>3, <2>1, FrameTypes
  <2>4. f.kind = "RESUME" /\ f.off = off /\ g.kind = "OUT"
    BY <2>2, <2>3 DEF Resume, Out
  <2>5. \/ pane' = pane \o <<f>>
        \/ pane' = pane \o <<f, g>>
    BY <1>2, <1>4, <2>2, <2>3 DEF HandleAttach, Replay
  <2>6. pane' = <<f>> \/ pane' = <<f, g>>
    BY <1>2, <2>5, ShortSeq, ConcatEmptySeq
  <2>7. CASE pane' = <<f>>
    BY <1>1, <2>1, <2>4, <2>7, ShortSeq DEF ResumeInv
  <2>8. CASE pane' = <<f, g>>
    BY <1>1, <2>1, <2>4, <2>8, ShortSeq DEF ResumeInv
  <2> QED
    BY <2>6, <2>7, <2>8
<1>5. CASE ~Resumable(off)
  <2>1. PICK f \in Frames : f = Snap(total)
    BY <1>3, FrameTypes
  <2>2. PICK g \in Frames : g = Resume(total, ring_end)
    BY <1>3, FrameTypes
  <2>3. f.kind = "SNAP"
    BY <2>1 DEF Snap
  <2>4. pane' = pane \o <<f, g>>
    BY <1>2, <1>5, <2>1, <2>2 DEF HandleAttach, Reset
  <2>5. pane' = <<f, g>>
    BY <1>2, <2>4, ShortSeq, ConcatEmptySeq
  <2> QED
    BY <1>1, <2>3, <2>5, ShortSeq DEF ResumeInv
<1> QED
  BY <1>4, <1>5

LEMMA ResumeFrame ==
    ASSUME IInv, ResumeInv, RecvFrame
    PROVE  ResumeInv'
<1>1. pane \in Seq(Frames) /\ pane # <<>> /\ link = "up" /\ link' = link
  BY DEF RecvFrame, IInv, TypeOK
<1>2. /\ Len(pane) \in Nat /\ Len(pane) >= 1 /\ Head(pane) = pane[1]
      /\ pane' = Tail(pane) /\ pane' \in Seq(Frames) /\ Len(pane') = Len(pane) - 1
      /\ \A i \in 1..Len(pane') : pane'[i] = pane[i+1]
  BY <1>1, TailFacts, ElementTypes DEF RecvFrame
<1>3. \A i \in 1..Len(pane') : i > 1 => pane'[i].kind # "RESUME"
  BY <1>1, <1>2 DEF ResumeInv
<1>4. ASSUME pane' # <<>>, pane'[1].kind = "RESUME" PROVE off' = None
  <2>1. 2 \in 1..Len(pane) /\ pane'[1] = pane[2]
    BY <1>2, <1>4, ElementTypes
  <2>2. Head(pane).kind = "SNAP"
    BY <1>1, <1>2, <1>4, <2>1 DEF ResumeInv
  <2> QED
    BY <2>2 DEF RecvFrame, Take, Account
<1> QED
  BY <1>3, <1>4 DEF ResumeInv

LEMMA ResumeStep ==
    ASSUME IInv, ResumeInv, [Next]_vars
    PROVE  ResumeInv'
<1>1. CASE UNCHANGED <<link, pane, off, replayed>>
  BY <1>1 DEF ResumeInv
<1>2. CASE UNCHANGED vars \/ HandleHello \/ Upgrade \/ DropClient \/ RecvLayout
  BY <1>1, <1>2 DEF vars, wireVars, offVars, screenVars, HandleHello, Upgrade, DropClient,
     RecvLayout
<1>3. CASE Connect
  BY <1>3 DEF Connect, ResumeInv
<1>4. CASE LinkFail \/ NoticeClose \/ PresumeDead \/ LateDeliver
  <2>1. link' # "up"
    BY <1>4 DEF LinkFail, NoticeClose, Teardown, PresumeDead, LateDeliver
  <2> QED
    BY <2>1 DEF ResumeInv
<1>5. CASE RecvHelloOk
  <2>1. pane = <<>> /\ pane' = pane
    BY <1>5 DEF IInv, LinkInv, HandshakeInv, RecvHelloOk
  <2> QED
    BY <2>1 DEF ResumeInv
<1>6. CASE RecvStale
  BY <1>6 DEF RecvStale, ResumeInv, wireVars
<1> QED
  BY <1>2, <1>3, <1>4, <1>5, <1>6, ResumeOutput, ResumeAttach, ResumeFrame DEF Next

\* One step moves the offset forward, or voids it, or belongs to a new epoch.
Forward ==
    (~replayed' /\ off # None /\ off' # None /\ cepoch' = cepoch) => off' >= off

LEMMA ForwardStep ==
    ASSUME IInv, ResumeInv, [Next]_vars
    PROVE  Forward
<1>1. off \in Nat \cup {None}
  BY DEF IInv, TypeOK
<1>2. CASE off' = off \/ off' = None
  BY <1>1, <1>2 DEF Forward, None
<1>3. ASSUME NEW n \in 1..MaxChunk, Output(n) PROVE Forward
  BY <1>2, <1>3 DEF Output, offVars
<1>4. CASE UNCHANGED vars \/ HandleHello \/ HandleAttach \/ Upgrade \/ DropClient \/ Connect
  BY <1>2, <1>4 DEF vars, offVars, HandleHello, HandleAttach, Upgrade, DropClient, Connect
<1>5. CASE LinkFail \/ NoticeClose \/ PresumeDead \/ LateDeliver \/ RecvHelloOk \/ RecvLayout
  BY <1>2, <1>5 DEF LinkFail, NoticeClose, Teardown, PresumeDead, LateDeliver, RecvHelloOk,
     RecvLayout, offVars
<1>6. CASE RecvStale
  BY <1>6 DEF RecvStale, Forward
<1>7. CASE RecvFrame
  <2>1. pane \in Seq(Frames) /\ pane # <<>> /\ link = "up"
    BY <1>7 DEF RecvFrame, IInv, TypeOK
  <2>2. Len(pane) >= 1 /\ Len(pane) \in Nat /\ Head(pane) = pane[1] /\ pane[1] \in Frames
    BY <2>1, TailFacts, ElementTypes
  <2>3. PICK f \in Frames : f = Head(pane) /\ f = pane[1]
    BY <2>2
  <2>4. FrameOK(f, total) /\ f.from \in Nat /\ f.to \in Nat /\ f.off \in Nat
    BY <2>2, <2>3, FrameFields DEF IInv, FramesInv
  <2>5. Account(f) /\ replayed' = (replayed /\ ~Heals(f))
    BY <1>7, <2>3 DEF RecvFrame, Take
  <2>6. CASE f.kind = "OUT"
    BY <1>1, <2>4, <2>5, <2>6 DEF Account, FrameOK, Forward, None
  <2>7. CASE f.kind = "RESUME"
    <3>1. off' = f.off /\ (~replayed' => ~replayed)
      BY <2>5, <2>7 DEF Account, Heals
    <3>2. ~replayed /\ off # None => off <= f.off
      BY <2>1, <2>3, <2>7 DEF ResumeInv
    <3> QED
      BY <1>1, <2>4, <3>1, <3>2 DEF Forward, None
  <2>8. CASE f.kind # "OUT" /\ f.kind # "RESUME"
    BY <1>2, <2>5, <2>8 DEF Account
  <2> QED
    BY <2>6, <2>7, <2>8
<1> QED
  BY <1>3, <1>4, <1>5, <1>6, <1>7 DEF Next

\* Within one daemon image the client never asks to resume from further back
\* than before (m_pane_off in remote_client.cpp), so no byte is replayed into a
\* screen that has it, whatever links and daemons do.
THEOREM OffsetsAreMonotone == UniqueEpochs => (Spec => OffsetMonotone)
<1> SUFFICES ASSUME UniqueEpochs PROVE Spec => OffsetMonotone
  OBVIOUS
<1>1. Init => IInv /\ ResumeInv
  BY InitIInv DEF Init, ResumeInv
<1>2. IInv /\ ResumeInv /\ [Next]_vars => IInv' /\ ResumeInv'
  BY IInvStep, ResumeStep
<1>3. IInv /\ ResumeInv /\ [Next]_vars => [Forward]_vars
  BY ForwardStep
<1> QED
  BY <1>1, <1>2, <1>3, PTL DEF Spec, OffsetMonotone, Forward

-----------------------------------------------------------------------------
(* The agent's streams.  The invariant is one of a state of the daemon and *)
(* of the frames on their way to it, because a callback of the loop takes  *)
(* those one by one: every operation of the daemon keeps it, and so does   *)
(* every sequence of them that a batch of events leads to.                 *)

Chunk  == (Nat \X Nat) \cup {<<>>}
Wire   == [t : {"open", "data", "close", "gone"}, id : Nat, chunk : Chunk]
SshEnd == [st : {"idle", "waiting", "open", "leaving", "closed"}, id : Nat, sent : Nat,
           unread : Seq(Chunk), got : Seq(Chunk)]

Shape(r, u) ==
    /\ DOMAIN r = {"fds", "streams", "next", "clients", "down", "hung", "ssh"}
    /\ r.next \in Nat \ {0}
    /\ r.down \in [Conns -> Seq(Wire)] /\ u \in [Conns -> Seq(Wire)]
    /\ r.ssh \in [Sshs -> SshEnd]
    /\ DOMAIN r.clients \subseteq 1..made
    /\ \A k \in DOMAIN r.clients : r.clients[k].dead \in BOOLEAN /\ DOMAIN r.clients[k] = {"fd", "dead"}

\* A stream belongs to a client and to the ssh that is told its id.
Owned(r) ==
    \A id \in DOMAIN r.streams :
        /\ id \in Nat /\ id < r.next
        /\ DOMAIN r.streams[id] = {"fd", "client", "ssh", "out"}
        /\ r.streams[id].client \in DOMAIN r.clients /\ r.streams[id].out \in Seq(Chunk)
        /\ r.streams[id].ssh \in Sshs
        /\ r.ssh[r.streams[id].ssh].id = id /\ r.ssh[r.streams[id].ssh].st \in {"open", "leaving"}

\* The loop calls a stream for no other descriptor than its own.
Called(r) ==
    \A f \in DOMAIN r.fds :
        /\ r.fds[f].k \in {"accept", "listen", "client", "stream"}
        /\ r.fds[f] = Owner(r.fds[f].k, r.fds[f].n)
        /\ r.fds[f].k = "stream" => r.fds[f].n \in DOMAIN r.streams /\ r.streams[r.fds[f].n].fd = f

\* No id is about before it is drawn, and only the connection in use has
\* frames for the client.
Drawn(r, u) ==
    /\ \A k \in Conns : \A p \in DOMAIN r.down[k] : r.down[k][p].id < r.next
    /\ \A k \in Conns : \A p \in DOMAIN u[k] : u[k][p].id < r.next /\ u[k][p].t \in {"data", "close"}
    /\ \A k \in Conns \ {current} : r.down[k] = <<>>
    /\ \A k \in Conns : <<"client", k>> \in r.hung <=> k \in (1..made) \ {current}

\* A stream's open frame comes once and before its data, while the client has
\* no bridge for it; the streams of open frames and bridges are those of the
\* connection in use.
Opens(r) ==
    /\ current # 0 =>
         LET d == r.down[current]
         IN \A p \in DOMAIN d : d[p].t = "open" =>
              /\ d[p].id \notin DOMAIN bridges
              /\ d[p].id \in DOMAIN r.streams => r.streams[d[p].id].client = current
              /\ \A q \in DOMAIN d : d[q].id = d[p].id /\ d[q].t \in {"open", "data"} => p <= q
    /\ \A id \in DOMAIN bridges :
         /\ id < r.next
         /\ id \in DOMAIN r.streams => r.streams[id].client = current

Said(i, n) == [m \in 1..n |-> <<i, m>>]

\* Before its open frame is read, all of a stream that is on its way is on its
\* way to the agent; from then on both ways add up.
Opening(r, id) == \E p \in DOMAIN r.down[current] : r.down[current][p].t = "open" /\ r.down[current][p].id = id

Flow(r, u, id) ==
    LET i == r.streams[id].ssh  e == r.ssh[i]
    IN /\ Opening(r, id) =>
            /\ e.got = <<>> /\ r.streams[id].out = <<>> /\ Chunks(u[current], id) = <<>>
            /\ Chunks(r.down[current], id) \o e.unread = Said(i, e.sent)
       /\ id \in DOMAIN bridges =>
            /\ agent[id].got \o bridges[id] \o Chunks(r.down[current], id) \o e.unread = Said(i, e.sent)
            /\ e.got \o r.streams[id].out \o Chunks(u[current], id) \o agent[id].unread
                 = SubSeq(agent[id].got, 1, agent[id].sent)

\* The streams of the connection in use, as long as it lives
Served(r) == {id \in DOMAIN r.streams : r.streams[id].client = current /\ ~r.clients[current].dead}

Flows(r, u) == \A id \in Served(r) : Flow(r, u, id)

DaemonInv(r, u) == Shape(r, u) /\ Owned(r) /\ Called(r) /\ Drawn(r, u) /\ Opens(r) /\ Flows(r, u)

AgentEnd == [st : {"open", "leaving"}, got : Seq(Chunk), sent : Nat, unread : Seq(Chunk)]

ClientInv ==
    /\ made \in 0..MaxConn /\ current \in 0..made
    /\ DOMAIN agent = DOMAIN bridges
    /\ \A id \in DOMAIN bridges : /\ id \in Nat /\ bridges[id] \in Seq(Chunk) /\ agent[id] \in AgentEnd
                                  /\ agent[id].sent <= Len(agent[id].got)
    /\ current = 0 => bridges = <<>>

ForwardInv == DaemonInv(Daemon, up) /\ ClientInv

\* The numbers up to m are in T when 0 is and T is closed: induction, as a fact
\* about a set.
LEMMA UpTo ==
  ASSUME NEW size \in Nat, NEW T, 0 \in T, \A n \in 0..(size - 1) : n \in T => n + 1 \in T
  PROVE  0..size \subseteq T
<1> DEFINE U == 0..size \ T
<1> SUFFICES ASSUME U # {} PROVE FALSE
  OBVIOUS
<1>1. U \subseteq Nat
  OBVIOUS
<1>2. PICK x \in U : \A y \in U : ~(<<y, x>> \in OpToRel(<, Nat))
  BY <1>1, WFMin, NatLessThanWellFounded
<1>3. x \in 0..size /\ x \notin T /\ x # 0
  BY <1>2
<1>4. x - 1 \in 0..(size - 1) /\ x - 1 \in Nat /\ x \in Nat /\ x - 1 < x /\ x = (x - 1) + 1
  BY <1>3
<1>5. x - 1 \in U
  BY <1>3, <1>4
<1>6. <<x - 1, x>> \in OpToRel(<, Nat)
  BY <1>4 DEF OpToRel
<1> QED BY <1>2, <1>5, <1>6

-----------------------------------------------------------------------------

-----------------------------------------------------------------------------
(* Sequences.                                                               *)

LEMMA Cat ==
  ASSUME NEW S, NEW a \in Seq(S), NEW b \in Seq(S), NEW c \in Seq(S)
  PROVE  /\ a \o b \in Seq(S) /\ (a \o b) \o c = a \o (b \o c)
         /\ a \o <<>> = a /\ <<>> \o a = a /\ <<>> \in Seq(S)
  BY ConcatProperties, ConcatAssociative, ConcatEmptySeq

\* What the equations of a stream are worked out with.
LEMMA Chain ==
  ASSUME NEW a \in Seq(Chunk), NEW b \in Seq(Chunk), NEW c \in Seq(Chunk)
  PROVE  (a \o b) \o c = a \o (b \o c)
  BY Cat

LEMMA CatOne ==
  ASSUME NEW S, NEW a \in Seq(S), NEW x \in S
  PROVE  <<x>> \in Seq(S) /\ Append(a, x) \in Seq(S) /\ Append(a, x) = a \o <<x>>
  OBVIOUS

LEMMA CatLength ==
  ASSUME NEW S, NEW a \in Seq(S), NEW b \in Seq(S)
  PROVE  /\ a \o b \in Seq(S) /\ Len(a) \in Nat /\ Len(b) \in Nat /\ Len(a \o b) = Len(a) + Len(b)
         /\ DOMAIN a = 1..Len(a) /\ DOMAIN b = 1..Len(b) /\ DOMAIN (a \o b) = 1..(Len(a) + Len(b))
         /\ \A p \in 1..Len(a) : (a \o b)[p] = a[p]
         /\ \A p \in 1..Len(b) : (a \o b)[Len(a) + p] = b[p]
         /\ \A p \in 1..(Len(a) + Len(b)) : p \in 1..Len(a) \/ (p - Len(a) \in 1..Len(b) /\ (a \o b)[p] = b[p - Len(a)])
  BY ConcatProperties, LenProperties

LEMMA HeadAndTail ==
  ASSUME NEW S, NEW s \in Seq(S), s # <<>>
  PROVE  /\ Head(s) \in S /\ Tail(s) \in Seq(S) /\ s = <<Head(s)>> \o Tail(s)
         /\ Head(s) = s[1] /\ 1 \in DOMAIN s /\ Len(s) \in Nat \ {0}
         /\ DOMAIN s = 1..Len(s) /\ DOMAIN Tail(s) = 1..(Len(s) - 1)
         /\ \A p \in DOMAIN Tail(s) : p + 1 \in DOMAIN s /\ Tail(s)[p] = s[p + 1]
<1>1. /\ Head(s) \in S /\ Tail(s) \in Seq(S) /\ Head(s) = s[1] /\ Len(s) \in Nat \ {0}
      /\ DOMAIN s = 1..Len(s) /\ Len(Tail(s)) = Len(s) - 1
      /\ \A p \in 1..(Len(s) - 1) : Tail(s)[p] = s[p + 1]
  OBVIOUS
<1>2. <<Head(s)>> \in Seq(S) /\ Len(<<Head(s)>>) = 1 /\ <<Head(s)>>[1] = Head(s)
  BY <1>1
<1>3. s = <<Head(s)>> \o Tail(s)
  <2> DEFINE c == <<Head(s)>> \o Tail(s)
  <2>1. c \in Seq(S) /\ Len(c) = Len(s) /\ \A p \in 1..Len(s) : c[p] = s[p]
    BY <1>1, <1>2, ConcatProperties
  <2> HIDE DEF c
  <2> QED BY <2>1, SeqEqual
<1> QED BY <1>1, <1>3, LenProperties

\* What a socket takes of some chunks and what it leaves.
LEMMA Split ==
  ASSUME NEW S, NEW s \in Seq(S), NEW n \in Nat
  PROVE  FirstN(s, n) \in Seq(S) /\ AfterN(s, n) \in Seq(S) /\ FirstN(s, n) \o AfterN(s, n) = s
<1> DEFINE m == IF n < Len(s) THEN n ELSE Len(s)
<1>1. m \in 0..Len(s) /\ Len(s) \in Nat /\ \A p \in 1..Len(s) : s[p] \in S
  OBVIOUS
<1>2. FirstN(s, n) = SubSeq(s, 1, m) /\ AfterN(s, n) = SubSeq(s, n + 1, Len(s))
  BY DEF FirstN, AfterN
<1>3. /\ SubSeq(s, 1, m) \in Seq(S) /\ Len(SubSeq(s, 1, m)) = m
      /\ \A p \in 1..m : SubSeq(s, 1, m)[p] = s[p]
  <2>1. \A p \in 1..m : s[p] \in S
    BY <1>1
  <2> HIDE DEF m
  <2> QED BY ONLY <1>1, <2>1, SubSeqProperties
<1>4. /\ SubSeq(s, n + 1, Len(s)) \in Seq(S) /\ Len(SubSeq(s, n + 1, Len(s))) = Len(s) - m
      /\ \A p \in 1..(Len(s) - m) : SubSeq(s, n + 1, Len(s))[p] = s[m + p]
  <2>1. \A p \in (n + 1)..Len(s) : s[p] \in S
    BY <1>1
  <2>2. n + 1 \in Int /\ Len(s) \in Int /\ (n + 1 <= Len(s) => n = m) /\ (~(n + 1 <= Len(s)) => m = Len(s))
    BY <1>1
  <2>3. LET q == SubSeq(s, n + 1, Len(s))
        IN /\ q \in Seq(S) /\ Len(q) = IF n + 1 <= Len(s) THEN Len(s) - (n + 1) + 1 ELSE 0
           /\ \A p \in 1..(Len(s) - (n + 1) + 1) : q[p] = s[(n + 1) + p - 1]
    <3> HIDE DEF m
    <3> QED BY ONLY <2>1, <2>2, SubSeqProperties
  <2> DEFINE q == SubSeq(s, n + 1, Len(s))
  <2>4. CASE n + 1 <= Len(s)
    <3>1. \A p \in 1..(Len(s) - m) : p \in 1..(Len(s) - (n + 1) + 1) /\ (n + 1) + p - 1 = m + p
      BY <1>1, <2>2, <2>4
    <3> HIDE DEF m
    <3> QED BY <1>1, <2>2, <2>3, <2>4, <3>1
  <2>5. CASE ~(n + 1 <= Len(s))
    <3> HIDE DEF m
    <3> QED BY <1>1, <2>2, <2>3, <2>5
  <2> QED BY <2>4, <2>5, <1>1
<1> HIDE DEF m
<1> DEFINE a == SubSeq(s, 1, m)
           b == SubSeq(s, n + 1, Len(s))
           c == a \o b
<1>5. c \in Seq(S) /\ Len(c) = Len(s) /\ \A p \in 1..Len(s) : c[p] = s[p]
  <2> HIDE DEF a, b
  <2>1. /\ a \in Seq(S) /\ Len(a) = m /\ \A p \in 1..m : a[p] = s[p]
        /\ b \in Seq(S) /\ Len(b) = Len(s) - m /\ \A p \in 1..(Len(s) - m) : b[p] = s[m + p]
    BY <1>3, <1>4 DEF a, b
  <2>0. a \in Seq(S) /\ b \in Seq(S)
    BY <2>1
  <2>2. /\ a \o b \in Seq(S) /\ Len(a \o b) = Len(a) + Len(b)
        /\ \A p \in 1..Len(a) : (a \o b)[p] = a[p]
        /\ \A p \in 1..Len(b) : (a \o b)[Len(a) + p] = b[p]
    BY ONLY <2>0, CatLength
  <2>3. ASSUME NEW p \in 1..Len(s) PROVE (a \o b)[p] = s[p]
    <3>1. CASE p <= m
      BY <1>1, <2>1, <2>2, <3>1
    <3>2. CASE p > m
      <4>1. p - m \in 1..(Len(s) - m) /\ m + (p - m) = p
        BY <1>1, <3>2
      <4> QED BY <2>1, <2>2, <4>1, SMTT(30)
    <3>3. p <= m \/ p > m
      BY <1>1
    <3> QED BY <3>1, <3>2, <3>3
  <2> QED BY <1>1, <2>1, <2>2, <2>3
<1> HIDE DEF c
<1>6. c = s
  BY <1>5, SeqEqual
<1> QED BY <1>2, <1>3, <1>4, <1>6 DEF c

-----------------------------------------------------------------------------
(* The chunks of one stream among the frames of a connection.              *)

ChunksUpTo(frames, id) ==
    LET of[n \in 0..Len(frames)] ==
          IF n = 0 THEN <<>>
          ELSE IF frames[n].t = "data" /\ frames[n].id = id THEN Append(of[n - 1], frames[n].chunk)
          ELSE of[n - 1]
    IN of

LEMMA ChunksUnfold ==
  ASSUME NEW frames, NEW id, NEW size \in Nat, size = Len(frames)
  PROVE  /\ Chunks(frames, id) = ChunksUpTo(frames, id)[size]
         /\ ChunksUpTo(frames, id)[0] = <<>>
         /\ \A i \in 1..size : ChunksUpTo(frames, id)[i] =
              IF frames[i].t = "data" /\ frames[i].id = id
              THEN Append(ChunksUpTo(frames, id)[i - 1], frames[i].chunk) ELSE ChunksUpTo(frames, id)[i - 1]
<1> DEFINE Then(x, i) == IF frames[i].t = "data" /\ frames[i].id = id THEN Append(x, frames[i].chunk) ELSE x
           Val(f, i) == IF i = 0 THEN <<>> ELSE Then(f[i - 1], i)
           T == {n \in 0..size : \E f : f = [i \in 0..n |-> Val(f, i)]}
           of == ChunksUpTo(frames, id)
<1>0. Chunks(frames, id) = of[size] /\ of = CHOOSE f : f = [i \in 0..size |-> Val(f, i)]
  BY DEF Chunks, ChunksUpTo
<1>u. \A x, i : Then(x, i) = IF frames[i].t = "data" /\ frames[i].id = id THEN Append(x, frames[i].chunk) ELSE x
  OBVIOUS
<1> HIDE DEF Then, of
<1>1. 0 \in T
  <2> DEFINE f == [i \in 0..0 |-> <<>>]
  <2>1. f = [i \in 0..0 |-> Val(f, i)]
    OBVIOUS
  <2>2. \E h : h = [i \in 0..0 |-> Val(h, i)]
    <3> HIDE DEF f, Val
    <3> WITNESS f
    <3> QED BY <2>1
  <2> QED BY <2>2
<1>2. ASSUME NEW n \in 0..(size - 1), n \in T PROVE n + 1 \in T
  <2>1. PICK f : f = [i \in 0..n |-> Val(f, i)]
    BY <1>2
  <2> DEFINE g == [i \in 0..(n + 1) |-> IF i = n + 1 THEN Then(f[n], n + 1) ELSE f[i]]
  <2>2. ASSUME NEW i \in 0..(n + 1) PROVE g[i] = Val(g, i)
    <3>1. CASE i = n + 1
      BY <3>1
    <3>2. CASE i # n + 1
      <4>1. i \in 0..n /\ g[i] = f[i] /\ f[i] = Val(f, i)
        BY <2>1, <3>2
      <4>2. i # 0 => i - 1 \in 0..n /\ i - 1 # n + 1 /\ g[i - 1] = f[i - 1]
        BY <4>1
      <4> QED BY <4>1, <4>2
    <3> QED BY <3>1, <3>2
  <2>3. g = [i \in 0..(n + 1) |-> Val(g, i)]
    BY <2>2
  <2>4. \E h : h = [i \in 0..(n + 1) |-> Val(h, i)]
    <3> HIDE DEF g, Val
    <3> WITNESS g
    <3> QED BY <2>3
  <2>5. n + 1 \in 0..size
    OBVIOUS
  <2> HIDE DEF g, Val
  <2> QED BY <2>4, <2>5
<1>3. size \in T
  <2> HIDE DEF T
  <2>1. 0..size \subseteq T
    BY <1>1, <1>2, UpTo
  <2> QED BY <2>1
<1>4. PICK h : h = [i \in 0..size |-> Val(h, i)]
  BY <1>3
<1>5. of = [i \in 0..size |-> Val(of, i)]
  <2> HIDE DEF Val
  <2> QED BY <1>0, <1>4
<1>7. of[0] = <<>> /\ \A i \in 1..size : of[i] = Then(of[i - 1], i)
  BY <1>5
<1> QED BY <1>0, <1>7, <1>u DEF of

\* The prefixes of some frames give chunks, and those of all of them are the
\* chunks of a prefix and then those of the rest.
LEMMA ChunksCat ==
  ASSUME NEW a \in Seq(Wire), NEW b \in Seq(Wire), NEW id
  PROVE  /\ Chunks(a, id) \in Seq(Chunk) /\ Chunks(b, id) \in Seq(Chunk)
         /\ Chunks(a \o b, id) = Chunks(a, id) \o Chunks(b, id)
<1> DEFINE ab == a \o b
           A == ChunksUpTo(a, id)
           B == ChunksUpTo(b, id)
           C == ChunksUpTo(ab, id)
           F(x, f) == IF f.t = "data" /\ f.id = id THEN Append(x, f.chunk) ELSE x
<1>1. /\ Len(a) \in Nat /\ Len(b) \in Nat /\ Len(ab) = Len(a) + Len(b) /\ Len(ab) \in Nat
      /\ \A p \in 1..Len(a) : ab[p] = a[p] /\ a[p] \in Wire
      /\ \A p \in 1..Len(b) : ab[Len(a) + p] = b[p] /\ b[p] \in Wire
  BY CatLength, ElementOfSeq
<1>2. /\ Chunks(a, id) = A[Len(a)] /\ A[0] = <<>> /\ \A i \in 1..Len(a) : A[i] = F(A[i - 1], a[i])
  BY <1>1, ChunksUnfold
<1>3. /\ Chunks(b, id) = B[Len(b)] /\ B[0] = <<>> /\ \A i \in 1..Len(b) : B[i] = F(B[i - 1], b[i])
  BY <1>1, ChunksUnfold
<1>4. /\ Chunks(ab, id) = C[Len(ab)] /\ C[0] = <<>> /\ \A i \in 1..Len(ab) : C[i] = F(C[i - 1], ab[i])
  <2> HIDE DEF ab
  <2> QED BY <1>1, ChunksUnfold
<1> HIDE DEF ab, A, B, C
<1>5. \A x \in Seq(Chunk), f \in Wire : F(x, f) \in Seq(Chunk)
  BY CatOne DEF Wire
<1>6. \A x, y \in Seq(Chunk), f \in Wire : F(x \o y, f) = x \o F(y, f)
  <2> SUFFICES ASSUME NEW x \in Seq(Chunk), NEW y \in Seq(Chunk), NEW f \in Wire
               PROVE  F(x \o y, f) = x \o F(y, f)
    OBVIOUS
  <2>1. f.chunk \in Chunk /\ <<f.chunk>> \in Seq(Chunk) /\ x \o y \in Seq(Chunk)
    BY CatOne, Cat DEF Wire
  <2>2. Append(x \o y, f.chunk) = (x \o y) \o <<f.chunk>> /\ Append(y, f.chunk) = y \o <<f.chunk>>
    BY <2>1, CatOne
  <2>3. (x \o y) \o <<f.chunk>> = x \o (y \o <<f.chunk>>)
    BY <2>1, Cat
  <2> QED BY <2>2, <2>3
<1>e. <<>> \in Seq(Chunk)
  OBVIOUS
<1> HIDE DEF F
<1> DEFINE P == {n \in 0..Len(a) : A[n] \in Seq(Chunk) /\ C[n] = A[n]}
<1>7. 0..Len(a) \subseteq P
  <2>1. 0 \in P
    <3>1. 0 \in 0..Len(a) /\ A[0] = <<>> /\ C[0] = <<>>
      BY <1>1, <1>2, <1>4
    <3> QED BY <3>1, <1>e
  <2>2. ASSUME NEW n \in 0..(Len(a) - 1), n \in P PROVE n + 1 \in P
    <3>1. n + 1 \in 1..Len(a) /\ n + 1 \in 1..Len(ab) /\ (n + 1) - 1 = n /\ n + 1 \in 0..Len(a)
      BY <1>1
    <3>2. A[n + 1] = F(A[n], a[n + 1]) /\ C[n + 1] = F(C[n], ab[n + 1]) /\ ab[n + 1] = a[n + 1]
      BY <1>1, <1>2, <1>4, <3>1
    <3> QED BY <1>1, <1>5, <2>2, <3>1, <3>2
  <2> HIDE DEF P
  <2> QED BY <1>1, <2>1, <2>2, UpTo
<1> DEFINE Q == {n \in 0..Len(b) : B[n] \in Seq(Chunk) /\ C[Len(a) + n] = A[Len(a)] \o B[n]}
<1>8. A[Len(a)] \in Seq(Chunk) /\ C[Len(a)] = A[Len(a)]
  BY <1>1, <1>7
<1>9. 0..Len(b) \subseteq Q
  <2>1. 0 \in Q
    <3>1. 0 \in 0..Len(b) /\ B[0] = <<>> /\ Len(a) + 0 = Len(a)
      BY <1>1, <1>3
    <3>2. A[Len(a)] \o <<>> = A[Len(a)]
      BY <1>8, <1>e, Cat
    <3> QED BY <1>8, <1>e, <3>1, <3>2
  <2>2. ASSUME NEW n \in 0..(Len(b) - 1), n \in Q PROVE n + 1 \in Q
    <3>1. /\ n + 1 \in 1..Len(b) /\ (n + 1) - 1 = n /\ n + 1 \in 0..Len(b)
          /\ Len(a) + (n + 1) \in 1..Len(ab) /\ (Len(a) + (n + 1)) - 1 = Len(a) + n
      BY <1>1
    <3>2. /\ B[n + 1] = F(B[n], b[n + 1]) /\ ab[Len(a) + (n + 1)] = b[n + 1] /\ b[n + 1] \in Wire
          /\ C[Len(a) + (n + 1)] = F(C[Len(a) + n], ab[Len(a) + (n + 1)])
      BY <1>1, <1>3, <1>4, <3>1
    <3>3. F(A[Len(a)] \o B[n], b[n + 1]) = A[Len(a)] \o F(B[n], b[n + 1])
      BY <1>6, <1>8, <2>2, <3>2
    <3> QED BY <1>5, <2>2, <3>1, <3>2, <3>3
  <2> HIDE DEF Q
  <2> QED BY <1>1, <2>1, <2>2, UpTo
<1>10. B[Len(b)] \in Seq(Chunk) /\ C[Len(a) + Len(b)] = A[Len(a)] \o B[Len(b)]
  <2>1. Len(b) \in 0..Len(b)
    BY <1>1
  <2> QED BY <1>9, <2>1
<1> QED BY <1>1, <1>2, <1>3, <1>4, <1>8, <1>10 DEF ab

LEMMA ChunksOne ==
  ASSUME NEW f \in Wire, NEW id
  PROVE  Chunks(<<f>>, id) = IF f.t = "data" /\ f.id = id THEN <<f.chunk>> ELSE <<>>
<1>1. <<f>> \in Seq(Wire) /\ Len(<<f>>) = 1 /\ <<f>>[1] = f
  OBVIOUS
<1> DEFINE s == <<f>>
           A == ChunksUpTo(s, id)
<1> HIDE DEF s
<1>2. Len(s) = 1 /\ s[1] = f
  BY <1>1 DEF s
<1>3. /\ Chunks(s, id) = A[Len(s)] /\ A[0] = <<>>
      /\ \A i \in 1..Len(s) : A[i] = IF s[i].t = "data" /\ s[i].id = id THEN Append(A[i - 1], s[i].chunk) ELSE A[i - 1]
  <2>1. Len(s) \in Nat
    BY <1>2
  <2> QED BY <2>1, ChunksUnfold
<1> HIDE DEF A
<1>5. 1 \in 1..Len(s) /\ Len(s) = 1
  BY <1>2
<1>6. A[1] = IF s[1].t = "data" /\ s[1].id = id THEN Append(A[1 - 1], s[1].chunk) ELSE A[1 - 1]
  BY <1>3, <1>5
<1>4. Append(<<>>, f.chunk) = <<f.chunk>> /\ 1 - 1 = 0
  OBVIOUS
<1> QED BY <1>2, <1>3, <1>4, <1>5, <1>6 DEF s

LEMMA ChunksNone ==
  ASSUME NEW a \in Seq(Wire), NEW id, \A p \in DOMAIN a : ~(a[p].t = "data" /\ a[p].id = id)
  PROVE  Chunks(a, id) = <<>>
<1> DEFINE A == ChunksUpTo(a, id)
           P == {n \in 0..Len(a) : A[n] = <<>>}
<1>1. Len(a) \in Nat /\ DOMAIN a = 1..Len(a)
  OBVIOUS
<1>2. Chunks(a, id) = A[Len(a)] /\ A[0] = <<>> /\ \A i \in 1..Len(a) : A[i] = A[i - 1]
  BY <1>1, ChunksUnfold
<1> HIDE DEF A
<1>3. 0 \in P
  BY <1>1, <1>2
<1>4. ASSUME NEW n \in 0..(Len(a) - 1), n \in P PROVE n + 1 \in P
  <2>1. n + 1 \in 1..Len(a) /\ (n + 1) - 1 = n /\ n + 1 \in 0..Len(a)
    BY <1>1
  <2> QED BY <1>2, <1>4, <2>1
<1>5. 0..Len(a) \subseteq P
  <2> HIDE DEF P
  <2> QED BY <1>1, <1>3, <1>4, UpTo
<1> QED BY <1>1, <1>2, <1>5

\* What a handler puts on the wire for the chunks it has read.
LEMMA ChunksOfData ==
  ASSUME NEW c \in Seq(Chunk), NEW id \in Nat
  PROVE  /\ DataFrames(id, c) \in Seq(Wire) /\ Len(DataFrames(id, c)) = Len(c)
         /\ \A p \in DOMAIN DataFrames(id, c) : DataFrames(id, c)[p].t = "data" /\ DataFrames(id, c)[p].id = id
         /\ Chunks(DataFrames(id, c), id) = c
<1> DEFINE s == DataFrames(id, c)
           A == ChunksUpTo(s, id)
           P == {n \in 0..Len(c) : A[n] = SubSeq(c, 1, n)}
<1>1. Len(c) \in Nat /\ DOMAIN c = 1..Len(c) /\ \A p \in 1..Len(c) : c[p] \in Chunk
  OBVIOUS
<1>2. s \in Seq(Wire) /\ Len(s) = Len(c) /\ DOMAIN s = 1..Len(c)
  BY <1>1 DEF DataFrames, Frame, Wire
<1>3. \A p \in 1..Len(c) : s[p] = [t |-> "data", id |-> id, chunk |-> c[p]]
  BY <1>1 DEF DataFrames, Frame
<1> HIDE DEF s
<1>d. ASSUME NEW p \in 1..Len(c) PROVE s[p].t = "data" /\ s[p].id = id /\ s[p].chunk = c[p]
  <2>1. s[p] = [t |-> "data", id |-> id, chunk |-> c[p]]
    BY <1>3
  <2> DEFINE y == c[p]
             x == [t |-> "data", id |-> id, chunk |-> y]
  <2>2. x.t = "data" /\ x.id = id /\ x.chunk = y
    <3> HIDE DEF y
    <3> QED OBVIOUS
  <2>3. s[p] = x
    BY <2>1
  <2> HIDE DEF x
  <2> QED BY <2>2, <2>3
<1>u. /\ Chunks(s, id) = A[Len(c)] /\ A[0] = <<>>
      /\ \A i \in 1..Len(c) : A[i] = IF s[i].t = "data" /\ s[i].id = id THEN Append(A[i - 1], s[i].chunk) ELSE A[i - 1]
  <2>1. Len(c) \in Nat /\ Len(c) = Len(s)
    BY <1>1, <1>2
  <2> QED BY ONLY <2>1, ChunksUnfold
<1> HIDE DEF A
<1>4. /\ Chunks(s, id) = A[Len(c)] /\ A[0] = <<>>
      /\ \A i \in 1..Len(c) : A[i] = Append(A[i - 1], c[i])
  BY <1>d, <1>u
<1>5. 0 \in P
  <2>1. 0 \in 0..Len(c) /\ SubSeq(c, 1, 0) = <<>>
    BY <1>1, SubSeqEmpty
  <2> QED BY <1>4, <2>1
<1>6. ASSUME NEW n \in 0..(Len(c) - 1), n \in P PROVE n + 1 \in P
  <2>1. n + 1 \in 1..Len(c) /\ (n + 1) - 1 = n /\ n + 1 \in 0..Len(c) /\ c[n + 1] \in Chunk
    BY <1>1
  <2>2. SubSeq(c, 1, n + 1) = SubSeq(c, 1, n) \o <<c[n + 1]>>
    <3>1. n + 1 \in 1..Len(c) /\ 1 \in 1..Len(c) /\ n + 1 \in 1..Len(c)
      BY <2>1
    <3> QED BY <2>1, <3>1, SubSeqRecursiveSecond
  <2>3. SubSeq(c, 1, n) \in Seq(Chunk)
    BY <1>1, SubSeqProperties
  <2>4. A[n] = SubSeq(c, 1, n) /\ A[n + 1] = Append(A[n], c[n + 1])
    BY <1>4, <1>6, <2>1
  <2>5. Append(SubSeq(c, 1, n), c[n + 1]) = SubSeq(c, 1, n) \o <<c[n + 1]>>
    BY <2>1, <2>3, CatOne
  <2> QED BY <2>1, <2>2, <2>4, <2>5
<1>7. 0..Len(c) \subseteq P
  <2> HIDE DEF P
  <2> QED BY <1>1, <1>5, <1>6, UpTo
<1>8. A[Len(c)] = c
  BY <1>1, <1>7, SubSeqFull
<1> QED BY <1>2, <1>d, <1>4, <1>8 DEF s

-----------------------------------------------------------------------------
(* What goes to a client.                                                   *)

Base(r, u) == Shape(r, u) /\ Owned(r) /\ Called(r) /\ Drawn(r, u)

LEMMA Known ==
  ASSUME ClientInv
  PROVE  /\ made \in Nat /\ current \in Nat /\ 1..made \subseteq Conns
         /\ current # 0 => current \in Conns /\ current \in 1..made
  BY AgentAssumption DEF ClientInv, Conns

Sent(r, u, t, to, frames) ==
    /\ Base(t, u)
    /\ t.streams = r.streams /\ t.next = r.next /\ t.ssh = r.ssh /\ t.fds = r.fds /\ t.hung = r.hung
    /\ DOMAIN t.clients = DOMAIN r.clients
    /\ \A k \in DOMAIN r.clients : ~t.clients[k].dead => ~r.clients[k].dead
    /\ \A k \in Conns : t.down[k] # r.down[k] => k = current /\ k \in to /\ t.down[k] = r.down[k] \o frames
    /\ current \in to \cap DOMAIN r.clients /\ ~t.clients[current].dead
         => t.down[current] = r.down[current] \o frames

\* Frames reach the connection in use or nobody; a client that they cannot
\* reach is dead or was not meant.
LEMMA Sends ==
  ASSUME ClientInv, NEW r, NEW u, Base(r, u), NEW to, NEW full, NEW frames \in Seq(Wire),
         \A p \in DOMAIN frames : frames[p].id < r.next
  PROVE  Sent(r, u, SendControl(r, to, frames, full), to, frames)
<1> DEFINE t == SendControl(r, to, frames, full)
           told == {k \in to : Live(r, k) /\ <<"client", k>> \notin r.hung /\ frames # <<>>}
           C == [k \in DOMAIN r.clients |-> IF k \in told THEN [r.clients[k] EXCEPT !.dead = TRUE] ELSE r.clients[k]]
           D == [k \in Conns |-> IF k \in told THEN r.down[k] \o frames ELSE r.down[k]]
<1>1. /\ DOMAIN r = {"fds", "streams", "next", "clients", "down", "hung", "ssh"}
      /\ r.down \in [Conns -> Seq(Wire)] /\ DOMAIN r.clients \subseteq 1..made
      /\ \A k \in DOMAIN r.clients : r.clients[k].dead \in BOOLEAN /\ DOMAIN r.clients[k] = {"fd", "dead"}
      /\ \A k \in Conns : <<"client", k>> \in r.hung <=> k \in (1..made) \ {current}
  BY DEF Base, Shape, Drawn
<1>2. \A k \in told : k \in DOMAIN r.clients /\ k \in Conns /\ k = current /\ k \in to /\ frames # <<>> /\ ~r.clients[k].dead
  BY <1>1, Known DEF Live
<1>3. t = IF full THEN [r EXCEPT !.clients = C] ELSE [r EXCEPT !.down = D]
  <2>1. t = IF full
            THEN [r EXCEPT !.clients = [k \in DOMAIN @ |-> IF k \in told THEN [@[k] EXCEPT !.dead = TRUE] ELSE @[k]]]
            ELSE [r EXCEPT !.down = [k \in Conns |-> IF k \in told THEN @[k] \o frames ELSE @[k]]]
    BY DEF SendControl
  <2> QED BY <2>1
<1> HIDE DEF t, told
<1>4. /\ DOMAIN C = DOMAIN r.clients
      /\ \A k \in DOMAIN r.clients : /\ C[k].dead \in BOOLEAN /\ DOMAIN C[k] = {"fd", "dead"}
                                     /\ (~C[k].dead => k \notin told /\ ~r.clients[k].dead)
  BY <1>1
<1>5. /\ D \in [Conns -> Seq(Wire)]
      /\ \A k \in Conns : D[k] # r.down[k] => k \in told
      /\ \A k \in told : D[k] = r.down[k] \o frames
  <2>1. \A k \in Conns : r.down[k] \o frames \in Seq(Wire)
    BY <1>1, Cat
  <2> QED BY <1>1, <1>2, <2>1
<1> HIDE DEF C, D
<1>6. /\ DOMAIN t = DOMAIN r
      /\ t.streams = r.streams /\ t.next = r.next /\ t.ssh = r.ssh /\ t.fds = r.fds /\ t.hung = r.hung
      /\ full => t.clients = C /\ t.down = r.down
      /\ ~full => t.clients = r.clients /\ t.down = D
  BY <1>1, <1>3
<1>7. /\ DOMAIN t.clients = DOMAIN r.clients /\ t.down \in [Conns -> Seq(Wire)]
      /\ \A k \in DOMAIN r.clients : t.clients[k].dead \in BOOLEAN /\ DOMAIN t.clients[k] = {"fd", "dead"}
      /\ \A k \in DOMAIN r.clients : ~t.clients[k].dead => ~r.clients[k].dead
      /\ \A k \in Conns : t.down[k] # r.down[k] => k \in told /\ t.down[k] = r.down[k] \o frames
  BY <1>1, <1>4, <1>5, <1>6
<1>8. Shape(t, u) /\ Owned(t) /\ Called(t)
  BY <1>1, <1>6, <1>7 DEF Base, Shape, Owned, Called
<1>9. Drawn(t, u)
  <2>1. ASSUME NEW k \in Conns, NEW p \in DOMAIN t.down[k] PROVE t.down[k][p].id < t.next
    <3>1. CASE t.down[k] = r.down[k]
      BY <1>6, <3>1 DEF Base, Drawn
    <3>2. CASE t.down[k] = r.down[k] \o frames
      <4>1. r.down[k] \in Seq(Wire)
        BY <1>1
      <4>2. \/ p \in DOMAIN r.down[k] /\ t.down[k][p] = r.down[k][p]
            \/ \E q \in DOMAIN frames : t.down[k][p] = frames[q]
        BY <3>2, <4>1, CatLength
      <4> QED BY <1>6, <4>2 DEF Base, Drawn
    <3> QED BY <1>7, <3>1, <3>2
  <2>2. \A k \in Conns \ {current} : t.down[k] = <<>>
    BY <1>2, <1>7 DEF Base, Drawn
  <2> QED BY <1>6, <2>1, <2>2 DEF Base, Drawn
<1>10. current \in to \cap DOMAIN r.clients /\ ~t.clients[current].dead => t.down[current] = r.down[current] \o frames
  <2> SUFFICES ASSUME current \in to, current \in DOMAIN r.clients, ~t.clients[current].dead
               PROVE  t.down[current] = r.down[current] \o frames
    OBVIOUS
  <2>1. current \in 1..made /\ current \in Conns /\ r.down[current] \in Seq(Wire)
    BY <1>1, Known
  <2>2. <<"client", current>> \notin r.hung
    BY <1>1, <2>1
  <2>3. frames # <<>> => current \in told
    BY <1>7, <2>2 DEF told, Live
  <2>4. CASE frames = <<>>
    <3>1. r.down[current] \o frames = r.down[current]
      BY <2>1, <2>4, Cat
    <3> QED BY <1>7, <2>1, <3>1
  <2>5. CASE frames # <<>>
    BY <1>4, <1>5, <1>6, <2>3, <2>5
  <2> QED BY <2>4, <2>5
<1> QED BY <1>2, <1>6, <1>7, <1>8, <1>9, <1>10 DEF Base, Sent, t

\* Frames that end something add nothing to what is under way.
LEMMA EndsLater ==
  ASSUME NEW a \in Seq(Wire), NEW b \in Seq(Wire), \A p \in DOMAIN b : b[p].t \in {"close", "gone"}
  PROVE  /\ \A p \in DOMAIN (a \o b) : (a \o b)[p].t \in {"open", "data"} =>
               p \in DOMAIN a /\ a[p] = (a \o b)[p]
         /\ \A p \in DOMAIN a : p \in DOMAIN (a \o b) /\ a[p] = (a \o b)[p]
         /\ \A id : Chunks(a \o b, id) = Chunks(a, id)
<1>1. ASSUME NEW id PROVE Chunks(a \o b, id) = Chunks(a, id)
  <2>1. Chunks(b, id) = <<>> /\ Chunks(a, id) \in Seq(Chunk)
    BY ChunksNone, ChunksCat
  <2>2. Chunks(a, id) \o <<>> = Chunks(a, id)
    BY <2>1, Cat
  <2>3. Chunks(a \o b, id) = Chunks(a, id) \o Chunks(b, id)
    BY ChunksCat
  <2> QED BY <2>1, <2>2, <2>3
<1>2. /\ DOMAIN a = 1..Len(a) /\ DOMAIN b = 1..Len(b) /\ DOMAIN (a \o b) = 1..(Len(a) + Len(b))
      /\ Len(a) \in Nat /\ Len(b) \in Nat
      /\ \A p \in 1..Len(a) : (a \o b)[p] = a[p]
      /\ \A p \in 1..(Len(a) + Len(b)) : p \in 1..Len(a) \/ (p - Len(a) \in 1..Len(b) /\ (a \o b)[p] = b[p - Len(a)])
  BY CatLength
<1>3. \A q \in 1..Len(b) : b[q].t # "open" /\ b[q].t # "data"
  BY <1>2
<1>4. ASSUME NEW p \in DOMAIN (a \o b), (a \o b)[p].t \in {"open", "data"}
      PROVE  p \in DOMAIN a /\ a[p] = (a \o b)[p]
  <2>1. p \in 1..Len(a) \/ (p - Len(a) \in 1..Len(b) /\ (a \o b)[p] = b[p - Len(a)])
    BY <1>2
  <2>2. ~(p - Len(a) \in 1..Len(b) /\ (a \o b)[p] = b[p - Len(a)])
    BY <1>3, <1>4
  <2> QED BY <1>2, <2>1, <2>2
<1>5. ASSUME NEW p \in DOMAIN a PROVE p \in DOMAIN (a \o b) /\ a[p] = (a \o b)[p]
  BY <1>2
<1> QED BY <1>1, <1>4, <1>5

LEMMA SendsEnd ==
  ASSUME ClientInv, NEW r, NEW u, DaemonInv(r, u), NEW to, NEW full, NEW frames \in Seq(Wire),
         \A p \in DOMAIN frames : frames[p].id < r.next /\ frames[p].t \in {"close", "gone"}
  PROVE  /\ DaemonInv(SendControl(r, to, frames, full), u)
         /\ DOMAIN SendControl(r, to, frames, full).clients = DOMAIN r.clients
<1> DEFINE t == SendControl(r, to, frames, full)
<1>1. /\ Base(t, u) /\ Base(r, u)
      /\ t.streams = r.streams /\ t.next = r.next /\ t.ssh = r.ssh
      /\ DOMAIN t.clients = DOMAIN r.clients
      /\ \A k \in DOMAIN r.clients : ~t.clients[k].dead => ~r.clients[k].dead
      /\ \A k \in Conns : t.down[k] # r.down[k] => t.down[k] = r.down[k] \o frames
  <2> HIDE DEF t
  <2>1. Base(r, u)
    BY DEF DaemonInv, Base
  <2>2. Sent(r, u, t, to, frames)
    BY <2>1, Sends DEF t
  <2> QED BY <2>1, <2>2 DEF Sent
<1> HIDE DEF t
<1>2. ASSUME current # 0
      PROVE  /\ \A p \in DOMAIN t.down[current] : t.down[current][p].t \in {"open", "data"} =>
                   p \in DOMAIN r.down[current] /\ r.down[current][p] = t.down[current][p]
             /\ \A p \in DOMAIN r.down[current] :
                   p \in DOMAIN t.down[current] /\ r.down[current][p] = t.down[current][p]
             /\ \A id : Chunks(t.down[current], id) = Chunks(r.down[current], id)
  <2>1. current \in Conns /\ r.down[current] \in Seq(Wire)
    BY <1>1, <1>2, Known DEF Base, Shape
  <2>2. CASE t.down[current] = r.down[current]
    BY <2>2
  <2>3. CASE t.down[current] = r.down[current] \o frames
    <3> DEFINE a == r.down[current]
    <3>1. a \in Seq(Wire) /\ t.down[current] = a \o frames /\ \A p \in DOMAIN frames : frames[p].t \in {"close", "gone"}
      BY <2>1, <2>3
    <3> HIDE DEF a
    <3>2. /\ \A p \in DOMAIN (a \o frames) : (a \o frames)[p].t \in {"open", "data"} =>
               p \in DOMAIN a /\ a[p] = (a \o frames)[p]
          /\ \A p \in DOMAIN a : p \in DOMAIN (a \o frames) /\ a[p] = (a \o frames)[p]
          /\ \A id : Chunks(a \o frames, id) = Chunks(a, id)
      BY ONLY <3>1, EndsLater, frames \in Seq(Wire)
    <3> QED BY <3>1, <3>2 DEF a
  <2> QED BY <1>1, <2>1, <2>2, <2>3
<1>3. Opens(t)
  BY <1>1, <1>2 DEF DaemonInv, Opens
<1>4. Flows(t, u)
  <2> SUFFICES ASSUME NEW id \in Served(t) PROVE Flow(t, u, id)
    BY DEF Flows
  <2>1. id \in Served(r) /\ current # 0
    BY <1>1, Known DEF Base, Shape, Owned, Served
  <2>2. Opening(t, id) => Opening(r, id)
    BY <1>2, <2>1 DEF Opening
  <2>3. Chunks(t.down[current], id) = Chunks(r.down[current], id)
    BY <1>2, <2>1
  <2>4. Flow(r, u, id)
    BY <2>1 DEF DaemonInv, Flows
  <2> QED BY <1>1, <2>2, <2>3, <2>4 DEF Flow
<1> QED BY <1>1, <1>3, <1>4 DEF DaemonInv, Base, t

-----------------------------------------------------------------------------
(* What happens to one stream.                                              *)

\* A step that is about one stream and its ssh only.
OfOne(r, t, id) ==
    /\ DOMAIN t = DOMAIN r /\ t.fds = r.fds /\ t.next = r.next /\ t.clients = r.clients
    /\ t.down = r.down /\ t.hung = r.hung /\ DOMAIN t.streams = DOMAIN r.streams
    /\ \A j \in DOMAIN r.streams :
            /\ DOMAIN t.streams[j] = DOMAIN r.streams[j] /\ t.streams[j].fd = r.streams[j].fd
            /\ t.streams[j].client = r.streams[j].client /\ t.streams[j].ssh = r.streams[j].ssh
            /\ j # id => t.streams[j].out = r.streams[j].out
    /\ t.streams[id].out \in Seq(Chunk) /\ t.ssh \in [Sshs -> SshEnd]
    /\ \A i \in Sshs \ {r.streams[id].ssh} : t.ssh[i] = r.ssh[i]
    /\ t.ssh[r.streams[id].ssh].id = id /\ t.ssh[r.streams[id].ssh].st \in {"open", "leaving"}

LEMMA OneEnd ==
  ASSUME NEW r, NEW u, Base(r, u), NEW id \in DOMAIN r.streams, NEW t, OfOne(r, t, id)
  PROVE  /\ Base(t, u)
         /\ \A j \in DOMAIN r.streams \ {id} : t.ssh[r.streams[j].ssh] = r.ssh[r.streams[j].ssh]
<1>1. \A j \in DOMAIN r.streams \ {id} : r.streams[j].ssh \in Sshs /\ r.streams[j].ssh # r.streams[id].ssh
  BY DEF Base, Owned
<1> USE DEF OfOne
<1>2. \A j \in DOMAIN r.streams \ {id} : t.ssh[r.streams[j].ssh] = r.ssh[r.streams[j].ssh]
  BY <1>1
<1>3. Shape(t, u) /\ Drawn(t, u)
  BY DEF Base, Shape, Drawn
<1>4. Owned(t)
  <2> SUFFICES ASSUME NEW j \in DOMAIN t.streams
               PROVE  /\ j \in Nat /\ j < t.next
                      /\ DOMAIN t.streams[j] = {"fd", "client", "ssh", "out"}
                      /\ t.streams[j].client \in DOMAIN t.clients /\ t.streams[j].out \in Seq(Chunk)
                      /\ t.streams[j].ssh \in Sshs
                      /\ t.ssh[t.streams[j].ssh].id = j /\ t.ssh[t.streams[j].ssh].st \in {"open", "leaving"}
    BY DEF Owned
  <2>1. /\ j \in Nat /\ j < r.next /\ DOMAIN r.streams[j] = {"fd", "client", "ssh", "out"}
        /\ r.streams[j].client \in DOMAIN r.clients /\ r.streams[j].out \in Seq(Chunk)
        /\ r.streams[j].ssh \in Sshs
        /\ r.ssh[r.streams[j].ssh].id = j /\ r.ssh[r.streams[j].ssh].st \in {"open", "leaving"}
    BY DEF Base, Owned
  <2>2. CASE j = id
    BY <2>1, <2>2
  <2>3. CASE j # id
    BY <1>2, <2>1, <2>3
  <2> QED BY <2>2, <2>3
<1>5. Called(t)
  BY DEF Base, Called
<1> QED BY <1>2, <1>3, <1>4, <1>5 DEF Base

\* A step with whose frames the other streams have nothing to do.
Besides(r, u, t, v, id) ==
    /\ DOMAIN t.streams = DOMAIN r.streams /\ DOMAIN t.clients = DOMAIN r.clients
    /\ \A k \in DOMAIN r.clients : ~t.clients[k].dead => ~r.clients[k].dead
    /\ \A j \in DOMAIN r.streams : t.streams[j].client = r.streams[j].client /\ t.streams[j].ssh = r.streams[j].ssh
    /\ \A j \in DOMAIN r.streams \ {id} :
            /\ t.streams[j].out = r.streams[j].out
            /\ t.ssh[r.streams[j].ssh] = r.ssh[r.streams[j].ssh]
            /\ current # 0 =>
                 /\ Opening(t, j) => Opening(r, j)
                 /\ Chunks(t.down[current], j) = Chunks(r.down[current], j)
                 /\ Chunks(v[current], j) = Chunks(u[current], j)

LEMMA OneFlow ==
  ASSUME ClientInv, NEW r, NEW u, DaemonInv(r, u), NEW t, NEW v, Base(t, v), NEW id \in DOMAIN r.streams,
         Besides(r, u, t, v, id), id \in Served(t) => Flow(t, v, id)
  PROVE  Flows(t, v)
<1> USE DEF Besides
<1> SUFFICES ASSUME NEW j \in Served(t), j # id PROVE Flow(t, v, j)
  BY DEF Flows
<1>1. j \in DOMAIN r.streams /\ j \in Served(r) /\ current # 0
  BY Known DEF DaemonInv, Base, Shape, Owned, Served
<1>2. Flow(r, u, j)
  BY <1>1 DEF DaemonInv, Flows
<1> QED BY <1>1, <1>2 DEF Flow

LEMMA Flushes ==
  ASSUME ClientInv, NEW r, NEW u, DaemonInv(r, u), NEW id \in DOMAIN r.streams, NEW n \in Nat
  PROVE  LET t == Flush(r, id, n)
         IN /\ DaemonInv(t, u) /\ t.clients = r.clients /\ t.hung = r.hung
            /\ DOMAIN t.streams = DOMAIN r.streams
            /\ \A j \in DOMAIN r.streams : t.streams[j].client = r.streams[j].client /\ t.streams[j].ssh = r.streams[j].ssh
            /\ \A i \in Sshs : t.ssh[i].st = r.ssh[i].st /\ t.ssh[i].unread = r.ssh[i].unread
<1> DEFINE t == Flush(r, id, n)
           st == r.streams[id]
           i  == st.ssh
           A  == AfterN(st.out, n)
           F  == FirstN(st.out, n)
           e  == [r.ssh[i] EXCEPT !.got = @ \o F]
<1>1. /\ DOMAIN r = {"fds", "streams", "next", "clients", "down", "hung", "ssh"} /\ r.ssh \in [Sshs -> SshEnd]
      /\ DOMAIN st = {"fd", "client", "ssh", "out"} /\ st.out \in Seq(Chunk) /\ i \in Sshs
      /\ r.ssh[i].id = id /\ r.ssh[i].st \in {"open", "leaving"} /\ Base(r, u)
  BY DEF DaemonInv, Base, Shape, Owned
<1>2. A \in Seq(Chunk) /\ F \in Seq(Chunk) /\ F \o A = st.out
  BY <1>1, Split
<1>3. t = [r EXCEPT !.streams[id].out = A, !.ssh[i].got = @ \o F]
  BY DEF Flush
<1> HIDE DEF A, F
<1>4. /\ DOMAIN t = DOMAIN r /\ t.fds = r.fds /\ t.next = r.next /\ t.clients = r.clients
      /\ t.down = r.down /\ t.hung = r.hung
      /\ t.streams = [r.streams EXCEPT ![id] = [st EXCEPT !.out = A]] /\ t.ssh = [r.ssh EXCEPT ![i] = e]
  <2> HIDE DEF t
  <2> QED BY <1>1, <1>3
<1> HIDE DEF t
<1>5. e \in SshEnd /\ e.id = id /\ e.st = r.ssh[i].st /\ e.unread = r.ssh[i].unread /\ e.sent = r.ssh[i].sent
      /\ e.got = r.ssh[i].got \o F /\ r.ssh[i].got \in Seq(Chunk)
  <2>1. r.ssh[i] \in SshEnd
    BY <1>1
  <2>2. r.ssh[i].got \o F \in Seq(Chunk)
    BY <1>2, <2>1, Cat DEF SshEnd
  <2> QED BY <1>1, <2>1, <2>2 DEF SshEnd
<1> HIDE DEF e
<1>6. /\ DOMAIN t.streams = DOMAIN r.streams /\ t.streams[id].out = A
      /\ \A j \in DOMAIN r.streams :
            /\ DOMAIN t.streams[j] = DOMAIN r.streams[j] /\ t.streams[j].fd = r.streams[j].fd
            /\ t.streams[j].client = r.streams[j].client /\ t.streams[j].ssh = r.streams[j].ssh
            /\ j # id => t.streams[j].out = r.streams[j].out
  BY <1>1, <1>4
<1>7. t.ssh \in [Sshs -> SshEnd] /\ t.ssh[i] = e /\ \A j \in Sshs \ {i} : t.ssh[j] = r.ssh[j]
  <2>1. r.ssh \in [Sshs -> SshEnd] /\ t.ssh = [r.ssh EXCEPT ![i] = e] /\ e \in SshEnd /\ i \in Sshs
    BY <1>1, <1>4, <1>5
  <2> HIDE DEF i
  <2> QED BY ONLY <2>1
<1>8. /\ Base(t, u) /\ \A j \in DOMAIN r.streams \ {id} : t.ssh[r.streams[j].ssh] = r.ssh[r.streams[j].ssh]
  <2>1. /\ t.streams[id].out \in Seq(Chunk)
        /\ t.ssh[r.streams[id].ssh].id = id /\ t.ssh[r.streams[id].ssh].st \in {"open", "leaving"}
        /\ \A j \in Sshs \ {r.streams[id].ssh} : t.ssh[j] = r.ssh[j]
    BY <1>1, <1>2, <1>5, <1>6, <1>7
  <2>2. OfOne(r, t, id)
    <3> HIDE DEF st, i
    <3> QED BY <1>4, <1>6, <1>7, <2>1 DEF OfOne
  <2> QED BY <1>1, <2>2, OneEnd
<1>9. Opens(t)
  BY <1>4, <1>6 DEF DaemonInv, Opens
<1>10. ASSUME id \in Served(t) PROVE Flow(t, u, id)
  <2>1. id \in Served(r) /\ current # 0
    BY <1>1, <1>4, <1>6, <1>10, Known DEF DaemonInv, Base, Shape, Owned, Served
  <2>2. Flow(r, u, id)
    BY <2>1 DEF DaemonInv, Flows
  <2>3. Opening(t, id) <=> Opening(r, id)
    BY <1>4 DEF Opening
  <2>4. (r.ssh[i].got \o F) \o A = r.ssh[i].got \o st.out
    <3> DEFINE g == r.ssh[i].got
    <3>1. g \in Seq(Chunk)
      BY <1>5
    <3>0. F \in Seq(Chunk) /\ A \in Seq(Chunk)
      BY <1>2
    <3> HIDE DEF g
    <3>2. (g \o F) \o A = g \o (F \o A)
      BY ONLY <3>0, <3>1, ConcatAssociative
    <3> QED BY <1>2, <3>2 DEF g
  <2>5. st.out = <<>> /\ r.ssh[i].got = <<>> => A = <<>> /\ r.ssh[i].got \o F = <<>>
    <3> SUFFICES ASSUME st.out = <<>>, r.ssh[i].got = <<>> PROVE A = <<>> /\ r.ssh[i].got \o F = <<>>
      OBVIOUS
    <3>1. F \o A = <<>> /\ F \in Seq(Chunk) /\ A \in Seq(Chunk)
      BY <1>2
    <3>2. F = <<>> /\ A = <<>> /\ <<>> \o F = F
      BY ONLY <3>1, ConcatEqualIffEmpty, ConcatEmptySeq
    <3> QED BY <3>2
  <2>6. t.streams[id].ssh = i /\ t.streams[id].out = A /\ t.down = r.down /\ t.ssh[i] = e
    BY <1>4, <1>6, <1>7
  <2> QED BY <1>5, <2>2, <2>3, <2>4, <2>5, <2>6, ZenonT(40) DEF Flow
<1>11. Flows(t, u)
  <2>1. \A j : Opening(t, j) => Opening(r, j)
    BY <1>4 DEF Opening
  <2>2. Besides(r, u, t, u, id)
    <3> HIDE DEF st, i
    <3> QED BY <1>4, <1>6, <1>8, <2>1 DEF Besides
  <2> QED BY <1>8, <1>10, <2>2, OneFlow
<1> QED BY <1>4, <1>5, <1>6, <1>7, <1>8, <1>9, <1>11 DEF DaemonInv, Base, t

LEMMA Drops ==
  ASSUME ClientInv, NEW r, NEW u, DaemonInv(r, u), NEW ids \in SUBSET DOMAIN r.streams
  PROVE  LET t == DropStreams(r, ids)
         IN /\ DaemonInv(t, u) /\ DOMAIN t = DOMAIN r
            /\ t.next = r.next /\ t.clients = r.clients /\ t.down = r.down /\ t.hung = r.hung
            /\ DOMAIN t.streams = DOMAIN r.streams \ ids
            /\ \A j \in DOMAIN t.streams : t.streams[j] = r.streams[j]
            /\ \A i \in Sshs : t.ssh[i] = r.ssh[i] \/ t.ssh[i].st = "closed"
            /\ \A f \in DOMAIN t.fds : f \in DOMAIN r.fds /\ t.fds[f] = r.fds[f]
<1> DEFINE t == DropStreams(r, ids)
           gone == {r.streams[id].fd : id \in ids}
           S == [i \in Sshs |-> IF \E id \in ids : r.streams[id].ssh = i THEN Ssh("closed", r.ssh[i].id) ELSE r.ssh[i]]
<1>1. /\ DOMAIN r = {"fds", "streams", "next", "clients", "down", "hung", "ssh"} /\ r.ssh \in [Sshs -> SshEnd]
      /\ Base(r, u)
  BY DEF DaemonInv, Base, Shape
<1>2. /\ DOMAIN t = DOMAIN r /\ t.next = r.next /\ t.clients = r.clients /\ t.down = r.down /\ t.hung = r.hung
      /\ t.streams = [j \in DOMAIN r.streams \ ids |-> r.streams[j]]
      /\ t.fds = [f \in DOMAIN r.fds \ gone |-> r.fds[f]]
      /\ t.ssh = S
  BY <1>1 DEF DropStreams, RemoveFds, Restrict
<1> HIDE DEF t
<1>3. S \in [Sshs -> SshEnd]
  <2>1. \A i \in Sshs : r.ssh[i] \in SshEnd /\ Ssh("closed", r.ssh[i].id) \in SshEnd
    <3> SUFFICES ASSUME NEW i \in Sshs PROVE r.ssh[i] \in SshEnd /\ Ssh("closed", r.ssh[i].id) \in SshEnd
      OBVIOUS
    <3>1. r.ssh[i] \in SshEnd /\ r.ssh[i].id \in Nat /\ <<>> \in Seq(Chunk)
      BY <1>1 DEF SshEnd
    <3> QED BY <3>1 DEF SshEnd, Ssh
  <2> QED BY <2>1
<1>4. \A i \in Sshs : S[i] = r.ssh[i] \/ S[i].st = "closed"
  BY DEF Ssh
<1>5. \A j \in DOMAIN r.streams \ ids : r.streams[j].ssh \in Sshs /\ S[r.streams[j].ssh] = r.ssh[r.streams[j].ssh]
  <2> SUFFICES ASSUME NEW j \in DOMAIN r.streams \ ids
               PROVE  r.streams[j].ssh \in Sshs /\ S[r.streams[j].ssh] = r.ssh[r.streams[j].ssh]
    OBVIOUS
  <2>1. r.streams[j].ssh \in Sshs /\ r.ssh[r.streams[j].ssh].id = j
    BY <1>1 DEF Base, Owned
  <2>2. \A id \in ids : r.ssh[r.streams[id].ssh].id = id
    BY <1>1 DEF Base, Owned
  <2>3. ~(\E id \in ids : r.streams[id].ssh = r.streams[j].ssh)
    BY <2>1, <2>2
  <2> QED BY <2>1, <2>3
<1> HIDE DEF S
<1>6. /\ DOMAIN t.streams = DOMAIN r.streams \ ids
      /\ \A j \in DOMAIN t.streams : t.streams[j] = r.streams[j] /\ t.ssh[t.streams[j].ssh] = r.ssh[r.streams[j].ssh]
  BY <1>2, <1>5
<1>7. Shape(t, u) /\ Drawn(t, u)
  BY <1>1, <1>2, <1>3 DEF Base, Shape, Drawn
<1>8. Owned(t)
  BY <1>1, <1>2, <1>6 DEF Base, Owned
<1>9. Called(t)
  <2> SUFFICES ASSUME NEW f \in DOMAIN t.fds
               PROVE  /\ t.fds[f].k \in {"accept", "listen", "client", "stream"}
                      /\ t.fds[f] = Owner(t.fds[f].k, t.fds[f].n)
                      /\ t.fds[f].k = "stream" => t.fds[f].n \in DOMAIN t.streams /\ t.streams[t.fds[f].n].fd = f
    BY DEF Called
  <2>1. f \in DOMAIN r.fds /\ f \notin gone /\ t.fds[f] = r.fds[f]
    BY <1>2
  <2>2. /\ r.fds[f].k \in {"accept", "listen", "client", "stream"}
        /\ r.fds[f] = Owner(r.fds[f].k, r.fds[f].n)
        /\ r.fds[f].k = "stream" => r.fds[f].n \in DOMAIN r.streams /\ r.streams[r.fds[f].n].fd = f
    BY <1>1, <2>1 DEF Base, Called
  <2>3. r.fds[f].k = "stream" => r.fds[f].n \notin ids
    BY <2>1, <2>2
  <2> QED BY <1>6, <2>1, <2>2, <2>3
<1>10. Opens(t)
  <2>1. Opens(r)
    BY DEF DaemonInv
  <2> QED BY <1>2, <1>6, <2>1, SMTT(30) DEF Opens
<1>11. Flows(t, u)
  <2> SUFFICES ASSUME NEW j \in Served(t) PROVE Flow(t, u, j)
    BY DEF Flows
  <2>1. j \in DOMAIN t.streams /\ j \in Served(r) /\ (Opening(t, j) <=> Opening(r, j))
    BY <1>2, <1>6 DEF Served, Opening
  <2>2. Flow(r, u, j)
    BY <2>1 DEF DaemonInv, Flows
  <2> QED BY <1>2, <1>6, <2>1, <2>2 DEF Flow
<1>12. \A i \in Sshs : t.ssh[i] = r.ssh[i] \/ t.ssh[i].st = "closed"
  BY <1>2, <1>4
<1>13. \A f \in DOMAIN t.fds : f \in DOMAIN r.fds /\ t.fds[f] = r.fds[f]
  BY <1>2
<1> QED BY <1>2, <1>6, <1>7, <1>8, <1>9, <1>10, <1>11, <1>12, <1>13 DEF DaemonInv, t

LEMMA Closes ==
  ASSUME ClientInv, NEW r, NEW u, DaemonInv(r, u), NEW id, NEW notify \in BOOLEAN, NEW full
  PROVE  DaemonInv(CloseAgentStream(r, id, notify, full), u)
<1>1. CASE id \notin DOMAIN r.streams
  BY <1>1 DEF CloseAgentStream
<1>2. CASE id \in DOMAIN r.streams
  <2> DEFINE s == DropStreams(r, {id})
             c == <<Frame("close", id, <<>>)>>
             to == {r.streams[id].client}
  <2>1. DaemonInv(s, u) /\ s.next = r.next
    BY <1>2, Drops
  <2>2. id \in Nat /\ id < r.next
    BY <1>2 DEF DaemonInv, Owned
  <2>3. c \in Seq(Wire) /\ \A p \in DOMAIN c : c[p].id < s.next /\ c[p].t \in {"close", "gone"}
    <3>1. Frame("close", id, <<>>) \in Wire
      BY <2>2 DEF Frame, Wire, Chunk
    <3> QED BY <2>1, <2>2, <3>1 DEF Frame
  <2>4. CloseAgentStream(r, id, notify, full) = IF notify THEN SendControl(s, to, c, full) ELSE s
    BY <1>2 DEF CloseAgentStream
  <2> HIDE DEF s, c, to
  <2>5. DaemonInv(SendControl(s, to, c, full), u)
    BY <2>1, <2>3, SendsEnd
  <2> QED BY <2>1, <2>4, <2>5
<1> QED BY <1>1, <1>2

-----------------------------------------------------------------------------
(* Frames of a client.                                                      *)

\* One frame less on its way from connection k.
Took(u, v, k, f) == u[k] # <<>> /\ f = Head(u[k]) /\ v = [u EXCEPT ![k] = Tail(@)]

Taken(u, v, k, f) ==
    /\ v \in [Conns -> Seq(Wire)]
    /\ \A l \in Conns : \A p \in DOMAIN v[l] : \E q \in DOMAIN u[l] : v[l][p] = u[l][q]
    /\ f \in Wire /\ \E q \in DOMAIN u[k] : f = u[k][q]
    /\ \A l \in Conns : \A j : Chunks(v[l], j) \in Seq(Chunk) /\ Chunks(u[l], j) \in Seq(Chunk)
    /\ \A l \in Conns : \A j : (l = k => ~(f.t = "data" /\ f.id = j)) => Chunks(v[l], j) = Chunks(u[l], j)
    /\ f.t = "data" => Chunks(u[k], f.id) = <<f.chunk>> \o Chunks(v[k], f.id)

LEMMA Takes ==
  ASSUME NEW u, u \in [Conns -> Seq(Wire)], NEW k \in Conns, NEW v, NEW f, Took(u, v, k, f)
  PROVE  Taken(u, v, k, f)
<1> DEFINE s == u[k]
           w == Tail(s)
<1>1. s \in Seq(Wire) /\ s # <<>> /\ f = Head(s)
  BY DEF Took
<1>2. /\ f \in Wire /\ w \in Seq(Wire) /\ s = <<f>> \o w /\ f = s[1] /\ 1 \in DOMAIN s
      /\ \A p \in DOMAIN w : p + 1 \in DOMAIN s /\ w[p] = s[p + 1]
  <2> HIDE DEF s
  <2> QED BY <1>1, HeadAndTail
<1>3. v \in [Conns -> Seq(Wire)] /\ v[k] = w /\ \A l \in Conns \ {k} : v[l] = u[l]
  <2>1. v = [u EXCEPT ![k] = w]
    BY DEF Took
  <2> HIDE DEF w
  <2> QED BY ONLY <1>2, <2>1, u \in [Conns -> Seq(Wire)], k \in Conns
<1> HIDE DEF w
<1>4. \A j : Chunks(s, j) = Chunks(<<f>>, j) \o Chunks(w, j) /\ Chunks(w, j) \in Seq(Chunk)
  <2>1. <<f>> \in Seq(Wire)
    BY <1>2
  <2>2. \A j : Chunks(<<f>> \o w, j) = Chunks(<<f>>, j) \o Chunks(w, j) /\ Chunks(w, j) \in Seq(Chunk)
    BY ONLY <1>2, <2>1, ChunksCat
  <2> HIDE DEF s
  <2> QED BY ONLY <1>2, <2>2
<1>5. \A j : Chunks(<<f>>, j) = IF f.t = "data" /\ f.id = j THEN <<f.chunk>> ELSE <<>>
  BY <1>2, ChunksOne
<1> HIDE DEF s
<1>6. \A j : ~(f.t = "data" /\ f.id = j) => Chunks(s, j) = Chunks(w, j)
  BY <1>4, <1>5, Cat
<1>7. f.t = "data" => Chunks(s, f.id) = <<f.chunk>> \o Chunks(w, f.id)
  BY ONLY <1>4, <1>5
<1>8. \A l \in Conns : \A j : Chunks(v[l], j) \in Seq(Chunk) /\ Chunks(u[l], j) \in Seq(Chunk)
  BY <1>3, ChunksCat
<1>9. \A l \in Conns : \A p \in DOMAIN v[l] : \E q \in DOMAIN u[l] : v[l][p] = u[l][q]
  <2> SUFFICES ASSUME NEW l \in Conns, NEW p \in DOMAIN v[l] PROVE \E q \in DOMAIN u[l] : v[l][p] = u[l][q]
    OBVIOUS
  <2>1. CASE l = k
    BY <1>2, <1>3, <2>1 DEF s
  <2>2. CASE l # k
    BY <1>3, <2>2
  <2> QED BY <2>1, <2>2
<1>10. \A l \in Conns : \A j : (l = k => ~(f.t = "data" /\ f.id = j)) => Chunks(v[l], j) = Chunks(u[l], j)
  BY <1>3, <1>6 DEF s
<1>11. v \in [Conns -> Seq(Wire)] /\ f \in Wire /\ \E q \in DOMAIN u[k] : f = u[k][q]
  BY <1>2, <1>3 DEF s
<1>12. f.t = "data" => Chunks(u[k], f.id) = <<f.chunk>> \o Chunks(v[k], f.id)
  BY <1>3, <1>7 DEF s
<1> QED BY ONLY <1>8, <1>9, <1>10, <1>11, <1>12 DEF Taken

LEMMA TakesBase ==
  ASSUME NEW r, NEW u, Base(r, u), NEW k \in Conns, NEW v, NEW f, Took(u, v, k, f)
  PROVE  Base(r, v)
<1>1. u \in [Conns -> Seq(Wire)]
  BY DEF Base, Shape
<1>3. Taken(u, v, k, f)
  BY <1>1, Takes
<1>2. /\ v \in [Conns -> Seq(Wire)]
      /\ \A l \in Conns : \A p \in DOMAIN v[l] : \E q \in DOMAIN u[l] : v[l][p] = u[l][q]
  BY <1>3 DEF Taken
<1> QED BY <1>2 DEF Base, Shape, Drawn

\* A frame that is not data for a stream of this connection changes nothing.
LEMMA Skips ==
  ASSUME ClientInv, NEW r, NEW u, DaemonInv(r, u), NEW k \in Conns, NEW v, NEW f, Took(u, v, k, f),
         f.t = "data" /\ k = current => f.id \notin Served(r)
  PROVE  DaemonInv(r, v)
<1>1. u \in [Conns -> Seq(Wire)] /\ Base(r, u)
  BY DEF DaemonInv, Base, Shape
<1>2. Base(r, v)
  BY <1>1, TakesBase
<1>5. Taken(u, v, k, f)
  BY <1>1, Takes
<1>3. \A l \in Conns : \A j : (l = k => ~(f.t = "data" /\ f.id = j)) => Chunks(v[l], j) = Chunks(u[l], j)
  BY <1>5 DEF Taken
<1>4. Flows(r, v)
  <2> SUFFICES ASSUME NEW j \in Served(r) PROVE Flow(r, v, j)
    BY DEF Flows
  <2>1. current \in Conns
    BY Known DEF DaemonInv, Shape, Owned, Served
  <2>2. Chunks(v[current], j) = Chunks(u[current], j)
    BY <1>3, <2>1
  <2>3. Flow(r, u, j)
    BY DEF DaemonInv, Flows
  <2> QED BY <2>2, <2>3 DEF Flow
<1> QED BY <1>2, <1>4 DEF DaemonInv, Base

\* A chunk goes from the wire to the stream's buffer.
LEMMA Buffers ==
  ASSUME ClientInv, NEW r, NEW u, DaemonInv(r, u), NEW k \in Conns, NEW v, NEW f, Took(u, v, k, f),
         f.t = "data", NEW id \in DOMAIN r.streams, f.id = id, r.streams[id].client = k,
         NEW t, OfOne(r, t, id), t.ssh = r.ssh, t.streams[id].out = r.streams[id].out \o <<f.chunk>>
  PROVE  DaemonInv(t, v)
<1> DEFINE i == r.streams[id].ssh
           o == r.streams[id].out
<1>1. r.ssh \in [Sshs -> SshEnd] /\ u \in [Conns -> Seq(Wire)] /\ Base(r, u)
  BY DEF DaemonInv, Base, Shape
<1>2. o \in Seq(Chunk) /\ i \in Sshs
  BY <1>1 DEF Base, Owned
<1>3. /\ f \in Wire /\ Chunks(u[k], id) = <<f.chunk>> \o Chunks(v[k], id)
      /\ Chunks(v[k], id) \in Seq(Chunk)
      /\ \A l \in Conns : \A j : (l = k => ~(f.t = "data" /\ f.id = j)) => Chunks(v[l], j) = Chunks(u[l], j)
  <2>1. Taken(u, v, k, f)
    BY <1>1, Takes
  <2> QED BY <2>1 DEF Taken
<1>4. f.chunk \in Chunk /\ <<f.chunk>> \in Seq(Chunk)
  BY <1>3, CatOne DEF Wire
<1>5. t.clients = r.clients /\ t.down = r.down /\ t.hung = r.hung /\ t.next = r.next
  BY DEF OfOne
<1>6. /\ DOMAIN t.streams = DOMAIN r.streams
      /\ \A j \in DOMAIN r.streams :
            /\ t.streams[j].client = r.streams[j].client /\ t.streams[j].ssh = r.streams[j].ssh
            /\ j # id => t.streams[j].out = r.streams[j].out
  BY DEF OfOne
<1>7. Base(t, v)
  <2>1. Base(t, u)
    BY <1>1, OneEnd
  <2> QED BY <2>1, TakesBase
<1>8. Opens(t)
  <2>1. Opens(r)
    BY DEF DaemonInv
  <2> QED BY <1>5, <1>6, <2>1, SMTT(30) DEF Opens
<1>9. Besides(r, u, t, v, id)
  <2>1. current # 0 => current \in Conns
    BY Known
  <2>2. \A j : Opening(t, j) => Opening(r, j)
    BY <1>5 DEF Opening
  <2>3. \A j \in DOMAIN r.streams \ {id} : current # 0 => Chunks(v[current], j) = Chunks(u[current], j)
    BY <1>3, <2>1
  <2> QED BY <1>5, <1>6, <2>2, <2>3 DEF Besides
<1>10. ASSUME id \in Served(t) PROVE Flow(t, v, id)
  <2>1. id \in Served(r) /\ k = current /\ t.streams[id].ssh = i
    BY <1>5, <1>6, <1>10 DEF Served
  <2>2. Flow(r, u, id)
    BY <2>1 DEF DaemonInv, Flows
  <2>3. ~Opening(t, id)
    <3>1. Chunks(u[current], id) # <<>>
      <4>1. <<f.chunk>> # <<>>
        OBVIOUS
      <4>2. <<f.chunk>> \o Chunks(v[k], id) # <<>>
        BY <1>3, <1>4, <4>1, ConcatEqualIffEmpty
      <4> QED BY <1>3, <2>1, <4>2
    <3> QED BY <1>5, <2>2, <3>1 DEF Flow, Opening
  <2>4. r.ssh[i].got \in Seq(Chunk)
    BY <1>1, <1>2 DEF SshEnd
  <2>5. (r.ssh[i].got \o (o \o <<f.chunk>>)) \o Chunks(v[current], id)
          = (r.ssh[i].got \o o) \o Chunks(u[current], id)
    <3> DEFINE g == r.ssh[i].got
               x == <<f.chunk>>
               y == Chunks(v[current], id)
    <3>1. g \in Seq(Chunk) /\ o \in Seq(Chunk) /\ x \in Seq(Chunk) /\ y \in Seq(Chunk)
      BY <1>2, <1>3, <1>4, <2>1, <2>4
    <3>2. (g \o (o \o x)) \o y = (g \o o) \o (x \o y)
      <4> HIDE DEF g, x, y, o
      <4>1. (g \o o) \o x = g \o (o \o x) /\ g \o o \in Seq(Chunk)
        <5>1. g \o o \in Seq(Chunk)
          BY ONLY <3>1
        <5>2. (g \o o) \o x = g \o (o \o x)
          BY ONLY <3>1, Chain, Zenon
        <5> QED BY <5>1, <5>2
      <4>2. ((g \o o) \o x) \o y = (g \o o) \o (x \o y)
        BY ONLY <3>1, <4>1, Chain, Zenon
      <4> QED BY <4>1, <4>2
    <3> QED BY <1>3, <2>1, <3>2
  <2> QED BY <1>5, <1>6, <2>1, <2>2, <2>3, <2>5 DEF Flow
<1>11. Flows(t, v)
  BY <1>2, <1>7, <1>9, <1>10, OneFlow
<1> QED BY <1>7, <1>8, <1>11 DEF DaemonInv, Base

\* The stream's buffer holds something else.
LEMMA Holds ==
  ASSUME NEW r, NEW u, Base(r, u), NEW id \in DOMAIN r.streams, NEW b \in Seq(Chunk)
  PROVE  LET s == [r EXCEPT !.streams[id].out = b]
         IN OfOne(r, s, id) /\ s.ssh = r.ssh /\ s.streams[id].out = b /\ s.clients = r.clients
<1> DEFINE s == [r EXCEPT !.streams[id].out = b]
<1>1. /\ DOMAIN r = {"fds", "streams", "next", "clients", "down", "hung", "ssh"} /\ r.ssh \in [Sshs -> SshEnd]
      /\ DOMAIN r.streams[id] = {"fd", "client", "ssh", "out"}
      /\ r.ssh[r.streams[id].ssh].id = id /\ r.ssh[r.streams[id].ssh].st \in {"open", "leaving"}
  BY DEF Base, Shape, Owned
<1>2. /\ DOMAIN s = DOMAIN r /\ s.fds = r.fds /\ s.next = r.next /\ s.clients = r.clients
      /\ s.down = r.down /\ s.hung = r.hung /\ s.ssh = r.ssh
      /\ s.streams = [r.streams EXCEPT ![id] = [r.streams[id] EXCEPT !.out = b]]
  BY <1>1
<1> HIDE DEF s
<1>3. /\ DOMAIN s.streams = DOMAIN r.streams /\ s.streams[id] = [r.streams[id] EXCEPT !.out = b]
      /\ \A j \in DOMAIN r.streams : j # id => s.streams[j] = r.streams[j]
  BY <1>2
<1>4. /\ s.streams[id].out = b /\ DOMAIN s.streams[id] = DOMAIN r.streams[id]
      /\ s.streams[id].fd = r.streams[id].fd /\ s.streams[id].client = r.streams[id].client
      /\ s.streams[id].ssh = r.streams[id].ssh
  BY <1>1, <1>3
<1>5. \A j \in DOMAIN r.streams :
            /\ DOMAIN s.streams[j] = DOMAIN r.streams[j] /\ s.streams[j].fd = r.streams[j].fd
            /\ s.streams[j].client = r.streams[j].client /\ s.streams[j].ssh = r.streams[j].ssh
            /\ j # id => s.streams[j].out = r.streams[j].out
  BY <1>3, <1>4
<1>6. OfOne(r, s, id)
  BY <1>1, <1>2, <1>3, <1>4, <1>5 DEF OfOne
<1> QED BY <1>2, <1>4, <1>6 DEF s

LEMMA Handles ==
  ASSUME ClientInv, NEW r, NEW u, DaemonInv(r, u), NEW k \in Conns, NEW v, NEW f, Took(u, v, k, f), NEW n \in Nat
  PROVE  DaemonInv(HandleControl(r, k, f, n), v) /\ HandleControl(r, k, f, n).clients = r.clients
<1>1. f.t \in {"data", "close"}
  <2>1. u \in [Conns -> Seq(Wire)]
    BY DEF DaemonInv, Shape
  <2>2. \E q \in DOMAIN u[k] : f = u[k][q]
    <3>1. Taken(u, v, k, f)
      BY <2>1, Takes
    <3> QED BY <3>1 DEF Taken
  <2> QED BY <2>2 DEF DaemonInv, Drawn
<1>2. CASE f.id \notin DOMAIN r.streams \/ r.streams[f.id].client # k
  <2>1. k = current => f.id \notin Served(r)
    BY <1>2 DEF Served
  <2>2. DaemonInv(r, v)
    BY <2>1, Skips
  <2> QED BY <1>2, <2>2 DEF HandleControl
<1>3. CASE f.id \in DOMAIN r.streams /\ r.streams[f.id].client = k /\ f.t = "close"
  <2> DEFINE t == DropStreams(r, {f.id})
  <2>1. HandleControl(r, k, f, n) = t
    BY <1>3 DEF HandleControl, CloseAgentStream
  <2>2. DaemonInv(t, u) /\ t.clients = r.clients
    BY <1>3, Drops
  <2> HIDE DEF t
  <2>3. DaemonInv(t, v)
    BY <1>3, <2>2, Skips
  <2> QED BY <2>1, <2>2, <2>3
<1>4. CASE f.id \in DOMAIN r.streams /\ r.streams[f.id].client = k /\ f.t = "data"
  <2> DEFINE b == Append(r.streams[f.id].out, f.chunk)
             s == [r EXCEPT !.streams[f.id].out = b]
  <2>1. HandleControl(r, k, f, n) = Flush(s, f.id, n)
    BY <1>4 DEF HandleControl
  <2>2. r.streams[f.id].out \in Seq(Chunk) /\ Base(r, u)
    BY <1>4 DEF DaemonInv, Owned, Base
  <2>3. b \in Seq(Chunk) /\ b = r.streams[f.id].out \o <<f.chunk>>
    <3>1. f \in Wire
      <4>1. Taken(u, v, k, f)
        BY Takes DEF DaemonInv, Shape
      <4> QED BY <4>1 DEF Taken
    <3>2. f.chunk \in Chunk
      BY <3>1 DEF Wire
    <3> QED BY <2>2, <3>2, CatOne
  <2> HIDE DEF b
  <2>4. OfOne(r, s, f.id) /\ s.ssh = r.ssh /\ s.streams[f.id].out = b /\ s.clients = r.clients
    <3>1. f.id \in DOMAIN r.streams /\ b \in Seq(Chunk)
      BY <1>4, <2>3
    <3> QED BY <2>2, <3>1, Holds
  <2> HIDE DEF s
  <2>5. DaemonInv(s, v)
    <3> DEFINE id == f.id
    <3>1. /\ id \in DOMAIN r.streams /\ f.id = id /\ r.streams[id].client = k /\ f.t = "data"
          /\ OfOne(r, s, id) /\ s.ssh = r.ssh /\ s.streams[id].out = r.streams[id].out \o <<f.chunk>>
      BY <1>4, <2>3, <2>4
    <3> HIDE DEF id
    <3> QED BY <3>1, Buffers
  <2>6. f.id \in DOMAIN s.streams
    BY <1>4, <2>4 DEF OfOne
  <2>7. DaemonInv(Flush(s, f.id, n), v) /\ Flush(s, f.id, n).clients = s.clients
    BY <2>5, <2>6, Flushes
  <2> QED BY <2>1, <2>4, <2>7
<1> QED BY <1>1, <1>2, <1>3, <1>4

-----------------------------------------------------------------------------
(* What an ssh sends.                                                       *)

\* Data frames of one stream after other frames
DataLast(a, d, c, id) ==
    /\ \A p \in DOMAIN d : d[p].t = "open" => p \in DOMAIN a /\ a[p] = d[p]
    /\ \A p \in DOMAIN a, q \in DOMAIN d : (q \in DOMAIN a /\ a[q] = d[q]) \/ p <= q
    /\ Chunks(d, id) = Chunks(a, id) \o c
    /\ \A j : j # id => Chunks(d, j) = Chunks(a, j)

LEMMA DataLater ==
  ASSUME NEW a \in Seq(Wire), NEW c \in Seq(Chunk), NEW id \in Nat
  PROVE  DataLast(a, a \o DataFrames(id, c), c, id)
<1> DEFINE b == DataFrames(id, c)
           d == a \o b
<1>1. /\ b \in Seq(Wire) /\ Chunks(b, id) = c
      /\ \A p \in DOMAIN b : b[p].t = "data" /\ b[p].id = id
  BY ChunksOfData
<1> HIDE DEF b
<1>2. /\ DOMAIN a = 1..Len(a) /\ DOMAIN b = 1..Len(b) /\ DOMAIN d = 1..(Len(a) + Len(b))
      /\ Len(a) \in Nat /\ Len(b) \in Nat
      /\ \A p \in 1..Len(a) : d[p] = a[p]
      /\ \A p \in 1..(Len(a) + Len(b)) : p \in 1..Len(a) \/ (p - Len(a) \in 1..Len(b) /\ d[p] = b[p - Len(a)])
  BY ONLY <1>1, CatLength, a \in Seq(Wire)
<1>3. Chunks(d, id) = Chunks(a, id) \o c
  BY ONLY <1>1, ChunksCat, a \in Seq(Wire)
<1>4. ASSUME NEW j, j # id PROVE Chunks(d, j) = Chunks(a, j)
  <2>1. Chunks(b, j) = <<>> /\ Chunks(a, j) \in Seq(Chunk)
    BY <1>1, <1>4, ChunksNone, ChunksCat
  <2>2. Chunks(a, j) \o <<>> = Chunks(a, j)
    BY <2>1, Cat
  <2>3. Chunks(a \o b, j) = Chunks(a, j) \o Chunks(b, j)
    BY <1>1, ChunksCat
  <2> QED BY <2>1, <2>2, <2>3
<1> HIDE DEF d
<1>5. ASSUME NEW p \in DOMAIN d, d[p].t = "open" PROVE p \in DOMAIN a /\ a[p] = d[p]
  BY <1>1, <1>2, <1>5
<1>6. ASSUME NEW p \in DOMAIN a, NEW q \in DOMAIN d PROVE (q \in DOMAIN a /\ a[q] = d[q]) \/ p <= q
  BY <1>2
<1> QED BY <1>3, <1>4, <1>5, <1>6 DEF DataLast, d, b

LEMMA AllRead ==
  ASSUME NEW g \in SshEnd
  PROVE  LET e == [g EXCEPT !.unread = <<>>]
         IN /\ g.unread \in Seq(Chunk) /\ e \in SshEnd /\ e.id = g.id /\ e.st = g.st /\ e.unread = <<>>
            /\ e.sent = g.sent /\ e.got = g.got /\ e.got \in Seq(Chunk)
<1> DEFINE e == [g EXCEPT !.unread = <<>>]
<1>1. /\ DOMAIN g = {"st", "id", "sent", "unread", "got"}
      /\ g.unread \in Seq(Chunk) /\ g.got \in Seq(Chunk)
  BY DEF SshEnd
<1>2. <<>> \in Seq(Chunk)
  OBVIOUS
<1>3. e \in SshEnd
  BY <1>2 DEF SshEnd
<1>4. e.id = g.id /\ e.st = g.st /\ e.unread = <<>> /\ e.sent = g.sent /\ e.got = g.got
  BY <1>1
<1> QED BY <1>1, <1>3, <1>4

LEMMA ReadsAll ==
  ASSUME ClientInv, NEW r, NEW u, DaemonInv(r, u), NEW id \in DOMAIN r.streams, NEW full
  PROVE  LET i == r.streams[id].ssh
             s == [r EXCEPT !.ssh[i].unread = <<>>]
             t == SendControl(s, {r.streams[id].client}, DataFrames(id, r.ssh[i].unread), full)
         IN DaemonInv(t, u)
<1> DEFINE i == r.streams[id].ssh
           k == r.streams[id].client
           c == r.ssh[i].unread
           s == [r EXCEPT !.ssh[i].unread = <<>>]
           b == DataFrames(id, c)
           t == SendControl(s, {k}, b, full)
           e == [r.ssh[i] EXCEPT !.unread = <<>>]
<1>1. /\ DOMAIN r = {"fds", "streams", "next", "clients", "down", "hung", "ssh"} /\ r.ssh \in [Sshs -> SshEnd]
      /\ i \in Sshs /\ r.ssh[i].id = id /\ r.ssh[i].st \in {"open", "leaving"} /\ Base(r, u)
      /\ id \in Nat /\ id < r.next /\ r.streams[id].out \in Seq(Chunk) /\ k \in DOMAIN r.clients
      /\ u \in [Conns -> Seq(Wire)] /\ r.down \in [Conns -> Seq(Wire)]
  BY DEF DaemonInv, Base, Shape, Owned
<1>2. /\ DOMAIN s = DOMAIN r /\ s.fds = r.fds /\ s.next = r.next /\ s.clients = r.clients
      /\ s.down = r.down /\ s.hung = r.hung /\ s.streams = r.streams /\ s.ssh = [r.ssh EXCEPT ![i] = e]
  BY <1>1
<1>3. r.ssh[i] \in SshEnd
  BY <1>1
<1>4. /\ c \in Seq(Chunk) /\ e \in SshEnd /\ e.id = id /\ e.st = r.ssh[i].st /\ e.unread = <<>>
      /\ e.sent = r.ssh[i].sent /\ e.got = r.ssh[i].got /\ e.got \in Seq(Chunk)
  <2> DEFINE g == r.ssh[i]
  <2> HIDE DEF g
  <2>1. g \in SshEnd /\ g.id = id
    BY <1>1, <1>3 DEF g
  <2>2. LET d == [g EXCEPT !.unread = <<>>]
        IN /\ g.unread \in Seq(Chunk) /\ d \in SshEnd /\ d.id = g.id /\ d.st = g.st /\ d.unread = <<>>
           /\ d.sent = g.sent /\ d.got = g.got /\ d.got \in Seq(Chunk)
    BY <2>1, AllRead
  <2> QED BY <2>1, <2>2 DEF g
<1> HIDE DEF e, s, t
<1>5. s.ssh \in [Sshs -> SshEnd] /\ s.ssh[i] = e /\ \A l \in Sshs \ {i} : s.ssh[l] = r.ssh[l]
  <2> HIDE DEF i
  <2> QED BY <1>1, <1>2, <1>4
<1>6. OfOne(r, s, id)
  BY <1>1, <1>2, <1>4, <1>5 DEF OfOne
<1>7. Base(s, u) /\ \A j \in DOMAIN r.streams \ {id} : s.ssh[r.streams[j].ssh] = r.ssh[r.streams[j].ssh]
  BY <1>1, <1>6, OneEnd
<1>8. b \in Seq(Wire) /\ \A p \in DOMAIN b : b[p].id < s.next
  <2>1. b \in Seq(Wire) /\ \A p \in DOMAIN b : b[p].id = id
    <3> HIDE DEF i
    <3> QED BY <1>1, <1>4, ChunksOfData
  <2> QED BY <1>1, <1>2, <2>1
<1>9. /\ Base(t, u)
      /\ t.streams = s.streams /\ t.next = s.next /\ t.ssh = s.ssh /\ DOMAIN t.clients = DOMAIN s.clients
      /\ \A l \in DOMAIN s.clients : ~t.clients[l].dead => ~s.clients[l].dead
      /\ \A l \in Conns : t.down[l] # s.down[l] => l = current /\ l \in {k} /\ t.down[l] = s.down[l] \o b
      /\ current \in {k} \cap DOMAIN s.clients /\ ~t.clients[current].dead
                 => t.down[current] = s.down[current] \o b
  <2> HIDE DEF b, k
  <2> DEFINE to == {k}
  <2>1. Sent(s, u, SendControl(s, to, b, full), to, b)
    <3> HIDE DEF to
    <3> QED BY <1>7, <1>8, Sends
  <2>2. t = SendControl(s, to, b, full)
    BY DEF t
  <2> QED BY <2>1, <2>2 DEF Sent
<1>10. \A l \in Conns : DataLast(r.down[l], r.down[l] \o b, c, id)
  <2> HIDE DEF i
  <2> QED BY <1>1, <1>4, DataLater
<1> HIDE DEF b
<1>11. Opens(t)
  <2>0. Opens(r)
    BY DEF DaemonInv
  <2>1. CASE t.down = r.down
    BY <1>2, <1>9, <2>0, <2>1 DEF Opens
  <2>2. CASE current \in Conns /\ t.down[current] = r.down[current] \o b
    <3>1. DataLast(r.down[current], t.down[current], c, id)
      BY <1>10, <2>2
    <3> DEFINE a == r.down[current]
               d == t.down[current]
    <3>2. Opens(r) /\ current # 0 /\ t.streams = r.streams /\ t.next = r.next
      BY <1>2, <1>9, <2>2 DEF DaemonInv, Conns
    <3>3. \A p \in DOMAIN a : a[p].t = "open" =>
            /\ a[p].id \notin DOMAIN bridges
            /\ a[p].id \in DOMAIN r.streams => r.streams[a[p].id].client = current
            /\ \A q \in DOMAIN a : a[q].id = a[p].id /\ a[q].t \in {"open", "data"} => p <= q
      BY <3>2 DEF Opens
    <3>4. DataLast(a, d, c, id)
      BY <3>1
    <3> HIDE DEF a, d
    <3>5. \A p \in DOMAIN d : d[p].t = "open" =>
            /\ d[p].id \notin DOMAIN bridges
            /\ d[p].id \in DOMAIN r.streams => r.streams[d[p].id].client = current
            /\ \A q \in DOMAIN d : d[q].id = d[p].id /\ d[q].t \in {"open", "data"} => p <= q
      BY ONLY <3>3, <3>4 DEF DataLast
    <3> QED BY <3>2, <3>5 DEF Opens, d
  <2>3. CASE current = 0
    BY <1>2, <1>9, <2>3 DEF DaemonInv, Opens
  <2>4. current # 0 /\ t.down[current] = r.down[current] => Opens(t)
    BY <1>2, <1>9, <2>0, SMTT(30) DEF Opens
  <2> QED BY <1>2, <1>9, <2>2, <2>3, <2>4, Known
<1>12. current \in Conns => Besides(r, u, t, u, id)
  <2> SUFFICES ASSUME current \in Conns PROVE Besides(r, u, t, u, id)
    OBVIOUS
  <2>1. \A j : j # id => (Opening(t, j) => Opening(r, j)) /\ Chunks(t.down[current], j) = Chunks(r.down[current], j)
    <3>1. CASE t.down[current] = r.down[current]
      BY <3>1 DEF Opening
    <3>2. CASE t.down[current] = r.down[current] \o b
      <4>1. DataLast(r.down[current], t.down[current], c, id)
        BY <1>10, <3>2
      <4> QED BY <4>1 DEF DataLast, Opening
    <3> QED BY <1>2, <1>9, <3>1, <3>2
  <2> QED BY <1>2, <1>7, <1>9, <2>1 DEF Besides
<1>13. ASSUME id \in Served(t) PROVE Flow(t, u, id)
  <2>1. id \in Served(r) /\ k = current /\ t.streams = r.streams /\ current \in Conns
    BY <1>1, <1>2, <1>9, <1>13, Known DEF Served, Base, Shape
  <2>2. Flow(r, u, id)
    BY <2>1 DEF DaemonInv, Flows
  <2>3. t.down[current] = r.down[current] \o b /\ DataLast(r.down[current], t.down[current], c, id)
    <3>1. ~t.clients[current].dead
      BY <1>13 DEF Served
    <3>2. current \in {k} \cap DOMAIN s.clients
      BY <1>1, <1>2, <2>1
    <3>3. t.down[current] = r.down[current] \o b
      BY <1>2, <1>9, <3>1, <3>2
    <3> QED BY <1>10, <2>1, <3>3
  <2>4. Opening(t, id) => Opening(r, id)
    BY <2>3 DEF DataLast, Opening
  <2>5. t.ssh[i] = e
    BY <1>5, <1>9
  <2>6. Chunks(t.down[current], id) = Chunks(r.down[current], id) \o c
    BY <2>3 DEF DataLast
  <2>7. Chunks(r.down[current], id) \in Seq(Chunk)
    BY <1>1, <2>1, ChunksCat
  <2> DEFINE x == Chunks(r.down[current], id)
  <2>8. (x \o c) \o <<>> = x \o c
    <3> HIDE DEF x, c
    <3> QED BY ONLY <1>4, <2>7, Cat DEF x
  <2>9. id \in DOMAIN bridges => ((agent[id].got \o bridges[id]) \o (x \o c)) \o <<>> = ((agent[id].got \o bridges[id]) \o x) \o c
    <3> SUFFICES ASSUME id \in DOMAIN bridges
                 PROVE  ((agent[id].got \o bridges[id]) \o (x \o c)) \o <<>> = ((agent[id].got \o bridges[id]) \o x) \o c
      OBVIOUS
    <3> DEFINE y == agent[id].got
               z == bridges[id]
    <3>1. y \in Seq(Chunk) /\ z \in Seq(Chunk)
      BY DEF ClientInv, AgentEnd
    <3>2. x \in Seq(Chunk) /\ c \in Seq(Chunk)
      BY <1>4, <2>7
    <3> HIDE DEF x, c, y, z
    <3>3. ((y \o z) \o (x \o c)) \o <<>> = ((y \o z) \o x) \o c
      BY ONLY <3>1, <3>2
    <3> QED BY <3>3 DEF y, z
  <2>10. Opening(t, id) =>
            /\ e.got = <<>> /\ t.streams[id].out = <<>> /\ Chunks(u[current], id) = <<>>
            /\ Chunks(t.down[current], id) \o e.unread = Said(i, e.sent)
    BY <1>4, <2>1, <2>2, <2>4, <2>6, <2>8 DEF Flow
  <2>11. id \in DOMAIN bridges =>
            /\ agent[id].got \o bridges[id] \o Chunks(t.down[current], id) \o e.unread = Said(i, e.sent)
            /\ e.got \o t.streams[id].out \o Chunks(u[current], id) \o agent[id].unread
                 = SubSeq(agent[id].got, 1, agent[id].sent)
    BY <1>4, <2>1, <2>2, <2>6, <2>9 DEF Flow
  <2> QED BY <2>1, <2>5, <2>10, <2>11 DEF Flow
<1>14. Flows(t, u)
  <2>1. CASE current \in Conns
    BY <1>9, <1>12, <1>13, <2>1, OneFlow
  <2>2. CASE current \notin Conns
    <3>1. Served(t) = {}
      BY <1>9, <2>2, Known DEF Served, Base, Shape, Owned
    <3> QED BY <3>1 DEF Flows
  <2> QED BY <2>1, <2>2
<1> QED BY <1>9, <1>11, <1>14 DEF DaemonInv, Base, t, s, b

LEMMA StreamCalled ==
  ASSUME ClientInv, NEW r, NEW u, DaemonInv(r, u), NEW id \in DOMAIN r.streams, NEW ev, NEW n \in Nat, NEW full
  PROVE  DaemonInv(AgentStreamEvent(r, id, ev, n, full), u)
<1> DEFINE i == r.streams[id].ssh
           k == r.streams[id].client
           m == IF n = 0 THEN 1 ELSE n
           w == IF "write" \in ev THEN Flush(r, id, m) ELSE r
           rd == IF "read" \in ev
                 THEN SendControl([w EXCEPT !.ssh[i].unread = <<>>], {k}, DataFrames(id, r.ssh[i].unread), full)
                 ELSE w
<1>1. AgentStreamEvent(r, id, ev, n, full)
        = IF ("read" \in ev /\ r.ssh[i].st = "leaving") \/ "hup" \in ev THEN CloseAgentStream(rd, id, TRUE, full) ELSE rd
  BY DEF AgentStreamEvent
<1>2. /\ DaemonInv(w, u) /\ id \in DOMAIN w.streams
      /\ w.streams[id].client = k /\ w.streams[id].ssh = i /\ w.ssh[i].unread = r.ssh[i].unread
  <2>1. CASE "write" \in ev
    <3>1. m \in Nat /\ i \in Sshs
      BY DEF DaemonInv, Owned
    <3> HIDE DEF m, i, k
    <3>2. /\ DaemonInv(Flush(r, id, m), u) /\ DOMAIN Flush(r, id, m).streams = DOMAIN r.streams
          /\ \A j \in DOMAIN r.streams : /\ Flush(r, id, m).streams[j].client = r.streams[j].client
                                         /\ Flush(r, id, m).streams[j].ssh = r.streams[j].ssh
          /\ \A l \in Sshs : Flush(r, id, m).ssh[l].unread = r.ssh[l].unread
      BY <3>1, Flushes
    <3> QED BY <2>1, <3>1, <3>2 DEF i, k
  <2>2. CASE "write" \notin ev
    BY <2>2
  <2> QED BY <2>1, <2>2
<1> HIDE DEF w
<1>3. DaemonInv(rd, u)
  <2>1. CASE "read" \in ev
    <3> DEFINE x == w.streams[id].ssh
               y == w.streams[id].client
    <3>1. DaemonInv(SendControl([w EXCEPT !.ssh[x].unread = <<>>], {y}, DataFrames(id, w.ssh[x].unread), full), u)
      BY <1>2, ReadsAll
    <3>2. x = i /\ y = k
      BY <1>2
    <3> HIDE DEF x, y, i, k
    <3> QED BY <1>2, <2>1, <3>1, <3>2
  <2>2. CASE "read" \notin ev
    BY <1>2, <2>2
  <2> QED BY <2>1, <2>2
<1> HIDE DEF rd, i
<1>4. DaemonInv(CloseAgentStream(rd, id, TRUE, full), u)
  BY <1>3, Closes
<1> QED BY <1>1, <1>3, <1>4

-----------------------------------------------------------------------------
(* A new stream.                                                            *)

\* A set of numbers with a bound has a greatest one.
LEMMA Greatest ==
  ASSUME NEW size \in Nat, NEW S \in SUBSET (1..size), S # {}
  PROVE  Max(S) \in S
<1> DEFINE D == {size - x : x \in S}
<1>1. D \subseteq Nat /\ D # {}
  OBVIOUS
<1>2. PICK d \in D : \A y \in D : ~(<<y, d>> \in OpToRel(<, Nat))
  BY <1>1, WFMin, NatLessThanWellFounded
<1>3. PICK x \in S : d = size - x
  BY <1>2
<1>4. ASSUME NEW y \in S PROVE x >= y
  <2>1. size - y \in D /\ size - y \in Nat /\ d \in Nat /\ x \in Nat /\ y \in Nat
    BY <1>1, <1>3
  <2>2. ~(size - y < d)
    BY <1>2, <2>1 DEF OpToRel
  <2> QED BY <1>3, <2>1, <2>2
<1>5. \E z \in S : \A y \in S : z >= y
  BY <1>4
<1> QED BY <1>5 DEF Max

\* A frame that opens a stream after other frames
OpenLast(a, d, id) ==
    /\ \A p \in DOMAIN a : p \in DOMAIN d /\ a[p] = d[p]
    /\ \E z \in DOMAIN d : /\ d[z].t = "open" /\ d[z].id = id
                           /\ \A p \in DOMAIN d : (p \in DOMAIN a /\ a[p] = d[p] /\ p <= z) \/ p = z
    /\ \A j : Chunks(d, j) = Chunks(a, j)

LEMMA OpenLater ==
  ASSUME NEW a \in Seq(Wire), NEW id \in Nat
  PROVE  OpenLast(a, a \o <<Frame("open", id, <<>>)>>, id)
<1> DEFINE f == Frame("open", id, <<>>)
           b == <<f>>
           d == a \o b
<1>1. f \in Wire /\ f.t = "open" /\ f.id = id
  BY DEF Frame, Wire, Chunk
<1> HIDE DEF f
<1>2. b \in Seq(Wire) /\ Len(b) = 1 /\ b[1] = f
  BY <1>1
<1> HIDE DEF b
<1>3. /\ DOMAIN a = 1..Len(a) /\ DOMAIN d = 1..(Len(a) + Len(b)) /\ Len(a) \in Nat
      /\ \A p \in 1..Len(a) : d[p] = a[p]
      /\ \A p \in 1..Len(b) : d[Len(a) + p] = b[p]
  BY ONLY <1>2, CatLength, a \in Seq(Wire), SMTT(30)
<1>4. ASSUME NEW j PROVE Chunks(d, j) = Chunks(a, j)
  <2>1. Chunks(b, j) = <<>>
    BY <1>1, ChunksOne DEF b
  <2>2. Chunks(a, j) \in Seq(Chunk) /\ Chunks(d, j) = Chunks(a, j) \o Chunks(b, j)
    BY <1>2, ChunksCat
  <2>3. Chunks(a, j) \o <<>> = Chunks(a, j)
    BY <2>2, Cat
  <2> QED BY <2>1, <2>2, <2>3
<1> HIDE DEF d
<1>5. Len(a) + 1 \in DOMAIN d /\ d[Len(a) + 1] = f
  BY <1>2, <1>3
<1>6. \A p \in DOMAIN d : (p \in DOMAIN a /\ a[p] = d[p] /\ p <= Len(a) + 1) \/ p = Len(a) + 1
  BY <1>2, <1>3
<1>7. \A p \in DOMAIN a : p \in DOMAIN d /\ a[p] = d[p]
  BY <1>2, <1>3
<1> QED BY <1>1, <1>4, <1>5, <1>6, <1>7 DEF OpenLast, d, b, f

\* What agent_accept has done to the daemon before it tells the client.
Bonded(r, s, i, k) ==
    /\ s.next = r.next + 1 /\ s.down = r.down /\ s.clients = r.clients /\ s.hung = r.hung
    /\ r.next \in DOMAIN s.streams
    /\ s.streams[r.next].client = k /\ s.streams[r.next].ssh = i /\ s.streams[r.next].out = <<>>
    /\ s.ssh[i] = Ssh("open", r.next)

LEMMA Adds ==
  ASSUME ClientInv, NEW r, NEW u, DaemonInv(r, u), NEW i \in Sshs, r.ssh[i].st = "waiting",
         NEW k \in DOMAIN r.clients, NEW fd
  PROVE  LET s == [r EXCEPT !.fds = AddFd(@, fd, Owner("stream", r.next)), !.next = @ + 1,
                            !.streams = With(@, r.next, [fd |-> fd, client |-> k, ssh |-> i, out |-> <<>>]),
                            !.ssh[i] = Ssh("open", r.next)]
         IN DaemonInv(s, u) /\ Bonded(r, s, i, k)
<1> DEFINE id == r.next
           x == [fd |-> fd, client |-> k, ssh |-> i, out |-> <<>>]
           X == With(r.streams, id, x)
           F == AddFd(r.fds, fd, Owner("stream", id))
           e == Ssh("open", id)
           s == [r EXCEPT !.fds = F, !.next = id + 1, !.streams = X, !.ssh[i] = e]
<1>1. /\ DOMAIN r = {"fds", "streams", "next", "clients", "down", "hung", "ssh"} /\ r.ssh \in [Sshs -> SshEnd]
      /\ Base(r, u) /\ id \in Nat \ {0} /\ id \in Nat
  BY DEF DaemonInv, Base, Shape
<1>2. /\ DOMAIN X = {id} \cup DOMAIN r.streams /\ X[id] = x
      /\ \A j \in DOMAIN r.streams : j # id => X[j] = r.streams[j]
  <2> HIDE DEF x, id
  <2> QED BY DEF With
<1>3. /\ DOMAIN F = DOMAIN r.fds \cup {fd} /\ F[fd] = Owner("stream", id)
      /\ \A f \in DOMAIN r.fds : f # fd => F[f] = r.fds[f]
  BY DEF AddFd
<1>4. e \in SshEnd /\ e.id = id /\ e.st = "open"
  <2>1. <<>> \in Seq(Chunk)
    OBVIOUS
  <2> QED BY <1>1, <2>1 DEF Ssh, SshEnd
<1>5. /\ DOMAIN x = {"fd", "client", "ssh", "out"} /\ x.fd = fd /\ x.client = k /\ x.ssh = i /\ x.out = <<>>
      /\ x.out \in Seq(Chunk)
  OBVIOUS
<1>6. /\ Owner("stream", id).k = "stream" /\ Owner("stream", id).n = id
      /\ Owner("stream", id) = Owner(Owner("stream", id).k, Owner("stream", id).n)
  BY DEF Owner
<1> HIDE DEF X, F, e, x
<1>7. /\ DOMAIN s = DOMAIN r /\ s.fds = F /\ s.next = id + 1 /\ s.streams = X /\ s.ssh = [r.ssh EXCEPT ![i] = e]
      /\ s.clients = r.clients /\ s.down = r.down /\ s.hung = r.hung
  BY <1>1
<1>s. s = [r EXCEPT !.fds = AddFd(@, fd, Owner("stream", r.next)), !.next = @ + 1,
                            !.streams = With(@, r.next, [fd |-> fd, client |-> k, ssh |-> i, out |-> <<>>]),
                            !.ssh[i] = Ssh("open", r.next)]
  BY DEF X, F, e, x
<1> HIDE DEF s
<1>8. id \notin DOMAIN r.streams /\ \A j \in DOMAIN r.streams : j \in Nat /\ j < id
  BY <1>1 DEF Base, Owned
<1>9. \A j \in DOMAIN r.streams : r.streams[j].ssh # i /\ r.streams[j].ssh \in Sshs /\ X[j] = r.streams[j]
  BY <1>1, <1>2, <1>8 DEF Base, Owned
<1>10. s.ssh \in [Sshs -> SshEnd] /\ s.ssh[i] = e /\ \A l \in Sshs \ {i} : s.ssh[l] = r.ssh[l]
  BY <1>1, <1>4, <1>7
<1>11. id + 1 \in Nat \ {0} /\ id < id + 1 /\ \A j \in Nat : j < id => j < id + 1
  BY <1>1
<1>12. Shape(s, u)
  BY <1>1, <1>7, <1>10, <1>11 DEF Base, Shape
<1>13. Drawn(s, u)
  <2>1. /\ r.down \in [Conns -> Seq(Wire)] /\ u \in [Conns -> Seq(Wire)]
        /\ \A l \in Conns : \A p \in DOMAIN r.down[l] : r.down[l][p].id < id
        /\ \A l \in Conns : \A p \in DOMAIN u[l] : u[l][p].id < id /\ u[l][p].t \in {"data", "close"}
        /\ \A l \in Conns \ {current} : r.down[l] = <<>>
        /\ \A l \in Conns : <<"client", l>> \in r.hung <=> l \in (1..made) \ {current}
    BY <1>1 DEF Base, Drawn, Shape
  <2> HIDE DEF id
  <2>2. ASSUME NEW d \in [Conns -> Seq(Wire)], NEW l \in Conns, NEW p \in DOMAIN d[l], d[l][p].id < id
        PROVE  d[l][p].id < id + 1
    <3>1. d[l][p] \in Wire
      BY HeadAndTail
    <3>2. d[l][p].id \in Nat
      BY <3>1 DEF Wire
    <3> QED BY <1>11, <2>2, <3>2
  <2>3. \A l \in Conns : \A p \in DOMAIN r.down[l] : r.down[l][p].id < id + 1
    BY <2>1, <2>2
  <2>4. \A l \in Conns : \A p \in DOMAIN u[l] : u[l][p].id < id + 1
    BY <2>1, <2>2
  <2> QED BY <1>7, <2>1, <2>3, <2>4 DEF Drawn
<1>14. Owned(s)
  <2> SUFFICES ASSUME NEW j \in DOMAIN s.streams
               PROVE  /\ j \in Nat /\ j < s.next
                      /\ DOMAIN s.streams[j] = {"fd", "client", "ssh", "out"}
                      /\ s.streams[j].client \in DOMAIN s.clients /\ s.streams[j].out \in Seq(Chunk)
                      /\ s.streams[j].ssh \in Sshs
                      /\ s.ssh[s.streams[j].ssh].id = j /\ s.ssh[s.streams[j].ssh].st \in {"open", "leaving"}
    BY DEF Owned
  <2>1. CASE j = id
    BY <1>1, <1>2, <1>4, <1>5, <1>7, <1>10, <1>11, <2>1
  <2>2. CASE j \in DOMAIN r.streams
    <3>1. /\ j \in Nat /\ j < id /\ DOMAIN r.streams[j] = {"fd", "client", "ssh", "out"}
          /\ r.streams[j].client \in DOMAIN r.clients /\ r.streams[j].out \in Seq(Chunk)
          /\ r.ssh[r.streams[j].ssh].id = j /\ r.ssh[r.streams[j].ssh].st \in {"open", "leaving"}
      BY <1>1, <2>2 DEF Base, Owned
    <3>2. /\ s.streams[j] = r.streams[j] /\ r.streams[j].ssh \in Sshs \ {i}
          /\ s.ssh[r.streams[j].ssh] = r.ssh[r.streams[j].ssh]
      BY <1>7, <1>9, <1>10, <2>2
    <3> QED BY <1>7, <1>11, <3>1, <3>2
  <2> QED BY <1>2, <1>7, <2>1, <2>2
<1>15. Called(s)
  <2> SUFFICES ASSUME NEW f \in DOMAIN s.fds
               PROVE  /\ s.fds[f].k \in {"accept", "listen", "client", "stream"}
                      /\ s.fds[f] = Owner(s.fds[f].k, s.fds[f].n)
                      /\ s.fds[f].k = "stream" => s.fds[f].n \in DOMAIN s.streams /\ s.streams[s.fds[f].n].fd = f
    BY DEF Called
  <2>1. CASE f = fd
    BY <1>2, <1>3, <1>5, <1>6, <1>7, <2>1
  <2>2. CASE f \in DOMAIN r.fds /\ f # fd
    BY <1>1, <1>2, <1>3, <1>7, <1>9, <2>2 DEF Base, Called
  <2> QED BY <1>3, <1>7, <2>1, <2>2
<1>16. Opens(s)
  <2>1. \A p \in DOMAIN r.down[current] : current # 0 => r.down[current][p].id # id
    BY <1>1, Known DEF Base, Drawn, Shape
  <2>2. \A j \in DOMAIN bridges : j \in Nat /\ j < id
    BY DEF DaemonInv, Opens, ClientInv
  <2>3. \A j : j # id => (j \in DOMAIN s.streams => j \in DOMAIN r.streams /\ s.streams[j] = r.streams[j])
    BY <1>2, <1>7, <1>9
  <2>4. ASSUME current # 0, NEW p \in DOMAIN s.down[current], s.down[current][p].t = "open"
        PROVE  LET d == s.down[current]
               IN  /\ d[p].id \notin DOMAIN bridges
                   /\ d[p].id \in DOMAIN s.streams => s.streams[d[p].id].client = current
                   /\ \A q \in DOMAIN d : d[q].id = d[p].id /\ d[q].t \in {"open", "data"} => p <= q
    BY <1>7, <2>1, <2>3, <2>4 DEF DaemonInv, Opens
  <2>5. ASSUME NEW j \in DOMAIN bridges
        PROVE  j < s.next /\ (j \in DOMAIN s.streams => s.streams[j].client = current)
    <3>1. j \in Nat /\ j < id /\ j # id
      BY <1>1, <2>2
    <3> QED BY <1>7, <1>11, <2>3, <3>1 DEF DaemonInv, Opens
  <2> QED BY <2>4, <2>5 DEF Opens
<1>17. Flows(s, u)
  <2> SUFFICES ASSUME NEW j \in Served(s) PROVE Flow(s, u, j)
    BY DEF Flows
  <2>1. current \in Conns /\ current \in DOMAIN r.clients
    BY <1>7, <1>12, <1>14, Known DEF Served, Owned, Shape
  <2>2. CASE j = id
    <3>1. ~Opening(s, j)
      BY <1>1, <1>7, <2>1, <2>2 DEF Opening, Base, Drawn
    <3>2. j \notin DOMAIN bridges
      BY <1>1, <2>2 DEF DaemonInv, Opens, ClientInv
    <3> QED BY <3>1, <3>2 DEF Flow
  <2>3. CASE j \in DOMAIN r.streams
    <3>1. j \in Served(r) /\ s.streams[j] = r.streams[j] /\ s.ssh[r.streams[j].ssh] = r.ssh[r.streams[j].ssh]
      BY <1>7, <1>9, <1>10, <2>3 DEF Served
    <3>2. Flow(r, u, j)
      BY <3>1 DEF DaemonInv, Flows
    <3>3. Opening(s, j) <=> Opening(r, j)
      BY <1>7 DEF Opening
    <3> QED BY <1>7, <3>1, <3>2, <3>3 DEF Flow
  <2> QED BY <1>2, <1>7, <2>2, <2>3 DEF Served
<1>18. Bonded(r, s, i, k)
  BY <1>2, <1>5, <1>7, <1>10 DEF Bonded, e
<1> QED BY <1>s, <1>12, <1>13, <1>14, <1>15, <1>16, <1>17, <1>18 DEF DaemonInv

\* A step that leaves the streams and their ends alone.
Aside(r, t) ==
    /\ DOMAIN t = DOMAIN r /\ t.streams = r.streams /\ t.next = r.next /\ t.down = r.down
    /\ t.ssh \in [Sshs -> SshEnd]
    /\ \A j \in DOMAIN r.streams : t.ssh[r.streams[j].ssh] = r.ssh[r.streams[j].ssh]
    /\ DOMAIN t.clients \subseteq 1..made
    /\ \A k \in DOMAIN t.clients : t.clients[k].dead \in BOOLEAN /\ DOMAIN t.clients[k] = {"fd", "dead"}
    /\ \A j \in DOMAIN r.streams :
            /\ r.streams[j].client \in DOMAIN t.clients
            /\ ~t.clients[r.streams[j].client].dead => ~r.clients[r.streams[j].client].dead
    /\ \A k \in Conns : <<"client", k>> \in t.hung <=> <<"client", k>> \in r.hung
    /\ \A f \in DOMAIN t.fds :
            \/ f \in DOMAIN r.fds /\ t.fds[f] = r.fds[f]
            \/ t.fds[f].k = "client" /\ t.fds[f] = Owner(t.fds[f].k, t.fds[f].n)

LEMMA AsideKeeps ==
  ASSUME NEW r, NEW u, DaemonInv(r, u), NEW t, Aside(r, t)
  PROVE  DaemonInv(t, u)
<1> USE DEF Aside
<1>1. Shape(t, u)
  BY DEF DaemonInv, Shape
<1>2. Owned(t)
  BY DEF DaemonInv, Owned
<1>3. Called(t)
  <2> SUFFICES ASSUME NEW f \in DOMAIN t.fds
               PROVE  /\ t.fds[f].k \in {"accept", "listen", "client", "stream"}
                      /\ t.fds[f] = Owner(t.fds[f].k, t.fds[f].n)
                      /\ t.fds[f].k = "stream" => t.fds[f].n \in DOMAIN t.streams /\ t.streams[t.fds[f].n].fd = f
    BY DEF Called
  <2>1. CASE f \in DOMAIN r.fds /\ t.fds[f] = r.fds[f]
    BY <2>1 DEF DaemonInv, Called
  <2>2. CASE t.fds[f].k = "client" /\ t.fds[f] = Owner(t.fds[f].k, t.fds[f].n)
    BY <2>2
  <2> QED BY <2>1, <2>2
<1>4. Drawn(t, u)
  BY DEF DaemonInv, Drawn
<1>5. Opens(t)
  BY DEF DaemonInv, Opens
<1>6. Flows(t, u)
  <2> SUFFICES ASSUME NEW j \in Served(t) PROVE Flow(t, u, j)
    BY DEF Flows
  <2>1. j \in Served(r) /\ t.ssh[r.streams[j].ssh] = r.ssh[r.streams[j].ssh]
    BY DEF Served
  <2>2. Flow(r, u, j)
    BY <2>1 DEF DaemonInv, Flows
  <2>3. Opening(t, j) <=> Opening(r, j)
    BY DEF Opening
  <2> QED BY <2>1, <2>2, <2>3 DEF Flow
<1> QED BY <1>1, <1>2, <1>3, <1>4, <1>5, <1>6 DEF DaemonInv

\* The client is told of its stream.
LEMMA SendsOpen ==
  ASSUME ClientInv, NEW r, NEW u, DaemonInv(r, u), NEW i \in Sshs, NEW k,
         NEW s, DaemonInv(s, u), Bonded(r, s, i, k), NEW full
  PROVE  DaemonInv(SendControl(s, {k}, <<Frame("open", r.next, <<>>)>>, full), u)
<1> DEFINE id == r.next
           b == <<Frame("open", id, <<>>)>>
           to == {k}
           t == SendControl(s, to, b, full)
<1>1. /\ Base(s, u) /\ id \in Nat /\ id < id + 1 /\ s.next = id + 1 /\ id \in DOMAIN s.streams
      /\ s.down = r.down /\ s.streams[id].client = k /\ s.streams[id].ssh = i /\ s.streams[id].out = <<>>
      /\ s.ssh[i] = Ssh("open", id)
      /\ u \in [Conns -> Seq(Wire)] /\ s.down \in [Conns -> Seq(Wire)]
  BY DEF DaemonInv, Base, Shape, Bonded
<1>2. /\ \A l \in Conns : \A p \in DOMAIN s.down[l] : s.down[l][p].id # id
      /\ \A l \in Conns : \A p \in DOMAIN u[l] : u[l][p].id # id
      /\ id \notin DOMAIN bridges
  <2>1. /\ \A l \in Conns : \A p \in DOMAIN r.down[l] : r.down[l][p].id < id
        /\ \A l \in Conns : \A p \in DOMAIN u[l] : u[l][p].id < id
        /\ \A j \in DOMAIN bridges : j < id
    BY DEF DaemonInv, Drawn, Opens
  <2> HIDE DEF id
  <2> QED BY <1>1, <2>1
<1>3. b \in Seq(Wire) /\ \A p \in DOMAIN b : b[p].id < s.next
  <2>1. Frame("open", id, <<>>) \in Wire /\ Frame("open", id, <<>>).id = id
    BY <1>1 DEF Frame, Wire, Chunk
  <2> QED BY <1>1, <2>1
<1>4. \A l \in Conns : OpenLast(s.down[l], s.down[l] \o b, id)
  <2> HIDE DEF id
  <2> QED BY <1>1, OpenLater
<1> HIDE DEF b, id, t
<1>5. Sent(s, u, t, to, b)
  <2> HIDE DEF to
  <2> QED BY <1>1, <1>3, Sends DEF t
<1>6. /\ Base(t, u) /\ t.streams = s.streams /\ t.next = s.next /\ t.ssh = s.ssh
      /\ DOMAIN t.clients = DOMAIN s.clients
      /\ \A l \in DOMAIN s.clients : ~t.clients[l].dead => ~s.clients[l].dead
      /\ \A l \in Conns : t.down[l] # s.down[l] => l = current /\ l = k /\ t.down[l] = s.down[l] \o b
  BY <1>5 DEF Sent
<1>7. ASSUME current \in Conns, current = k, t.down[current] = s.down[current] \o b PROVE Opens(t)
  <2> DEFINE a == s.down[current]
             d == t.down[current]
  <2>1. OpenLast(a, d, id) /\ \A p \in DOMAIN a : a[p].id # id
    BY <1>2, <1>4, <1>7
  <2>2. Opens(s) /\ current # 0
    BY <1>7 DEF DaemonInv, Conns
  <2>3. \A p \in DOMAIN a : a[p].t = "open" =>
            /\ a[p].id \notin DOMAIN bridges
            /\ a[p].id \in DOMAIN s.streams => s.streams[a[p].id].client = current
            /\ \A q \in DOMAIN a : a[q].id = a[p].id /\ a[q].t \in {"open", "data"} => p <= q
    BY <2>2 DEF Opens
  <2>5. a \in Seq(Wire) /\ d \in Seq(Wire)
    BY <1>1, <1>6, <1>7 DEF Base, Shape
  <2>6. \A p \in DOMAIN d : p <= p
    BY <2>5
  <2> HIDE DEF a, d
  <2>4. \A p \in DOMAIN d : d[p].t = "open" =>
            /\ d[p].id \notin DOMAIN bridges
            /\ d[p].id \in DOMAIN s.streams => s.streams[d[p].id].client = current
            /\ \A q \in DOMAIN d : d[q].id = d[p].id /\ d[q].t \in {"open", "data"} => p <= q
    <3>1. PICK z \in DOMAIN d : /\ d[z].t = "open" /\ d[z].id = id
                                /\ \A p \in DOMAIN d : (p \in DOMAIN a /\ a[p] = d[p] /\ p <= z) \/ p = z
      BY <2>1 DEF OpenLast
    <3> SUFFICES ASSUME NEW p \in DOMAIN d, d[p].t = "open"
                 PROVE  /\ d[p].id \notin DOMAIN bridges
                        /\ d[p].id \in DOMAIN s.streams => s.streams[d[p].id].client = current
                        /\ \A q \in DOMAIN d : d[q].id = d[p].id /\ d[q].t \in {"open", "data"} => p <= q
      OBVIOUS
    <3>2. CASE p = z
      <4>1. \A q \in DOMAIN d : d[q].id = d[p].id => q = z
        BY <2>1, <3>1, <3>2
      <4> QED BY <1>1, <1>2, <1>7, <2>6, <3>1, <3>2, <4>1
    <3>3. CASE p \in DOMAIN a /\ a[p] = d[p] /\ p <= z
      BY <2>3, <3>1, <3>3
    <3> QED BY <3>1, <3>2, <3>3
  <2>7. \A j \in DOMAIN bridges : j < s.next /\ (j \in DOMAIN s.streams => s.streams[j].client = current)
    BY <2>2 DEF Opens
  <2> QED BY <1>6, <2>4, <2>7 DEF Opens, d
<1>8. current # 0 => current \in Conns
  BY Known
<1>9. Opens(t)
  <2>1. CASE current # 0 => t.down[current] = s.down[current]
    BY <1>6, <2>1 DEF DaemonInv, Opens
  <2>2. CASE current # 0 /\ t.down[current] # s.down[current]
    BY <1>6, <1>7, <1>8, <2>2
  <2> QED BY <2>1, <2>2
<1>10. ASSUME current # 0
       PROVE  \A j : /\ j # id => (Opening(t, j) => Opening(s, j))
                     /\ Chunks(t.down[current], j) = Chunks(s.down[current], j)
  <2>1. CASE t.down[current] = s.down[current]
    BY <2>1 DEF Opening
  <2>2. CASE t.down[current] = s.down[current] \o b
    <3>1. OpenLast(s.down[current], t.down[current], id)
      BY <1>4, <1>8, <1>10, <2>2
    <3> QED BY <3>1 DEF Opening, OpenLast
  <2> QED BY <1>6, <1>8, <1>10, <2>1, <2>2
<1>11. Besides(s, u, t, u, id)
  BY <1>6, <1>10 DEF Besides
<1>12. ASSUME id \in Served(t) PROVE Flow(t, u, id)
  <2>1. k = current /\ current \in Conns
    BY <1>1, <1>6, <1>8, <1>12, Known DEF Served, Base, Owned, Shape
  <2>2. Chunks(u[current], id) = <<>> /\ Chunks(s.down[current], id) = <<>>
    BY <1>1, <1>2, <2>1, ChunksNone
  <2>3. Chunks(t.down[current], id) = <<>>
    BY <1>10, <2>1, <2>2 DEF Conns
  <2>4. /\ t.ssh[i].got = <<>> /\ t.ssh[i].unread = <<>> /\ t.ssh[i].sent = 0
        /\ t.streams[id].out = <<>> /\ t.streams[id].ssh = i
    BY <1>1, <1>6 DEF Ssh
  <2>5. Said(i, 0) = <<>> /\ <<>> \o <<>> = <<>>
    BY DEF Said
  <2> QED BY <1>2, <2>2, <2>3, <2>4, <2>5 DEF Flow
<1>13. Flows(t, u)
  BY <1>1, <1>6, <1>11, <1>12, OneFlow
<1> QED BY <1>6, <1>9, <1>13 DEF DaemonInv, Base, t, b, id

LEMMA Accepts ==
  ASSUME ClientInv, NEW r, NEW u, DaemonInv(r, u), NEW i \in Sshs, r.ssh[i].st = "waiting", NEW full
  PROVE  DaemonInv(Accepted(r, i, full), u)
<1> DEFINE live == {k \in DOMAIN r.clients : Live(r, k)}
           fd == NewFd(r)
           k == Max(live)
           s == [r EXCEPT !.fds = AddFd(@, fd, Owner("stream", r.next)), !.next = @ + 1,
                          !.streams = With(@, r.next, [fd |-> fd, client |-> k, ssh |-> i, out |-> <<>>]),
                          !.ssh[i] = Ssh("open", r.next)]
           t == [r EXCEPT !.ssh[i] = Ssh("closed", 0)]
<1>1. Accepted(r, i, full)
        = IF live = {} THEN t ELSE SendControl(s, {k}, <<Frame("open", r.next, <<>>)>>, full)
  BY DEF Accepted
<1>2. CASE live = {}
  <2>1. /\ DOMAIN r = {"fds", "streams", "next", "clients", "down", "hung", "ssh"} /\ r.ssh \in [Sshs -> SshEnd]
        /\ DOMAIN r.clients \subseteq 1..made
        /\ \A l \in DOMAIN r.clients : r.clients[l].dead \in BOOLEAN /\ DOMAIN r.clients[l] = {"fd", "dead"}
        /\ \A j \in DOMAIN r.streams : r.streams[j].client \in DOMAIN r.clients
        /\ \A j \in DOMAIN r.streams : r.streams[j].ssh \in Sshs \ {i}
    BY DEF DaemonInv, Shape, Owned
  <2>2. Ssh("closed", 0) \in SshEnd
    <3>1. <<>> \in Seq(Chunk)
      OBVIOUS
    <3> QED BY <3>1 DEF Ssh, SshEnd
  <2> DEFINE e == Ssh("closed", 0)
  <2> HIDE DEF e
  <2>3. /\ DOMAIN t = DOMAIN r /\ t.fds = r.fds /\ t.next = r.next /\ t.clients = r.clients
        /\ t.down = r.down /\ t.hung = r.hung /\ t.streams = r.streams /\ t.ssh = [r.ssh EXCEPT ![i] = e]
    BY <2>1 DEF e
  <2> HIDE DEF t
  <2>4. t.ssh \in [Sshs -> SshEnd] /\ \A l \in Sshs \ {i} : t.ssh[l] = r.ssh[l]
    BY <2>1, <2>2, <2>3 DEF e
  <2>5. Aside(r, t)
    BY <2>1, <2>3, <2>4 DEF Aside
  <2>6. DaemonInv(t, u)
    BY <2>5, AsideKeeps
  <2> QED BY <1>1, <1>2, <2>6
<1>3. CASE live # {}
  <2>1. k \in live
    <3>1. live \in SUBSET (1..made) /\ made \in Nat
      BY Known DEF DaemonInv, Shape
    <3> HIDE DEF live
    <3> QED BY <1>3, <3>1, Greatest
  <2>2. k \in DOMAIN r.clients
    BY <2>1
  <2> HIDE DEF k, fd
  <2>3. DaemonInv(s, u) /\ Bonded(r, s, i, k)
    BY <2>2, Adds
  <2> HIDE DEF s
  <2>4. DaemonInv(SendControl(s, {k}, <<Frame("open", r.next, <<>>)>>, full), u)
    BY <2>3, SendsOpen
  <2> QED BY <1>1, <1>3, <2>4 DEF s, k, fd
<1> QED BY <1>2, <1>3

AcceptedUpTo(r, full) ==
    LET done[i \in 0..Len(Talk)] ==
          IF i = 0 THEN r
          ELSE LET s == done[i - 1] IN IF s.ssh[i].st = "waiting" THEN Accepted(s, i, full) ELSE s
    IN done

LEMMA AcceptUnfold ==
  ASSUME NEW r, NEW full
  PROVE  /\ AgentAccept(r, full) = AcceptedUpTo(r, full)[Len(Talk)]
         /\ AcceptedUpTo(r, full)[0] = r
         /\ \A i \in 1..Len(Talk) : AcceptedUpTo(r, full)[i] =
              IF AcceptedUpTo(r, full)[i - 1].ssh[i].st = "waiting"
              THEN Accepted(AcceptedUpTo(r, full)[i - 1], i, full) ELSE AcceptedUpTo(r, full)[i - 1]
<1> DEFINE size == Len(Talk)
           Then(x, i) == IF x.ssh[i].st = "waiting" THEN Accepted(x, i, full) ELSE x
           Val(f, i) == IF i = 0 THEN r ELSE Then(f[i - 1], i)
           T == {n \in 0..size : \E f : f = [i \in 0..n |-> Val(f, i)]}
           of == AcceptedUpTo(r, full)
<1>0. AgentAccept(r, full) = of[size] /\ of = CHOOSE f : f = [i \in 0..size |-> Val(f, i)]
  BY DEF AgentAccept, AcceptedUpTo
<1>u. \A x, i : Then(x, i) = IF x.ssh[i].st = "waiting" THEN Accepted(x, i, full) ELSE x
  OBVIOUS
<1>s. size \in Nat
  BY AgentAssumption
<1> HIDE DEF Then, of, size
<1>1. 0 \in T
  <2> DEFINE f == [i \in 0..0 |-> r]
  <2>1. f = [i \in 0..0 |-> Val(f, i)]
    OBVIOUS
  <2>2. \E h : h = [i \in 0..0 |-> Val(h, i)]
    <3> HIDE DEF f, Val
    <3> WITNESS f
    <3> QED BY <2>1
  <2> QED BY <1>s, <2>2
<1>2. ASSUME NEW n \in 0..(size - 1), n \in T PROVE n + 1 \in T
  <2>1. PICK f : f = [i \in 0..n |-> Val(f, i)]
    BY <1>2
  <2> DEFINE g == [i \in 0..(n + 1) |-> IF i = n + 1 THEN Then(f[n], n + 1) ELSE f[i]]
  <2>2. ASSUME NEW i \in 0..(n + 1) PROVE g[i] = Val(g, i)
    <3>1. CASE i = n + 1
      BY <1>s, <3>1
    <3>2. CASE i # n + 1
      <4>1. i \in 0..n /\ g[i] = f[i] /\ f[i] = Val(f, i)
        BY <1>s, <2>1, <3>2
      <4>2. i # 0 => i - 1 \in 0..n /\ i - 1 # n + 1 /\ g[i - 1] = f[i - 1]
        BY <1>s, <4>1
      <4> QED BY <4>1, <4>2
    <3> QED BY <3>1, <3>2
  <2>3. g = [i \in 0..(n + 1) |-> Val(g, i)]
    BY <2>2
  <2>4. \E h : h = [i \in 0..(n + 1) |-> Val(h, i)]
    <3> HIDE DEF g, Val
    <3> WITNESS g
    <3> QED BY <2>3
  <2>5. n + 1 \in 0..size
    BY <1>s
  <2> HIDE DEF g, Val
  <2> QED BY <2>4, <2>5
<1>3. size \in T
  <2> HIDE DEF T
  <2>1. 0..size \subseteq T
    BY <1>s, <1>1, <1>2, UpTo
  <2> QED BY <1>s, <2>1
<1>4. PICK h : h = [i \in 0..size |-> Val(h, i)]
  BY <1>3
<1>5. of = [i \in 0..size |-> Val(of, i)]
  <2> HIDE DEF Val
  <2> QED BY <1>0, <1>4
<1>7. of[0] = r /\ \A i \in 1..size : of[i] = Then(of[i - 1], i)
  BY <1>s, <1>5
<1> QED BY <1>0, <1>7, <1>u DEF of, size

LEMMA AcceptsAll ==
  ASSUME ClientInv, NEW r, NEW u, DaemonInv(r, u), NEW full
  PROVE  DaemonInv(AgentAccept(r, full), u)
<1> DEFINE A == AcceptedUpTo(r, full)
           size == Len(Talk)
           P == {i \in 0..size : DaemonInv(A[i], u)}
<1>1. /\ AgentAccept(r, full) = A[size] /\ A[0] = r
      /\ \A i \in 1..size : A[i] = IF A[i - 1].ssh[i].st = "waiting" THEN Accepted(A[i - 1], i, full) ELSE A[i - 1]
  BY AcceptUnfold
<1>2. size \in Nat /\ 1..size = Sshs
  BY AgentAssumption DEF Sshs
<1> HIDE DEF A, size
<1>3. 0 \in P
  BY <1>1, <1>2
<1>4. ASSUME NEW i \in 0..(size - 1), i \in P PROVE i + 1 \in P
  <2>1. i + 1 \in 1..size /\ (i + 1) - 1 = i /\ i + 1 \in 0..size /\ i + 1 \in Sshs
    BY <1>2
  <2> DEFINE x == A[i]
             l == i + 1
  <2>2. DaemonInv(x, u) /\ A[l] = IF x.ssh[l].st = "waiting" THEN Accepted(x, l, full) ELSE x
    BY <1>1, <1>4, <2>1
  <2>3. l \in Sshs
    BY <2>1
  <2>4. DaemonInv(A[l], u)
    <3> HIDE DEF x, l
    <3> QED BY <2>2, <2>3, Accepts
  <2> QED BY <2>1, <2>4
<1>5. 0..size \subseteq P
  <2> HIDE DEF P
  <2> QED BY <1>2, <1>3, <1>4, UpTo
<1> QED BY <1>1, <1>2, <1>5

-----------------------------------------------------------------------------
(* Clients.                                                                 *)

LEMMA Joins ==
  ASSUME ClientInv, NEW r, NEW u, DaemonInv(r, u), NEW k \in Backlog(r)
  PROVE  DaemonInv(Joined(r, k), u)
<1> DEFINE c == [fd |-> NewFd(r), dead |-> FALSE]
           C == With(r.clients, k, c)
           o == Owner("client", k)
           F == AddFd(r.fds, NewFd(r), o)
           t == [r EXCEPT !.fds = F, !.clients = C]
<1>0. Joined(r, k) = t
  BY DEF Joined
<1>1. /\ DOMAIN r = {"fds", "streams", "next", "clients", "down", "hung", "ssh"} /\ r.ssh \in [Sshs -> SshEnd]
      /\ DOMAIN r.clients \subseteq 1..made
      /\ \A l \in DOMAIN r.clients : r.clients[l].dead \in BOOLEAN /\ DOMAIN r.clients[l] = {"fd", "dead"}
      /\ \A j \in DOMAIN r.streams : r.streams[j].client \in DOMAIN r.clients
  BY DEF DaemonInv, Shape, Owned
<1>2. k \in 1..made /\ k \notin DOMAIN r.clients
  BY DEF Backlog
<1>3. c.dead \in BOOLEAN /\ DOMAIN c = {"fd", "dead"} /\ o.k = "client" /\ o = Owner(o.k, o.n)
  BY DEF Owner
<1> HIDE DEF c, o
<1>4. DOMAIN C = DOMAIN r.clients \cup {k} /\ C[k] = c /\ \A l \in DOMAIN r.clients : C[l] = r.clients[l]
  BY <1>2 DEF With
<1>5. \A f \in DOMAIN F : F[f] = o \/ (f \in DOMAIN r.fds /\ F[f] = r.fds[f])
  BY DEF AddFd
<1> HIDE DEF C, F
<1>6. /\ DOMAIN t = DOMAIN r /\ t.fds = F /\ t.next = r.next /\ t.clients = C
      /\ t.down = r.down /\ t.hung = r.hung /\ t.streams = r.streams /\ t.ssh = r.ssh
  BY <1>1
<1> HIDE DEF t
<1>7. Aside(r, t)
  <2>1. DOMAIN C \subseteq 1..made /\ \A l \in DOMAIN C : C[l].dead \in BOOLEAN /\ DOMAIN C[l] = {"fd", "dead"}
    BY <1>1, <1>2, <1>3, <1>4
  <2>2. \A j \in DOMAIN r.streams : r.streams[j].client \in DOMAIN C /\ C[r.streams[j].client] = r.clients[r.streams[j].client]
    BY <1>1, <1>4
  <2>3. \A f \in DOMAIN F : (f \in DOMAIN r.fds /\ F[f] = r.fds[f]) \/ (F[f].k = "client" /\ F[f] = Owner(F[f].k, F[f].n))
    BY <1>3, <1>5
  <2> QED BY <1>1, <1>6, <2>1, <2>2, <2>3 DEF Aside
<1> QED BY <1>0, <1>7, AsideKeeps

JoinedUpTo(r) ==
    LET done[k \in 0..made] ==
          IF k = 0 THEN r
          ELSE LET s == done[k - 1] IN IF k \in Backlog(s) THEN Joined(s, k) ELSE s
    IN done

LEMMA JoinUnfold ==
  ASSUME ClientInv, NEW r
  PROVE  /\ AcceptClient(r) = JoinedUpTo(r)[made]
         /\ JoinedUpTo(r)[0] = r
         /\ \A i \in 1..made : JoinedUpTo(r)[i] =
              IF i \in Backlog(JoinedUpTo(r)[i - 1]) THEN Joined(JoinedUpTo(r)[i - 1], i) ELSE JoinedUpTo(r)[i - 1]
<1> DEFINE size == made
           Then(x, i) == IF i \in Backlog(x) THEN Joined(x, i) ELSE x
           Val(f, i) == IF i = 0 THEN r ELSE Then(f[i - 1], i)
           T == {n \in 0..size : \E f : f = [i \in 0..n |-> Val(f, i)]}
           of == JoinedUpTo(r)
<1>0. AcceptClient(r) = of[size] /\ of = CHOOSE f : f = [i \in 0..size |-> Val(f, i)]
  BY DEF AcceptClient, JoinedUpTo
<1>u. \A x, i : Then(x, i) = IF i \in Backlog(x) THEN Joined(x, i) ELSE x
  OBVIOUS
<1>s. size \in Nat
  BY Known
<1> HIDE DEF Then, of, size
<1>1. 0 \in T
  <2> DEFINE f == [i \in 0..0 |-> r]
  <2>1. f = [i \in 0..0 |-> Val(f, i)]
    OBVIOUS
  <2>2. \E h : h = [i \in 0..0 |-> Val(h, i)]
    <3> HIDE DEF f, Val
    <3> WITNESS f
    <3> QED BY <2>1
  <2> QED BY <1>s, <2>2
<1>2. ASSUME NEW n \in 0..(size - 1), n \in T PROVE n + 1 \in T
  <2>1. PICK f : f = [i \in 0..n |-> Val(f, i)]
    BY <1>2
  <2> DEFINE g == [i \in 0..(n + 1) |-> IF i = n + 1 THEN Then(f[n], n + 1) ELSE f[i]]
  <2>2. ASSUME NEW i \in 0..(n + 1) PROVE g[i] = Val(g, i)
    <3>1. CASE i = n + 1
      BY <1>s, <3>1
    <3>2. CASE i # n + 1
      <4>1. i \in 0..n /\ g[i] = f[i] /\ f[i] = Val(f, i)
        BY <1>s, <2>1, <3>2
      <4>2. i # 0 => i - 1 \in 0..n /\ i - 1 # n + 1 /\ g[i - 1] = f[i - 1]
        BY <1>s, <4>1
      <4> QED BY <4>1, <4>2
    <3> QED BY <3>1, <3>2
  <2>3. g = [i \in 0..(n + 1) |-> Val(g, i)]
    BY <2>2
  <2>4. \E h : h = [i \in 0..(n + 1) |-> Val(h, i)]
    <3> HIDE DEF g, Val
    <3> WITNESS g
    <3> QED BY <2>3
  <2>5. n + 1 \in 0..size
    BY <1>s
  <2> HIDE DEF g, Val
  <2> QED BY <2>4, <2>5
<1>3. size \in T
  <2> HIDE DEF T
  <2>1. 0..size \subseteq T
    BY <1>s, <1>1, <1>2, UpTo
  <2> QED BY <1>s, <2>1
<1>4. PICK h : h = [i \in 0..size |-> Val(h, i)]
  BY <1>3
<1>5. of = [i \in 0..size |-> Val(of, i)]
  <2> HIDE DEF Val
  <2> QED BY <1>0, <1>4
<1>7. of[0] = r /\ \A i \in 1..size : of[i] = Then(of[i - 1], i)
  BY <1>s, <1>5
<1> QED BY <1>0, <1>7, <1>u DEF of, size

LEMMA JoinsAll ==
  ASSUME ClientInv, NEW r, NEW u, DaemonInv(r, u)
  PROVE  DaemonInv(AcceptClient(r), u)
<1> DEFINE A == JoinedUpTo(r)
           P == {i \in 0..made : DaemonInv(A[i], u)}
<1>1. /\ AcceptClient(r) = A[made] /\ A[0] = r
      /\ \A i \in 1..made : A[i] = IF i \in Backlog(A[i - 1]) THEN Joined(A[i - 1], i) ELSE A[i - 1]
  BY JoinUnfold
<1>2. made \in Nat
  BY Known
<1> HIDE DEF A
<1>3. 0 \in P
  BY <1>1, <1>2
<1>4. ASSUME NEW i \in 0..(made - 1), i \in P PROVE i + 1 \in P
  <2>1. i + 1 \in 1..made /\ (i + 1) - 1 = i /\ i + 1 \in 0..made
    BY <1>2
  <2> DEFINE x == A[i]
             l == i + 1
  <2>2. DaemonInv(x, u) /\ A[l] = IF l \in Backlog(x) THEN Joined(x, l) ELSE x
    BY <1>1, <1>4, <2>1
  <2>4. DaemonInv(A[l], u)
    <3> HIDE DEF x, l
    <3> QED BY <2>2, Joins
  <2> QED BY <2>1, <2>4
<1>5. 0..made \subseteq P
  <2> HIDE DEF P
  <2> QED BY <1>2, <1>3, <1>4, UpTo
<1> QED BY <1>1, <1>2, <1>5

HandledUpTo(r, k, n) ==
    LET done[j \in 0..Len(up[k])] ==
          IF j = 0 THEN r ELSE HandleControl(done[j - 1], k, up[k][j], n)
    IN done

Ended(x, k) == [x EXCEPT !.clients[k].dead = @ \/ <<"client", k>> \in hung]

LEMMA HandleUnfold ==
  ASSUME NEW r, NEW k, NEW n, Len(up[k]) \in Nat
  PROVE  /\ ClientEvent(r, k, n) = Ended(HandledUpTo(r, k, n)[Len(up[k])], k)
         /\ HandledUpTo(r, k, n)[0] = r
         /\ \A i \in 1..Len(up[k]) : HandledUpTo(r, k, n)[i] = HandleControl(HandledUpTo(r, k, n)[i - 1], k, up[k][i], n)
<1> DEFINE size == Len(up[k])
           Then(x, i) == HandleControl(x, k, up[k][i], n)
           Val(f, i) == IF i = 0 THEN r ELSE Then(f[i - 1], i)
           T == {m \in 0..size : \E f : f = [i \in 0..m |-> Val(f, i)]}
           of == HandledUpTo(r, k, n)
<1>0. /\ ClientEvent(r, k, n) = Ended(of[size], k)
      /\ of = CHOOSE f : f = [i \in 0..size |-> Val(f, i)]
  BY DEF ClientEvent, HandledUpTo, Ended
<1>u. \A x, i : Then(x, i) = HandleControl(x, k, up[k][i], n)
  OBVIOUS
<1>s. size \in Nat
  OBVIOUS
<1> HIDE DEF Then, of, size
<1>1. 0 \in T
  <2> DEFINE f == [i \in 0..0 |-> r]
  <2>1. f = [i \in 0..0 |-> Val(f, i)]
    OBVIOUS
  <2>2. \E h : h = [i \in 0..0 |-> Val(h, i)]
    <3> HIDE DEF f, Val
    <3> WITNESS f
    <3> QED BY <2>1
  <2> QED BY <1>s, <2>2
<1>2. ASSUME NEW m \in 0..(size - 1), m \in T PROVE m + 1 \in T
  <2>1. PICK f : f = [i \in 0..m |-> Val(f, i)]
    BY <1>2
  <2> DEFINE g == [i \in 0..(m + 1) |-> IF i = m + 1 THEN Then(f[m], m + 1) ELSE f[i]]
  <2>2. ASSUME NEW i \in 0..(m + 1) PROVE g[i] = Val(g, i)
    <3>1. CASE i = m + 1
      BY <1>s, <3>1
    <3>2. CASE i # m + 1
      <4>1. i \in 0..m /\ g[i] = f[i] /\ f[i] = Val(f, i)
        BY <1>s, <2>1, <3>2
      <4>2. i # 0 => i - 1 \in 0..m /\ i - 1 # m + 1 /\ g[i - 1] = f[i - 1]
        BY <1>s, <4>1
      <4> QED BY <4>1, <4>2
    <3> QED BY <3>1, <3>2
  <2>3. g = [i \in 0..(m + 1) |-> Val(g, i)]
    BY <2>2
  <2>4. \E h : h = [i \in 0..(m + 1) |-> Val(h, i)]
    <3> HIDE DEF g, Val
    <3> WITNESS g
    <3> QED BY <2>3
  <2>5. m + 1 \in 0..size
    BY <1>s
  <2> HIDE DEF g, Val
  <2> QED BY <2>4, <2>5
<1>3. size \in T
  <2> HIDE DEF T
  <2>1. 0..size \subseteq T
    BY <1>s, <1>1, <1>2, UpTo
  <2> QED BY <1>s, <2>1
<1>4. PICK h : h = [i \in 0..size |-> Val(h, i)]
  BY <1>3
<1>5. of = [i \in 0..size |-> Val(of, i)]
  <2> HIDE DEF Val
  <2> QED BY <1>0, <1>4
<1>7. of[0] = r /\ \A i \in 1..size : of[i] = Then(of[i - 1], i)
  BY <1>s, <1>5
<1> QED BY <1>0, <1>7, <1>u DEF of, size

\* The first j of the frames have been taken.
Left(u, k, j) == [u EXCEPT ![k] = SubSeq(u[k], j + 1, Len(u[k]))]

LEMMA TakesNext ==
  ASSUME NEW u, u \in [Conns -> Seq(Wire)], NEW k \in Conns, NEW j \in 0..(Len(u[k]) - 1)
  PROVE  Took(Left(u, k, j), Left(u, k, j + 1), k, u[k][j + 1])
<1> DEFINE s == u[k]
           a == SubSeq(s, j + 1, Len(s))
           b == SubSeq(s, (j + 1) + 1, Len(s))
<1>1. s \in Seq(Wire) /\ Len(s) \in Nat /\ j \in Nat /\ j + 1 \in 1..Len(s)
  OBVIOUS
<1>2. a # <<>> /\ s[j + 1] = Head(a) /\ b = Tail(a)
  <2> HIDE DEF s
  <2>1. \A p \in 1..Len(s) : s[p] \in Wire
    BY <1>1
  <2>2. /\ a \in Seq(Wire) /\ Len(a) = Len(s) - j /\ \A p \in 1..(Len(s) - j) : a[p] = s[j + p]
    BY ONLY <1>1, <2>1
  <2>3. /\ b \in Seq(Wire) /\ Len(b) = Len(s) - j - 1 /\ \A p \in 1..(Len(s) - j - 1) : b[p] = s[(j + 1) + p]
    BY ONLY <1>1, <2>1
  <2> HIDE DEF a, b
  <2>4. /\ Tail(a) \in Seq(Wire) /\ Len(Tail(a)) = Len(s) - j - 1
        /\ \A p \in 1..(Len(s) - j - 1) : Tail(a)[p] = a[p + 1]
        /\ a # <<>> /\ Head(a) = a[1]
    BY ONLY <1>1, <2>2
  <2>5. \A p \in 1..(Len(s) - j - 1) : p + 1 \in 1..(Len(s) - j) /\ j + (p + 1) = (j + 1) + p
    BY ONLY <1>1
  <2>6. \A p \in 1..Len(b) : b[p] = Tail(a)[p]
    BY ONLY <2>2, <2>3, <2>4, <2>5
  <2>7. b = Tail(a)
    BY ONLY <2>3, <2>4, <2>6, SeqEqual
  <2>8. 1 \in 1..(Len(s) - j) 
    BY ONLY <1>1
  <2> QED BY <2>2, <2>4, <2>7, <2>8
<1>3. Left(u, k, j) = [u EXCEPT ![k] = a] /\ Left(u, k, j + 1) = [u EXCEPT ![k] = b]
  BY DEF Left
<1> HIDE DEF a, b
<1>4. Left(u, k, j)[k] = a /\ Left(u, k, j + 1) = [Left(u, k, j) EXCEPT ![k] = b]
  BY <1>3
<1> QED BY <1>2, <1>4 DEF Took

LEMMA LeftAll ==
  ASSUME NEW u, u \in [Conns -> Seq(Wire)], NEW k \in Conns
  PROVE  /\ Len(u[k]) \in Nat /\ Left(u, k, 0) = u
         /\ Left(u, k, Len(u[k])) = [u EXCEPT ![k] = <<>>]
<1> DEFINE s == u[k]
<1>1. s \in Seq(Wire)
  OBVIOUS
<1>2. Len(s) \in Nat /\ SubSeq(s, 0 + 1, Len(s)) = s /\ SubSeq(s, Len(s) + 1, Len(s)) = <<>>
  <2> HIDE DEF s
  <2> QED BY ONLY <1>1
<1> QED BY <1>2 DEF Left

\* A client's fault or its end only takes streams out of service.
LEMMA Dies ==
  ASSUME NEW r, NEW u, DaemonInv(r, u), NEW k \in DOMAIN r.clients, NEW d
  PROVE  DaemonInv([r EXCEPT !.clients[k].dead = @ \/ d], u)
<1> DEFINE x == r.clients[k].dead \/ d
           c == [r.clients[k] EXCEPT !.dead = x]
           t == [r EXCEPT !.clients[k].dead = x]
<1>0. t = [r EXCEPT !.clients[k].dead = @ \/ d]
  OBVIOUS
<1>1. /\ DOMAIN r = {"fds", "streams", "next", "clients", "down", "hung", "ssh"} /\ r.ssh \in [Sshs -> SshEnd]
      /\ DOMAIN r.clients \subseteq 1..made
      /\ \A l \in DOMAIN r.clients : r.clients[l].dead \in BOOLEAN /\ DOMAIN r.clients[l] = {"fd", "dead"}
      /\ \A j \in DOMAIN r.streams : r.streams[j].client \in DOMAIN r.clients
  BY DEF DaemonInv, Shape, Owned
<1>2. x \in BOOLEAN /\ (~x => ~r.clients[k].dead)
  OBVIOUS
<1> HIDE DEF x
<1>3. c.dead = x /\ DOMAIN c = {"fd", "dead"}
  BY <1>1
<1>4. /\ DOMAIN t = DOMAIN r /\ t.fds = r.fds /\ t.next = r.next /\ t.clients = [r.clients EXCEPT ![k] = c]
      /\ t.down = r.down /\ t.hung = r.hung /\ t.streams = r.streams /\ t.ssh = r.ssh
  BY <1>1
<1> HIDE DEF c, t
<1>5. /\ DOMAIN t.clients = DOMAIN r.clients /\ t.clients[k] = c
      /\ \A l \in DOMAIN r.clients : l # k => t.clients[l] = r.clients[l]
  BY <1>4
<1>6. Aside(r, t)
  <2>1. \A l \in DOMAIN t.clients : t.clients[l].dead \in BOOLEAN /\ DOMAIN t.clients[l] = {"fd", "dead"}
    BY <1>1, <1>2, <1>3, <1>5
  <2>2. \A j \in DOMAIN r.streams :
            /\ r.streams[j].client \in DOMAIN t.clients
            /\ ~t.clients[r.streams[j].client].dead => ~r.clients[r.streams[j].client].dead
    BY <1>1, <1>2, <1>3, <1>5
  <2> QED BY <1>1, <1>4, <1>5, <2>1, <2>2 DEF Aside
<1> QED BY <1>0, <1>6, AsideKeeps

LEMMA ClientCalled ==
  ASSUME ClientInv, NEW r, DaemonInv(r, up), NEW k \in DOMAIN r.clients, NEW n \in Nat
  PROVE  DaemonInv(ClientEvent(r, k, n), [up EXCEPT ![k] = <<>>])
<1> DEFINE A == HandledUpTo(r, k, n)
           size == Len(up[k])
           P == {j \in 0..size : DaemonInv(A[j], Left(up, k, j)) /\ A[j].clients = r.clients}
<1>0. k \in Conns /\ up \in [Conns -> Seq(Wire)]
  BY Known DEF DaemonInv, Shape
<1>1. size \in Nat /\ Left(up, k, 0) = up /\ Left(up, k, size) = [up EXCEPT ![k] = <<>>]
  BY <1>0, LeftAll
<1>2. /\ ClientEvent(r, k, n) = Ended(A[size], k)
      /\ A[0] = r
      /\ \A i \in 1..size : A[i] = HandleControl(A[i - 1], k, up[k][i], n)
  BY <1>1, HandleUnfold
<1> HIDE DEF A
<1>3. 0 \in P
  BY <1>1, <1>2
<1>4. ASSUME NEW j \in 0..(size - 1), j \in P PROVE j + 1 \in P
  <2>1. j + 1 \in 1..size /\ (j + 1) - 1 = j /\ j + 1 \in 0..size
    BY <1>1
  <2>2. Took(Left(up, k, j), Left(up, k, j + 1), k, up[k][j + 1])
    BY <1>0, TakesNext
  <2> DEFINE x == A[j]
             v == Left(up, k, j)
             w == Left(up, k, j + 1)
             f == up[k][j + 1]
  <2>3. DaemonInv(x, v) /\ x.clients = r.clients /\ Took(v, w, k, f) /\ A[j + 1] = HandleControl(x, k, f, n)
    BY <1>2, <1>4, <2>1, <2>2
  <2> HIDE DEF x, v, f
  <2>4. DaemonInv(A[j + 1], w) /\ A[j + 1].clients = r.clients
    <3> HIDE DEF w
    <3> QED BY <1>0, <2>3, Handles
  <2> QED BY <2>1, <2>4
<1>5. 0..size \subseteq P
  <2> HIDE DEF P, size
  <2> QED BY <1>1, <1>3, <1>4, UpTo
<1>6. DaemonInv(A[size], [up EXCEPT ![k] = <<>>]) /\ A[size].clients = r.clients
  BY <1>1, <1>5
<1> DEFINE x == A[size]
           v == [up EXCEPT ![k] = <<>>]
           d == <<"client", k>> \in hung
<1>7. DaemonInv([x EXCEPT !.clients[k].dead = @ \/ d], v)
  <2>1. DaemonInv(x, v) /\ k \in DOMAIN x.clients
    BY <1>6
  <2> HIDE DEF x, v, d
  <2> QED BY <2>1, Dies
<1> QED BY <1>2, <1>7 DEF Ended

-----------------------------------------------------------------------------
(* The end of a batch, and of the session.                                  *)

LEMMA Sweeps ==
  ASSUME ClientInv, NEW r, NEW u, DaemonInv(r, u)
  PROVE  DaemonInv(Sweep(r), u)
<1> DEFINE dead == {k \in DOMAIN r.clients : r.clients[k].dead}
           ids == {id \in DOMAIN r.streams : r.streams[id].client \in dead}
           s == DropStreams(r, ids)
           F == RemoveFds(s.fds, {r.clients[k].fd : k \in dead})
           C == Restrict(s.clients, DOMAIN s.clients \ dead)
           H == s.hung \cup {<<"daemon", k>> : k \in dead}
           t == [s EXCEPT !.fds = F, !.clients = C, !.hung = H]
<1>1. Sweep(r) = t
  BY DEF Sweep, SweptOf
<1>2. /\ DaemonInv(s, u) /\ DOMAIN s = DOMAIN r /\ s.clients = r.clients
      /\ DOMAIN s.streams = DOMAIN r.streams \ ids /\ \A j \in DOMAIN s.streams : s.streams[j] = r.streams[j]
  <2>1. ids \in SUBSET DOMAIN r.streams
    OBVIOUS
  <2> HIDE DEF ids
  <2> QED BY <2>1, Drops
<1> HIDE DEF s
<1>3. /\ DOMAIN s = {"fds", "streams", "next", "clients", "down", "hung", "ssh"} /\ s.ssh \in [Sshs -> SshEnd]
      /\ DOMAIN s.clients \subseteq 1..made
      /\ \A l \in DOMAIN s.clients : s.clients[l].dead \in BOOLEAN /\ DOMAIN s.clients[l] = {"fd", "dead"}
      /\ \A j \in DOMAIN s.streams : s.streams[j].client \in DOMAIN s.clients
  BY <1>2 DEF DaemonInv, Shape, Owned
<1>4. DOMAIN C = DOMAIN s.clients \ dead /\ \A k \in DOMAIN C : C[k] = s.clients[k]
  BY DEF Restrict
<1>5. \A f \in DOMAIN F : f \in DOMAIN s.fds /\ F[f] = s.fds[f]
  BY DEF RemoveFds, Restrict
<1>6. \A k : <<"client", k>> \in H <=> <<"client", k>> \in s.hung
  OBVIOUS
<1>7. \A j \in DOMAIN s.streams : s.streams[j].client \in DOMAIN C
  BY <1>2, <1>3, <1>4
<1> HIDE DEF F, C, H
<1>8. /\ DOMAIN t = DOMAIN s /\ t.fds = F /\ t.next = s.next /\ t.clients = C
      /\ t.down = s.down /\ t.hung = H /\ t.streams = s.streams /\ t.ssh = s.ssh
  BY <1>3
<1> HIDE DEF t
<1>9. Aside(s, t)
  <2>1. DOMAIN C \subseteq 1..made /\ \A l \in DOMAIN C : C[l].dead \in BOOLEAN /\ DOMAIN C[l] = {"fd", "dead"}
    BY <1>3, <1>4
  <2>2. \A j \in DOMAIN s.streams : s.streams[j].client \in DOMAIN C /\ C[s.streams[j].client] = s.clients[s.streams[j].client]
    BY <1>4, <1>7
  <2> QED BY <1>3, <1>5, <1>6, <1>8, <2>1, <2>2 DEF Aside
<1> QED BY <1>1, <1>2, <1>9, AsideKeeps

LEMMA SessionEnds ==
  ASSUME ClientInv, NEW r, NEW u, DaemonInv(r, u), NEW full
  PROVE  LET q == DropStreams(r, DOMAIN r.streams)
             s == [q EXCEPT !.fds = RemoveFds(@, {2}),
                            !.ssh = [i \in Sshs |-> IF @[i].st = "waiting" THEN [@[i] EXCEPT !.st = "closed"] ELSE @[i]]]
         IN DaemonInv(SendControl(s, DOMAIN r.clients, <<Frame("gone", 0, <<>>)>>, full), u)
<1> DEFINE q == DropStreams(r, DOMAIN r.streams)
           F == RemoveFds(q.fds, {2})
           S == [i \in Sshs |-> IF q.ssh[i].st = "waiting" THEN [q.ssh[i] EXCEPT !.st = "closed"] ELSE q.ssh[i]]
           s == [q EXCEPT !.fds = F, !.ssh = S]
           b == <<Frame("gone", 0, <<>>)>>
           to == DOMAIN r.clients
<1>1. /\ DaemonInv(q, u) /\ DOMAIN q = DOMAIN r /\ q.clients = r.clients /\ DOMAIN q.streams = {}
  <2> DEFINE ids == DOMAIN r.streams
  <2>1. ids \in SUBSET DOMAIN r.streams
    OBVIOUS
  <2> HIDE DEF ids
  <2>2. /\ DaemonInv(DropStreams(r, ids), u) /\ DOMAIN DropStreams(r, ids) = DOMAIN r
        /\ DropStreams(r, ids).clients = r.clients /\ DOMAIN DropStreams(r, ids).streams = DOMAIN r.streams \ ids
    BY <2>1, Drops
  <2> QED BY <2>2 DEF ids
<1> HIDE DEF q
<1>2. /\ DOMAIN q = {"fds", "streams", "next", "clients", "down", "hung", "ssh"} /\ q.ssh \in [Sshs -> SshEnd]
      /\ DOMAIN q.clients \subseteq 1..made /\ q.next \in Nat \ {0}
      /\ \A l \in DOMAIN q.clients : q.clients[l].dead \in BOOLEAN /\ DOMAIN q.clients[l] = {"fd", "dead"}
  BY <1>1 DEF DaemonInv, Shape
<1>3. S \in [Sshs -> SshEnd]
  <2>1. \A i \in Sshs : q.ssh[i] \in SshEnd
    BY <1>2
  <2>2. \A e \in SshEnd : [e EXCEPT !.st = "closed"] \in SshEnd
    BY DEF SshEnd
  <2> QED BY <2>1, <2>2
<1>4. \A f \in DOMAIN F : f \in DOMAIN q.fds /\ F[f] = q.fds[f]
  BY DEF RemoveFds, Restrict
<1>0. s = [q EXCEPT !.fds = RemoveFds(@, {2}),
                    !.ssh = [i \in Sshs |-> IF @[i].st = "waiting" THEN [@[i] EXCEPT !.st = "closed"] ELSE @[i]]]
  OBVIOUS
<1> HIDE DEF F, S
<1>5. /\ DOMAIN s = DOMAIN q /\ s.fds = F /\ s.next = q.next /\ s.clients = q.clients
      /\ s.down = q.down /\ s.hung = q.hung /\ s.streams = q.streams /\ s.ssh = S
  BY <1>2
<1> HIDE DEF s
<1>6. Aside(q, s)
  BY <1>1, <1>2, <1>3, <1>4, <1>5 DEF Aside
<1>7. DaemonInv(s, u)
  BY <1>1, <1>6, AsideKeeps
<1>8. b \in Seq(Wire) /\ \A p \in DOMAIN b : b[p].id < s.next /\ b[p].t \in {"close", "gone"}
  <2>1. Frame("gone", 0, <<>>) \in Wire /\ Frame("gone", 0, <<>>).id = 0 /\ Frame("gone", 0, <<>>).t = "gone"
    BY DEF Frame, Wire, Chunk
  <2> QED BY <1>2, <1>5, <2>1
<1> HIDE DEF b, to
<1>9. DaemonInv(SendControl(s, to, b, full), u)
  BY <1>7, <1>8, SendsEnd
<1> QED BY <1>0, <1>9 DEF b, to, q

-----------------------------------------------------------------------------
(* Steps of the daemon.                                                     *)

Fields == {"fds", "streams", "next", "clients", "down", "hung", "ssh"}

LEMMA Parts ==
  /\ Daemon.fds = fds /\ Daemon.streams = streams /\ Daemon.next = next /\ Daemon.clients = clients
  /\ Daemon.down = down /\ Daemon.hung = hung /\ Daemon.ssh = ssh
  BY DEF Daemon

\* The connections a callback reads the frames of
Emptied(e) == {k \in Conns : Live(Daemon, k) /\ e.fd \in DOMAIN fds /\ fds[e.fd] = Owner("client", k)}

LEMMA CallbackKeeps ==
  ASSUME ClientInv, DaemonInv(Daemon, up), NEW e, NEW n \in Nat, NEW full
  PROVE  DaemonInv(Callback(Daemon, e, n, full), [k \in Conns |-> IF k \in Emptied(e) THEN <<>> ELSE up[k]])
<1> DEFINE o == fds[e.fd]
           v == [k \in Conns |-> IF k \in Emptied(e) THEN <<>> ELSE up[k]]
           r == Callback(Daemon, e, n, full)
<1>1. up \in [Conns -> Seq(Wire)]
  BY DEF DaemonInv, Shape
<1>2. Emptied(e) = {} => v = up
  BY <1>1
<1>3. r = IF e.fd \notin DOMAIN fds THEN Daemon
          ELSE CASE o.k = "accept" -> AcceptClient(Daemon)
                 [] o.k = "listen" -> AgentAccept(Daemon, full)
                 [] o.k = "client" -> IF Live(Daemon, o.n) THEN ClientEvent(Daemon, o.n, n) ELSE Daemon
                 [] OTHER          -> AgentStreamEvent(Daemon, o.n, e.ev, n, full)
  BY Parts DEF Callback
<1>4. \A k : Owner("client", k).k = "client" /\ Owner("client", k).n = k
  BY DEF Owner
<1> HIDE DEF v, r
<1>5. CASE e.fd \notin DOMAIN fds
  <2>1. Emptied(e) = {} /\ r = Daemon
    BY <1>3, <1>5 DEF Emptied
  <2> QED BY <1>2, <2>1 DEF v, r
<1>6. CASE e.fd \in DOMAIN fds /\ o.k # "client"
  <2>1. Emptied(e) = {}
    BY <1>4, <1>6 DEF Emptied
  <2>2. o.k \in {"accept", "listen", "client", "stream"} /\ (o.k = "stream" => o.n \in DOMAIN Daemon.streams)
    BY <1>6, Parts DEF DaemonInv, Called
  <2>3. CASE o.k = "accept"
    <3>1. r = AcceptClient(Daemon)
      BY <1>3, <1>6, <2>3
    <3>2. DaemonInv(AcceptClient(Daemon), up)
      BY JoinsAll
    <3> QED BY <1>2, <2>1, <3>1, <3>2 DEF v, r
  <2>4. CASE o.k = "listen"
    <3>1. r = AgentAccept(Daemon, full)
      BY <1>3, <1>6, <2>4
    <3>2. DaemonInv(AgentAccept(Daemon, full), up)
      BY AcceptsAll
    <3> QED BY <1>2, <2>1, <3>1, <3>2 DEF v, r
  <2>5. CASE o.k = "stream"
    <3> DEFINE id == o.n
               ev == e.ev
    <3>1. r = AgentStreamEvent(Daemon, id, ev, n, full) /\ id \in DOMAIN Daemon.streams
      BY <1>3, <1>6, <2>2, <2>5
    <3>2. DaemonInv(AgentStreamEvent(Daemon, id, ev, n, full), up)
      <4> HIDE DEF id, ev
      <4> QED BY <3>1, StreamCalled
    <3> QED BY <1>2, <2>1, <3>1, <3>2 DEF v, r
  <2> QED BY <1>6, <2>2, <2>3, <2>4, <2>5
<1>7. CASE e.fd \in DOMAIN fds /\ o.k = "client"
  <2> DEFINE k == o.n
  <2>1. r = IF Live(Daemon, k) THEN ClientEvent(Daemon, k, n) ELSE Daemon
    BY <1>3, <1>7
  <2>2. o = Owner("client", k)
    BY <1>7, Parts DEF DaemonInv, Called
  <2>3. CASE ~Live(Daemon, k)
    <3>1. Emptied(e) = {}
      BY <1>4, <2>2, <2>3 DEF Emptied
    <3> QED BY <1>2, <2>1, <2>3, <3>1 DEF v, r
  <2>4. CASE Live(Daemon, k)
    <3>1. k \in DOMAIN Daemon.clients /\ k \in Conns
      BY <2>4, Known DEF Live, DaemonInv, Shape
    <3>2. Emptied(e) = {k}
      BY <1>4, <1>7, <2>2, <2>4, <3>1 DEF Emptied
    <3>3. v = [up EXCEPT ![k] = <<>>]
      <4> HIDE DEF k
      <4> QED BY <1>1, <3>1, <3>2 DEF v
    <3>4. DaemonInv(ClientEvent(Daemon, k, n), [up EXCEPT ![k] = <<>>])
      <4> HIDE DEF k
      <4> QED BY <3>1, ClientCalled
    <3> QED BY <2>1, <2>4, <3>3, <3>4 DEF v, r
  <2> QED BY <2>3, <2>4
<1> QED BY <1>5, <1>6, <1>7 DEF v, r

After == [fds |-> fds', streams |-> streams', next |-> next', clients |-> clients',
          down |-> down', hung |-> hung', ssh |-> ssh']

\* What Became says, about the invariant.
LEMMA BecameKeeps ==
  ASSUME NEW r, NEW u, DaemonInv(r, u), Became(r)
  PROVE  DaemonInv(After, u)
<1>1. /\ DOMAIN After = Fields /\ After.fds = r.fds /\ After.streams = r.streams /\ After.next = r.next
      /\ After.clients = r.clients /\ After.down = r.down /\ After.hung = r.hung /\ After.ssh = r.ssh
  BY DEF After, Fields, Became
<1> DEFINE t == After
<1> HIDE DEF t
<1>2. /\ DOMAIN t = Fields /\ t.fds = r.fds /\ t.streams = r.streams /\ t.next = r.next
      /\ t.clients = r.clients /\ t.down = r.down /\ t.hung = r.hung /\ t.ssh = r.ssh
  BY <1>1 DEF t
<1>3. /\ DOMAIN r = Fields /\ r.ssh \in [Sshs -> SshEnd]
      /\ DOMAIN r.clients \subseteq 1..made
      /\ \A l \in DOMAIN r.clients : r.clients[l].dead \in BOOLEAN /\ DOMAIN r.clients[l] = {"fd", "dead"}
      /\ \A j \in DOMAIN r.streams : r.streams[j].client \in DOMAIN r.clients
  BY DEF DaemonInv, Shape, Owned, Fields
<1>4. Aside(r, t)
  BY <1>2, <1>3 DEF Aside
<1>5. DaemonInv(t, u)
  BY <1>4, AsideKeeps
<1> QED BY <1>5 DEF t

LEMMA Carries ==
  ASSUME UNCHANGED <<bridges, current, made, agent>>, DaemonInv(After, up')
  PROVE  DaemonInv(Daemon, up)'
<1>1. Daemon' = After
  BY DEF Daemon, After
<1> USE <1>1
<1>2. Shape(Daemon, up)'
  BY DEF DaemonInv, Shape
<1>3. Owned(Daemon)'
  BY DEF DaemonInv, Owned
<1>4. Called(Daemon)'
  BY DEF DaemonInv, Called
<1>5. Drawn(Daemon, up)'
  BY DEF DaemonInv, Drawn
<1>6. Opens(Daemon)'
  BY DEF DaemonInv, Opens
<1>7. Flows(Daemon, up)'
  BY DEF DaemonInv, Flows, Flow, Served, Opening
<1> QED BY <1>2, <1>3, <1>4, <1>5, <1>6, <1>7 DEF DaemonInv

LEMMA DispatchStep ==
  ASSUME ForwardInv, NEW n \in Nat, NEW full, Dispatch(n, full)
  PROVE  ForwardInv'
<1> DEFINE e == Head(batch)
           r == Callback(Daemon, e, n, full)
           v == [k \in Conns |-> IF k \in Emptied(e) THEN <<>> ELSE up[k]]
           x == IF Tail(batch) = <<>> THEN Sweep(r) ELSE r
<1>0. ClientInv /\ DaemonInv(Daemon, up)
  BY DEF ForwardInv
<1>1. up' = v /\ Became(x) /\ UNCHANGED <<bridges, current, made, agent>>
  BY DEF Dispatch, Emptied, clientVars
<1>2. DaemonInv(r, v)
  <2> HIDE DEF e
  <2> QED BY <1>0, CallbackKeeps
<1> HIDE DEF r, v
<1>3. DaemonInv(x, v)
  BY <1>0, <1>2, Sweeps
<1> HIDE DEF x
<1>4. DaemonInv(After, up')
  BY <1>1, <1>3, BecameKeeps
<1>5. DaemonInv(Daemon, up)'
  BY <1>1, <1>4, Carries
<1>6. ClientInv'
  BY <1>0, <1>1 DEF ClientInv
<1> QED BY <1>5, <1>6 DEF ForwardInv

LEMMA CloseSessionStep ==
  ASSUME ForwardInv, NEW full, CloseSession(full)
  PROVE  ForwardInv'
<1> DEFINE q == DropStreams(Daemon, DOMAIN streams)
           s == [q EXCEPT !.fds = RemoveFds(@, {2}),
                          !.ssh = [i \in Sshs |-> IF @[i].st = "waiting" THEN [@[i] EXCEPT !.st = "closed"] ELSE @[i]]]
           told == SendControl(s, DOMAIN clients, <<Frame("gone", 0, <<>>)>>, full)
           x == IF batch = <<>> THEN Sweep(told) ELSE told
<1>0. ClientInv /\ DaemonInv(Daemon, up)
  BY DEF ForwardInv
<1>1. up' = up /\ Became(x) /\ UNCHANGED <<bridges, current, made, agent>>
  BY DEF CloseSession, clientVars
<1>2. DaemonInv(told, up)
  BY <1>0, SessionEnds, Parts
<1> HIDE DEF told
<1>3. DaemonInv(x, up)
  BY <1>0, <1>2, Sweeps
<1> HIDE DEF x
<1>4. DaemonInv(After, up')
  BY <1>1, <1>3, BecameKeeps
<1>5. DaemonInv(Daemon, up)'
  BY <1>1, <1>4, Carries
<1>6. ClientInv'
  BY <1>0, <1>1 DEF ClientInv
<1> QED BY <1>5, <1>6 DEF ForwardInv

LEMMA PollStep ==
  ASSUME ForwardInv, Poll
  PROVE  ForwardInv'
<1>1. UNCHANGED <<fds, streams, next, clients, up, down, hung, ssh, bridges, current, made, agent>>
  BY DEF Poll, lineVars, clientVars
<1>2. Daemon = After
  BY <1>1 DEF Daemon, After
<1>3. DaemonInv(After, up')
  BY <1>1, <1>2 DEF ForwardInv
<1>4. DaemonInv(Daemon, up)'
  BY <1>1, <1>3, Carries
<1>5. ClientInv'
  BY <1>1 DEF ForwardInv, ClientInv
<1> QED BY <1>4, <1>5 DEF ForwardInv

-----------------------------------------------------------------------------
(* Steps of the programs at the two ends.                                   *)

LEMMA SshStep ==
  ASSUME ForwardInv, NEW i \in Sshs, NEW e \in SshEnd, e.id = ssh[i].id, e.st \in {"open", "leaving"},
         e.got = ssh[i].got, NEW c \in Seq(Chunk), e.unread = ssh[i].unread \o c,
         Said(i, e.sent) = Said(i, ssh[i].sent) \o c, ssh' = [ssh EXCEPT ![i] = e],
         UNCHANGED <<fds, streams, next, clients, up, down, hung, bridges, current, made, agent>>
  PROVE  ForwardInv'
<1> DEFINE r == Daemon
           t == After
<1>0. ClientInv /\ DaemonInv(r, up) /\ ClientInv'
  BY DEF ForwardInv, ClientInv
<1>1. /\ DOMAIN r = Fields /\ r.fds = fds /\ r.streams = streams /\ r.next = next /\ r.clients = clients
      /\ r.down = down /\ r.hung = hung /\ r.ssh = ssh
  BY DEF Daemon, Fields
<1>2. /\ DOMAIN t = Fields /\ t.fds = fds /\ t.streams = streams /\ t.next = next /\ t.clients = clients
      /\ t.down = down /\ t.hung = hung /\ t.ssh = [ssh EXCEPT ![i] = e]
  BY DEF After, Fields
<1> HIDE DEF r, t
<1>3. /\ ssh \in [Sshs -> SshEnd] /\ DOMAIN clients \subseteq 1..made
      /\ \A l \in DOMAIN clients : clients[l].dead \in BOOLEAN /\ DOMAIN clients[l] = {"fd", "dead"}
      /\ \A j \in DOMAIN streams :
            /\ streams[j].client \in DOMAIN clients /\ streams[j].out \in Seq(Chunk)
            /\ streams[j].ssh \in Sshs /\ ssh[streams[j].ssh].id = j /\ ssh[streams[j].ssh].st \in {"open", "leaving"}
  BY <1>0, <1>1 DEF DaemonInv, Shape, Owned
<1>4. t.ssh \in [Sshs -> SshEnd] /\ t.ssh[i] = e /\ \A l \in Sshs \ {i} : t.ssh[l] = ssh[l]
  BY <1>2, <1>3
<1>5. CASE \A j \in DOMAIN streams : streams[j].ssh # i
  <2>1. Aside(r, t)
    BY <1>1, <1>2, <1>3, <1>4, <1>5 DEF Aside
  <2>2. DaemonInv(After, up')
    BY <1>0, <2>1, AsideKeeps DEF t
  <2> QED BY <1>0, <2>2, Carries DEF ForwardInv
<1>6. CASE \E j \in DOMAIN streams : streams[j].ssh = i
  <2>1. PICK id \in DOMAIN streams : streams[id].ssh = i
    BY <1>6
  <2>2. OfOne(r, t, id)
    BY <1>1, <1>2, <1>3, <1>4, <2>1 DEF OfOne
  <2>3. Base(r, up)
    BY <1>0 DEF DaemonInv, Base
  <2>4. id \in DOMAIN r.streams
    BY <1>1, <2>1
  <2>5. Base(t, up) /\ \A j \in DOMAIN r.streams \ {id} : t.ssh[r.streams[j].ssh] = r.ssh[r.streams[j].ssh]
    BY <2>2, <2>3, <2>4, OneEnd
  <2>6. Opens(t)
    BY <1>0, <1>1, <1>2 DEF DaemonInv, Opens
  <2>7. \A j : Opening(t, j) <=> Opening(r, j)
    BY <1>1, <1>2 DEF Opening
  <2>8. Besides(r, up, t, up, id)
    BY <1>1, <1>2, <2>5, <2>7 DEF Besides
  <2>9. ASSUME id \in Served(t) PROVE Flow(t, up, id)
    <3>1. Flow(r, up, id) /\ current \in Conns
      BY <1>0, <1>1, <1>2, <1>3, <2>9, Known DEF DaemonInv, Flows, Served
    <3> DEFINE d == Chunks(down[current], id)
               w == ssh[i].unread
    <3>2. d \in Seq(Chunk) /\ w \in Seq(Chunk) /\ c \in Seq(Chunk)
      <4>1. down[current] \in Seq(Wire) /\ ssh[i] \in SshEnd
        BY <1>0, <1>1, <1>3, <3>1 DEF DaemonInv, Shape
      <4> QED BY <4>1, ChunksCat DEF SshEnd
    <3> HIDE DEF d, w
    <3>3. d \o (w \o c) = (d \o w) \o c
      BY ONLY <3>2
    <3>4. id \in DOMAIN bridges =>
             ((agent[id].got \o bridges[id]) \o d) \o (w \o c) = (((agent[id].got \o bridges[id]) \o d) \o w) \o c
      <4> SUFFICES ASSUME id \in DOMAIN bridges
                   PROVE  ((agent[id].got \o bridges[id]) \o d) \o (w \o c) = (((agent[id].got \o bridges[id]) \o d) \o w) \o c
        OBVIOUS
      <4> DEFINE y == agent[id].got
                 z == bridges[id]
      <4>1. y \in Seq(Chunk) /\ z \in Seq(Chunk)
        BY <1>0 DEF ClientInv, AgentEnd
      <4> HIDE DEF y, z
      <4>2. ((y \o z) \o d) \o (w \o c) = (((y \o z) \o d) \o w) \o c
        <5>1. (y \o z) \o d \in Seq(Chunk)
          BY ONLY <3>2, <4>1
        <5> QED BY ONLY <3>2, <5>1, Chain, Zenon
      <4> QED BY <4>2 DEF y, z
    <3>5. e.unread = w \o c /\ t.ssh[i] = e /\ t.streams[id].ssh = i /\ r.streams[id].ssh = i
      BY <1>1, <1>2, <1>4, <2>1 DEF w
    <3>6. Opening(t, id) =>
             /\ e.got = <<>> /\ t.streams[id].out = <<>> /\ Chunks(up[current], id) = <<>>
             /\ d \o e.unread = Said(i, e.sent)
      BY <1>1, <1>2, <2>7, <3>1, <3>3, <3>5 DEF Flow, d, w
    <3>7. id \in DOMAIN bridges =>
             /\ agent[id].got \o bridges[id] \o d \o e.unread = Said(i, e.sent)
             /\ e.got \o t.streams[id].out \o Chunks(up[current], id) \o agent[id].unread
                  = SubSeq(agent[id].got, 1, agent[id].sent)
      BY <1>1, <1>2, <3>1, <3>4, <3>5 DEF Flow, d, w
    <3> QED BY <1>2, <3>5, <3>6, <3>7 DEF Flow, d
  <2>10. Flows(t, up)
    BY <1>0, <2>4, <2>5, <2>8, <2>9, OneFlow
  <2>11. DaemonInv(After, up')
    BY <2>5, <2>6, <2>10 DEF DaemonInv, Base, t
  <2> QED BY <1>0, <2>11, Carries DEF ForwardInv
<1> QED BY <1>5, <1>6

LEMMA SshSendsStep ==
  ASSUME ForwardInv, NEW i \in Sshs, SshSends(i) \/ SshLeaves(i)
  PROVE  ForwardInv'
<1>1. /\ ssh[i].st = "open" /\ ssh[i] \in SshEnd /\ i \in Nat
      /\ UNCHANGED <<fds, streams, next, clients, up, down, hung, bridges, current, made, agent>>
  BY AgentAssumption DEF ForwardInv, DaemonInv, Shape, Daemon, SshSends, SshLeaves, loopVars, lineVars, clientVars, Sshs
<1> DEFINE g == ssh[i]
<1>2. CASE SshSends(i)
  <2> DEFINE x == <<i, g.sent + 1>>
             e == [g EXCEPT !.sent = @ + 1, !.unread = Append(@, x)]
             c == <<x>>
  <2>1. ssh' = [ssh EXCEPT ![i] = e]
    BY <1>2 DEF SshSends
  <2>2. /\ DOMAIN g = {"st", "id", "sent", "unread", "got"} /\ g.sent \in Nat /\ g.unread \in Seq(Chunk) /\ g.st = "open"
        /\ g \in SshEnd
    BY <1>1 DEF SshEnd
  <2> HIDE DEF g
  <2>3. x \in Chunk /\ g.sent + 1 \in Nat
    BY <1>1, <2>2 DEF Chunk
  <2>4. Said(i, g.sent + 1) = Said(i, g.sent) \o <<x>>
    <3> DEFINE a == Said(i, g.sent)
               b == Said(i, g.sent + 1)
               y == <<x>>
    <3>1. \A m \in Nat : <<i, m>> \in Chunk
      BY <1>1 DEF Chunk
    <3>2. /\ a \in Seq(Chunk) /\ Len(a) = g.sent /\ \A p \in 1..g.sent : a[p] = <<i, p>>
      BY <2>2, <3>1 DEF Said
    <3>3. /\ b \in Seq(Chunk) /\ Len(b) = g.sent + 1 /\ \A p \in 1..(g.sent + 1) : b[p] = <<i, p>>
      BY <2>3, <3>1 DEF Said
    <3>4. y \in Seq(Chunk) /\ Len(y) = 1 /\ y[1] = x
      BY <2>3
    <3> HIDE DEF a, b, y
    <3>5. /\ a \o y \in Seq(Chunk) /\ Len(a \o y) = g.sent + 1
          /\ \A p \in 1..g.sent : (a \o y)[p] = a[p]
          /\ (a \o y)[g.sent + 1] = x
      <4>0. a \in Seq(Chunk) /\ y \in Seq(Chunk)
        BY <3>2, <3>4
      <4>1. /\ a \o y \in Seq(Chunk) /\ Len(a \o y) = Len(a) + Len(y)
            /\ \A p \in 1..Len(a) : (a \o y)[p] = a[p]
            /\ \A p \in 1..Len(y) : (a \o y)[Len(a) + p] = y[p]
        BY ONLY <4>0, CatLength
      <4>2. 1 \in 1..Len(y)
        BY <3>4
      <4> QED BY <3>2, <3>4, <4>1, <4>2
    <3>6. \A p \in 1..(g.sent + 1) : p \in 1..g.sent \/ p = g.sent + 1
      BY <2>2
    <3>7. \A p \in 1..Len(b) : b[p] = (a \o y)[p]
      BY <2>2, <3>2, <3>3, <3>5, <3>6
    <3>8. b = a \o y
      BY <3>3, <3>5, <3>7, SeqEqual
    <3> QED BY <3>8 DEF a, b, y
  <2> HIDE DEF x
  <2>5. c \in Seq(Chunk) /\ Append(g.unread, x) = g.unread \o c /\ Append(g.unread, x) \in Seq(Chunk)
    BY <2>2, <2>3, CatOne
  <2>6. e \in SshEnd
    BY <2>2, <2>3, <2>5 DEF SshEnd
  <2>7. e.id = g.id /\ e.st = "open" /\ e.got = g.got /\ e.sent = g.sent + 1 /\ e.unread = g.unread \o c
    BY <2>2, <2>5
  <2> HIDE DEF e
  <2>8. Said(i, e.sent) = Said(i, g.sent) \o c
    BY <2>4, <2>7 DEF x
  <2> HIDE DEF c
  <2> QED BY <1>1, <2>1, <2>5, <2>6, <2>7, <2>8, SshStep DEF g
<1>3. CASE SshLeaves(i)
  <2> DEFINE e == [g EXCEPT !.st = "leaving"]
             c == <<>>
  <2>1. ssh' = [ssh EXCEPT ![i] = e]
    BY <1>3 DEF SshLeaves
  <2>2. /\ DOMAIN g = {"st", "id", "sent", "unread", "got"} /\ g.sent \in Nat /\ g.unread \in Seq(Chunk)
        /\ g \in SshEnd
    BY <1>1 DEF SshEnd
  <2> HIDE DEF g
  <2>3. c \in Seq(Chunk) /\ g.unread = g.unread \o c
    BY <2>2, Cat
  <2>4. Said(i, g.sent) \in Seq(Chunk)
    <3>1. \A m \in Nat : <<i, m>> \in Chunk
      BY <1>1 DEF Chunk
    <3> QED BY <2>2, <3>1 DEF Said
  <2>5. Said(i, g.sent) = Said(i, g.sent) \o c
    BY <2>4, Cat
  <2>6. e \in SshEnd /\ e.id = g.id /\ e.st = "leaving" /\ e.got = g.got /\ e.sent = g.sent /\ e.unread = g.unread
    BY <2>2 DEF SshEnd
  <2> HIDE DEF e, c
  <2>7. e.unread = g.unread \o c /\ Said(i, e.sent) = Said(i, g.sent) \o c
    BY <2>3, <2>5, <2>6
  <2> QED BY <1>1, <2>1, <2>3, <2>6, <2>7, SshStep DEF g
<1> QED BY <1>2, <1>3

LEMMA SshConnectsStep ==
  ASSUME ForwardInv, NEW i \in Sshs, SshConnects(i)
  PROVE  ForwardInv'
<1> DEFINE r == Daemon
           t == After
           e == [ssh[i] EXCEPT !.st = "waiting"]
<1>0. ClientInv /\ DaemonInv(r, up)
  BY DEF ForwardInv
<1>1. /\ ssh[i].st = "idle" /\ ssh' = [ssh EXCEPT ![i] = e]
      /\ UNCHANGED <<fds, streams, next, clients, up, down, hung, bridges, current, made, agent>>
  BY DEF SshConnects, loopVars, lineVars, clientVars
<1>2. /\ DOMAIN r = Fields /\ r.fds = fds /\ r.streams = streams /\ r.next = next /\ r.clients = clients
      /\ r.down = down /\ r.hung = hung /\ r.ssh = ssh
  BY DEF Daemon, Fields
<1>3. /\ DOMAIN t = Fields /\ t.fds = fds /\ t.streams = streams /\ t.next = next /\ t.clients = clients
      /\ t.down = down /\ t.hung = hung /\ t.ssh = [ssh EXCEPT ![i] = e]
  BY <1>1 DEF After, Fields
<1> HIDE DEF r, t
<1>4. /\ ssh \in [Sshs -> SshEnd] /\ DOMAIN clients \subseteq 1..made
      /\ \A l \in DOMAIN clients : clients[l].dead \in BOOLEAN /\ DOMAIN clients[l] = {"fd", "dead"}
      /\ \A j \in DOMAIN streams :
            /\ streams[j].client \in DOMAIN clients
            /\ streams[j].ssh \in Sshs /\ ssh[streams[j].ssh].st \in {"open", "leaving"}
  BY <1>0, <1>2 DEF DaemonInv, Shape, Owned
<1>5. e \in SshEnd
  <2>1. ssh[i] \in SshEnd
    BY <1>4
  <2> QED BY <2>1 DEF SshEnd
<1> HIDE DEF e
<1>6. t.ssh \in [Sshs -> SshEnd] /\ \A l \in Sshs \ {i} : t.ssh[l] = ssh[l]
  BY <1>3, <1>4, <1>5
<1>7. Aside(r, t)
  BY <1>1, <1>2, <1>3, <1>4, <1>6 DEF Aside
<1>8. DaemonInv(After, up')
  BY <1>0, <1>1, <1>7, AsideKeeps DEF t
<1>9. ClientInv'
  BY <1>0, <1>1 DEF ClientInv
<1> QED BY <1>1, <1>8, <1>9, Carries DEF ForwardInv

LEMMA AgentStep ==
  ASSUME ForwardInv, NEW id \in DOMAIN bridges, NEW e \in AgentEnd, e.got = agent[id].got, e.sent <= Len(e.got),
         NEW c \in Seq(Chunk), e.unread = agent[id].unread \o c,
         SubSeq(e.got, 1, e.sent) = SubSeq(e.got, 1, agent[id].sent) \o c,
         agent' = [agent EXCEPT ![id] = e],
         UNCHANGED <<fds, streams, next, clients, up, down, hung, ssh, bridges, current, made>>
  PROVE  ForwardInv'
<1>0. ClientInv /\ DaemonInv(Daemon, up)
  BY DEF ForwardInv
<1>1. DOMAIN agent = DOMAIN bridges /\ agent' = [agent EXCEPT ![id] = e] /\ DOMAIN agent' = DOMAIN agent
  BY <1>0 DEF ClientInv
<1>2. agent'[id] = e /\ \A j \in DOMAIN bridges : j # id => agent'[j] = agent[j]
  BY <1>1
<1>3. ClientInv'
  BY <1>0, <1>1, <1>2 DEF ClientInv
<1>4. Daemon' = Daemon
  BY DEF Daemon
<1>5. Shape(Daemon, up)' /\ Owned(Daemon)' /\ Called(Daemon)' /\ Drawn(Daemon, up)' /\ Opens(Daemon)'
  <2>1. Shape(Daemon, up)' /\ Owned(Daemon)' /\ Called(Daemon)'
    BY <1>0, <1>4 DEF DaemonInv, Shape, Owned, Called
  <2>2. Drawn(Daemon, up)'
    BY <1>0, <1>4 DEF DaemonInv, Drawn
  <2>3. Opens(Daemon)'
    <3>1. Opens(Daemon)
      BY <1>0 DEF DaemonInv
    <3>2. DOMAIN bridges' = DOMAIN bridges
      BY <1>1
    <3> QED BY <1>4, <3>1, <3>2, SMTT(30) DEF Opens
  <2> QED BY <2>1, <2>2, <2>3
<1>6. Flows(Daemon, up)'
  <2> SUFFICES ASSUME NEW j \in Served(Daemon)' PROVE Flow(Daemon, up, j)'
    BY DEF Flows
  <2>1. j \in Served(Daemon) /\ (Opening(Daemon, j)' <=> Opening(Daemon, j))
    BY <1>4 DEF Served, Opening
  <2>2. Flow(Daemon, up, j)
    BY <1>0, <2>1 DEF DaemonInv, Flows
  <2>3. CASE j # id
    BY <1>2, <1>4, <2>1, <2>2, <2>3 DEF Flow
  <2>4. CASE j = id
    <3> DEFINE i == streams[id].ssh
               g == ssh[i].got
               o == streams[id].out
               x == Chunks(up[current], id)
               w == agent[id].unread
    <3>1. /\ i \in Sshs /\ o \in Seq(Chunk) /\ ssh \in [Sshs -> SshEnd] /\ up \in [Conns -> Seq(Wire)]
          /\ Daemon.ssh = ssh /\ Daemon.streams = streams /\ Daemon.down = down /\ current \in Conns
      BY <1>0, <2>1, <2>4, Parts, Known DEF DaemonInv, Shape, Owned, Served
    <3>2. g \in Seq(Chunk) /\ x \in Seq(Chunk) /\ w \in Seq(Chunk) /\ c \in Seq(Chunk) /\ o \in Seq(Chunk)
      <4>1. ssh[i] \in SshEnd /\ agent[id] \in AgentEnd /\ up[current] \in Seq(Wire)
        BY <1>0, <3>1 DEF ClientInv
      <4> QED BY <3>1, <4>1, ChunksCat DEF SshEnd, AgentEnd
    <3>3. g \o o \o x \o w = SubSeq(agent[id].got, 1, agent[id].sent)
      BY <2>2, <2>4, <3>1 DEF Flow
    <3>4. ((g \o o) \o x) \o (w \o c) = (((g \o o) \o x) \o w) \o c
      <4> HIDE DEF g, o, x, w
      <4>1. ((g \o o) \o x) \in Seq(Chunk)
        BY ONLY <3>2
      <4> QED BY ONLY <3>2, <4>1, Chain, Zenon
    <3>5. g \o o \o x \o e.unread = SubSeq(e.got, 1, e.sent)
      BY <3>3, <3>4
    <3>6. /\ agent'[id].got \o bridges[id] \o Chunks(down[current], id) \o ssh[i].unread = Said(i, ssh[i].sent)
      BY <1>2, <2>2, <2>4, <3>1 DEF Flow
    <3> QED BY <1>2, <1>4, <2>1, <2>2, <2>4, <3>1, <3>5, <3>6 DEF Flow
  <2> QED BY <2>3, <2>4
<1> QED BY <1>3, <1>5, <1>6 DEF ForwardInv, DaemonInv

LEMMA AgentRepliesStep ==
  ASSUME ForwardInv, NEW id \in DOMAIN agent, AgentReplies(id) \/ AgentLeaves(id)
  PROVE  ForwardInv'
<1> DEFINE a == agent[id]
<1>1. /\ a.st = "open" /\ a \in AgentEnd /\ a.sent <= Len(a.got) /\ id \in DOMAIN bridges
      /\ UNCHANGED <<fds, streams, next, clients, up, down, hung, ssh, bridges, current, made>>
  BY DEF ForwardInv, ClientInv, AgentReplies, AgentLeaves, loopVars, lineVars, clientVars
<1>2. /\ DOMAIN a = {"st", "got", "sent", "unread"} /\ a.got \in Seq(Chunk) /\ a.sent \in Nat /\ a.unread \in Seq(Chunk)
      /\ Len(a.got) \in Nat
  <2> HIDE DEF a
  <2> QED BY <1>1 DEF AgentEnd
<1>3. CASE AgentReplies(id)
  <2> DEFINE x == a.got[a.sent + 1]
             e == [a EXCEPT !.sent = @ + 1, !.unread = Append(@, x)]
             c == <<x>>
  <2>1. agent' = [agent EXCEPT ![id] = e] /\ a.sent < Len(a.got)
    BY <1>3 DEF AgentReplies
  <2> HIDE DEF a
  <2>2. a.sent + 1 \in 1..Len(a.got) /\ a.sent + 1 \in Nat /\ x \in Chunk /\ a.sent + 1 <= Len(a.got)
    BY <1>2, <2>1
  <2>3. SubSeq(a.got, 1, a.sent + 1) = SubSeq(a.got, 1, a.sent) \o <<x>>
    <3>1. a.sent + 1 \in 1..Len(a.got) /\ 1 \in 1..Len(a.got) /\ (a.sent + 1) - 1 = a.sent /\ 1 <= a.sent + 1
      BY <1>2, <2>2
    <3>2. a.got \in Seq(Chunk)
      BY <1>2
    <3> DEFINE s == a.got
               n == a.sent + 1
    <3>3. s \in Seq(Chunk) /\ n \in 1..Len(s) /\ 1 \in 1..Len(s) /\ 1 <= n
      BY <3>1, <3>2
    <3> HIDE DEF s, n
    <3>4. SubSeq(s, 1, n) = SubSeq(s, 1, n - 1) \o <<s[n]>>
      BY <3>3, SubSeqRecursiveSecond
    <3> QED BY <3>1, <3>4 DEF s, n
  <2> HIDE DEF x
  <2>4. c \in Seq(Chunk) /\ Append(a.unread, x) = a.unread \o c /\ Append(a.unread, x) \in Seq(Chunk)
    BY <1>2, <2>2, CatOne
  <2>5. e \in AgentEnd
    BY <1>1, <1>2, <2>2, <2>4 DEF AgentEnd
  <2>6. e.got = a.got /\ e.sent = a.sent + 1 /\ e.unread = a.unread \o c
    BY <1>2, <2>4
  <2> HIDE DEF e
  <2>7. SubSeq(e.got, 1, e.sent) = SubSeq(e.got, 1, a.sent) \o c /\ e.sent <= Len(e.got)
    BY <2>2, <2>3, <2>6
  <2> HIDE DEF c
  <2> QED BY <1>1, <2>1, <2>4, <2>5, <2>6, <2>7, AgentStep DEF a
<1>4. CASE AgentLeaves(id)
  <2> DEFINE e == [a EXCEPT !.st = "leaving"]
             c == <<>>
  <2>1. agent' = [agent EXCEPT ![id] = e]
    BY <1>4 DEF AgentLeaves
  <2> HIDE DEF a
  <2>2. e \in AgentEnd /\ e.got = a.got /\ e.sent = a.sent /\ e.unread = a.unread
    BY <1>1, <1>2 DEF AgentEnd
  <2> HIDE DEF e
  <2>3. c \in Seq(Chunk) /\ e.unread = a.unread \o c
    BY <1>2, <2>2, Cat
  <2>4. SubSeq(a.got, 1, a.sent) \in Seq(Chunk)
    <3>1. \A p \in 1..a.sent : a.got[p] \in Chunk
      BY <1>1, <1>2
    <3> QED BY <1>1, <1>2, <3>1, SubSeqProperties
  <2>5. SubSeq(e.got, 1, e.sent) = SubSeq(e.got, 1, a.sent) \o c /\ e.sent <= Len(e.got)
    BY <1>1, <2>2, <2>4, Cat
  <2> HIDE DEF c
  <2> QED BY <1>1, <2>1, <2>2, <2>3, <2>5, AgentStep DEF a
<1> QED BY <1>3, <1>4

-----------------------------------------------------------------------------
(* Steps of the client.                                                     *)

LEMMA ConnectsStep ==
  ASSUME ForwardInv, Connects
  PROVE  ForwardInv'
<1>0. ClientInv /\ DaemonInv(Daemon, up)
  BY DEF ForwardInv
<1>1. /\ current = 0 /\ made < MaxConn /\ current' = made + 1 /\ made' = made + 1 /\ bridges = <<>>
      /\ UNCHANGED <<fds, streams, next, clients, up, down, hung, ssh, bridges, agent>>
  BY <1>0 DEF Connects, ClientInv, loopVars, lineVars
<1>2. made \in Nat /\ MaxConn \in Nat /\ made + 1 \in Conns /\ made + 1 \in 1..(made + 1) /\ made + 1 \notin 1..made
  BY <1>0, <1>1, Known, AgentAssumption DEF Conns
<1>3. ClientInv'
  BY <1>0, <1>1, <1>2 DEF ClientInv
<1>4. Daemon' = Daemon
  BY <1>1 DEF Daemon
<1>5. Shape(Daemon, up)'
  BY <1>0, <1>1, <1>2, <1>4 DEF DaemonInv, Shape
<1>6. Owned(Daemon)' /\ Called(Daemon)'
  BY <1>0, <1>4 DEF DaemonInv, Owned, Called
<1>7. Drawn(Daemon, up)'
  <2>1. (1..(made + 1)) \ {made + 1} = 1..made /\ (1..made) \ {0} = 1..made
    BY <1>2
  <2>2. /\ \A k \in Conns : \A p \in DOMAIN Daemon.down[k] : Daemon.down[k][p].id < Daemon.next
        /\ \A k \in Conns : \A p \in DOMAIN up[k] : up[k][p].id < Daemon.next /\ up[k][p].t \in {"data", "close"}
        /\ \A k \in Conns \ {0} : Daemon.down[k] = <<>>
        /\ \A k \in Conns : <<"client", k>> \in Daemon.hung <=> k \in 1..made
    BY <1>0, <1>1, <2>1 DEF DaemonInv, Drawn
  <2>3. \A k \in Conns \ {made + 1} : Daemon.down[k] = <<>>
    BY <2>2 DEF Conns
  <2> HIDE DEF DaemonInv
  <2> QED BY ONLY <1>1, <1>4, <2>1, <2>2, <2>3 DEF Drawn
<1>8. Opens(Daemon)'
  <2>1. Daemon.down[made + 1] = <<>>
    BY <1>0, <1>1, <1>2 DEF DaemonInv, Drawn
  <2>2. DOMAIN <<>> = {}
    OBVIOUS
  <2> QED BY <1>1, <1>4, <2>1, <2>2 DEF Opens
<1>9. Flows(Daemon, up)'
  <2>1. \A j \in DOMAIN Daemon.streams : Daemon.streams[j].client \in 1..made
    BY <1>0 DEF DaemonInv, Owned, Shape
  <2>2. Served(Daemon)' = {}
    BY <1>1, <1>2, <1>4, <2>1 DEF Served
  <2> QED BY <2>2 DEF Flows
<1> QED BY <1>3, <1>5, <1>6, <1>7, <1>8, <1>9 DEF ForwardInv, DaemonInv

LEMMA FailStep ==
  ASSUME ForwardInv, Fail, current # 0, UNCHANGED <<fds, streams, next, clients, up, ssh>>
  PROVE  ForwardInv'
<1>0. ClientInv /\ DaemonInv(Daemon, up)
  BY DEF ForwardInv
<1>1. /\ current' = 0 /\ bridges' = <<>> /\ agent' = Shut(DOMAIN bridges) /\ made' = made
      /\ hung' = hung \cup {<<"client", current>>} /\ down' = [down EXCEPT ![current] = <<>>]
      /\ UNCHANGED <<fds, streams, next, clients, up, ssh>>
  BY DEF Fail
<1>2. /\ Daemon.fds = fds /\ Daemon.streams = streams /\ Daemon.next = next /\ Daemon.clients = clients
      /\ Daemon.down = down /\ Daemon.hung = hung /\ Daemon.ssh = ssh
      /\ Daemon'.fds = fds /\ Daemon'.streams = streams /\ Daemon'.next = next /\ Daemon'.clients = clients
      /\ Daemon'.down = down' /\ Daemon'.hung = hung' /\ Daemon'.ssh = ssh
      /\ DOMAIN Daemon' = DOMAIN Daemon
  BY <1>1 DEF Daemon
<1>3. ClientInv'
  <2>1. DOMAIN agent' = {} /\ DOMAIN bridges' = {}
    <3>1. DOMAIN agent = DOMAIN bridges
      BY <1>0 DEF ClientInv
    <3>2. DOMAIN agent' = DOMAIN agent \ DOMAIN bridges
      BY <1>1 DEF Shut, Restrict
    <3>3. DOMAIN bridges' = {}
      BY <1>1
    <3> QED BY <3>1, <3>2, <3>3
  <2>2. made \in Nat /\ 0 \in 0..made
    BY <1>0, Known
  <2> QED BY <1>0, <1>1, <2>1, <2>2 DEF ClientInv
<1>4. current \in Conns /\ current \in 1..made /\ down \in [Conns -> Seq(Wire)]
  BY <1>0, <1>2, Known DEF DaemonInv, Shape
<1>5. down' \in [Conns -> Seq(Wire)] /\ \A k \in Conns : down'[k] = <<>>
  <2>1. \A k \in Conns \ {current} : down[k] = <<>>
    BY <1>0, <1>2 DEF DaemonInv, Drawn
  <2> QED BY <1>1, <1>4, <2>1
<1>6. Shape(Daemon, up)'
  BY <1>0, <1>1, <1>2, <1>5 DEF DaemonInv, Shape
<1>7. Owned(Daemon)' /\ Called(Daemon)'
  BY <1>0, <1>1, <1>2 DEF DaemonInv, Owned, Called
<1>8. Drawn(Daemon, up)'
  <2>1. \A k \in Conns : <<"client", k>> \in hung' <=> k \in (1..made) \ {0}
    <3> SUFFICES ASSUME NEW k \in Conns PROVE <<"client", k>> \in hung' <=> k \in (1..made) \ {0}
      OBVIOUS
    <3>1. <<"client", k>> \in hung <=> k \in (1..made) \ {current}
      BY <1>0, <1>2 DEF DaemonInv, Drawn
    <3>2. <<"client", k>> = <<"client", current>> <=> k = current
      OBVIOUS
    <3>3. k # 0
      BY DEF Conns
    <3> QED BY <1>1, <1>4, <3>1, <3>2, <3>3
  <2>2. \A k \in Conns : DOMAIN down'[k] = {}
    BY <1>5
  <2>3. \A k \in Conns : \A p \in DOMAIN up[k] : up[k][p].id < next /\ up[k][p].t \in {"data", "close"}
    BY <1>0, <1>2 DEF DaemonInv, Drawn
  <2> QED BY <1>1, <1>2, <1>5, <2>1, <2>2, <2>3 DEF Drawn
<1>9. Opens(Daemon)'
  <2>1. DOMAIN bridges' = {}
    BY <1>1
  <2> QED BY <1>1, <2>1 DEF Opens
<1>10. Flows(Daemon, up)'
  <2>1. \A j \in DOMAIN streams : streams[j].client \in 1..made
    BY <1>0, <1>2 DEF DaemonInv, Owned, Shape
  <2>2. Served(Daemon)' = {}
    BY <1>1, <1>2, <2>1 DEF Served
  <2> QED BY <2>2 DEF Flows
<1> QED BY <1>3, <1>6, <1>7, <1>8, <1>9, <1>10 DEF ForwardInv, DaemonInv

LEMMA DisconnectsStep ==
  ASSUME ForwardInv, NEW asked \in BOOLEAN, Disconnects(asked)
  PROVE  ForwardInv'
  BY FailStep DEF Disconnects, loopVars

\* What goes on the wire to the daemon.
Tells(b) ==
    /\ b \in Seq(Wire) /\ \A p \in DOMAIN b : b[p].id < next /\ b[p].t \in {"data", "close"}
    /\ up' = [up EXCEPT ![current] = @ \o b]

\* What the connection in use still has to bring, when the client has read or not.
Rest == \/ UNCHANGED down
        \/ down[current] # <<>> /\ down' = [down EXCEPT ![current] = Tail(@)]

LEMMA LineKeeps ==
  ASSUME ForwardInv, current # 0, NEW b, Tells(b), Rest,
         UNCHANGED <<fds, streams, next, clients, ssh, hung, current, made>>
  PROVE  /\ Shape(Daemon, up)' /\ Owned(Daemon)' /\ Called(Daemon)' /\ Drawn(Daemon, up)'
         /\ \A id : Chunks(up'[current], id) = Chunks(up[current], id) \o Chunks(b, id)
<1>0. ClientInv /\ DaemonInv(Daemon, up)
  BY DEF ForwardInv
<1>2. /\ Daemon.fds = fds /\ Daemon.streams = streams /\ Daemon.next = next /\ Daemon.clients = clients
      /\ Daemon.down = down /\ Daemon.hung = hung /\ Daemon.ssh = ssh
      /\ Daemon'.fds = fds /\ Daemon'.streams = streams /\ Daemon'.next = next /\ Daemon'.clients = clients
      /\ Daemon'.down = down' /\ Daemon'.hung = hung /\ Daemon'.ssh = ssh
      /\ DOMAIN Daemon' = DOMAIN Daemon
  BY DEF Daemon
<1>3. /\ current \in Conns /\ down \in [Conns -> Seq(Wire)] /\ up \in [Conns -> Seq(Wire)]
      /\ \A k \in Conns : \A p \in DOMAIN down[k] : down[k][p].id < next
      /\ \A k \in Conns : \A p \in DOMAIN up[k] : up[k][p].id < next /\ up[k][p].t \in {"data", "close"}
      /\ \A k \in Conns \ {current} : down[k] = <<>>
      /\ \A k \in Conns : <<"client", k>> \in hung <=> k \in (1..made) \ {current}
  BY <1>0, <1>2, Known DEF DaemonInv, Shape, Drawn
<1> DEFINE a == up[current]
           d == down[current]
<1>4. a \in Seq(Wire) /\ b \in Seq(Wire) /\ d \in Seq(Wire)
  BY <1>3 DEF Tells
<1> HIDE DEF a, d
<1>5. a \o b \in Seq(Wire)
  BY <1>4, Cat
<1>6. /\ DOMAIN a = 1..Len(a) /\ DOMAIN (a \o b) = 1..(Len(a) + Len(b)) /\ DOMAIN b = 1..Len(b)
      /\ \A p \in 1..Len(a) : (a \o b)[p] = a[p]
      /\ \A p \in 1..(Len(a) + Len(b)) : p \in 1..Len(a) \/ (p - Len(a) \in 1..Len(b) /\ (a \o b)[p] = b[p - Len(a)])
  BY ONLY <1>4, CatLength
<1>7. \A p \in DOMAIN (a \o b) : (a \o b)[p].id < next /\ (a \o b)[p].t \in {"data", "close"}
  <2>1. \A p \in DOMAIN a : a[p].id < next /\ a[p].t \in {"data", "close"}
    BY <1>3 DEF a
  <2>2. \A p \in DOMAIN b : b[p].id < next /\ b[p].t \in {"data", "close"}
    BY DEF Tells
  <2> QED BY ONLY <1>6, <2>1, <2>2
<1> DEFINE ab == a \o b
<1>8. up' = [up EXCEPT ![current] = ab]
  BY DEF Tells, a
<1> HIDE DEF ab
<1>9. /\ up' \in [Conns -> Seq(Wire)] /\ up'[current] = ab
      /\ \A k \in Conns : k # current => up'[k] = up[k]
  BY <1>3, <1>5, <1>8 DEF ab
<1>10. \A k \in Conns : \A p \in DOMAIN up'[k] : up'[k][p].id < next /\ up'[k][p].t \in {"data", "close"}
  BY <1>3, <1>7, <1>9 DEF ab
<1>11. /\ down' \in [Conns -> Seq(Wire)] /\ \A k \in Conns : k # current => down'[k] = down[k]
       /\ \A p \in DOMAIN down'[current] : \E q \in DOMAIN d : down'[current][p] = d[q]
  <2>1. CASE UNCHANGED down
    BY <1>3, <2>1 DEF d
  <2>2. CASE d # <<>> /\ down' = [down EXCEPT ![current] = Tail(d)]
    <3>1. Tail(d) \in Seq(Wire) /\ \A p \in DOMAIN Tail(d) : p + 1 \in DOMAIN d /\ Tail(d)[p] = d[p + 1]
      BY <1>4, <2>2, HeadAndTail
    <3> DEFINE w == Tail(d)
    <3> HIDE DEF w
    <3>2. w \in Seq(Wire) /\ down' = [down EXCEPT ![current] = w] /\ \A p \in DOMAIN w : \E q \in DOMAIN d : w[p] = d[q]
      BY <2>2, <3>1 DEF w
    <3> QED BY <1>3, <3>2
  <2> QED BY <2>1, <2>2 DEF Rest, d
<1>12. \A k \in Conns : \A p \in DOMAIN down'[k] : down'[k][p].id < next
  BY <1>3, <1>11 DEF d
<1>13. Shape(Daemon, up)'
  BY <1>0, <1>2, <1>9, <1>11 DEF DaemonInv, Shape
<1>14. Owned(Daemon)' /\ Called(Daemon)'
  BY <1>0, <1>2 DEF DaemonInv, Owned, Called
<1>15. Drawn(Daemon, up)'
  BY <1>2, <1>3, <1>10, <1>11, <1>12 DEF Drawn
<1>16. \A id : Chunks(up'[current], id) = Chunks(up[current], id) \o Chunks(b, id)
  <2>1. \A id : Chunks(a \o b, id) = Chunks(a, id) \o Chunks(b, id)
    BY ONLY <1>4, ChunksCat
  <2> QED BY <1>9, <2>1 DEF ab, a
<1> QED BY <1>13, <1>14, <1>15, <1>16

LEMMA Reading ==
  ASSUME ForwardInv, NEW t, Reads(t)
  PROVE  /\ current # 0 /\ current \in Conns /\ Rest
         /\ Read \in Wire /\ Read.t = t /\ Read.id \in Nat /\ Read.id < next
         /\ UNCHANGED <<fds, streams, next, clients, ssh, hung, current, made>>
         /\ 1 \in DOMAIN down[current] /\ down[current][1] = Read
         /\ \A p \in DOMAIN down'[current] :
               p \in Int /\ p + 1 \in DOMAIN down[current] /\ down'[current][p] = down[current][p + 1]
         /\ Taken(down, down', current, Read)
<1> DEFINE d == down[current]
           f == Read
<1>0. ClientInv /\ DaemonInv(Daemon, up)
  BY DEF ForwardInv
<1>1. /\ current # 0 /\ d # <<>> /\ f.t = t /\ down' = [down EXCEPT ![current] = Tail(d)]
      /\ UNCHANGED <<fds, streams, next, clients, ssh, hung, current, made>>
  BY DEF Reads, Read, loopVars
<1>2. current \in Conns /\ down \in [Conns -> Seq(Wire)]
  BY <1>0, <1>1, Parts, Known DEF DaemonInv, Shape
<1>3. d \in Seq(Wire) /\ f = Head(d)
  BY <1>2 DEF Read
<1> HIDE DEF d, f
<1>4. /\ f \in Wire /\ Tail(d) \in Seq(Wire) /\ f = d[1] /\ 1 \in DOMAIN d
      /\ DOMAIN Tail(d) = 1..(Len(d) - 1)
      /\ \A p \in DOMAIN Tail(d) : p + 1 \in DOMAIN d /\ Tail(d)[p] = d[p + 1]
  BY <1>1, <1>3, HeadAndTail
<1>5. f.id \in Nat /\ f.id < next
  <2>1. d[1].id < next
    BY <1>0, <1>2, <1>4, Parts DEF DaemonInv, Drawn, d
  <2> QED BY <1>4, <2>1 DEF Wire
<1>6. Took(down, down', current, f)
  BY <1>1, <1>3 DEF Took, d
<1>7. Taken(down, down', current, f)
  BY <1>2, <1>6, Takes
<1>8. \A p \in DOMAIN Tail(d) : p \in Int
  BY <1>4
<1> DEFINE w == Tail(d)
<1>9. down' = [down EXCEPT ![current] = w]
  BY <1>1
<1> HIDE DEF w
<1>10. down'[current] = w
  BY <1>2, <1>9
<1>11. Rest
  BY <1>1 DEF Rest, d
<1> QED BY <1>1, <1>2, <1>4, <1>5, <1>7, <1>8, <1>10, <1>11 DEF d, f, w

LEMMA OpensRead ==
  ASSUME ForwardInv, NEW t, Reads(t), NEW id, id = Read.id,
         \A j \in DOMAIN bridges' : j \in DOMAIN bridges \/ (t = "open" /\ j = id)
  PROVE  /\ Opens(Daemon)' /\ (t = "open" => ~Opening(Daemon, id)')
         /\ t = "open" => Opening(Daemon, id) /\ id \notin DOMAIN bridges
         /\ t = "data" => ~Opening(Daemon, id)
         /\ \A j : Opening(Daemon, j)' => Opening(Daemon, j)
<1> DEFINE d == down[current]
           w == down'[current]
           f == Read
<1>0. Opens(Daemon)
  BY DEF ForwardInv, DaemonInv
<1>1. /\ current # 0 /\ f.t = t /\ f.id < next
      /\ UNCHANGED <<streams, next, current>>
      /\ 1 \in DOMAIN d /\ d[1] = f
      /\ \A p \in DOMAIN w : p \in Int /\ p + 1 \in DOMAIN d /\ w[p] = d[p + 1]
  BY Reading
<1>2. /\ Daemon.streams = streams /\ Daemon.next = next /\ Daemon.down = down
      /\ Daemon'.streams = streams /\ Daemon'.next = next /\ Daemon'.down = down'
  BY <1>1 DEF Daemon
<1>3. /\ \A p \in DOMAIN d : d[p].t = "open" =>
              /\ d[p].id \notin DOMAIN bridges
              /\ d[p].id \in DOMAIN streams => streams[d[p].id].client = current
              /\ \A q \in DOMAIN d : d[q].id = d[p].id /\ d[q].t \in {"open", "data"} => p <= q
      /\ \A j \in DOMAIN bridges : j < next /\ (j \in DOMAIN streams => streams[j].client = current)
  BY <1>0, <1>1, <1>2 DEF Opens
<1>4. /\ \A j : Opening(Daemon, j) <=> \E p \in DOMAIN d : d[p].t = "open" /\ d[p].id = j
      /\ \A j : Opening(Daemon, j)' <=> \E p \in DOMAIN w : w[p].t = "open" /\ w[p].id = j
  BY <1>1, <1>2 DEF Opening
<1>id. id = f.id
  OBVIOUS
<1> HIDE DEF d, w, f
<1>p. \A p \in DOMAIN w : p \in Int
  BY <1>1
<1>5. \A p \in DOMAIN w : w[p].t = "open" /\ t = "open" => w[p].id # f.id
  <2> SUFFICES ASSUME NEW p \in DOMAIN w, w[p].t = "open", t = "open", w[p].id = f.id PROVE FALSE
    OBVIOUS
  <2>1. p + 1 <= 1 /\ 1 <= p + 1
    BY <1>1, <1>3
  <2>2. p + 1 = 1 /\ p = 0
    BY <1>p, <2>1
  <2>3. w[p] = f /\ 0 \in DOMAIN w
    BY <1>1, <2>2
  <2>4. down' \in [Conns -> Seq(Wire)] /\ current \in Conns
    BY Reading DEF Taken
  <2>5. 0 \notin DOMAIN w
    BY <2>4 DEF w
  <2> QED BY <2>3, <2>5
<1>6. \A p \in DOMAIN w : w[p].t = "open" =>
            /\ w[p].id \notin DOMAIN bridges'
            /\ w[p].id \in DOMAIN streams => streams[w[p].id].client = current
            /\ \A q \in DOMAIN w : w[q].id = w[p].id /\ w[q].t \in {"open", "data"} => p <= q
  <2> SUFFICES ASSUME NEW p \in DOMAIN w, w[p].t = "open"
               PROVE  /\ w[p].id \notin DOMAIN bridges'
                      /\ w[p].id \in DOMAIN streams => streams[w[p].id].client = current
                      /\ \A q \in DOMAIN w : w[q].id = w[p].id /\ w[q].t \in {"open", "data"} => p <= q
    OBVIOUS
  <2>1. p + 1 \in DOMAIN d /\ w[p] = d[p + 1]
    BY <1>1
  <2>2. w[p].id \notin DOMAIN bridges'
    BY <1>3, <1>5, <1>id, <2>1
  <2>3. \A q \in DOMAIN w : w[q].id = w[p].id /\ w[q].t \in {"open", "data"} => p <= q
    <3> SUFFICES ASSUME NEW q \in DOMAIN w, w[q].id = w[p].id, w[q].t \in {"open", "data"} PROVE p <= q
      OBVIOUS
    <3>1. q + 1 \in DOMAIN d /\ w[q] = d[q + 1] /\ p \in Int /\ q \in Int
      BY <1>1
    <3>2. p + 1 <= q + 1
      BY <1>3, <2>1, <3>1
    <3> QED BY <3>1, <3>2
  <2> QED BY <1>3, <2>1, <2>2, <2>3
<1>7. t = "open" /\ f.id \in DOMAIN streams => streams[f.id].client = current
  BY <1>1, <1>3
<1>8. \A j \in DOMAIN bridges' : j < next /\ (j \in DOMAIN streams => streams[j].client = current)
  BY <1>1, <1>3, <1>7, <1>id
<1>9. Opens(Daemon)'
  BY <1>1, <1>2, <1>6, <1>8 DEF Opens, w
<1>10. t = "open" => ~Opening(Daemon, id)'
  BY <1>4, <1>5, <1>id
<1>11. t = "open" => Opening(Daemon, f.id) /\ f.id \notin DOMAIN bridges
  BY <1>1, <1>3, <1>4
<1>12. t = "data" => ~Opening(Daemon, f.id)
  <2> SUFFICES ASSUME t = "data", NEW p \in DOMAIN d, d[p].t = "open", d[p].id = f.id PROVE FALSE
    BY <1>4
  <2>1. p <= 1
    BY <1>1, <1>3
  <2>2. down \in [Conns -> Seq(Wire)] /\ current \in Conns
    BY Reading, Parts DEF ForwardInv, DaemonInv, Shape
  <2>3. p >= 1 /\ p \in Int
    BY <2>2 DEF d
  <2>4. p = 1
    BY <2>1, <2>3
  <2> QED BY <1>1, <2>4
<1>13. \A j : Opening(Daemon, j)' => Opening(Daemon, j)
  BY <1>1, <1>4
<1> QED BY <1>9, <1>10, <1>11, <1>12, <1>13, <1>id

\* Nothing happens to the other streams.
Apart(id) ==
    \A j : j # id =>
        /\ Opening(Daemon, j)' => Opening(Daemon, j)
        /\ Chunks(down'[current], j) = Chunks(down[current], j)
        /\ Chunks(up'[current], j) = Chunks(up[current], j)
        /\ j \in DOMAIN bridges' => j \in DOMAIN bridges /\ bridges'[j] = bridges[j] /\ agent'[j] = agent[j]

LEMMA ClientFlow ==
  ASSUME ForwardInv, UNCHANGED <<streams, clients, ssh, current>>, NEW id, Apart(id),
         id \in Served(Daemon) => Flow(Daemon, up, id)'
  PROVE  Flows(Daemon, up)'
<1>1. /\ Daemon.streams = streams /\ Daemon.clients = clients /\ Daemon.down = down /\ Daemon.ssh = ssh
      /\ Daemon'.streams = streams /\ Daemon'.clients = clients /\ Daemon'.down = down' /\ Daemon'.ssh = ssh
  BY DEF Daemon
<1>2. Served(Daemon)' = Served(Daemon)
  BY <1>1 DEF Served
<1> SUFFICES ASSUME NEW j \in Served(Daemon), j # id PROVE Flow(Daemon, up, j)'
  BY <1>2 DEF Flows
<1>3. Flow(Daemon, up, j)
  BY DEF ForwardInv, DaemonInv, Flows
<1> QED BY <1>1, <1>3 DEF Apart, Flow

\* The parts of a stream's flow, as sequences
LEMMA FlowParts ==
  ASSUME ForwardInv, NEW id \in Served(Daemon)
  PROVE  /\ current \in Conns /\ id \in DOMAIN streams
         /\ ssh[streams[id].ssh].got \in Seq(Chunk) /\ ssh[streams[id].ssh].unread \in Seq(Chunk)
         /\ streams[id].out \in Seq(Chunk)
         /\ Chunks(up[current], id) \in Seq(Chunk) /\ Chunks(down[current], id) \in Seq(Chunk)
         /\ id \in DOMAIN bridges => /\ agent[id].got \in Seq(Chunk) /\ agent[id].unread \in Seq(Chunk)
                                     /\ bridges[id] \in Seq(Chunk) /\ agent[id] \in AgentEnd
<1>0. ClientInv /\ DaemonInv(Daemon, up)
  BY DEF ForwardInv
<1>1. /\ current \in Conns /\ id \in DOMAIN streams /\ streams[id].ssh \in Sshs /\ streams[id].out \in Seq(Chunk)
      /\ up \in [Conns -> Seq(Wire)] /\ down \in [Conns -> Seq(Wire)] /\ ssh \in [Sshs -> SshEnd]
  BY <1>0, Parts, Known DEF DaemonInv, Shape, Owned, Served
<1>2. Chunks(up[current], id) \in Seq(Chunk) /\ Chunks(down[current], id) \in Seq(Chunk)
  BY <1>1, ChunksCat
<1>3. ssh[streams[id].ssh] \in SshEnd
  BY <1>1
<1> QED BY <1>0, <1>1, <1>2, <1>3 DEF ClientInv, AgentEnd, SshEnd

\* agent_flush takes chunks from the bridge to the agent.
Passed(id, out) ==
    /\ DOMAIN bridges' = DOMAIN bridges /\ bridges'[id] \in Seq(Chunk) /\ agent'[id].got \in Seq(Chunk)
    /\ agent'[id].got \o bridges'[id] = agent[id].got \o out
    /\ agent'[id].sent = agent[id].sent /\ agent'[id].unread = agent[id].unread
    /\ SubSeq(agent'[id].got, 1, agent[id].sent) = SubSeq(agent[id].got, 1, agent[id].sent)
    /\ \A j \in DOMAIN bridges : j # id => bridges'[j] = bridges[j] /\ agent'[j] = agent[j]

LEMMA SubSeqOfCat ==
  ASSUME NEW S, NEW a \in Seq(S), NEW b \in Seq(S), NEW n \in 0..Len(a)
  PROVE  SubSeq(a \o b, 1, n) = SubSeq(a, 1, n)
<1>1. /\ a \o b \in Seq(S) /\ Len(a) \in Nat /\ DOMAIN a = 1..Len(a)
      /\ \A p \in 1..Len(a) : (a \o b)[p] = a[p] /\ a[p] \in S
  BY CatLength
<1> DEFINE c == a \o b
<1>2. \A p \in 1..n : c[p] = a[p] /\ a[p] \in S
  BY <1>1
<1> HIDE DEF c
<1>3. SubSeq(c, 1, n) = [p \in 1..n |-> c[p]] /\ SubSeq(a, 1, n) = [p \in 1..n |-> a[p]]
  BY <1>1
<1> QED BY <1>2, <1>3 DEF c

LEMMA Passes ==
  ASSUME ClientInv, NEW id \in DOMAIN bridges, NEW out \in Seq(Chunk), NEW n \in Nat,
         AgentFlush(id, out, n), UNCHANGED <<current, made>>
  PROVE  Passed(id, out) /\ ClientInv'
<1> DEFINE x == FirstN(out, n)
           y == AfterN(out, n)
           a == agent[id]
           e == [a EXCEPT !.got = @ \o x]
<1>1. /\ made \in 0..MaxConn /\ current \in 0..made /\ DOMAIN agent = DOMAIN bridges /\ current # 0
      /\ \A j \in DOMAIN bridges : /\ j \in Nat /\ bridges[j] \in Seq(Chunk) /\ agent[j] \in AgentEnd
                                   /\ agent[j].sent <= Len(agent[j].got)
  BY DEF ClientInv
<1>2. bridges' = With(bridges, id, y) /\ agent' = [agent EXCEPT ![id] = e]
  BY DEF AgentFlush
<1>3. x \in Seq(Chunk) /\ y \in Seq(Chunk) /\ x \o y = out
  BY Split
<1>4. a \in AgentEnd /\ a.sent <= Len(a.got)
  BY <1>1
<1> HIDE DEF x, y, a
<1>5. /\ DOMAIN a = {"st", "got", "sent", "unread"} /\ a.got \in Seq(Chunk) /\ a.sent \in Nat /\ a.unread \in Seq(Chunk)
      /\ Len(a.got) \in Nat
  BY <1>4 DEF AgentEnd
<1> DEFINE g == a.got \o x
<1>6. g \in Seq(Chunk) /\ Len(g) = Len(a.got) + Len(x) /\ Len(x) \in Nat
  BY <1>3, <1>5, CatLength
<1>7. SubSeq(g, 1, a.sent) = SubSeq(a.got, 1, a.sent)
  <2>1. a.sent \in 0..Len(a.got)
    BY <1>4, <1>5
  <2> QED BY <1>3, <1>5, <2>1, SubSeqOfCat
<1>8. g \o y = a.got \o out
  <2> HIDE DEF g
  <2>1. g \o y = (a.got \o x) \o y
    BY DEF g
  <2> DEFINE h == a.got
  <2>h. h \in Seq(Chunk)
    BY <1>5
  <2>x. x \in Seq(Chunk) /\ y \in Seq(Chunk)
    BY <1>3
  <2> HIDE DEF h
  <2>2. (h \o x) \o y = h \o (x \o y)
    BY ONLY <2>h, <2>x
  <2> QED BY <1>3, <2>1, <2>2 DEF h
<1>9. e = [a EXCEPT !.got = g]
  BY <1>5
<1> HIDE DEF g, e
<1>10. /\ e \in AgentEnd /\ e.got = g /\ e.sent = a.sent /\ e.unread = a.unread /\ e.sent <= Len(e.got)
  <2>1. e.got = g /\ e.sent = a.sent /\ e.unread = a.unread
    BY <1>5, <1>9
  <2>2. e \in AgentEnd
    BY <1>4, <1>6, <1>9 DEF AgentEnd
  <2>3. Len(x) >= 0 /\ Len(a.got) <= Len(a.got) + Len(x)
    BY <1>5, <1>6
  <2> QED BY <1>4, <1>5, <1>6, <2>1, <2>2, <2>3
<1>11. /\ DOMAIN bridges' = DOMAIN bridges /\ bridges'[id] = y
       /\ \A j \in DOMAIN bridges : j # id => bridges'[j] = bridges[j]
  BY <1>2 DEF With
<1>12. /\ DOMAIN agent' = DOMAIN bridges /\ agent'[id] = e
       /\ \A j \in DOMAIN bridges : j # id => agent'[j] = agent[j]
  BY <1>1, <1>2
<1>13. ClientInv'
  BY <1>1, <1>3, <1>10, <1>11, <1>12 DEF ClientInv
<1>14. Passed(id, out)
  BY <1>3, <1>6, <1>7, <1>8, <1>10, <1>11, <1>12 DEF Passed, a
<1> QED BY <1>13, <1>14

LEMMA BridgeFlow ==
  ASSUME ForwardInv, NEW id \in DOMAIN bridges, NEW out \in Seq(Chunk), Passed(id, out),
         UNCHANGED <<streams, clients, ssh, current, up>>,
         ~Opening(Daemon, id)', id \in Served(Daemon),
         Chunks(down'[current], id) \in Seq(Chunk),
         out \o Chunks(down'[current], id) = bridges[id] \o Chunks(down[current], id)
  PROVE  Flow(Daemon, up, id)'
<1>1. /\ Daemon.streams = streams /\ Daemon.down = down /\ Daemon.ssh = ssh
      /\ Daemon'.streams = streams /\ Daemon'.down = down' /\ Daemon'.ssh = ssh
  BY DEF Daemon
<1> DEFINE i == streams[id].ssh
           e == ssh[i]
           c == Chunks(down[current], id)
           d == Chunks(down'[current], id)
           g == agent[id].got
           h == agent'[id].got
           q == bridges[id]
           k == bridges'[id]
           un == e.unread
<1>2. /\ g \o q \o c \o un = Said(i, e.sent)
      /\ e.got \o streams[id].out \o Chunks(up[current], id) \o agent[id].unread
           = SubSeq(agent[id].got, 1, agent[id].sent)
  BY <1>1 DEF ForwardInv, DaemonInv, Flows, Flow
<1>3. g \in Seq(Chunk) /\ q \in Seq(Chunk) /\ c \in Seq(Chunk) /\ un \in Seq(Chunk) /\ d \in Seq(Chunk)
  BY FlowParts
<1>4. h \in Seq(Chunk) /\ k \in Seq(Chunk) /\ h \o k = g \o out /\ out \o d = q \o c
  BY DEF Passed
<1>o. out \in Seq(Chunk)
  OBVIOUS
<1>5. h \o k \o d \o un = g \o q \o c \o un
  <2> HIDE DEF h, k, d, un, g, q, c
  <2>1. h \o k \o d = (g \o out) \o d
    BY <1>4
  <2>2. (g \o out) \o d = g \o (out \o d)
    BY ONLY <1>3, <1>o, SMTT(40)
  <2>3. g \o (q \o c) = g \o q \o c
    BY ONLY <1>3, SMTT(40)
  <2> QED BY <1>4, <2>1, <2>2, <2>3
<1>6. h \o k \o d \o un = Said(i, e.sent)
  BY <1>2, <1>5
<1> QED BY <1>1, <1>2, <1>6 DEF Flow, Passed

\* A step of the client: what it tells the daemon, and the one stream it is about.
LEMMA ClientStep ==
  ASSUME ForwardInv, current # 0, NEW b, Tells(b), Rest,
         UNCHANGED <<fds, streams, next, clients, ssh, hung, current, made>>,
         ClientInv', Opens(Daemon)', NEW id, Apart(id),
         id \in Served(Daemon) => Flow(Daemon, up, id)'
  PROVE  ForwardInv'
<1>1. Shape(Daemon, up)' /\ Owned(Daemon)' /\ Called(Daemon)' /\ Drawn(Daemon, up)'
  BY LineKeeps
<1>2. Flows(Daemon, up)'
  BY ClientFlow
<1> QED BY <1>1, <1>2 DEF ForwardInv, DaemonInv

\* Nothing told
LEMMA TellsNothing ==
  ASSUME ForwardInv, current # 0, UNCHANGED up
  PROVE  Tells(<<>>)
<1>1. current \in Conns /\ up \in [Conns -> Seq(Wire)]
  BY Known, Parts DEF ForwardInv, DaemonInv, Shape
<1>2. up[current] \o <<>> = up[current] /\ <<>> \in Seq(Wire) /\ DOMAIN <<>> = {}
  BY <1>1, Cat
<1> QED BY <1>1, <1>2 DEF Tells

LEMMA TellsClose ==
  ASSUME ForwardInv, NEW id \in Nat, id < next
  PROVE  /\ <<Frame("close", id, <<>>)>> \in Seq(Wire)
         /\ \A p \in DOMAIN <<Frame("close", id, <<>>)>> :
               <<Frame("close", id, <<>>)>>[p].id = id /\ <<Frame("close", id, <<>>)>>[p].t = "close"
         /\ \A j : Chunks(<<Frame("close", id, <<>>)>>, j) = <<>>
<1> DEFINE f == Frame("close", id, <<>>)
<1>1. f \in Wire /\ f.t = "close" /\ f.id = id
  BY DEF Frame, Wire, Chunk
<1> HIDE DEF f
<1>2. <<f>> \in Seq(Wire) /\ \A p \in DOMAIN <<f>> : <<f>>[p] = f
  BY <1>1
<1>3. \A j : Chunks(<<f>>, j) = <<>>
  BY <1>1, ChunksOne
<1> QED BY <1>1, <1>2, <1>3 DEF f

LEMMA ReadsOpenStep ==
  ASSUME ForwardInv, NEW there \in BOOLEAN, ReadsOpen(there)
  PROVE  ForwardInv'
<1>r. Reads("open") /\ AgentOpen(Read.id, there)
  BY DEF ReadsOpen
<1>id. PICK id : id = Read.id
  OBVIOUS
<1>0. ClientInv
  BY DEF ForwardInv
<1>1. /\ current # 0 /\ current \in Conns /\ Rest
      /\ Read \in Wire /\ Read.t = "open" /\ id \in Nat /\ id < next
      /\ UNCHANGED <<fds, streams, next, clients, ssh, hung, current, made>>
      /\ Taken(down, down', current, Read)
  BY <1>r, <1>id, Reading
<1>2. \A j : Chunks(down'[current], j) = Chunks(down[current], j)
  BY <1>1 DEF Taken
<1>3. CASE there
  <2> DEFINE e == [st |-> "open", got |-> <<>>, sent |-> 0, unread |-> <<>>]
             q == <<>>
  <2>1. bridges' = With(bridges, id, q) /\ agent' = With(agent, id, e) /\ up' = up
    BY <1>r, <1>id, <1>3 DEF AgentOpen
  <2>2. q \in Seq(Chunk) /\ e \in AgentEnd /\ e.sent = 0 /\ Len(e.got) = 0 /\ e.got = q /\ e.unread = q
    BY DEF AgentEnd
  <2> HIDE DEF e
  <2>q. q = <<>>
    OBVIOUS
  <2> HIDE DEF q
  <2>3. /\ DOMAIN bridges' = DOMAIN bridges \cup {id} /\ bridges'[id] = q
        /\ DOMAIN agent' = DOMAIN agent \cup {id} /\ agent'[id] = e
        /\ \A j \in DOMAIN bridges : j # id => bridges'[j] = bridges[j]
        /\ \A j \in DOMAIN agent : j # id => agent'[j] = agent[j]
    BY <2>1 DEF With
  <2>4. /\ Opens(Daemon)' /\ ~Opening(Daemon, id)'
        /\ Opening(Daemon, id) /\ id \notin DOMAIN bridges
        /\ \A j : Opening(Daemon, j)' => Opening(Daemon, j)
    BY <1>r, <1>id, <2>3, OpensRead
  <2>5. ClientInv'
    <3>1. /\ made \in 0..MaxConn /\ current \in 0..made /\ DOMAIN agent = DOMAIN bridges
          /\ \A j \in DOMAIN bridges : /\ j \in Nat /\ bridges[j] \in Seq(Chunk) /\ agent[j] \in AgentEnd
                                       /\ agent[j].sent <= Len(agent[j].got)
      BY <1>0 DEF ClientInv
    <3>2. e.sent <= Len(e.got)
      BY <2>2
    <3>3. ASSUME NEW j \in DOMAIN bridges'
          PROVE  /\ j \in Nat /\ bridges'[j] \in Seq(Chunk) /\ agent'[j] \in AgentEnd
                 /\ agent'[j].sent <= Len(agent'[j].got)
      <4>1. CASE j = id
        BY <1>1, <2>2, <2>3, <3>2, <4>1
      <4>2. CASE j # id
        BY <2>3, <3>1, <4>2
      <4> QED BY <4>1, <4>2
    <3>4. DOMAIN agent' = DOMAIN bridges'
      BY <2>3, <3>1
    <3> QED BY <1>1, <3>1, <3>3, <3>4 DEF ClientInv
  <2>6. Apart(id)
    BY <1>0, <1>2, <2>1, <2>3, <2>4 DEF Apart, ClientInv
  <2>7. ASSUME id \in Served(Daemon) PROVE Flow(Daemon, up, id)'
    <3>1. /\ Daemon.streams = streams /\ Daemon.down = down /\ Daemon.ssh = ssh
          /\ Daemon'.streams = streams /\ Daemon'.down = down' /\ Daemon'.ssh = ssh
      BY <1>1 DEF Daemon
    <3> DEFINE i == streams[id].ssh
               s == ssh[i]
               c == Chunks(down[current], id)
               un == s.unread
    <3>2. Flow(Daemon, up, id)
      BY <2>7 DEF ForwardInv, DaemonInv, Flows
    <3>3. /\ s.got = q /\ streams[id].out = q /\ Chunks(up[current], id) = q
          /\ c \o un = Said(i, s.sent)
      BY <2>4, <2>q, <3>1, <3>2 DEF Flow
    <3>4. c \in Seq(Chunk) /\ un \in Seq(Chunk)
      BY <2>7, FlowParts
    <3>5. q \o q \o c \o un = c \o un
      <4> HIDE DEF c, un
      <4>1. q \o q = q /\ q \o c = c
        BY <2>2, <2>q, <3>4, Cat
      <4> QED BY <4>1
    <3>6. q \o q \o q \o q = q
      <4>1. q \o q = q
        BY <2>2, <2>q, Cat
      <4> QED BY <4>1
    <3>7. SubSeq(q, 1, 0) = q
      BY <2>q
    <3>8. q \o q \o c \o un = Said(i, s.sent)
      BY <3>3, <3>5
    <3> HIDE DEF c, un
    <3>9. agent'[id].got = q /\ agent'[id].unread = q /\ agent'[id].sent = 0 /\ bridges'[id] = q
      BY <2>2, <2>3
    <3>10. /\ agent'[id].got \o bridges'[id] \o Chunks(down'[current], id) \o s.unread = Said(i, s.sent)
           /\ s.got \o streams[id].out \o Chunks(up'[current], id) \o agent'[id].unread
                = SubSeq(agent'[id].got, 1, agent'[id].sent)
      BY <1>2, <2>1, <3>3, <3>6, <3>7, <3>8, <3>9 DEF c, un
    <3> QED BY <1>1, <2>4, <3>1, <3>10 DEF Flow
  <2>8. Tells(<<>>)
    BY <1>1, <2>1, TellsNothing
  <2> QED BY <1>1, <2>4, <2>5, <2>6, <2>7, <2>8, ClientStep
<1>4. CASE ~there
  <2> DEFINE b == <<Frame("close", id, <<>>)>>
  <2>1. /\ bridges' = bridges /\ agent' = agent
        /\ up' = [up EXCEPT ![current] = Append(@, Frame("close", id, <<>>))]
    BY <1>r, <1>id, <1>4 DEF AgentOpen
  <2>2. b \in Seq(Wire) /\ (\A p \in DOMAIN b : b[p].id = id /\ b[p].t = "close") /\ \A j : Chunks(b, j) = <<>>
    BY <1>1, TellsClose
  <2>3. Tells(b)
    <3>1. up \in [Conns -> Seq(Wire)]
      BY Parts DEF ForwardInv, DaemonInv, Shape
    <3>2. Append(up[current], Frame("close", id, <<>>)) = up[current] \o b
      <4>1. Frame("close", id, <<>>) \in Wire /\ up[current] \in Seq(Wire)
        BY <1>1, <3>1 DEF Frame, Wire, Chunk
      <4> QED BY <4>1, CatOne
    <3> HIDE DEF b
    <3> QED BY <1>1, <2>1, <2>2, <3>2 DEF Tells
  <2> HIDE DEF b
  <2>4. \A j : Chunks(up'[current], j) = Chunks(up[current], j)
    <3>1. \A j : Chunks(up'[current], j) = Chunks(up[current], j) \o Chunks(b, j)
      BY <1>1, <2>3, LineKeeps
    <3>2. up[current] \in Seq(Wire) /\ <<>> \in Seq(Wire)
      BY <1>1, Parts DEF ForwardInv, DaemonInv, Shape
    <3>3. \A j : Chunks(up[current], j) \in Seq(Chunk)
      BY <3>2, ChunksCat
    <3>4. \A j : Chunks(up[current], j) \o <<>> = Chunks(up[current], j)
      BY <3>3, Cat
    <3> QED BY <2>2, <3>1, <3>4
  <2>5. /\ Opens(Daemon)' /\ ~Opening(Daemon, id)'
        /\ id \notin DOMAIN bridges
        /\ \A j : Opening(Daemon, j)' => Opening(Daemon, j)
    BY <1>r, <1>id, <2>1, OpensRead
  <2>6. ClientInv'
    BY <1>0, <1>1, <2>1 DEF ClientInv
  <2>7. Apart(id)
    BY <1>2, <2>1, <2>4, <2>5 DEF Apart
  <2>8. Flow(Daemon, up, id)'
    BY <2>1, <2>5 DEF Flow
  <2> QED BY <1>1, <2>3, <2>5, <2>6, <2>7, <2>8, ClientStep
<1> QED BY <1>3, <1>4

\* The client forgets a bridge.
LEMMA Forgets ==
  ASSUME ClientInv, NEW id, UNCHANGED <<current, made>>,
         bridges' = Restrict(bridges, DOMAIN bridges \ {id}), agent' = Shut({id})
  PROVE  /\ ClientInv' /\ id \notin DOMAIN bridges'
         /\ \A j \in DOMAIN bridges' : j \in DOMAIN bridges /\ bridges'[j] = bridges[j] /\ agent'[j] = agent[j]
<1>1. /\ made \in 0..MaxConn /\ current \in 0..made /\ DOMAIN agent = DOMAIN bridges
      /\ \A j \in DOMAIN bridges : /\ j \in Nat /\ bridges[j] \in Seq(Chunk) /\ agent[j] \in AgentEnd
                                   /\ agent[j].sent <= Len(agent[j].got)
      /\ current = 0 => bridges = <<>>
  BY DEF ClientInv
<1>2. /\ DOMAIN bridges' = DOMAIN bridges \ {id} /\ DOMAIN agent' = DOMAIN agent \ {id}
      /\ \A j \in DOMAIN bridges' : j \in DOMAIN bridges /\ bridges'[j] = bridges[j] /\ agent'[j] = agent[j]
  BY <1>1 DEF Restrict, Shut
<1>3. current = 0 => bridges' = <<>>
  <2> SUFFICES ASSUME current = 0 PROVE bridges' = <<>>
    OBVIOUS
  <2>1. DOMAIN bridges' = {}
    BY <1>1, <1>2
  <2>2. bridges' = [j \in DOMAIN bridges \ {id} |-> bridges[j]]
    BY DEF Restrict
  <2>3. bridges' = [j \in {} |-> bridges[j]]
    BY <1>2, <2>1, <2>2
  <2> QED BY <2>3
<1>4. \A j \in DOMAIN bridges' : /\ j \in Nat /\ bridges'[j] \in Seq(Chunk) /\ agent'[j] \in AgentEnd
                                 /\ agent'[j].sent <= Len(agent'[j].got)
  BY <1>1, <1>2
<1>5. ClientInv'
  BY <1>1, <1>2, <1>3, <1>4 DEF ClientInv
<1> QED BY <1>2, <1>5

LEMMA ReadsCloseStep ==
  ASSUME ForwardInv, ReadsClose
  PROVE  ForwardInv'
<1>r. Reads("close") /\ AgentClose(Read.id, FALSE)
  BY DEF ReadsClose
<1>id. PICK id : id = Read.id
  OBVIOUS
<1>0. ClientInv
  BY DEF ForwardInv
<1>1. /\ current # 0 /\ current \in Conns /\ Rest
      /\ Read \in Wire /\ Read.t = "close"
      /\ UNCHANGED <<fds, streams, next, clients, ssh, hung, current, made>>
      /\ Taken(down, down', current, Read)
  BY <1>r, <1>id, Reading
<1>2. \A j : Chunks(down'[current], j) = Chunks(down[current], j)
  BY <1>1 DEF Taken
<1>3. bridges' = Restrict(bridges, DOMAIN bridges \ {id}) /\ agent' = Shut({id}) /\ up' = up
  BY <1>r, <1>id DEF AgentClose
<1>4. /\ ClientInv' /\ id \notin DOMAIN bridges'
      /\ \A j \in DOMAIN bridges' : j \in DOMAIN bridges /\ bridges'[j] = bridges[j] /\ agent'[j] = agent[j]
  BY <1>0, <1>1, <1>3, Forgets
<1>5. Opens(Daemon)' /\ \A j : Opening(Daemon, j)' => Opening(Daemon, j)
  BY <1>r, <1>id, <1>4, OpensRead
<1>6. Apart(id)
  BY <1>2, <1>3, <1>4, <1>5 DEF Apart
<1>7. ASSUME id \in Served(Daemon) PROVE Flow(Daemon, up, id)'
  <2>1. /\ Daemon.streams = streams /\ Daemon.down = down /\ Daemon.ssh = ssh
        /\ Daemon'.streams = streams /\ Daemon'.down = down' /\ Daemon'.ssh = ssh
    BY <1>1 DEF Daemon
  <2>2. Flow(Daemon, up, id)
    BY <1>7 DEF ForwardInv, DaemonInv, Flows
  <2> QED BY <1>1, <1>2, <1>3, <1>4, <1>5, <2>1, <2>2 DEF Flow
<1>8. Tells(<<>>)
  BY <1>1, <1>3, TellsNothing
<1> QED BY <1>1, <1>4, <1>5, <1>6, <1>7, <1>8, ClientStep

LEMMA ReadsDataStep ==
  ASSUME ForwardInv, NEW n \in Nat, ReadsData(n)
  PROVE  ForwardInv'
<1>r. Reads("data") /\ up' = up
  BY DEF ReadsData
<1>id. PICK id : id = Read.id
  OBVIOUS
<1>0. ClientInv
  BY DEF ForwardInv
<1>1. /\ current # 0 /\ current \in Conns /\ Rest
      /\ Read \in Wire /\ Read.t = "data"
      /\ UNCHANGED <<fds, streams, next, clients, ssh, hung, current, made>>
      /\ Taken(down, down', current, Read)
  BY <1>r, Reading
<1> DEFINE x == Read.chunk
           c == Chunks(down[current], id)
           d == Chunks(down'[current], id)
<1>2. /\ \A j : j # id => Chunks(down'[current], j) = Chunks(down[current], j)
      /\ c = <<x>> \o d /\ c \in Seq(Chunk) /\ d \in Seq(Chunk)
  BY <1>1, <1>id DEF Taken
<1>3. x \in Chunk
  BY <1>1 DEF Wire
<1>8. Tells(<<>>)
  BY <1>1, <1>r, TellsNothing
<1>4. CASE id \in DOMAIN bridges
  <2> DEFINE q == bridges[id]
             out == Append(q, x)
  <2>1. AgentFlush(id, out, n)
    BY <1>4, <1>id DEF ReadsData
  <2>2. q \in Seq(Chunk)
    BY <1>0, <1>4 DEF ClientInv
  <2> HIDE DEF q, x
  <2>3. out \in Seq(Chunk) /\ out = q \o <<x>> /\ <<x>> \in Seq(Chunk)
    BY <1>3, <2>2, CatOne
  <2>4. out \o d = q \o c
    <3> HIDE DEF c, d, out
    <3> DEFINE y == <<x>>
    <3>1. y \in Seq(Chunk) /\ c = y \o d /\ out = q \o y
      BY <1>2, <2>3
    <3>d. d \in Seq(Chunk)
      BY <1>2
    <3> HIDE DEF y
    <3>2. (q \o y) \o d = q \o (y \o d)
      BY ONLY <3>1, <3>d, <2>2
    <3> QED BY <3>1, <3>2
  <2> HIDE DEF out
  <2>5. Passed(id, out) /\ ClientInv'
    BY <1>0, <1>1, <1>4, <2>1, <2>3, Passes
  <2>6. /\ Opens(Daemon)' /\ ~Opening(Daemon, id)
        /\ \A j : Opening(Daemon, j)' => Opening(Daemon, j)
    <3>1. \A j \in DOMAIN bridges' : j \in DOMAIN bridges
      BY <2>5 DEF Passed
    <3> QED BY <1>r, <1>id, <3>1, OpensRead
  <2>7. Apart(id)
    BY <1>2, <1>r, <2>5, <2>6 DEF Apart, Passed
  <2>8. ASSUME id \in Served(Daemon) PROVE Flow(Daemon, up, id)'
    <3>1. out \o Chunks(down'[current], id) = bridges[id] \o Chunks(down[current], id)
      BY <2>4 DEF q
    <3> QED BY <1>1, <1>2, <1>4, <1>r, <2>3, <2>5, <2>6, <2>8, <3>1, BridgeFlow
  <2> QED BY <1>1, <1>8, <2>5, <2>6, <2>7, <2>8, ClientStep
<1>5. CASE id \notin DOMAIN bridges
  <2>1. bridges' = bridges /\ agent' = agent
    BY <1>5, <1>id DEF ReadsData
  <2>2. ClientInv'
    BY <1>0, <1>1, <2>1 DEF ClientInv
  <2>3. /\ Opens(Daemon)' /\ ~Opening(Daemon, id)
        /\ \A j : Opening(Daemon, j)' => Opening(Daemon, j)
    BY <1>r, <1>id, <2>1, OpensRead
  <2>4. Apart(id)
    BY <1>2, <1>r, <2>1, <2>3 DEF Apart
  <2>5. Flow(Daemon, up, id)'
    BY <1>5, <2>1, <2>3 DEF Flow
  <2> QED BY <1>1, <1>8, <2>2, <2>3, <2>4, <2>5, ClientStep
<1> QED BY <1>4, <1>5

\* What the client does without reading
LEMMA OpensStays ==
  ASSUME ForwardInv, current # 0, UNCHANGED <<streams, next, down, current>>, DOMAIN bridges' \subseteq DOMAIN bridges
  PROVE  /\ Opens(Daemon)' /\ \A j : Opening(Daemon, j)' <=> Opening(Daemon, j)
         /\ \A j \in DOMAIN bridges : ~Opening(Daemon, j) /\ j < next
<1>0. Opens(Daemon)
  BY DEF ForwardInv, DaemonInv
<1>2. /\ Daemon.streams = streams /\ Daemon.next = next /\ Daemon.down = down
      /\ Daemon'.streams = streams /\ Daemon'.next = next /\ Daemon'.down = down
  BY DEF Daemon
<1>3. /\ \A p \in DOMAIN down[current] : down[current][p].t = "open" => down[current][p].id \notin DOMAIN bridges
      /\ \A j \in DOMAIN bridges : j < next
  BY <1>0, <1>2 DEF Opens
<1>4. \A j \in DOMAIN bridges : ~Opening(Daemon, j)
  BY <1>2, <1>3 DEF Opening
<1>5. Opens(Daemon)'
  BY <1>0, <1>2 DEF Opens
<1>6. \A j : Opening(Daemon, j)' <=> Opening(Daemon, j)
  BY <1>2 DEF Opening
<1> QED BY <1>3, <1>4, <1>5, <1>6

LEMMA Drawings ==
  ASSUME ForwardInv, NEW id \in DOMAIN bridges
  PROVE  id < next
  BY Parts DEF ForwardInv, DaemonInv, Opens

LEMMA DrainsStep ==
  ASSUME ForwardInv, NEW id \in DOMAIN bridges, NEW n, Drains(id, n)
  PROVE  ForwardInv'
<1>0. ClientInv
  BY DEF ForwardInv
<1>1. /\ n \in DOMAIN bridges[id] /\ AgentFlush(id, bridges[id], n)
      /\ UNCHANGED <<fds, streams, next, clients, ssh, hung, up, down, current, made>>
  BY DEF Drains, loopVars, lineVars
<1>2. current # 0 /\ bridges[id] \in Seq(Chunk) /\ DOMAIN <<>> = {}
  BY <1>0 DEF ClientInv
<1>3. n \in Nat
  BY <1>1, <1>2
<1>4. Passed(id, bridges[id]) /\ ClientInv'
  BY <1>0, <1>1, <1>2, <1>3, Passes
<1>5. /\ Opens(Daemon)' /\ ~Opening(Daemon, id)' /\ \A j : Opening(Daemon, j)' => Opening(Daemon, j)
  BY <1>1, <1>2, <1>4, OpensStays DEF Passed
<1>6. Apart(id)
  BY <1>1, <1>4, <1>5 DEF Apart, Passed
<1>7. ASSUME id \in Served(Daemon) PROVE Flow(Daemon, up, id)'
  BY <1>1, <1>2, <1>4, <1>5, <1>7, FlowParts, BridgeFlow
<1>8. Tells(<<>>) /\ Rest
  BY <1>1, <1>2, TellsNothing DEF Rest
<1> QED BY <1>1, <1>2, <1>4, <1>5, <1>6, <1>7, <1>8, ClientStep

LEMMA AgentEventStep ==
  ASSUME ForwardInv, NEW id \in DOMAIN bridges, NEW lucky \in BOOLEAN, AgentEvent(id, lucky)
  PROVE  ForwardInv'
<1>0. ClientInv
  BY DEF ForwardInv
<1>1. UNCHANGED <<fds, streams, next, clients, ssh>>
  BY DEF AgentEvent, loopVars
<1>2. current # 0 /\ current \in Conns /\ id \in Nat /\ agent[id] \in AgentEnd /\ id \in DOMAIN agent
  <2>1. DOMAIN <<>> = {}
    OBVIOUS
  <2> QED BY <1>0, <2>1, Known DEF ClientInv
<1>3. CASE <<"daemon", current>> \in hung
  BY <1>1, <1>2, <1>3, FailStep DEF AgentEvent
<1>4. CASE <<"daemon", current>> \notin hung
  <2> DEFINE un == agent[id].unread
             sent == DataFrames(id, un)
             close == IF agent[id].st = "leaving" THEN <<Frame("close", id, <<>>)>> ELSE <<>>
             b == sent \o close
  <2>1. /\ up' = [up EXCEPT ![current] = @ \o sent \o close]
        /\ IF close # <<>>
           THEN /\ bridges' = Restrict(bridges, DOMAIN bridges \ {id})
                /\ agent' = Shut({id})
           ELSE agent' = [agent EXCEPT ![id].unread = <<>>] /\ UNCHANGED bridges
        /\ UNCHANGED <<down, hung, current, made>>
    BY <1>4 DEF AgentEvent
  <2>2. un \in Seq(Chunk)
    BY <1>2 DEF AgentEnd
  <2>3. id < next
    BY <1>1, <1>2, <2>1, Drawings
  <2> HIDE DEF un
  <2>4. /\ close \in Seq(Wire) /\ \A p \in DOMAIN close : close[p].id = id /\ close[p].t = "close"
        /\ \A j : Chunks(close, j) = <<>>
    <3>1. CASE agent[id].st = "leaving"
      BY <1>2, <2>3, <3>1, TellsClose
    <3>2. CASE agent[id].st # "leaving"
      <4>1. close = <<>> /\ close \in Seq(Wire) /\ DOMAIN close = {}
        BY <3>2
      <4> HIDE DEF close
      <4> QED BY <4>1, ChunksNone
    <3> QED BY <3>1, <3>2
  <2> HIDE DEF close
  <2>5. /\ sent \in Seq(Wire) /\ \A p \in DOMAIN sent : sent[p].id = id /\ sent[p].t = "data"
        /\ Chunks(sent, id) = un
    BY <1>2, <2>2, ChunksOfData
  <2>6. \A j : j # id => Chunks(sent, j) = <<>>
    <3> SUFFICES ASSUME NEW j, j # id PROVE Chunks(sent, j) = <<>>
      OBVIOUS
    <3> HIDE DEF sent
    <3> QED BY <2>5, ChunksNone
  <2> HIDE DEF sent
  <2>7. /\ b \in Seq(Wire) /\ \A p \in DOMAIN b : b[p].id = id /\ b[p].t \in {"data", "close"}
    <3>1. /\ b \in Seq(Wire)
          /\ DOMAIN sent = 1..Len(sent) /\ DOMAIN b = 1..(Len(sent) + Len(close)) /\ DOMAIN close = 1..Len(close)
          /\ \A p \in 1..Len(sent) : b[p] = sent[p]
          /\ \A p \in 1..(Len(sent) + Len(close)) : p \in 1..Len(sent) \/ (p - Len(sent) \in 1..Len(close) /\ b[p] = close[p - Len(sent)])
      BY ONLY <2>4, <2>5, CatLength
    <3> HIDE DEF b
    <3>2. \A p \in DOMAIN sent : sent[p].id = id /\ sent[p].t \in {"data", "close"}
      BY <2>5
    <3>3. \A p \in DOMAIN close : close[p].id = id /\ close[p].t \in {"data", "close"}
      BY <2>4
    <3>4. \A p \in DOMAIN b : b[p].id = id /\ b[p].t \in {"data", "close"}
      <4> SUFFICES ASSUME NEW p \in DOMAIN b PROVE b[p].id = id /\ b[p].t \in {"data", "close"}
        OBVIOUS
      <4>1. CASE p \in DOMAIN sent
        BY <3>1, <3>2, <4>1
      <4>2. CASE p \notin DOMAIN sent
        <5>1. PICK q \in DOMAIN close : b[p] = close[q]
          BY ONLY <3>1, <4>2, p \in DOMAIN b
        <5> QED BY <3>3, <5>1
      <4> QED BY <4>1, <4>2
    <3> QED BY <3>1, <3>4
  <2>8. \A j : Chunks(b, j) = IF j = id THEN un ELSE <<>>
    <3>1. \A j : Chunks(b, j) = Chunks(sent, j) \o Chunks(close, j)
      BY <2>4, <2>5, ChunksCat
    <3>2. un \o <<>> = un /\ <<>> \o <<>> = <<>>
      BY <2>2, Cat
    <3> HIDE DEF b
    <3> QED BY <2>4, <2>5, <2>6, <3>1, <3>2
  <2>9. Tells(b)
    <3> DEFINE u == up[current]
    <3>1. u \in Seq(Wire) /\ sent \in Seq(Wire) /\ close \in Seq(Wire)
      BY <1>2, <2>4, <2>5, Parts DEF ForwardInv, DaemonInv, Shape
    <3> HIDE DEF u
    <3>2. (u \o sent) \o close = u \o (sent \o close)
      BY ONLY <3>1
    <3>3. up' = [up EXCEPT ![current] = @ \o b]
      BY <2>1, <3>2 DEF u
    <3> HIDE DEF b
    <3> QED BY <2>3, <2>7, <3>3 DEF Tells
  <2> HIDE DEF b
  <2>r. Rest
    BY <2>1 DEF Rest
  <2>10. /\ \A j : Chunks(up'[current], j) = Chunks(up[current], j) \o Chunks(b, j)
         /\ \A j : Chunks(up[current], j) \in Seq(Chunk)
    <3>1. \A j : Chunks(up'[current], j) = Chunks(up[current], j) \o Chunks(b, j)
      BY <1>1, <1>2, <2>1, <2>9, <2>r, LineKeeps
    <3>2. up[current] \in Seq(Wire) /\ <<>> \in Seq(Wire)
      BY <1>2, Parts DEF ForwardInv, DaemonInv, Shape
    <3> QED BY <3>1, <3>2, ChunksCat
  <2>11. \A j : j # id => Chunks(up'[current], j) = Chunks(up[current], j)
    <3>1. \A j : Chunks(up[current], j) \o <<>> = Chunks(up[current], j)
      BY <2>10, Cat
    <3> QED BY <2>8, <2>10, <3>1
  <2>12. CASE close # <<>>
    <3>1. bridges' = Restrict(bridges, DOMAIN bridges \ {id}) /\ agent' = Shut({id})
      BY <2>1, <2>12
    <3>2. /\ ClientInv' /\ id \notin DOMAIN bridges'
          /\ \A j \in DOMAIN bridges' : j \in DOMAIN bridges /\ bridges'[j] = bridges[j] /\ agent'[j] = agent[j]
      BY <1>0, <2>1, <3>1, Forgets
    <3>3. /\ Opens(Daemon)' /\ ~Opening(Daemon, id)' /\ \A j : Opening(Daemon, j)' => Opening(Daemon, j)
      BY <1>1, <1>2, <2>1, <3>2, OpensStays
    <3>4. Apart(id)
      BY <2>1, <2>11, <3>2, <3>3 DEF Apart
    <3>5. Flow(Daemon, up, id)'
      BY <3>2, <3>3 DEF Flow
    <3> QED BY <1>1, <1>2, <2>1, <2>9, <2>r, <3>2, <3>3, <3>4, <3>5, ClientStep
  <2>13. CASE close = <<>>
    <3> DEFINE e == [agent[id] EXCEPT !.unread = <<>>]
    <3>1. agent' = [agent EXCEPT ![id] = e] /\ bridges' = bridges
      BY <2>1, <2>13
    <3>2. e \in AgentEnd /\ e.got = agent[id].got /\ e.sent = agent[id].sent /\ e.unread = <<>>
      <4> DEFINE a == agent[id]
      <4>1. a \in AgentEnd
        BY <1>2
      <4> HIDE DEF a
      <4>2. /\ [a EXCEPT !.unread = <<>>] \in AgentEnd /\ [a EXCEPT !.unread = <<>>].got = a.got
            /\ [a EXCEPT !.unread = <<>>].sent = a.sent /\ [a EXCEPT !.unread = <<>>].unread = <<>>
        <5>1. /\ DOMAIN a = {"st", "got", "sent", "unread"} /\ a.got \in Seq(Chunk) /\ a.sent \in Nat
              /\ a.st \in {"open", "leaving"}
          BY <4>1 DEF AgentEnd
        <5>2. <<>> \in Seq(Chunk)
          OBVIOUS
        <5>3. [a EXCEPT !.unread = <<>>] \in AgentEnd
          BY <4>1, <5>2 DEF AgentEnd
        <5> QED BY <5>1, <5>3
      <4> QED BY <4>2 DEF a
    <3> HIDE DEF e
    <3>3. /\ DOMAIN agent' = DOMAIN agent /\ agent'[id] = e /\ \A j \in DOMAIN agent : j # id => agent'[j] = agent[j]
      BY <1>2, <3>1
    <3>4. ClientInv'
      BY <1>0, <2>1, <3>1, <3>2, <3>3 DEF ClientInv
    <3>5. /\ Opens(Daemon)' /\ ~Opening(Daemon, id)' /\ \A j : Opening(Daemon, j)' => Opening(Daemon, j)
      BY <1>1, <1>2, <2>1, <3>1, OpensStays
    <3>6. Apart(id)
      BY <1>0, <2>1, <2>11, <3>1, <3>3, <3>5 DEF Apart, ClientInv
    <3>7. ASSUME id \in Served(Daemon) PROVE Flow(Daemon, up, id)'
      <4>1. /\ Daemon.streams = streams /\ Daemon.down = down /\ Daemon.ssh = ssh
            /\ Daemon'.streams = streams /\ Daemon'.down = down' /\ Daemon'.ssh = ssh
        BY <1>1 DEF Daemon
      <4> DEFINE s == ssh[streams[id].ssh]
                 g == s.got
                 o == streams[id].out
                 c == Chunks(up[current], id)
                 z == Chunks(up'[current], id)
                 em == <<>>
      <4>2. Flow(Daemon, up, id)
        BY <3>7 DEF ForwardInv, DaemonInv, Flows
      <4>3. /\ agent[id].got \o bridges[id] \o Chunks(down[current], id) \o s.unread = Said(streams[id].ssh, s.sent)
            /\ g \o o \o c \o un = SubSeq(agent[id].got, 1, agent[id].sent)
        BY <4>1, <4>2 DEF Flow, un
      <4>4. g \in Seq(Chunk) /\ o \in Seq(Chunk) /\ c \in Seq(Chunk) /\ un \in Seq(Chunk)
        BY <2>2, <3>7, FlowParts
      <4>5. z = c \o un
        BY <2>8, <2>10
      <4>6. g \o o \o z \o em = g \o o \o c \o un
        <5> HIDE DEF g, o, c, z
        <5> DEFINE go == g \o o
        <5>1. go \in Seq(Chunk)
          BY ONLY <4>4
        <5> HIDE DEF go
        <5>2. go \o (c \o un) = (go \o c) \o un /\ go \o (c \o un) \in Seq(Chunk)
          <6>1. (go \o c) \o un = go \o (c \o un)
          BY ONLY <4>4, <5>1, Chain, Zenon
        <6>2. go \o (c \o un) \in Seq(Chunk)
          BY ONLY <4>4, <5>1
        <6> QED BY <6>1, <6>2
        <5> DEFINE w == go \o z
        <5>3. w \in Seq(Chunk) /\ w = (go \o c) \o un
          BY <4>5, <5>2
        <5> HIDE DEF w
        <5>4. w \o <<>> = w
          BY ONLY <5>3
        <5> QED BY <5>3, <5>4 DEF w, go
      <4>7. g \o o \o z \o em = SubSeq(e.got, 1, e.sent)
        BY <3>2, <4>3, <4>6
      <4> HIDE DEF g, o, c, z, em
      <4>8. s.got \o streams[id].out \o Chunks(up'[current], id) \o agent'[id].unread
              = SubSeq(agent'[id].got, 1, agent'[id].sent)
        BY <3>2, <3>3, <4>7 DEF g, o, z, em
      <4>9. agent'[id].got \o bridges'[id] \o Chunks(down'[current], id) \o s.unread = Said(streams[id].ssh, s.sent)
        BY <2>1, <3>1, <3>2, <3>3, <4>3
      <4> QED BY <2>1, <3>5, <4>1, <4>8, <4>9 DEF Flow
    <3> QED BY <1>1, <1>2, <2>1, <2>9, <2>r, <3>4, <3>5, <3>6, <3>7, ClientStep
  <2> QED BY <2>12, <2>13
<1> QED BY <1>3, <1>4

-----------------------------------------------------------------------------
(* The specification.                                                      *)

LEMMA ForwardStart ==
  ASSUME AgentInit
  PROVE  ForwardInv
<1> USE DEF AgentInit
<1>1. MaxConn \in Nat /\ DOMAIN <<>> = {} /\ <<>> \in Seq(Wire) /\ <<>> \in Seq(Chunk) /\ 1..0 = {}
  BY AgentAssumption
<1>2. /\ Daemon.fds = fds /\ Daemon.streams = <<>> /\ Daemon.next = 1 /\ Daemon.clients = <<>>
      /\ Daemon.down = down /\ Daemon.hung = {} /\ Daemon.ssh = ssh
  BY DEF Daemon
<1>3. ClientInv
  BY <1>1 DEF ClientInv
<1>4. Shape(Daemon, up)
  <2>1. Ssh("idle", 0) \in SshEnd
    BY <1>1 DEF Ssh, SshEnd
  <2>2. ssh \in [Sshs -> SshEnd]
    BY <2>1
  <2>3. DOMAIN Daemon = {"fds", "streams", "next", "clients", "down", "hung", "ssh"}
    BY DEF Daemon
  <2>4. down \in [Conns -> Seq(Wire)] /\ up \in [Conns -> Seq(Wire)]
    BY <1>1
  <2> QED BY <1>1, <1>2, <2>2, <2>3, <2>4 DEF Shape
<1>5. Owned(Daemon)
  BY <1>1, <1>2 DEF Owned
<1>6. Called(Daemon)
  <2>1. DOMAIN fds = 1..2 /\ fds[1] = Door /\ fds[2] = Listener
    OBVIOUS
  <2>2. 1..2 = {1, 2}
    OBVIOUS
  <2> QED BY <1>2, <2>1, <2>2 DEF Called, Door, Listener, Owner
<1>7. Drawn(Daemon, up)
  <2>1. \A k \in Conns : DOMAIN down[k] = {} /\ DOMAIN up[k] = {} /\ down[k] = <<>>
    BY <1>1
  <2> QED BY <1>1, <1>2, <2>1 DEF Drawn
<1>8. Opens(Daemon)
  BY <1>1, <1>2 DEF Opens
<1>9. Flows(Daemon, up)
  BY <1>1, <1>2 DEF Flows, Served
<1> QED BY <1>3, <1>4, <1>5, <1>6, <1>7, <1>8, <1>9 DEF ForwardInv, DaemonInv

LEMMA ForwardStutter ==
  ASSUME ForwardInv, UNCHANGED agentVars
  PROVE  ForwardInv'
<1>1. UNCHANGED <<fds, streams, next, clients, up, down, hung, ssh, bridges, agent, current, made>>
  BY DEF agentVars, loopVars, lineVars, clientVars
<1>2. Daemon' = Daemon
  BY <1>1 DEF Daemon
<1>3. Shape(Daemon, up)' /\ Owned(Daemon)' /\ Called(Daemon)' /\ Drawn(Daemon, up)' /\ ClientInv'
  BY <1>1, <1>2 DEF ForwardInv, DaemonInv, Shape, Owned, Called, Drawn, ClientInv
<1>4. Opens(Daemon)'
  BY <1>1, <1>2 DEF ForwardInv, DaemonInv, Opens
<1>5. Flows(Daemon, up)'
  <2>1. Served(Daemon)' = Served(Daemon)
    BY <1>1, <1>2 DEF Served
  <2>2. \A id : Flow(Daemon, up, id) => Flow(Daemon, up, id)'
    BY <1>1, <1>2 DEF Flow, Opening
  <2> QED BY <2>1, <2>2 DEF ForwardInv, DaemonInv, Flows
<1> QED BY <1>3, <1>4, <1>5 DEF ForwardInv, DaemonInv

LEMMA ForwardKeeps ==
  ASSUME ForwardInv, [AgentNext]_agentVars
  PROVE  ForwardInv'
<1>0. ClientInv /\ DaemonInv(Daemon, up)
  BY DEF ForwardInv
<1>1. Room \subseteq Nat
  <2>1. Talk \in Seq(Nat)
    BY AgentAssumption
  <2>2. \A i \in Sshs : Talk[i] \in Nat
    BY <2>1 DEF Sshs
  <2> QED BY <2>2 DEF Room
<1>2. Waiting \subseteq Nat
  <2>1. ASSUME NEW id \in DOMAIN streams PROVE Len(streams[id].out \o up[streams[id].client]) \in Nat
    <3> DEFINE a == streams[id].out
               b == up[streams[id].client]
    <3>1. a \in Seq(Chunk) /\ b \in Seq(Wire)
      BY <1>0, Parts, Known DEF DaemonInv, Shape, Owned
    <3> HIDE DEF a, b
    <3>2. a \in Seq(Chunk \cup Wire) /\ b \in Seq(Chunk \cup Wire)
      BY <3>1
    <3>3. Len(a \o b) \in Nat
      BY <3>2
    <3> QED BY <3>3 DEF a, b
  <2> DEFINE W(id) == Len(streams[id].out \o up[streams[id].client])
  <2>2. Waiting = {0} \cup UNION {0..W(id) : id \in DOMAIN streams}
    BY DEF Waiting
  <2>3. \A id \in DOMAIN streams : W(id) \in Nat
    BY <2>1
  <2> HIDE DEF W
  <2>4. \A id \in DOMAIN streams : 0..W(id) \subseteq Nat
    BY <2>3
  <2> QED BY <2>2, <2>4
<1>3. CASE Loop
  BY <1>2, <1>3, PollStep, DispatchStep DEF Loop
<1>4. CASE Client
  <2>1. ASSUME NEW there \in BOOLEAN, ReadsOpen(there) PROVE ForwardInv'
    BY <2>1, ReadsOpenStep
  <2>2. ASSUME ReadsClose PROVE ForwardInv'
    BY <2>2, ReadsCloseStep
  <2>3. ASSUME NEW n \in Room, ReadsData(n) PROVE ForwardInv'
    BY <1>1, <2>3, ReadsDataStep
  <2>4. ASSUME NEW id \in DOMAIN bridges, NEW lucky \in BOOLEAN, AgentEvent(id, lucky) PROVE ForwardInv'
    BY <2>4, AgentEventStep
  <2>5. ASSUME NEW id \in DOMAIN bridges, NEW n \in Room, Drains(id, n) PROVE ForwardInv'
    BY <2>5, DrainsStep
  <2>6. ASSUME Disconnects(FALSE) PROVE ForwardInv'
    BY <2>6, DisconnectsStep
  <2> QED BY <1>4, <2>1, <2>2, <2>3, <2>4, <2>5, <2>6 DEF Client
<1>5. CASE Ends
  <2>1. ASSUME NEW i \in Sshs, SshConnects(i) PROVE ForwardInv'
    BY <2>1, SshConnectsStep
  <2>2. ASSUME NEW i \in Sshs, SshSends(i) \/ SshLeaves(i) PROVE ForwardInv'
    BY <2>2, SshSendsStep
  <2>3. ASSUME NEW id \in DOMAIN agent, AgentReplies(id) \/ AgentLeaves(id) PROVE ForwardInv'
    BY <2>3, AgentRepliesStep
  <2> QED BY <1>5, <2>1, <2>2, <2>3 DEF Ends
<1>6. CASE Connects
  BY <1>6, ConnectsStep
<1>7. CASE Disconnects(TRUE)
  BY <1>7, DisconnectsStep
<1>8. ASSUME NEW full \in BOOLEAN, CloseSession(full) PROVE ForwardInv'
  BY <1>8, CloseSessionStep
<1>9. CASE UNCHANGED agentVars
  BY <1>9, ForwardStutter
<1> QED BY <1>3, <1>4, <1>5, <1>6, <1>7, <1>8, <1>9 DEF AgentNext

LEMMA ForwardSays ==
  ASSUME ForwardInv
  PROVE  NothingLost
<1> SUFFICES ASSUME NEW id \in DOMAIN streams, Bridged(id)
             PROVE  LET i == streams[id].ssh  k == streams[id].client  a == agent[id]
                    IN /\ a.got \o bridges[id] \o Chunks(down[k], id) \o ssh[i].unread
                             = [n \in 1..ssh[i].sent |-> <<i, n>>]
                       /\ ssh[i].got \o streams[id].out \o Chunks(up[k], id) \o a.unread
                             = SubSeq(a.got, 1, a.sent)
  BY DEF NothingLost
<1>0. ClientInv /\ DaemonInv(Daemon, up)
  BY DEF ForwardInv
<1>1. id \in DOMAIN bridges /\ Live(Daemon, streams[id].client)
  BY DEF Bridged
<1>2. streams[id].client = current
  BY <1>0, <1>1, Parts DEF DaemonInv, Opens
<1>3. id \in Served(Daemon)
  BY <1>1, <1>2, Parts DEF Served, Live
<1>4. Flow(Daemon, up, id)
  BY <1>0, <1>3 DEF DaemonInv, Flows
<1> QED BY <1>1, <1>2, <1>4, Parts DEF Flow, Said

\* Every chunk of a bridged stream is with its receiver or on its way there,
\* each way once and in order, for any number of connections to the agent
\* socket, any sizes of what they send, full sockets and clients, lost
\* connections and ended sessions (agent_stream_event, agent_flush,
\* agent_event, agent_stream_flush).
THEOREM NothingIsLost == AgentSpec => []NothingLost
<1>1. AgentInit => ForwardInv
  BY ForwardStart
<1>2. ForwardInv /\ [AgentNext]_agentVars => ForwardInv'
  BY ForwardKeeps
<1>3. ForwardInv => NothingLost
  BY ForwardSays
<1> QED BY <1>1, <1>2, <1>3, PTL DEF AgentSpec
=============================================================================
