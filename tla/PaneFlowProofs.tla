--------------------------- MODULE PaneFlowProofs ----------------------------
(***************************************************************************)
(* What flows between a pane and its windows, for every number of clients, *)
(* panes, keys and connections: the queues behind the water marks          *)
(* (Backpressure) and the acknowledgements of input (EchoAck).             *)
(***************************************************************************)
EXTENDS Backpressure, EchoAck, FiniteSetTheorems, SequenceTheorems, TLAPS

-----------------------------------------------------------------------------
(* Backpressure never leaves a pane paused, as long as clients stay with    *)
(* the session they attached to and are not killed for a frame.  It is      *)
(* inductive together with the types and AttachCounted: clients that stay   *)
(* put after a step did so before it (StayedPut), and then an action that   *)
(* takes the last reason of a paused pane away is Drain crossing the low    *)
(* mark or Close, which both call ResumeSessionPanes.                       *)

\* The types are inductive: the queues stay natural numbers because
\* prepare_to_send takes no more than a queue holds.
LEMMA TypeInductive == TypeOK /\ [Next]_vars => TypeOK'
<1> SUFFICES ASSUME TypeOK, [Next]_vars PROVE TypeOK'
  OBVIOUS
<1> USE WaterAssumption DEF TypeOK
<1>1. ASSUME NEW c \in Clients, Connect(c) PROVE TypeOK'
  BY <1>1 DEF Connect
<1>2. ASSUME NEW c \in Clients, Detach(c) PROVE TypeOK'
  BY <1>2 DEF Detach
<1>3. ASSUME NEW c \in Clients, Drain(c) PROVE TypeOK'
  <2>1. PICK n \in 1..queue[c] : queue' = [queue EXCEPT ![c] = @ - n]
    BY <1>3 DEF Drain
  <2>2. queue[c] - n \in Nat
    BY <2>1
  <2>3. queue' \in [Clients -> Nat]
    BY <2>1, <2>2
  <2>4. paused' \in [Panes -> BOOLEAN]
    BY <1>3 DEF Drain, ResumeSessionPanes
  <2> QED BY <1>3, <2>3, <2>4 DEF Drain
<1>4. ASSUME NEW c \in Clients, Close(c) PROVE TypeOK'
  <2>1. paused' \in [Panes -> BOOLEAN]
    BY <1>4 DEF Close, ResumeSessionPanes
  <2> QED BY <1>4, <2>1 DEF Close
<1>5. ASSUME NEW c \in Clients, Kill(c) PROVE TypeOK'
  BY <1>5 DEF Kill
<1>6. ASSUME NEW c \in Clients, Sweep(c) PROVE TypeOK'
  BY <1>6 DEF Sweep
<1>7. ASSUME NEW c \in Clients, NEW s \in Sessions, Attach(c, s) PROVE TypeOK'
  BY <1>7 DEF Attach
<1>8. ASSUME NEW p \in Panes, Output(p) PROVE TypeOK'
  BY <1>8 DEF Output
<1>9. CASE UNCHANGED vars
  BY <1>9 DEF vars
<1> QED BY <1>1, <1>2, <1>3, <1>4, <1>5, <1>6, <1>7, <1>8, <1>9 DEF Next

-----------------------------------------------------------------------------
\* resume_session_panes may be skipped only for a client that is itself a
\* reason to wait; otherwise no pane of the session is left paused.
LEMMA ResumeLeavesReason ==
  ASSUME TypeOK, NEW c \in Clients, NEW p \in Panes,
         ResumeSessionPanes(SessionOf[p], c), paused'[p]
  PROVE  \E d \in Clients \ {c} : Holds(d, SessionOf[p])
<1>1. \E d \in Clients \ {c} : Watches(d, SessionOf[p]) /\ queue[d] > Low
  BY DEF ResumeSessionPanes, TypeOK
<1> QED BY <1>1, WaterAssumption DEF TypeOK, Watches, Holds

\* A resume for one session changes nothing for the panes of another, and
\* pauses nothing.
LEMMA ResumeOnlyWakes ==
  ASSUME TypeOK, NEW c, NEW s, NEW p \in Panes,
         ResumeSessionPanes(s, c), paused'[p]
  PROVE  paused[p]
BY DEF ResumeSessionPanes, TypeOK

\* A client attached to a session has been attached.
AttachCounted == \A c \in Clients : attaches[c] = 0 => attached[c] = Nowhere

LEMMA AttachCountedInductive == TypeOK /\ AttachCounted /\ [Next]_vars => AttachCounted'
<1> SUFFICES ASSUME TypeOK, AttachCounted, [Next]_vars PROVE AttachCounted'
  OBVIOUS
<1> USE DEF TypeOK, AttachCounted
<1>1. ASSUME NEW c \in Clients, Detach(c) PROVE AttachCounted'
  BY <1>1 DEF Detach
<1>2. ASSUME NEW c \in Clients, NEW s \in Sessions, Attach(c, s) PROVE AttachCounted'
  BY <1>2 DEF Attach
<1>3. ASSUME NEW c \in Clients, Connect(c) \/ Drain(c) \/ Close(c) \/ Kill(c) \/ Sweep(c)
      PROVE AttachCounted'
  BY <1>3 DEF Connect, Drain, Close, Kill, Sweep
<1>4. ASSUME NEW p \in Panes, Output(p) PROVE AttachCounted'
  BY <1>4 DEF Output
<1>5. CASE UNCHANGED vars
  BY <1>5 DEF vars
<1> QED BY <1>1, <1>2, <1>3, <1>4, <1>5 DEF Next

\* What a client has done it cannot undo: one that stays put after a step
\* has never done anything else.
LEMMA StayedPut ==
  ASSUME TypeOK, AttachCounted, [Next]_vars, NEW c \in Clients, StaysPut(c)'
  PROVE  StaysPut(c)
<1> USE DEF TypeOK, AttachCounted, StaysPut
<1>1. ASSUME NEW d \in Clients, Detach(d) PROVE StaysPut(c)
  BY <1>1 DEF Detach
<1>2. ASSUME NEW d \in Clients, NEW s \in Sessions, Attach(d, s) PROVE StaysPut(c)
  <2>1. CASE d = c
    BY <1>2, <2>1 DEF Attach
  <2>2. CASE d # c
    BY <1>2, <2>2 DEF Attach
  <2> QED BY <2>1, <2>2
<1>3. ASSUME NEW d \in Clients, Connect(d) \/ Kill(d) \/ Sweep(d) PROVE StaysPut(c)
  BY <1>3 DEF Connect, Kill, Sweep
<1>4. ASSUME NEW d \in Clients, Drain(d) PROVE StaysPut(c)
  BY <1>4 DEF Drain
<1>5. ASSUME NEW d \in Clients, Close(d) PROVE StaysPut(c)
  BY <1>5 DEF Close
<1>6. ASSUME NEW p \in Panes, Output(p) PROVE StaysPut(c)
  BY <1>6 DEF Output
<1>7. CASE UNCHANGED vars
  BY <1>7 DEF vars
<1> QED BY <1>1, <1>2, <1>3, <1>4, <1>5, <1>6, <1>7 DEF Next

\* The step that matters: every action keeps a reason for every paused pane.
LEMMA PausedInductive ==
  ASSUME TypeOK, AttachCounted, NeverLeftPaused, [Next]_vars
  PROVE  NeverLeftPaused'
<1> SUFFICES ASSUME \A c \in Clients : StaysPut(c)' PROVE PausedHasReason'
  BY DEF NeverLeftPaused
<1>s. PausedHasReason
  BY StayedPut DEF NeverLeftPaused
<1> SUFFICES ASSUME NEW p \in Panes, paused'[p]
             PROVE  \E d \in Clients : Holds(d, SessionOf[p])'
  BY DEF PausedHasReason
<1> DEFINE s == SessionOf[p]
           Reason(d) == Holds(d, s)
<1> SUFFICES \E d \in Clients : Reason(d)'
  OBVIOUS
<1>0. s \in Sessions /\ s # Nowhere
  BY WaterAssumption, NowhereAssumption
<1> HIDE DEF s
<1>a. paused[p] => \E d \in Clients : Reason(d)
  BY <1>s DEF PausedHasReason, s
<1>1. ASSUME NEW c \in Clients, Connect(c) PROVE \E d \in Clients : Reason(d)'
  <2>1. PICK d \in Clients : Reason(d)
    BY <1>1, <1>a DEF Connect
  <2>2. Reason(d)'
    BY <1>1, <2>1 DEF Connect, Holds, TypeOK
  <2> QED BY <2>2
<1>2. ASSUME NEW c \in Clients, Detach(c) PROVE FALSE
  BY <1>2 DEF Detach, StaysPut, AttachCounted, TypeOK
<1>3. ASSUME NEW c \in Clients, Drain(c) PROVE \E d \in Clients : Reason(d)'
  <2>1. PICK n \in 1..queue[c] :
          /\ queue' = [queue EXCEPT ![c] = @ - n]
          /\ IF queue[c] >= Low /\ queue[c] - n < Low
             THEN ResumeSessionPanes(attached[c], c)
             ELSE UNCHANGED paused
    BY <1>3 DEF Drain
  <2>2. paused[p]
    BY <2>1, ResumeOnlyWakes
  <2>3. PICK d \in Clients : Reason(d)
    BY <2>2, <1>a
  <2>k. ASSUME NEW e \in Clients \ {c}, Reason(e) PROVE Reason(e)'
    BY <2>k, <2>1, <1>3 DEF Drain, Holds, TypeOK
  <2>4. CASE d # c
    BY <2>4, <2>3, <2>k
  <2>5. CASE d = c /\ queue[c] - n >= Low
    <3>1. queue'[c] >= Low
      BY <2>5, <2>1 DEF TypeOK
    <3> QED BY <3>1, <2>5, <2>3, <1>3 DEF Drain, Holds
  <2>6. CASE d = c /\ ~(queue[c] - n >= Low)
    <3>1. queue[c] >= Low /\ queue[c] - n < Low /\ attached[c] = s
      BY <2>6, <2>3, <2>1, WaterAssumption DEF Holds, TypeOK
    <3>2. ResumeSessionPanes(s, c)
      BY <3>1, <2>1
    <3>3. PICK e \in Clients \ {c} : Reason(e)
      BY <3>2, ResumeLeavesReason DEF s
    <3> QED BY <3>3, <2>k
  <2> QED BY <2>4, <2>5, <2>6
<1>4. ASSUME NEW c \in Clients, Close(c) PROVE \E d \in Clients : Reason(d)'
  <2>1. PICK d \in Clients : Reason(d)
    BY <1>4, <1>a, ResumeOnlyWakes DEF Close
  <2>k. ASSUME NEW e \in Clients \ {c}, Reason(e) PROVE Reason(e)'
    BY <2>k, <1>4 DEF Close, Holds, TypeOK
  <2>2. CASE d # c
    BY <2>1, <2>2, <2>k
  <2>3. CASE d = c
    <3>1. ResumeSessionPanes(s, c)
      BY <2>1, <2>3, <1>4 DEF Close, Holds
    <3>2. PICK e \in Clients \ {c} : Reason(e)
      BY <3>1, ResumeLeavesReason DEF s
    <3> QED BY <3>2, <2>k
  <2> QED BY <2>2, <2>3
<1>5. ASSUME NEW c \in Clients, Kill(c) PROVE \E d \in Clients : Reason(d)'
  <2>1. PICK d \in Clients : Reason(d)
    BY <1>5, <1>a DEF Kill
  <2>2. Reason(d)'
    BY <1>5, <2>1 DEF Kill, Holds, TypeOK
  <2> QED BY <2>2
<1>6. ASSUME NEW c \in Clients, Sweep(c) PROVE FALSE
  BY <1>6 DEF Sweep, StaysPut, TypeOK
<1>7. ASSUME NEW c \in Clients, NEW t \in Sessions, Attach(c, t)
      PROVE \E d \in Clients : Reason(d)'
  <2>1. PICK d \in Clients : Reason(d)
    BY <1>7, <1>a DEF Attach
  <2>0. attaches[c] = 0
    BY <1>7 DEF Attach, StaysPut, TypeOK
  <2>2. attached[c] = Nowhere
    BY <2>0 DEF AttachCounted
  <2>3. d # c
    BY <2>1, <2>2, <1>0 DEF Holds
  <2>4. Reason(d)'
    BY <2>1, <2>3, <1>7 DEF Attach, Holds, TypeOK
  <2> QED BY <2>4
<1>8. ASSUME NEW q \in Panes, Output(q) PROVE \E d \in Clients : Reason(d)'
  <2>1. PICK n \in 1..Burst :
          /\ queue' = [c \in Clients |-> IF Watches(c, SessionOf[q])
                                         THEN queue[c] + n ELSE queue[c]]
          /\ paused' = [paused EXCEPT ![q] =
               \E c \in Clients : Watches(c, SessionOf[q]) /\ queue'[c] > High]
    BY <1>8 DEF Output
  <2>2. ASSUME NEW d \in Clients PROVE queue'[d] >= queue[d] /\ queue'[d] \in Nat
    BY <2>1, <2>2, WaterAssumption DEF TypeOK
  <2>3. CASE q = p
    <3>1. PICK d \in Clients : Watches(d, s) /\ queue'[d] > High
      BY <2>1, <2>3 DEF TypeOK, s
    <3>2. queue'[d] >= Low
      BY <3>1, <2>2, WaterAssumption
    <3> QED BY <3>1, <3>2, <1>8 DEF Output, Watches, Holds
  <2>4. CASE q # p
    <3>1. PICK d \in Clients : Reason(d)
      BY <2>1, <2>4, <1>a DEF TypeOK
    <3>2. queue'[d] >= Low
      BY <3>1, <2>2, WaterAssumption DEF TypeOK, Holds
    <3> QED BY <3>1, <3>2, <1>8 DEF Output, Watches, Holds
  <2> QED BY <2>3, <2>4
<1>9. CASE UNCHANGED vars
  BY <1>9, <1>a DEF vars, Holds
<1> QED BY <1>1, <1>2, <1>3, <1>4, <1>5, <1>6, <1>7, <1>8, <1>9 DEF Next

-----------------------------------------------------------------------------
\* The send queues are never negative and every pane is paused or not,
\* whatever clients and shells do.
THEOREM TypeCorrect == Spec => []TypeOK
<1>1. Init => TypeOK
  BY DEF Init, TypeOK
<1> QED BY <1>1, TypeInductive, PTL DEF Spec

\* No pane is left paused with nothing to wake it, as long as clients stay
\* with their session (no Detach, no second Attach) and none is killed for a
\* frame: whatever the order in which they drain, close and fall behind.
THEOREM PanesAreWoken == Spec => []NeverLeftPaused
<1>1. Init => AttachCounted /\ NeverLeftPaused
  BY DEF Init, NeverLeftPaused, PausedHasReason, AttachCounted
<1>2. TypeOK /\ AttachCounted /\ NeverLeftPaused /\ [Next]_vars
      => AttachCounted' /\ NeverLeftPaused'
  BY PausedInductive, AttachCountedInductive
<1> QED BY <1>1, <1>2, TypeCorrect, PTL DEF Spec

-----------------------------------------------------------------------------
(* QueueBounded: a burst can always be charged to a pane that is awake.    *)

Room     == Snap + Cardinality(Panes) * Burst
Bound(c) == High + attaches[c] * Room

\* The panes whose output a client may still be sent.
Awake(c) == {p \in Panes : ~paused[p] /\ SessionOf[p] = attached[c]}
Due(c)   == Cardinality(Awake(c)) * Burst

\* What is queued for a client, and what the panes that are awake may add to
\* it, fits.
Fits(c) == queue[c] + Due(c) <= Bound(c)

QueueInv ==
    /\ \A c \in Clients : st[c] = "up" => Fits(c)
    /\ \A c \in Clients : queue[c] <= Bound(c)
    /\ \A c \in Clients : st[c] = "off" => queue[c] = 0

\* Multiples of a number.
LEMMA Multiples ==
  ASSUME NEW a \in Nat, NEW b \in Nat, NEW k \in Nat
  PROVE  /\ a * k \in Nat /\ (a + 1) * k = a * k + k /\ (a >= 1 => k <= a * k)
         /\ (a <= b => a * k <= b * k)
<1>1. a * k \in Nat /\ (a + 1) * k = a * k + k
  OBVIOUS
<1>2. ASSUME NEW m \in Nat, NEW n \in Nat, m <= n PROVE m * k <= n * k
  <2>1. n - m \in Nat /\ n = m + (n - m)
    BY <1>2
  <2>2. (n - m) * k \in Nat /\ n * k = m * k + (n - m) * k
    BY <2>1
  <2>3. m * k \in Nat
    OBVIOUS
  <2> QED BY <2>2, <2>3
<1>3. a >= 1 => k <= a * k
  <2>1. a >= 1 => 1 * k <= a * k
    BY <1>2
  <2> QED BY <2>1
<1> QED BY <1>1, <1>2, <1>3

\* The bursts of some panes are no more than those of more panes.
LEMMA Bursts ==
  ASSUME NEW U \in SUBSET Panes, NEW T \in SUBSET U
  PROVE  /\ IsFiniteSet(T) /\ Cardinality(T) \in Nat /\ Cardinality(T) * Burst \in Nat
         /\ Cardinality(T) * Burst <= Cardinality(U) * Burst
         /\ Room \in Nat /\ Cardinality(T) * Burst + Snap <= Room
<1>1. IsFiniteSet(U) /\ IsFiniteSet(T) /\ Cardinality(T) <= Cardinality(U)
      /\ Cardinality(U) <= Cardinality(Panes)
  BY PanesAssumption, FS_Subset
<1>2. Cardinality(T) \in Nat /\ Cardinality(U) \in Nat /\ Cardinality(Panes) \in Nat
  BY <1>1, PanesAssumption, FS_CardinalityType
<1>3. Burst \in Nat /\ Snap \in Nat
  BY WaterAssumption
<1>4. /\ Cardinality(T) * Burst \in Nat /\ Cardinality(U) * Burst \in Nat
      /\ Cardinality(Panes) * Burst \in Nat
      /\ Cardinality(T) * Burst <= Cardinality(U) * Burst
      /\ Cardinality(U) * Burst <= Cardinality(Panes) * Burst
  BY <1>1, <1>2, <1>3, Multiples
<1> QED BY <1>1, <1>2, <1>3, <1>4 DEF Room

\* The numbers of a client.
LEMMA ClientTypes ==
  TypeOK => \A c \in Clients :
     /\ Due(c) \in Nat /\ Bound(c) \in Nat /\ High \in Nat /\ Due(c) + Snap <= Room /\ Room \in Nat
     /\ attaches[c] >= 1 => High + Room <= Bound(c)
<1> SUFFICES ASSUME TypeOK, NEW c \in Clients
             PROVE  /\ Due(c) \in Nat /\ Bound(c) \in Nat /\ High \in Nat
                    /\ Due(c) + Snap <= Room /\ Room \in Nat
                    /\ attaches[c] >= 1 => High + Room <= Bound(c)
  OBVIOUS
<1>1. Awake(c) \in SUBSET Panes /\ Panes \in SUBSET Panes
  BY DEF Awake
<1>2. Due(c) \in Nat /\ Room \in Nat /\ Due(c) + Snap <= Room
  BY <1>1, Bursts DEF Due
<1>3. attaches[c] \in Nat /\ High \in Nat
  BY WaterAssumption DEF TypeOK
<1>4. attaches[c] * Room \in Nat /\ (attaches[c] >= 1 => Room <= attaches[c] * Room)
  BY <1>2, <1>3, Multiples
<1> QED BY <1>2, <1>3, <1>4 DEF Bound

\* A client that is not above the high mark has room for a burst of every
\* pane of its session: it has attached.
LEMMA HighFits ==
  TypeOK /\ AttachCounted => \A c \in Clients : queue[c] <= High => Fits(c)
<1> SUFFICES ASSUME TypeOK, AttachCounted, NEW c \in Clients, queue[c] <= High PROVE Fits(c)
  OBVIOUS
<1>1. /\ Due(c) \in Nat /\ Bound(c) \in Nat /\ High \in Nat /\ Room \in Nat /\ Snap \in Nat
      /\ Due(c) + Snap <= Room /\ queue[c] \in Nat /\ attaches[c] \in Nat
      /\ attaches[c] >= 1 => High + Room <= Bound(c)
  BY ClientTypes, WaterAssumption DEF TypeOK
<1>2. CASE attaches[c] >= 1
  BY <1>1, <1>2 DEF Fits
<1>3. CASE attaches[c] = 0
  <2>1. attached[c] = Nowhere
    BY <1>3 DEF AttachCounted
  <2>2. Awake(c) = {}
    BY <2>1, WaterAssumption, NowhereAssumption DEF Awake
  <2>3. Due(c) = 0
    BY <2>2, FS_EmptySet, WaterAssumption DEF Due
  <2>4. attaches[c] * Room \in Nat
    BY <1>1, Multiples
  <2>5. Bound(c) >= High
    BY <1>1, <2>4 DEF Bound
  <2> QED BY <1>1, <2>3, <2>5 DEF Fits
<1> QED BY <1>1, <1>2, <1>3

\* Both, of the state after a step.
LEMMA NextTypes ==
  (TypeOK => \A c \in Clients :
     /\ Due(c) \in Nat /\ Bound(c) \in Nat /\ High \in Nat /\ Due(c) + Snap <= Room /\ Room \in Nat
     /\ attaches[c] >= 1 => High + Room <= Bound(c))'
BY ClientTypes, PTL

LEMMA NextFits ==
  (TypeOK /\ AttachCounted => \A c \in Clients : queue[c] <= High => Fits(c))'
BY HighFits, PTL

\* When the panes of a session are woken, another client of the session is at
\* the low mark, or none of its panes is.
LEMMA WakingFits ==
  ASSUME TypeOK, AttachCounted, NEW d \in Clients, ResumeSessionPanes(attached[d], d),
         NEW c \in Clients \ {d}, st[c] = "up", attached' = attached
  PROVE  Awake(c)' = Awake(c) \/ queue[c] <= Low
<1> SUFFICES ASSUME ~(queue[c] <= Low) PROVE Awake(c)' = Awake(c)
  OBVIOUS
<1>1. queue[c] > Low
  BY WaterAssumption DEF TypeOK
<1>2. CASE attached[c] = attached[d]
  <2>1. paused' = paused
    BY <1>1, <1>2 DEF ResumeSessionPanes, Watches
  <2> QED BY <2>1 DEF Awake
<1>3. CASE attached[c] # attached[d]
  <2>1. \A p \in Panes : SessionOf[p] = attached[c] => paused'[p] = paused[p]
    BY <1>3 DEF ResumeSessionPanes, TypeOK
  <2> QED BY <2>1 DEF Awake
<1> QED BY <1>2, <1>3

LEMMA QueueInductive ==
  ASSUME TypeOK, AttachCounted, QueueInv, [Next]_vars
  PROVE  QueueInv'
<1> DEFINE Goal(c) == /\ st'[c] = "up" => Fits(c)'
                      /\ queue'[c] <= Bound(c)'
                      /\ st'[c] = "off" => queue'[c] = 0
<1>1. TypeOK' /\ AttachCounted'
  BY TypeInductive, AttachCountedInductive
<1>2. SUFFICES ASSUME NEW c \in Clients PROVE Goal(c)
  BY DEF QueueInv
<1>3. /\ queue[c] <= Bound(c) /\ (st[c] = "up" => Fits(c)) /\ (st[c] = "off" => queue[c] = 0)
  BY DEF QueueInv
<1>4. /\ Due(c) \in Nat /\ Bound(c) \in Nat /\ High \in Nat /\ Low \in Nat /\ Low <= High
      /\ Room \in Nat /\ Snap \in Nat /\ Burst \in Nat /\ queue[c] \in Nat /\ attaches[c] \in Nat
  BY ClientTypes, WaterAssumption DEF TypeOK
<1>5. Due(c)' \in Nat /\ Bound(c)' \in Nat /\ Due(c)' + Snap <= Room /\ queue'[c] \in Nat
  BY <1>1, NextTypes DEF TypeOK
\* A queue that is not above the high mark.
<1>6. queue'[c] <= High => Fits(c)' /\ queue'[c] <= Bound(c)'
  BY <1>1, <1>5, NextFits DEF Fits
\* A queue that has not grown.
<1>7. ASSUME attaches'[c] = attaches[c], queue'[c] <= queue[c]
      PROVE  queue'[c] <= Bound(c)' /\ (Awake(c)' = Awake(c) /\ st[c] = "up" => Fits(c)')
  <2>1. Bound(c)' = Bound(c)
    BY <1>7 DEF Bound
  <2>2. Awake(c)' = Awake(c) => Due(c)' = Due(c)
    BY DEF Due
  <2> QED BY <1>3, <1>4, <1>5, <1>7, <2>1, <2>2 DEF Fits
<1>8. ASSUME NEW d \in Clients, Connect(d) \/ Kill(d) \/ Sweep(d) PROVE Goal(c)
  <2>1. /\ attaches' = attaches /\ paused' = paused /\ attached' = attached
        /\ queue'[c] \in {queue[c], 0}
    BY <1>8 DEF Connect, Kill, Sweep, TypeOK
  <2>2. Awake(c)' = Awake(c)
    BY <2>1 DEF Awake
  <2>3. CASE Connect(d)
    <3>1. queue' = queue /\ st' = [st EXCEPT ![d] = "up"] /\ st[d] = "off"
      BY <2>3 DEF Connect
    <3>2. CASE c = d
      <4>1. queue'[c] = 0 /\ st'[c] = "up"
        BY <1>3, <3>1, <3>2 DEF TypeOK
      <4> QED BY <1>4, <1>6, <4>1
    <3>3. CASE c # d
      BY <1>3, <1>4, <1>7, <2>1, <2>2, <3>1, <3>3 DEF TypeOK
    <3> QED BY <3>2, <3>3
  <2>4. CASE Kill(d) \/ Sweep(d)
    <3>1. /\ queue'[c] <= queue[c] /\ (st[c] = "off" => queue'[c] = 0)
          /\ st'[c] = "up" => st[c] = "up"
          /\ st'[c] = "off" => st[c] = "off"
      BY <1>3, <1>4, <2>1, <2>4 DEF Kill, Sweep, TypeOK
    <3> QED BY <1>7, <2>1, <2>2, <3>1
  <2> QED BY <1>8, <2>3, <2>4
<1>9. ASSUME NEW d \in Clients, Detach(d) PROVE Goal(c)
  <2>1. /\ queue' = queue /\ st' = st /\ attaches' = attaches /\ paused' = paused
        /\ attached' = [attached EXCEPT ![d] = Nowhere] /\ st[d] = "up"
    BY <1>9 DEF Detach
  <2>2. CASE c = d
    <3>1. attached'[c] = Nowhere
      BY <2>1, <2>2 DEF TypeOK
    <3>2. Awake(c)' = {}
      BY <3>1, WaterAssumption, NowhereAssumption DEF Awake
    <3>3. Due(c)' = 0
      BY <3>2, <1>4, FS_EmptySet DEF Due
    <3> QED BY <1>3, <1>4, <1>7, <2>1, <2>2, <3>3 DEF Fits
  <2>3. CASE c # d
    <3>1. Awake(c)' = Awake(c)
      BY <2>1, <2>3 DEF Awake, TypeOK
    <3> QED BY <1>3, <1>4, <1>7, <2>1, <3>1
  <2> QED BY <2>2, <2>3
<1>10. ASSUME NEW d \in Clients, NEW s \in Sessions, Attach(d, s) PROVE Goal(c)
  <2>1. PICK n \in 0..Snap : queue' = [queue EXCEPT ![d] = @ + n]
    BY <1>10 DEF Attach
  <2>2. /\ st' = st /\ paused' = paused /\ st[d] = "up"
        /\ attached' = [attached EXCEPT ![d] = s] /\ attaches' = [attaches EXCEPT ![d] = @ + 1]
    BY <1>10 DEF Attach
  <2>3. CASE c = d
    <3>1. queue'[c] = queue[c] + n /\ attaches'[c] = attaches[c] + 1 /\ st'[c] = "up"
      BY <2>1, <2>2, <2>3 DEF TypeOK
    <3>2. (attaches[c] + 1) * Room = attaches[c] * Room + Room /\ attaches[c] * Room \in Nat
      BY <1>4, Multiples
    <3>3. Bound(c)' = Bound(c) + Room
      BY <1>4, <3>1, <3>2 DEF Bound, Room
    <3> QED BY <1>3, <1>4, <1>5, <2>1, <3>1, <3>3 DEF Fits
  <2>4. CASE c # d
    <3>1. queue'[c] = queue[c] /\ attaches'[c] = attaches[c] /\ attached'[c] = attached[c]
      BY <2>1, <2>2, <2>4 DEF TypeOK
    <3>2. Awake(c)' = Awake(c)
      BY <2>2, <3>1 DEF Awake
    <3> QED BY <1>3, <1>4, <1>7, <2>2, <3>1, <3>2
  <2> QED BY <2>3, <2>4
<1>11. ASSUME NEW d \in Clients, Drain(d) PROVE Goal(c)
  <2>1. PICK n \in 1..queue[d] :
          /\ queue' = [queue EXCEPT ![d] = @ - n]
          /\ IF queue[d] >= Low /\ queue[d] - n < Low
             THEN ResumeSessionPanes(attached[d], d) ELSE UNCHANGED paused
    BY <1>11 DEF Drain
  <2>2. st' = st /\ attached' = attached /\ attaches' = attaches /\ st[d] # "off"
    BY <1>11 DEF Drain
  <2>3. queue'[c] <= queue[c] /\ (c # d => queue'[c] = queue[c])
    BY <1>4, <2>1 DEF TypeOK
  <2>4. st'[c] = "off" => queue'[c] = 0
    BY <1>3, <2>2, <2>3
  <2>5. CASE queue[d] >= Low /\ queue[d] - n < Low
    <3>1. CASE c = d
      <4>1. queue'[c] < Low
        BY <2>1, <2>5, <3>1 DEF TypeOK
      <4> QED BY <1>4, <1>5, <1>6, <2>4, <4>1
    <3>2. CASE c # d
      <4>1. st[c] = "up" => Awake(c)' = Awake(c) \/ queue[c] <= Low
        BY <2>1, <2>2, <2>5, <3>2, WakingFits
      <4> QED BY <1>4, <1>6, <1>7, <2>2, <2>3, <2>4, <3>2, <4>1
    <3> QED BY <3>1, <3>2
  <2>6. CASE ~(queue[d] >= Low /\ queue[d] - n < Low)
    <3>1. Awake(c)' = Awake(c)
      BY <2>1, <2>2, <2>6 DEF Awake
    <3> QED BY <1>7, <2>2, <2>3, <2>4, <3>1
  <2> QED BY <2>5, <2>6
<1>12. ASSUME NEW d \in Clients, Close(d) PROVE Goal(c)
  <2>1. /\ st' = [st EXCEPT ![d] = "closed"] /\ queue' = [queue EXCEPT ![d] = 0]
        /\ ResumeSessionPanes(attached[d], d) /\ attached' = attached /\ attaches' = attaches
    BY <1>12 DEF Close
  <2>2. CASE c = d
    <3>1. queue'[c] = 0
      BY <2>1, <2>2 DEF TypeOK
    <3> QED BY <1>4, <1>6, <3>1
  <2>3. CASE c # d
    <3>1. queue'[c] = queue[c] /\ st'[c] = st[c]
      BY <2>1, <2>3 DEF TypeOK
    <3>2. st[c] = "up" => Awake(c)' = Awake(c) \/ queue[c] <= Low
      BY <2>1, <2>3, WakingFits
    <3> QED BY <1>3, <1>4, <1>6, <1>7, <2>1, <3>1, <3>2
  <2> QED BY <2>2, <2>3
<1>13. ASSUME NEW p \in Panes, Output(p) PROVE Goal(c)
  <2> DEFINE fed(n, k) == IF Watches(k, SessionOf[p]) THEN queue[k] + n ELSE queue[k]
  <2>1. PICK n \in 1..Burst :
          /\ queue' = [k \in Clients |-> fed(n, k)]
          /\ paused' = [paused EXCEPT ![p] =
               \E k \in Clients : Watches(k, SessionOf[p]) /\ [j \in Clients |-> fed(n, j)][k] > High]
    BY <1>13 DEF Output
  <2>2. st' = st /\ attached' = attached /\ attaches' = attaches /\ ~paused[p]
    BY <1>13 DEF Output
  <2>3. CASE ~Watches(c, SessionOf[p])
    <3>1. queue'[c] = queue[c]
      BY <2>1, <2>3
    <3>2. st[c] = "up" => Awake(c)' = Awake(c)
      <4>1. \A q \in Panes \ {p} : paused'[q] = paused[q]
        BY <2>1 DEF TypeOK
      <4>2. st[c] = "up" => SessionOf[p] # attached[c]
        BY <2>3 DEF Watches
      <4> QED BY <2>2, <4>1, <4>2 DEF Awake
    <3> QED BY <1>3, <1>4, <1>7, <2>2, <3>1, <3>2
  <2>4. CASE Watches(c, SessionOf[p]) /\ queue[c] + n <= High
    <3>1. queue'[c] = queue[c] + n /\ st'[c] = "up"
      BY <2>1, <2>2, <2>4 DEF Watches
    <3> QED BY <1>6, <2>4, <3>1
  <2>5. CASE Watches(c, SessionOf[p]) /\ ~(queue[c] + n <= High)
    <3>1. queue'[c] = queue[c] + n /\ queue[c] + n > High /\ st'[c] = "up" /\ st[c] = "up"
          /\ SessionOf[p] = attached[c]
      BY <1>4, <2>1, <2>2, <2>5 DEF Watches
    <3>2. paused'[p] /\ \A q \in Panes \ {p} : paused'[q] = paused[q]
      BY <2>1, <2>5, <3>1 DEF TypeOK
    <3>3. Awake(c)' = Awake(c) \ {p} /\ p \in Awake(c)
      BY <2>2, <3>1, <3>2 DEF Awake
    <3>4. Awake(c) \in SUBSET Panes /\ Awake(c) \in SUBSET Awake(c)
      BY DEF Awake
    <3>5. IsFiniteSet(Awake(c)) /\ Cardinality(Awake(c)) \in Nat
      BY <3>4, Bursts
    <3>6. Cardinality(Awake(c)') = Cardinality(Awake(c)) - 1 /\ Cardinality(Awake(c)) >= 1
      <4>1. Cardinality(Awake(c) \ {p}) = Cardinality(Awake(c)) - 1
        BY <3>3, <3>5, FS_RemoveElement
      <4>2. Cardinality(Awake(c)) # 0
        BY <3>3, <3>5, FS_EmptySet
      <4> QED BY <3>3, <3>5, <4>1, <4>2
    <3>7. Due(c) = Due(c)' + Burst
      <4> DEFINE k == Cardinality(Awake(c)) - 1
      <4>1. k \in Nat
        BY <3>5, <3>6
      <4>2. (k + 1) * Burst = k * Burst + Burst
        BY <1>4, <4>1, Multiples
      <4>3. Cardinality(Awake(c)) = k + 1
        BY <3>5
      <4>4. Due(c)' = k * Burst
        BY <3>6 DEF Due
      <4> HIDE DEF k
      <4> QED BY <4>2, <4>3, <4>4 DEF Due
    <3>8. Bound(c)' = Bound(c)
      BY <2>2 DEF Bound
    <3> QED BY <1>3, <1>4, <1>5, <2>1, <3>1, <3>7, <3>8 DEF Fits
  <2> QED BY <2>3, <2>4, <2>5
<1>14. CASE UNCHANGED vars
  <2>1. Awake(c)' = Awake(c) /\ queue'[c] = queue[c] /\ st' = st /\ attaches' = attaches
    BY <1>14 DEF vars, Awake
  <2> QED BY <1>3, <1>4, <1>7, <2>1
<1> HIDE DEF Goal
<1> QED BY <1>8, <1>9, <1>10, <1>11, <1>12, <1>13, <1>14 DEF Next

\* However slow its link and however busy the shells, what is queued for a
\* client is bounded by the high mark, a burst of every pane and what it asked
\* for: a pane that overfills a queue has to sleep until the queue was low.
THEOREM QueuesAreBounded == Spec => []QueueBounded
<1>1. Init => AttachCounted /\ QueueInv
  <2> SUFFICES ASSUME Init PROVE AttachCounted /\ QueueInv
    OBVIOUS
  <2>1. TypeOK /\ AttachCounted
    BY DEF Init, TypeOK, AttachCounted
  <2>2. \A c \in Clients : queue[c] = 0 /\ Fits(c)
    BY <2>1, HighFits, WaterAssumption DEF Init
  <2>3. \A c \in Clients : queue[c] <= Bound(c)
    BY <2>1, <2>2, ClientTypes
  <2> QED BY <2>1, <2>2, <2>3 DEF QueueInv
<1>2. TypeOK /\ AttachCounted /\ QueueInv /\ [Next]_vars => AttachCounted' /\ QueueInv'
  BY QueueInductive, AttachCountedInductive
<1>3. QueueInv => QueueBounded
  BY DEF QueueInv, QueueBounded, Bound, Room
<1> QED BY <1>1, <1>2, <1>3, TypeCorrect, PTL DEF Spec

-----------------------------------------------------------------------------
(* Acknowledgements.  The daemon keeps one number and one sender per pane.  *)
(* What makes the number safe to send is that it always comes from the      *)
(* sender's own input (Numbered), that a connection begins with no input on *)
(* its way (Unused), and that a broken link carries no frames.              *)

Input  == [seq : Nat, key : Nat]
Frame  == [kind : {"out", "snap", "ack"}, upto : Nat, seq : Nat]

EchoTypes ==
    /\ typed \in Nat /\ conn \in Conns /\ linked \in BOOLEAN
    /\ sent \in Seq(Nat) /\ up \in [Conns -> Seq(Input)] /\ down \in Seq(Frame)
    /\ alive \subseteq 1..conn
    /\ inSeq \in Nat /\ inClient \in 0..conn
    /\ pty \in Seq(Nat) /\ tail \in Seq(Nat) /\ out \in Seq(Nat)

\* Input on its way over the link, and the number the pane keeps of it, was
\* numbered by the window since it last began to count.
Numbered ==
    linked => /\ \A i \in DOMAIN up[conn] : up[conn][i].seq <= Len(sent)
              /\ inClient = conn => inSeq <= Len(sent)

Unused == \A c \in Conns : c > conn => up[c] = <<>>
Silent == ~linked => down = <<>>

AckInv == EchoTypes /\ Numbered /\ Unused /\ Silent /\ AckSane

-----------------------------------------------------------------------------
\* Taking the first of a sequence leaves elements of it.
LEMMA TailOf ==
  ASSUME NEW S, NEW s \in Seq(S), s # <<>>
  PROVE  /\ Head(s) \in S /\ Tail(s) \in Seq(S) /\ Head(s) = s[1] /\ 1 \in DOMAIN s
         /\ \A i \in DOMAIN Tail(s) : i + 1 \in DOMAIN s /\ Tail(s)[i] = s[i + 1]
OBVIOUS

\* Adding one keeps the others where they are.
LEMMA Appended ==
  ASSUME NEW S, NEW s \in Seq(S), NEW e \in S
  PROVE  /\ Append(s, e) \in Seq(S) /\ Len(Append(s, e)) = Len(s) + 1
         /\ DOMAIN Append(s, e) = DOMAIN s \cup {Len(s) + 1}
         /\ Append(s, e)[Len(s) + 1] = e
         /\ \A i \in DOMAIN s : Append(s, e)[i] = s[i]
OBVIOUS

LEMMA TypeStep ==
  ASSUME AckInv, Type PROVE AckInv'
<1> USE DEF AckInv, EchoTypes, window, pane, shell
<1> DEFINE key == [seq |-> Len(sent'), key |-> typed']
<1>1. /\ typed' = typed + 1 /\ sent' = Append(sent, typed')
      /\ UNCHANGED <<conn, linked, down, alive, pane, shell>>
  BY DEF Type
<1>2. sent' \in Seq(Nat) /\ Len(sent') = Len(sent) + 1 /\ key \in Input
  BY <1>1 DEF Input
<1>3. CASE linked
  <2>1. up' = [up EXCEPT ![conn] = Append(@, key)]
    BY <1>3 DEF Type
  <2> HIDE DEF key
  <2>2. up[conn] \in Seq(Input) /\ key \in Input
    BY <1>2
  <2>3. /\ Append(up[conn], key) \in Seq(Input)
        /\ DOMAIN Append(up[conn], key) = DOMAIN up[conn] \cup {Len(up[conn]) + 1}
        /\ Append(up[conn], key)[Len(up[conn]) + 1] = key
        /\ \A i \in DOMAIN up[conn] : Append(up[conn], key)[i] = up[conn][i]
    BY ONLY <2>2, Appended
  <2>4. up' \in [Conns -> Seq(Input)] /\ up'[conn] = Append(up[conn], key)
        /\ \A c \in Conns \ {conn} : up'[c] = up[c]
    BY <2>1, <2>3
  <2>5. \A i \in DOMAIN up'[conn] : up'[conn][i].seq <= Len(sent')
    <3> SUFFICES ASSUME NEW i \in DOMAIN up'[conn] PROVE up'[conn][i].seq <= Len(sent')
      OBVIOUS
    <3>1. CASE i = Len(up[conn]) + 1
      <4>1. key.seq = Len(sent')
        BY DEF key
      <4> QED BY <1>2, <2>3, <2>4, <3>1, <4>1
    <3>2. CASE i \in DOMAIN up[conn]
      <4>1. up[conn][i].seq <= Len(sent)
        BY <1>3, <3>2 DEF Numbered
      <4>2. up[conn][i] \in Input /\ Len(sent) \in Nat
        BY <2>2, <3>2
      <4>3. up[conn][i].seq \in Nat
        BY <4>2 DEF Input
      <4> QED BY <1>2, <2>3, <2>4, <3>2, <4>1, <4>2, <4>3
    <3> QED BY <2>3, <2>4, <3>1, <3>2
  <2>6. Numbered'
    BY <1>1, <1>2, <1>3, <2>5 DEF Numbered
  <2>7. AckSane'
    <3>1. \A i \in DOMAIN down : down[i] \in Frame /\ down[i].seq \in Nat
      <4>1. \A i \in DOMAIN down : down[i] \in Frame
        OBVIOUS
      <4> QED BY <4>1 DEF Frame
    <3>2. Len(sent) \in Nat /\ down' = down
      BY <1>1
    <3>3. ASSUME NEW i \in DOMAIN down, down[i].kind = "ack" PROVE down[i].seq <= Len(sent')
      <4>1. down[i].seq <= Len(sent)
        BY <3>3 DEF AckSane
      <4> QED BY <1>2, <3>1, <3>2, <4>1
    <3> QED BY <3>2, <3>3 DEF AckSane
  <2>8. Unused'
    BY <1>1, <2>4 DEF Unused, Conns
  <2> QED BY <1>1, <1>2, <1>3, <2>4, <2>6, <2>7, <2>8 DEF Silent
<1>4. CASE ~linked
  <2>1. up' = up
    BY <1>4 DEF Type
  <2> QED BY <1>1, <1>2, <1>4, <2>1 DEF Numbered, Unused, Silent, AckSane
<1> QED BY <1>3, <1>4

LEMMA RecvStep ==
  ASSUME AckInv, Recv PROVE AckInv'
<1> USE DEF AckInv, EchoTypes, window, pane, shell
<1>1. /\ linked /\ down # <<>> /\ down' = Tail(down)
      /\ UNCHANGED <<typed, conn, linked, sent, up, alive, pane, shell>>
  BY DEF Recv
<1>2. AckSane'
  BY <1>1, TailOf DEF AckSane
<1>3. down' \in Seq(Frame)
  BY <1>1, TailOf
<1>4. /\ typed' = typed /\ conn' = conn /\ linked' = linked /\ sent' = sent /\ up' = up
      /\ alive' = alive /\ inSeq' = inSeq /\ inClient' = inClient
      /\ pty' = pty /\ tail' = tail /\ out' = out
  BY <1>1
<1>5. EchoTypes'
  BY <1>3, <1>4
<1>6. Numbered' /\ Unused' /\ Silent'
  BY <1>1, <1>4 DEF Numbered, Unused, Silent
<1> QED BY <1>2, <1>5, <1>6

LEMMA LinkSteps ==
  ASSUME AckInv, Disconnect \/ Reconnect PROVE AckInv'
<1> USE DEF AckInv, EchoTypes, window, pane, shell
<1>1. CASE Disconnect
  <2>1. /\ linked' = FALSE /\ sent' = <<>> /\ down' = <<>>
        /\ UNCHANGED <<typed, conn, up, alive, pane, shell>>
    BY <1>1 DEF Disconnect
  <2>2. sent' \in Seq(Nat) /\ down' \in Seq(Frame) /\ DOMAIN down' = {}
    BY <2>1
  <2>3. EchoTypes'
    BY <2>1, <2>2
  <2>4. Numbered' /\ Unused' /\ Silent' /\ AckSane'
    BY <2>1, <2>2 DEF Numbered, Unused, Silent, AckSane
  <2> QED BY <2>3, <2>4
<1>2. CASE Reconnect
  <2>1. PICK k \in {"out", "snap"} : down' = <<[kind |-> k, upto |-> Len(out), seq |-> 0]>>
    BY <1>2 DEF Reconnect
  <2>2. /\ linked' = TRUE /\ conn' = conn + 1 /\ conn < MaxConns /\ alive' = alive \cup {conn'}
        /\ UNCHANGED <<typed, sent, up, pane, shell>>
    BY <1>2 DEF Reconnect
  <2>3. conn' \in Conns /\ conn \in Nat /\ up[conn'] = <<>> /\ inClient # conn'
    BY <2>2, EchoAssumption DEF Unused, Conns
  <2>4. down' \in Seq(Frame) /\ AckSane'
    BY <2>1 DEF Frame, AckSane
  <2>5. alive' \subseteq 1..conn' /\ inClient' \in 0..conn'
    BY <2>2, <2>3
  <2>6. Numbered' /\ Unused' /\ Silent'
    BY <2>2, <2>3 DEF Numbered, Unused, Silent, Conns
  <2> QED BY <2>2, <2>3, <2>4, <2>5, <2>6
<1> QED BY <1>1, <1>2

LEMMA InputStep ==
  ASSUME AckInv, NEW c \in Conns, HandleInput(c) PROVE AckInv'
<1> USE DEF AckInv, EchoTypes, window, pane, shell
<1>1. /\ c \in alive /\ up[c] # <<>> /\ inSeq' = Head(up[c]).seq /\ inClient' = c
      /\ pty' = Append(pty, Head(up[c]).key) /\ up' = [up EXCEPT ![c] = Tail(@)]
      /\ UNCHANGED <<window, down, alive, tail, out>>
  BY DEF HandleInput
<1>2. /\ Head(up[c]) \in Input /\ Tail(up[c]) \in Seq(Input) /\ Head(up[c]) = up[c][1]
      /\ 1 \in DOMAIN up[c]
      /\ \A i \in DOMAIN Tail(up[c]) : i + 1 \in DOMAIN up[c] /\ Tail(up[c])[i] = up[c][i + 1]
  BY <1>1, TailOf
<1>3. up' \in [Conns -> Seq(Input)] /\ up'[c] = Tail(up[c]) /\ \A d \in Conns \ {c} : up'[d] = up[d]
  BY <1>1, <1>2
<1>4. inSeq' \in Nat /\ inClient' \in 0..conn /\ pty' \in Seq(Nat)
  BY <1>1, <1>2 DEF Input, Conns
<1>5. Numbered'
  BY <1>1, <1>2, <1>3, SMTT(20) DEF Numbered
<1>6. Unused'
  BY <1>1, <1>3 DEF Unused, Conns
<1>7. Silent' /\ AckSane'
  BY <1>1 DEF Silent, AckSane
<1> QED BY <1>1, <1>3, <1>4, <1>5, <1>6, <1>7

LEMMA OutputStep ==
  ASSUME AckInv, ReadPty PROVE AckInv'
<1> USE DEF AckInv, EchoTypes, window, pane, shell
<1>1. PICK n \in 1..Len(tail) : /\ out' = out \o SubSeq(tail, 1, n)
                                /\ tail' = SubSeq(tail, n + 1, Len(tail))
  BY DEF ReadPty
<1>2. out' \in Seq(Nat) /\ tail' \in Seq(Nat)
  <2>1. n \in Int /\ n <= Len(tail) /\ Len(tail) \in Nat /\ \A i \in 1..Len(tail) : tail[i] \in Nat
    OBVIOUS
  <2>2. SubSeq(tail, 1, n) \in Seq(Nat)
    <3>1. \A i \in 1..n : tail[i] \in Nat
      BY <2>1
    <3> QED BY ONLY <2>1, <3>1, SubSeqProperties
  <2>3. SubSeq(tail, n + 1, Len(tail)) \in Seq(Nat)
    <3>1. n + 1 \in Int /\ Len(tail) \in Int /\ \A i \in n + 1..Len(tail) : tail[i] \in Nat
      BY <2>1
    <3> QED BY ONLY <3>1, SubSeqProperties
  <2>4. out \o SubSeq(tail, 1, n) \in Seq(Nat)
    BY <2>2, ConcatProperties
  <2> QED BY <1>1, <2>3, <2>4
<1>3. UNCHANGED <<window, up, alive, inSeq, inClient, pty>>
  BY DEF ReadPty
<1> DEFINE o == [kind |-> "out", upto |-> Len(out'), seq |-> 0]
           a == [kind |-> "ack", upto |-> Len(out'), seq |-> inSeq]
<1>4. o \in Frame /\ a \in Frame
  BY <1>2 DEF Frame
<1>5. \/ down' = down
      \/ linked /\ down' = Append(down, o)
      \/ linked /\ inClient = conn /\ down' = Append(Append(down, o), a)
  <2> DEFINE acked == inClient # 0 /\ inSeq # ackedSeq /\ inClient = conn
  <2>1. CASE ~linked
    BY <2>1 DEF ReadPty
  <2>2. CASE linked /\ ~acked
    <3>1. down' = Append(down, o) \o <<>>
      BY <2>2 DEF ReadPty
    <3>2. Append(down, o) \in Seq(Frame)
      BY <1>4, Appended
    <3> QED BY <2>2, <3>1, <3>2, ConcatEmptySeq
  <2>3. CASE linked /\ acked
    <3>1. down' = Append(down, o) \o <<a>>
      BY <2>3 DEF ReadPty
    <3>2. Append(down, o) \in Seq(Frame)
      BY <1>4, Appended
    <3>3. Append(down, o) \o <<a>> = Append(Append(down, o), a)
      BY <1>4, <3>2, AppendIsConcat
    <3> QED BY <2>3, <3>1, <3>3
  <2> QED BY <2>1, <2>2, <2>3
<1>6. down' \in Seq(Frame)
  <2> HIDE DEF o, a
  <2>1. down \in Seq(Frame) /\ Append(down, o) \in Seq(Frame)
    BY <1>4, Appended
  <2>2. Append(Append(down, o), a) \in Seq(Frame)
    BY <1>4, <2>1, Appended
  <2> QED BY <1>5, <2>1, <2>2
<1>7. AckSane'
  <2>1. \A i \in DOMAIN down : down[i].kind = "ack" => down[i].seq <= Len(sent)
    BY DEF AckSane
  <2>2. linked /\ inClient = conn => inSeq <= Len(sent)
    BY DEF Numbered
  <2>3. CASE down' = down
    BY <1>3, <2>1, <2>3 DEF AckSane
  <2> DEFINE d == Append(down, o)
  <2>4. /\ d \in Seq(Frame) /\ DOMAIN d = DOMAIN down \cup {Len(down) + 1}
        /\ d[Len(down) + 1] = o /\ \A i \in DOMAIN down : d[i] = down[i]
    <3>1. o \in Frame /\ down \in Seq(Frame)
      BY <1>4
    <3> HIDE DEF o
    <3> QED BY ONLY <3>1, Appended
  <2>5. \A i \in DOMAIN d : d[i].kind = "ack" => d[i].seq <= Len(sent)
    <3>1. o.kind # "ack"
      OBVIOUS
    <3> HIDE DEF o, d
    <3> QED BY <2>1, <2>4, <3>1
  <2>6. CASE linked /\ down' = d
    <3> HIDE DEF d
    <3> QED BY <1>3, <2>5, <2>6 DEF AckSane
  <2>7. CASE linked /\ inClient = conn /\ down' = Append(d, a)
    <3>1. a.seq <= Len(sent)
      BY <2>2, <2>7
    <3>2. a \in Frame /\ d \in Seq(Frame)
      BY <1>4, <2>4
    <3> HIDE DEF a, d
    <3>3. /\ DOMAIN Append(d, a) = DOMAIN d \cup {Len(d) + 1}
          /\ Append(d, a)[Len(d) + 1] = a /\ \A i \in DOMAIN d : Append(d, a)[i] = d[i]
      BY ONLY <3>2, Appended
    <3>4. \A i \in DOMAIN Append(d, a) : Append(d, a)[i].kind = "ack" =>
             Append(d, a)[i].seq <= Len(sent)
      BY <2>5, <3>1, <3>3
    <3> QED BY <1>3, <2>7, <3>4 DEF AckSane
  <2> QED BY <1>5, <2>3, <2>6, <2>7
<1>8. Numbered' /\ Unused' /\ Silent'
  BY <1>3, <1>5 DEF Numbered, Unused, Silent
<1> QED BY <1>2, <1>3, <1>6, <1>7, <1>8

LEMMA AckInductive == AckInv /\ [EchoNext]_echoVars => AckInv'
<1> SUFFICES ASSUME AckInv, [EchoNext]_echoVars PROVE AckInv'
  OBVIOUS
<1> USE DEF window, pane, shell
<1>1. ASSUME NEW c \in Conns, SweepClient(c) PROVE AckInv'
  BY <1>1, SMTT(20) DEF SweepClient, AckInv, EchoTypes, Numbered, Unused, Silent, AckSane, Conns
<1>2. CASE Echo
  BY <1>2, TailOf, SMTT(20) DEF Echo, AckInv, EchoTypes, Numbered, Unused, Silent, AckSane
<1>3. CASE Chatter
  BY <1>3, SMTT(20) DEF Chatter, Other, AckInv, EchoTypes, Numbered, Unused, Silent, AckSane
<1>4. CASE UNCHANGED echoVars
  BY <1>4 DEF echoVars, AckInv, EchoTypes, Numbered, Unused, Silent, AckSane
<1> QED BY <1>1, <1>2, <1>3, <1>4, TypeStep, RecvStep, LinkSteps, InputStep, OutputStep DEF EchoNext

\* Over any number of reconnects, with ghosts of earlier connections still
\* typing at the daemon, an acknowledgement on its way to the window is for
\* input that this window has numbered on this connection.
THEOREM AcksAreSane == EchoSpec => []AckSane
<1>1. EchoInit => AckInv
  BY EchoAssumption DEF EchoInit, AckInv, EchoTypes, Conns, Numbered, Unused, Silent, AckSane
<1>2. AckInv => AckSane
  BY DEF AckInv
<1> QED BY <1>1, <1>2, AckInductive, PTL DEF EchoSpec
=============================================================================
