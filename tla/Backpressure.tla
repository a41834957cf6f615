---------------------------- MODULE Backpressure -----------------------------
(***************************************************************************)
(* Backpressure in rivtd: the send queue of every QUIC client, the water   *)
(* marks, and the panes that stop being read while a client that watches   *)
(* them is too far behind.                                                 *)
(*                                                                         *)
(* A pane that is not read stalls its shell, for every client; it is read  *)
(* again when a queue falls below the low mark or a connection closes, and *)
(* nothing else wakes it.                                                  *)
(*                                                                         *)
(* Sources: src/src/daemon/rivtd.cpp, src/src/net/quic_engine.cpp and      *)
(* src/src/core/pane.cpp.  Queue lengths are in units of a PTY read.       *)
(***************************************************************************)
EXTENDS Integers, FiniteSets

CONSTANTS
    Clients, Panes, Sessions,
    SessionOf,   \* the session of each pane
    Low, High,   \* SEND_LOW_WATER, SEND_HIGH_WATER
    Burst,       \* what one readiness of a PTY can deliver at most
    Snap,        \* what one Attach can queue at most
    MaxAttach    \* bound: Attach requests per client

ASSUME WaterAssumption ==
    /\ Low \in Nat \ {0} /\ High \in Nat /\ Low <= High
    /\ Burst \in Nat \ {0} /\ Snap \in Nat /\ MaxAttach \in Nat
    /\ SessionOf \in [Panes -> Sessions]

VARIABLES
    st,         \* per client: off, up, killed (not swept yet), swept, closed
    attached,   \* Client::attached
    queue,      \* Conn::queued()
    paused,     \* Pane::m_read_paused
    attaches    \* how often each client has attached

vars == <<st, attached, queue, paused, attaches>>

Nowhere == "nowhere"

ASSUME NowhereAssumption == Nowhere \notin Sessions

\* m_panes is a map of the process.
ASSUME PanesAssumption == IsFiniteSet(Panes)

Init ==
    /\ st = [c \in Clients |-> "off"]
    /\ attached = [c \in Clients |-> Nowhere]
    /\ queue = [c \in Clients |-> 0]
    /\ paused = [p \in Panes |-> FALSE]
    /\ attaches = [c \in Clients |-> 0]

Watches(c, s) == st[c] = "up" /\ attached[c] = s

-----------------------------------------------------------------------------
\* resume_session_panes, called for client c: not while another client of
\* the session is still above the low mark.
ResumeSessionPanes(s, c) ==
    IF \E d \in Clients \ {c} : Watches(d, s) /\ queue[d] > Low
    THEN UNCHANGED paused
    ELSE paused' = [p \in Panes |-> IF SessionOf[p] = s THEN FALSE ELSE paused[p]]

\* on_connected
Connect(c) ==
    /\ st[c] = "off"
    /\ st' = [st EXCEPT ![c] = "up"]
    /\ UNCHANGED <<attached, queue, paused, attaches>>

\* Attach queues snapshots or replays, but pauses nothing.
Attach(c, s) ==
    /\ st[c] = "up" /\ attaches[c] < MaxAttach
    /\ attached' = [attached EXCEPT ![c] = s]
    /\ attaches' = [attaches EXCEPT ![c] = @ + 1]
    /\ \E n \in 0..Snap : queue' = [queue EXCEPT ![c] = @ + n]
    /\ UNCHANGED <<st, paused>>

Detach(c) ==
    /\ st[c] = "up" /\ attached[c] # Nowhere
    /\ attached' = [attached EXCEPT ![c] = Nowhere]
    /\ UNCHANGED <<st, queue, paused, attaches>>

\* Mutant: nothing is ever paused.
OutputUnbounded(p) ==
    /\ ~paused[p]
    /\ \E n \in 1..Burst :
          queue' = [c \in Clients |-> IF Watches(c, SessionOf[p])
                                      THEN queue[c] + n ELSE queue[c]]
    /\ UNCHANGED <<st, attached, paused, attaches>>

\* Pane::on_output, for one readiness of the PTY: it is read dry, and the
\* pane pauses if that leaves a watching client above the high mark.
Output(p) ==
    /\ ~paused[p]
    /\ \E n \in 1..Burst :
          LET fed == [c \in Clients |-> IF Watches(c, SessionOf[p])
                                        THEN queue[c] + n ELSE queue[c]]
          IN /\ queue' = fed
             /\ paused' = [paused EXCEPT ![p] =
                  \E c \in Clients : Watches(c, SessionOf[p]) /\ fed[c] > High]
    /\ UNCHANGED <<st, attached, attaches>>

\* prepare_to_send, with on_drained when the queue crosses the low mark.
Drain(c) ==
    /\ st[c] \in {"up", "killed"}
    /\ \E n \in 1..queue[c] :
          /\ queue' = [queue EXCEPT ![c] = @ - n]
          /\ IF queue[c] >= Low /\ queue[c] - n < Low
             THEN ResumeSessionPanes(attached[c], c)
             ELSE UNCHANGED paused
    /\ UNCHANGED <<st, attached, attaches>>

\* Mutant: a closed connection resumes nothing.
CloseSilently(c) ==
    /\ st[c] = "up"
    /\ st' = [st EXCEPT ![c] = "closed"]
    /\ queue' = [queue EXCEPT ![c] = 0]
    /\ UNCHANGED <<attached, paused, attaches>>

\* on_closed: idle timeout, reset, or the peer's close.
Close(c) ==
    /\ st[c] \in {"up", "killed"}
    /\ st' = [st EXCEPT ![c] = "closed"]
    /\ queue' = [queue EXCEPT ![c] = 0]
    /\ ResumeSessionPanes(attached[c], c)
    /\ UNCHANGED <<attached, attaches>>

\* process_client on a frame header it refuses: kill_client.
Kill(c) ==
    /\ st[c] = "up"
    /\ st' = [st EXCEPT ![c] = "killed"]
    /\ UNCHANGED <<attached, queue, paused, attaches>>

\* sweep: Conn::user is cleared first, so the on_closed that close_conn leads
\* to finds no client and resumes nothing.
Sweep(c) ==
    /\ st[c] = "killed"
    /\ st' = [st EXCEPT ![c] = "swept"]
    /\ queue' = [queue EXCEPT ![c] = 0]
    /\ UNCHANGED <<attached, paused, attaches>>

Next ==
    \/ \E c \in Clients :
          \/ Connect(c) \/ Detach(c) \/ Drain(c) \/ Close(c)
          \/ Kill(c) \/ Sweep(c)
          \/ \E s \in Sessions : Attach(c, s)
    \/ \E p \in Panes : Output(p)

Spec == Init /\ [][Next]_vars

\* A connection either drains or is closed by its idle timeout.
FairSpec == Spec /\ \A c \in Clients : WF_vars(Drain(c) \/ Close(c))

-----------------------------------------------------------------------------
(* Properties.                                                             *)

TypeOK ==
    /\ st \in [Clients -> {"off", "up", "killed", "swept", "closed"}]
    /\ attached \in [Clients -> Sessions \cup {Nowhere}]
    /\ queue \in [Clients -> Nat]
    /\ paused \in [Panes -> BOOLEAN]
    /\ attaches \in [Clients -> Nat]

\* What most clients do: attach once and stay until the connection closes,
\* not until the sweep takes them away for a frame that had them killed.
StaysPut(c) ==
    /\ st[c] # "swept"
    /\ attaches[c] <= 1 /\ (attaches[c] = 1 => attached[c] # Nowhere)

\* A client whose drain below the low mark, or close, resumes the panes of s.
Holds(c, s) == st[c] \in {"up", "killed"} /\ attached[c] = s /\ queue[c] >= Low

\* "never leave panes paused": a pane that is not read has a client that
\* holds it.  Otherwise nothing will ever read it again, and its shell hangs
\* on a full PTY.
PausedHasReason ==
    \A p \in Panes : paused[p] => \E c \in Clients : Holds(c, SessionOf[p])

\* So it is as long as every client stays put, whichever order they drain,
\* close and fall behind in.
NeverLeftPaused == (\A c \in Clients : StaysPut(c)) => PausedHasReason

\* The queue of a client is bounded however slow its link is: the high mark,
\* one burst of every pane, and what its Attach requests asked for.
QueueBounded ==
    \A c \in Clients :
        queue[c] <= High + attaches[c] * (Snap + Cardinality(Panes) * Burst)

\* A shell is not held back for ever by clients that drain or die: as long
\* as every client stays put, a paused pane is read again.  This is about a
\* pane that is alone in its session: the output of another pane may keep a
\* queue between the marks for good.
Alone == {p \in Panes : \A q \in Panes \ {p} : SessionOf[q] # SessionOf[p]}
StallEnds ==
    \A p \in Alone :
        paused[p] ~> (~paused[p] \/ \E c \in Clients : ~StaysPut(c))
=============================================================================
