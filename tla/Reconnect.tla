----------------------------- MODULE Reconnect -------------------------------
(***************************************************************************)
(* How a remote window gets its connection, and gets it back: the race of  *)
(* a RemoteClient's candidate engines (addressed ones, two that punch a    *)
(* hole after an offer and an answer over signaling, local ones from the   *)
(* answer), the timers around it, and the RemoteController that retries    *)
(* through lost links, sleep and changing networks.                        *)
(*                                                                         *)
(* Handlers are functions on the state `r' of the process, composed as     *)
(* the code calls them; any handshake may succeed or fail at any moment.   *)
(* The punch engines can always be created (sockets do not run out).       *)
(*                                                                         *)
(* Sources: src/src/remote/remote_client.cpp, remote_controller.cpp, and   *)
(* src/src/daemon/rivtd.cpp for the answer.                                *)
(***************************************************************************)
EXTENDS QuicEngine, Signaling, FiniteSets, SequencesExt

CONSTANTS
    Addresses,    \* the endpoint's candidate addresses
    Answers,      \* what the daemon may answer an offer with
    MaxAttempts,  \* reconnect attempts before the window gives up (40)
    MaxDials,     \* bound: connections dialled from one engine
    MaxProbes,    \* bound: engines in one race
    MaxEvents     \* bound: sleeps, wakes and network changes

ASSUME ReconnectAssumption ==
    /\ IsFiniteSet(Addresses) /\ Answers \subseteq SUBSET {"local", "stun", "turn"}
    /\ MaxAttempts \in Nat /\ MaxDials \in Nat /\ MaxProbes \in Nat /\ MaxEvents \in Nat

VARIABLES
    cl,     \* RemoteClient
    ctl,    \* RemoteController
    sg,     \* the process's Signaling socket
    answer, \* candidate kinds of an answer on its way, if any
    events  \* OS events so far

vars == <<cl, ctl, sg, answer, events>>

NoEngine == CreateClient("none", 0)
NoAnswer == {"none"}

Init ==
    /\ cl = [probes |-> <<>>, quic |-> NoEngine, conn |-> 0, stale |-> {},
             sig |-> FALSE, fallback |-> FALSE, offering |-> FALSE, redials |-> {},
             targets |-> {}, reflexive |-> FALSE, asking |-> 0, pendingOut |-> FALSE,
             said |-> "none", ack |-> FALSE]
    /\ ctl = [active |-> FALSE, reconnecting |-> FALSE, timer |-> FALSE, attempts |-> 0,
              asleep |-> FALSE, parked |-> FALSE, phase |-> "start"]
    /\ sg = NoSocket
    /\ answer = NoAnswer
    /\ events = 0

Now == [cl |-> cl, ctl |-> ctl, sg |-> sg]
Become(r) == cl' = r.cl /\ ctl' = r.ctl /\ sg' = r.sg
Running == ctl.phase = "running"

-----------------------------------------------------------------------------
(* RemoteController.                                                       *)

\* exit(): the window closes.
Exit(r) == [r EXCEPT !.ctl.phase = "gone", !.ctl.active = FALSE]

\* schedule_reconnect_attempt
Schedule(r) ==
    IF r.ctl.asleep \/ r.ctl.timer THEN r
    ELSE IF r.ctl.attempts >= MaxAttempts
         THEN Exit([r EXCEPT !.ctl.reconnecting = FALSE])
         ELSE [r EXCEPT !.ctl.timer = TRUE, !.ctl.parked = FALSE]

\* begin_reconnect
BeginReconnect(r) ==
    Schedule([r EXCEPT !.ctl.active = FALSE, !.ctl.reconnecting = TRUE, !.ctl.attempts = 0])

\* Mutant: a failed attempt is a lost connection like any other.
OnDisconnectOnce(r) == IF r.ctl.active THEN BeginReconnect(r) ELSE Exit(r)

\* on_disconnect
OnDisconnect(r) ==
    IF r.ctl.reconnecting THEN Schedule(r)
    ELSE IF r.ctl.active THEN BeginReconnect(r)
    ELSE Exit(r)

\* park: the watchdog and the pending attempt stop; `parked' remembers one.
Park(r) == [r EXCEPT !.cl.ack = FALSE, !.ctl.timer = FALSE, !.ctl.parked = @ \/ r.ctl.timer]

-----------------------------------------------------------------------------
(* RemoteClient.                                                           *)

HasQuic(r) == r.cl.quic # NoEngine

\* Engines parked with a handshake under way; the others call no one back.
Parkable(engines) == {OnlyHandshakes(e) : e \in {f \in engines : Handshakes(f) # {}}}

\* close(): the engine is parked, its callbacks find no connection.  The
\* targets are those of a punch under way.
Close(r) ==
    [r EXCEPT !.cl = [@ EXCEPT !.ack = FALSE, !.fallback = FALSE, !.offering = FALSE,
                               !.redials = {}, !.quic = NoEngine, !.conn = 0,
                               !.said = "none", !.targets = {}, !.sig = FALSE]]

\* fail
Fail(r) == IF r.cl.conn = 0 THEN r ELSE OnDisconnect(Close(r))

\* probe_failed
ProbeFailed(r) ==
    IF \/ HasQuic(r)
       \/ \E e \in ToSet(r.cl.probes) : StillTrying(e)
       \/ r.cl.sig
    THEN r
    ELSE OnDisconnect([r EXCEPT !.cl.stale = @ \cup Parkable(ToSet(r.cl.probes)),
                                !.cl.probes = <<>>, !.cl.asking = 0, !.cl.reflexive = FALSE,
                                !.cl.pendingOut = FALSE])

\* adopt_probe: the first engine wins and what was held back is sent on its
\* last connection.  A place the race no longer has ends the process.
AdoptProbe(r, i) ==
    IF HasQuic(r) THEN r
    ELSE IF i > Len(r.cl.probes) THEN [r EXCEPT !.ctl.phase = "crashed"]
    ELSE LET e == r.cl.probes[i]
         IN [r EXCEPT !.cl = [r.cl EXCEPT
                !.quic = e, !.conn = Len(e.conns),
                !.stale = @ \cup Parkable(ToSet(r.cl.probes) \ {e}), !.probes = <<>>,
                !.asking = 0, !.reflexive = FALSE, !.targets = {}, !.fallback = FALSE, !.sig = FALSE,
                !.said = IF r.cl.pendingOut THEN "hello" ELSE @, !.pendingOut = FALSE]]

\* send_frame: a frame goes to the connection, waits for the race, or is lost.
SendFrame(r, what) ==
    IF r.cl.conn # 0 THEN [r EXCEPT !.cl.said = what, !.cl.ack = TRUE]
    ELSE IF r.cl.probes # <<>> THEN [r EXCEPT !.cl.pendingOut = TRUE]
    ELSE r

\* The punch engines offer what STUN told them, once both have heard.
Offer(r) ==
    IF r.cl.asking > 0 \/ ~r.cl.sig \/ ~r.cl.reflexive THEN r
    ELSE [r EXCEPT !.cl.offering = TRUE, !.cl.reflexive = FALSE, !.sg = Send(@)]

\* Mutant: nothing ends a punch that no answer comes for.
BeginPunchForever(r, stale) ==
    LET n == Len(r.cl.probes)
    IN [r EXCEPT !.cl.sig = TRUE, !.sg = Shared(@, stale),
                 !.cl.targets = {}, !.cl.reflexive = FALSE, !.cl.asking = 2,
                 !.cl.probes = @ \o <<CreateClient("direct", n + 1), CreateClient("turn", n + 2)>>]

\* begin_punch. A STUN server whose name does not resolve answers at once.
BeginPunch(r, stale) ==
    LET n == Len(r.cl.probes)
    IN [r EXCEPT !.cl.sig = TRUE, !.cl.fallback = TRUE, !.sg = Shared(@, stale),
                 !.cl.targets = {}, !.cl.reflexive = FALSE, !.cl.asking = 2,
                 !.cl.probes = @ \o <<CreateClient("direct", n + 1), CreateClient("turn", n + 2)>>]

\* connect: a new race.  Only a connection is closed first; the timers of a
\* race that is over run on.
Connect(r, stale) ==
    LET s == IF HasQuic(r) THEN Close(r) ELSE r
        race == [i \in 1..Cardinality(Addresses) |-> Connected("address", i)]
    IN BeginPunch([s EXCEPT !.cl.stale = {}, !.cl.probes = race, !.cl.pendingOut = FALSE],
                  stale)

\* Candidate targets an answer gives, by the engine that dials them.
Target(kind) == IF kind = "stun" THEN "direct" ELSE "turn"

\* on_answer: the last two engines of the race are taken for the punch
\* engines; local addresses join the race behind them.
OnAnswer(r, kinds) ==
    IF HasQuic(r) THEN r
    ELSE LET n == Len(r.cl.probes)
             dial(ps, i, kind) ==
                 IF kind \in kinds THEN [ps EXCEPT ![i] = StartConnection(@)] ELSE ps
             punched == IF n >= 2 THEN dial(dial(r.cl.probes, n - 1, "stun"), n, "turn")
                        ELSE r.cl.probes
         IN [r EXCEPT !.cl.offering = FALSE,
                      !.cl.targets = @ \cup {Target(k) : k \in kinds \ {"local"}},
                      !.cl.probes = IF "local" \in kinds
                                    THEN Append(punched, Connected("local", n + 1)) ELSE punched]

\* on_closed of a racing engine; a punch engine is dialled again later.
EngineClosed(r, e) ==
    LET s == ProbeFailed(r)
    IN IF e.kind \in {"direct", "turn"} /\ ~HasQuic(s) /\ s.cl.sig /\ e.kind \in s.cl.targets
       THEN [s EXCEPT !.cl.redials = @ \cup {e.at}] ELSE s

-----------------------------------------------------------------------------
(* The window opens, or its reconnect timer fires.                         *)

\* attach_remote, and initialize()'s hello
Start ==
    /\ ctl.phase = "start"
    /\ Become(SendFrame(Connect([Now EXCEPT !.ctl.phase = "running"], FALSE), "hello"))
    /\ UNCHANGED <<answer, events>>

\* Mutant: the attempt is not followed by a hello.
AttemptSilent(r, stale) ==
    Connect([r EXCEPT !.ctl.attempts = @ + 1], stale)

\* One attempt: reconnect() starts a race, and hello waits for its winner.
Attempt(r, stale) ==
    SendFrame(Connect([r EXCEPT !.ctl.attempts = @ + 1], stale), "hello")

\* The reconnect timer.
ReconnectTimer ==
    /\ Running /\ ctl.timer
    /\ \E stale \in BOOLEAN :
          LET r == [Now EXCEPT !.ctl.timer = FALSE]
          IN Become(IF ctl.reconnecting THEN Attempt(r, stale) ELSE r)
    /\ UNCHANGED <<answer, events>>

-----------------------------------------------------------------------------
(* The race.                                                               *)

\* A punch engine learns its reflexive address, or gives up asking.
StunAnswers(ok) ==
    /\ Running /\ cl.asking > 0
    /\ Become(Offer([Now EXCEPT !.cl.asking = @ - 1, !.cl.reflexive = @ \/ ok]))
    /\ UNCHANGED <<answer, events>>

\* A racing handshake is done.
Connects(i, c) ==
    /\ Running /\ c \in Handshakes(cl.probes[i])
    /\ Become(AdoptProbe([Now EXCEPT !.cl.probes[i] = Establish(@, c)], i))
    /\ UNCHANGED <<answer, events>>

\* A racing handshake fails.
ProbeCloses(i, c) ==
    /\ Running /\ c \in Handshakes(cl.probes[i])
    /\ LET e == MarkClosed(cl.probes[i], c)
       IN Become(EngineClosed([Now EXCEPT !.cl.probes[i] = e], e))
    /\ UNCHANGED <<answer, events>>

\* A parked handshake is done, or fails: its callbacks are still set.
StaleConnects(e, c) ==
    /\ Running /\ c \in Handshakes(e)
    /\ Become(AdoptProbe([Now EXCEPT !.cl.stale = Parkable((@ \ {e}) \cup {Establish(e, c)})], e.at))
    /\ UNCHANGED <<answer, events>>

StaleCloses(e, c) ==
    /\ Running /\ c \in Handshakes(e)
    /\ Become(EngineClosed([Now EXCEPT !.cl.stale = Parkable((@ \ {e}) \cup {MarkClosed(e, c)})], e))
    /\ UNCHANGED <<answer, events>>

\* The punch deadline, 30 seconds on.
FallbackTimer ==
    /\ Running /\ cl.fallback
    /\ LET r == [Now EXCEPT !.cl.fallback = FALSE]
       IN Become(IF HasQuic(r) \/ ~r.cl.sig THEN r
                 ELSE ProbeFailed([r EXCEPT !.cl.sig = FALSE]))
    /\ UNCHANGED <<answer, events>>

\* The offer retry timer, where it acts: it stops, or offers again over a
\* new socket.
OfferTimer ==
    /\ Running /\ cl.offering
    /\ Become(IF HasQuic(Now) \/ ~cl.sig THEN [Now EXCEPT !.cl.offering = FALSE]
              ELSE [Now EXCEPT !.sg = Send(Restart(@))])
    /\ UNCHANGED <<answer, events>>

\* A redial timer, of this race or of one before it.
RedialTimer(i) ==
    /\ Running /\ i \in cl.redials
    /\ LET r == [Now EXCEPT !.cl.redials = @ \ {i}]
       IN IF HasQuic(r) \/ ~cl.sig \/ i > Len(cl.probes) THEN Become(r)
          ELSE /\ Len(cl.probes[i].conns) < MaxDials
               /\ Become([r EXCEPT !.cl.probes[i] = StartConnection(@)])
    /\ UNCHANGED <<answer, events>>

-----------------------------------------------------------------------------
(* Signaling and the daemon's answer.                                      *)

SocketOpens ==
    /\ Running /\ sg.ws = "down" /\ cl.sig /\ sg' = Opened(sg)
    /\ UNCHANGED <<cl, ctl, answer, events>>

SocketLost(noticed) ==
    /\ Running /\ sg.ws \in {"open", "dead"} /\ cl.offering /\ (noticed \/ sg.ws = "open")
    /\ sg' = Lost(sg, noticed)
    /\ UNCHANGED <<cl, ctl, answer, events>>

\* handle_offer: rivtd answers with its local addresses, the reflexive one
\* if STUN knows it, and a relay's if one is alive; or is not there.
HandleOffer ==
    /\ Running /\ sg.offer /\ answer = NoAnswer
    /\ sg' = [sg EXCEPT !.offer = FALSE]
    /\ answer' \in Answers \cup {NoAnswer}
    /\ UNCHANGED <<cl, ctl, events>>

\* handle: the answer comes in on an open socket, for a peer subscribed to.
AnswerArrives ==
    /\ Running /\ answer # NoAnswer
    /\ \A e \in ToSet(cl.probes) : Len(e.conns) < MaxDials
    /\ Len(cl.probes) < MaxProbes
    /\ Become(IF sg.ws = "open" /\ cl.sig THEN OnAnswer(Now, answer) ELSE Now)
    /\ answer' = NoAnswer /\ UNCHANGED events

-----------------------------------------------------------------------------
(* The connection that won.                                                *)

\* Another of the engine's connections completes; on_connected is null now.
LateHandshake(c) ==
    /\ Running /\ cl.conn # 0 /\ c \in Handshakes(cl.quic)
    /\ cl' = [cl EXCEPT !.quic = Establish(@, c)]
    /\ UNCHANGED <<ctl, sg, answer, events>>

\* Any of the engine's connections closes: on_closed does not look which.
ConnCloses(c) ==
    /\ Running /\ cl.conn # 0 /\ c \in OpenConns(cl.quic)
    /\ Become(Fail([Now EXCEPT !.cl.quic = MarkClosed(@, c)]))
    /\ UNCHANGED <<answer, events>>

Delivered == cl.conn # 0 /\ cl.quic.conns[cl.conn] = "up"

\* HelloOk: on_hello_ok attaches, or the daemon speaks another version.
HelloOk(same) ==
    /\ Running /\ Delivered /\ cl.said = "hello"
    /\ Become(IF same THEN SendFrame(Now, "attach") ELSE Fail(Now))
    /\ UNCHANGED <<answer, events>>

\* on_attach_ok
OnAttachOk ==
    /\ Running /\ Delivered /\ cl.said = "attach"
    /\ Become([Now EXCEPT !.cl.said = "none", !.ctl.active = TRUE, !.ctl.reconnecting = FALSE])
    /\ UNCHANGED <<answer, events>>

\* on_error: "no such session", or anything else the daemon objects to.
OnError ==
    /\ Running /\ Delivered /\ cl.said = "attach" /\ ctl.reconnecting
    /\ Become(Exit(Now))
    /\ UNCHANGED <<answer, events>>

\* The user types, or verify_link pings: the ack probe watches for a reply.
UserSends ==
    /\ Running /\ ctl.active /\ cl.conn # 0 /\ ~cl.ack
    /\ Become([Now EXCEPT !.cl.ack = TRUE])
    /\ UNCHANGED <<answer, events>>

\* The ack probe: something has arrived since, or nothing in five seconds.
AckProbe(dead) ==
    /\ Running /\ cl.ack
    /\ LET r == [Now EXCEPT !.cl.ack = FALSE] IN Become(IF dead THEN Fail(r) ELSE r)
    /\ UNCHANGED <<answer, events>>

-----------------------------------------------------------------------------
(* connectivity_event                                                      *)

\* PathUp, and Wake once awake: a fresh budget, or a ping.
Resume(r) ==
    IF r.ctl.asleep THEN r
    ELSE IF r.ctl.reconnecting THEN Schedule([r EXCEPT !.ctl.attempts = 0])
    ELSE IF r.ctl.active /\ r.cl.conn # 0 THEN [r EXCEPT !.cl.ack = TRUE]
    ELSE r

OsEvent(r) ==
    /\ Running /\ events < MaxEvents
    /\ Become(r)
    /\ events' = events + 1 /\ UNCHANGED answer

Sleep    == ~ctl.asleep /\ OsEvent(Park([Now EXCEPT !.ctl.asleep = TRUE]))
Wake     == ctl.asleep /\ OsEvent(Resume([Now EXCEPT !.ctl.asleep = FALSE]))
PathDown == OsEvent(Park(Now))
PathUp   == OsEvent(Resume(Now))

-----------------------------------------------------------------------------

Race ==
    \/ \E i \in DOMAIN cl.probes :
          \E c \in 1..MaxDials : Connects(i, c) \/ ProbeCloses(i, c)
    \/ \E ok \in BOOLEAN : StunAnswers(ok)
    \/ \E e \in cl.stale, c \in 1..MaxDials : StaleConnects(e, c) \/ StaleCloses(e, c)
    \/ \E i \in cl.redials : RedialTimer(i)
    \/ FallbackTimer \/ OfferTimer

Punch ==
    \/ SocketOpens \/ HandleOffer \/ AnswerArrives
    \/ \E noticed \in BOOLEAN : SocketLost(noticed)

Link ==
    \/ \E c \in 1..MaxDials : LateHandshake(c) \/ ConnCloses(c)
    \/ \E same \in BOOLEAN : HelloOk(same)
    \/ OnAttachOk \/ OnError \/ UserSends
    \/ \E dead \in BOOLEAN : AckProbe(dead)

Next == Start \/ ReconnectTimer \/ Race \/ Punch \/ Link \/ Sleep \/ Wake \/ PathDown \/ PathUp

Spec == Init /\ [][Next]_vars

-----------------------------------------------------------------------------
(* Properties.                                                             *)

\* The race can still tell the controller something: an engine is trying, or
\* the punch deadline is armed.
RaceRuns ==
    \/ \E e \in ToSet(cl.probes) : StillTrying(e)
    \/ cl.sig /\ cl.fallback

\* Something has been said on a connection and will be answered, or the
\* connection will be lost.
Spoken == cl.conn # 0 /\ cl.said # "none"

\* A window that reconnects is never left with nothing to go on: an attempt
\* is pending, a race runs, the daemon owes an answer, or the machine's waking
\* or the network's return will resume it (schedule_reconnect_attempt,
\* probe_failed, adopt_probe, park, connectivity_event).
NotStranded ==
    (Running /\ ctl.reconnecting) =>
        ctl.timer \/ RaceRuns \/ Spoken \/ ctl.asleep \/ ctl.parked

\* An attached window ends only when the daemon refuses it or after the whole
\* budget of attempts: no single lost link or failed attempt closes it
\* (on_disconnect, on_error).
Attached == ctl.active \/ ctl.reconnecting
GivesUpLast ==
    [][Running /\ Attached /\ ctl'.phase = "gone"
       => ctl.attempts >= MaxAttempts \/ cl'.said = "attach"]_vars

\* What the code's timers and QUIC's timeouts guarantee: a handshake ends, an
\* armed timer fires, and what was said is answered or its connection lost.
HandshakeEnds == \E i \in DOMAIN cl.probes, c \in 1..MaxDials : Connects(i, c) \/ ProbeCloses(i, c)
Replies == \E c \in 1..MaxDials : ConnCloses(c) \/ (\E same \in BOOLEAN : HelloOk(same)) \/ OnAttachOk \/ OnError

FairSpec ==
    /\ Spec
    /\ WF_vars(ReconnectTimer) /\ WF_vars(FallbackTimer) /\ WF_vars(HandshakeEnds)
    /\ WF_vars(cl.said # "none" /\ Replies)

\* A window that lost its link gets it back or closes, unless the machine is
\* left asleep or without a network.
Settled == ~ctl.reconnecting \/ ~Running \/ ctl.asleep \/ ctl.parked
Recovers == []<>Settled
=============================================================================
