--------------------------- MODULE ReconnectProofs ---------------------------
(***************************************************************************)
(* A window that was attached is not given up before its budget is, and    *)
(* one that reconnects is never left with nothing to go on.                *)
(*                                                                         *)
(* Engines, sockets and timers decide when a link or an attempt is called  *)
(* lost, but all they do to the controller is to call on_disconnect.  So   *)
(* the first proof follows the controller through every composition of     *)
(* handlers and assumes nothing of engines, candidates or the socket.  The *)
(* second needs the client too: it has a connection or a race, never both, *)
(* and what ends the one or the other calls on_disconnect.                 *)
(***************************************************************************)
EXTENDS Reconnect, FiniteSetTheorems, TLAPS

\* The controller's fields.
Controller(c) ==
    /\ DOMAIN c = {"active", "reconnecting", "timer", "attempts", "asleep", "parked", "phase"}
    /\ {c.active, c.reconnecting, c.timer, c.asleep, c.parked} \subseteq BOOLEAN
    /\ c.attempts \in Nat

\* The state of the process, as handlers take and return it.
World(r) == DOMAIN r = {"cl", "ctl", "sg"} /\ Controller(r.ctl)

\* From c to d the window is not closed, unless the budget is spent or it
\* was never attached.
Keeps(c, d) ==
    (c.phase = "running" /\ (c.active \/ c.reconnecting) /\ d.phase = "gone")
        => c.attempts >= MaxAttempts

\* A handler that takes r to s.
Handler(r, s) == World(s) /\ Keeps(r.ctl, s.ctl)

\* A handler that leaves the controller alone.
Apart(r, s) == DOMAIN s = {"cl", "ctl", "sg"} /\ s.ctl = r.ctl

LEMMA ApartHandler ==
  ASSUME NEW r, World(r), NEW s, Apart(r, s) PROVE Handler(r, s)
BY DEF World, Apart, Handler, Keeps

LEMMA ApartThenHandler ==
  ASSUME NEW r, World(r), NEW s, Apart(r, s), NEW t, World(s) => Handler(s, t)
  PROVE  Handler(r, t)
BY DEF World, Apart, Handler

LEMMA NowIsWorld == Controller(ctl) => World(Now)
BY DEF World, Now

-----------------------------------------------------------------------------
(* RemoteController.                                                       *)

\* Arming the timer ends the window only when no attempt is left.
LEMMA ScheduleHandler ==
  ASSUME NEW r, World(r), r.ctl.active \/ r.ctl.reconnecting
  PROVE  Handler(r, Schedule(r))
<1>1. CASE r.ctl.asleep \/ r.ctl.timer
  BY <1>1, ApartHandler DEF Schedule, Apart, World
<1>2. CASE ~(r.ctl.asleep \/ r.ctl.timer) /\ r.ctl.attempts >= MaxAttempts
  BY <1>2 DEF Schedule, Exit, Handler, World, Controller, Keeps
<1>3. CASE ~(r.ctl.asleep \/ r.ctl.timer) /\ ~(r.ctl.attempts >= MaxAttempts)
  <2> DEFINE s == [r EXCEPT !.ctl.timer = TRUE]
             t == [s EXCEPT !.ctl.parked = FALSE]
  <2>1. World(s) /\ s.ctl.phase = r.ctl.phase
    BY DEF World, Controller
  <2>2. Schedule(r) = t
    BY <1>3 DEF Schedule
  <2> HIDE DEF s
  <2>3. World(t) /\ t.ctl.phase = s.ctl.phase
    BY <2>1 DEF World, Controller
  <2>4. World(Schedule(r)) /\ Schedule(r).ctl.phase = r.ctl.phase
    BY <2>1, <2>2, <2>3
  <2>5. Schedule(r).ctl.phase = "gone" => r.ctl.phase = "gone"
    BY <2>4
  <2> QED BY <2>4, <2>5 DEF Handler, Keeps
<1> QED BY <1>1, <1>2, <1>3

LEMMA FreshBudget ==
  ASSUME NEW r, World(r), NEW s, World(s), s.ctl.active \/ s.ctl.reconnecting,
         s.ctl.attempts = 0, s.ctl.phase = r.ctl.phase
  PROVE  Handler(r, Schedule(s))
<1>1. Handler(s, Schedule(s))
  BY ScheduleHandler
<1>2. MaxAttempts \in Nat /\ r.ctl.attempts \in Nat
  BY ReconnectAssumption DEF World, Controller
<1> QED BY <1>1, <1>2 DEF Handler, Keeps

LEMMA BeginReconnectHandler ==
  ASSUME NEW r, World(r) PROVE Handler(r, BeginReconnect(r))
<1> DEFINE s == [r EXCEPT !.ctl.active = FALSE, !.ctl.reconnecting = TRUE, !.ctl.attempts = 0]
<1>1. World(s) /\ s.ctl.reconnecting /\ s.ctl.attempts = 0 /\ s.ctl.phase = r.ctl.phase
  BY DEF World, Controller
<1> HIDE DEF s
<1>2. Handler(r, Schedule(s))
  BY <1>1, FreshBudget
<1> QED BY <1>2 DEF BeginReconnect, s

LEMMA OnDisconnectHandler ==
  ASSUME NEW r, World(r) PROVE Handler(r, OnDisconnect(r))
<1>1. CASE r.ctl.reconnecting
  BY <1>1, ScheduleHandler DEF OnDisconnect
<1>2. CASE ~r.ctl.reconnecting /\ r.ctl.active
  BY <1>2, BeginReconnectHandler DEF OnDisconnect
<1>3. CASE ~r.ctl.reconnecting /\ ~r.ctl.active
  BY <1>3 DEF OnDisconnect, Exit, Handler, World, Controller, Keeps
<1> QED BY <1>1, <1>2, <1>3

LEMMA ParkHandler ==
  ASSUME NEW r, World(r) PROVE Handler(r, Park(r))
<1>1. World(Park(r)) /\ Park(r).ctl.phase = r.ctl.phase
  BY DEF Park, World, Controller
<1> QED BY <1>1 DEF Handler, Keeps

LEMMA ResumeHandler ==
  ASSUME NEW r, World(r) PROVE Handler(r, Resume(r))
<1>1. CASE r.ctl.asleep
  BY <1>1, ApartHandler DEF Resume, Apart, World
<1>2. CASE ~r.ctl.asleep /\ r.ctl.reconnecting
  <2> DEFINE s == [r EXCEPT !.ctl.attempts = 0]
  <2>1. World(s) /\ s.ctl.reconnecting /\ s.ctl.attempts = 0 /\ s.ctl.phase = r.ctl.phase
    BY <1>2 DEF World, Controller
  <2> HIDE DEF s
  <2>2. Handler(r, Schedule(s))
    BY <2>1, FreshBudget
  <2> QED BY <1>2, <2>2 DEF Resume, s
<1>3. CASE ~r.ctl.asleep /\ ~r.ctl.reconnecting
  <2>1. Apart(r, Resume(r))
    BY <1>3 DEF Resume, Apart, World
  <2> QED BY <2>1, ApartHandler
<1> QED BY <1>1, <1>2, <1>3

-----------------------------------------------------------------------------
(* RemoteClient: what it does to the controller is on_disconnect.          *)

LEMMA CloseApart == ASSUME NEW r, World(r) PROVE Apart(r, Close(r))
BY DEF Apart, Close, World

LEMMA FailHandler == ASSUME NEW r, World(r) PROVE Handler(r, Fail(r))
<1>1. CASE r.cl.conn = 0
  BY <1>1, ApartHandler DEF Fail, Apart, World
<1>2. CASE r.cl.conn # 0
  <2>1. Apart(r, Close(r))
    BY CloseApart
  <2>2. World(Close(r)) => Handler(Close(r), OnDisconnect(Close(r)))
    BY OnDisconnectHandler
  <2> QED BY <1>2, <2>1, <2>2, ApartThenHandler DEF Fail
<1> QED BY <1>1, <1>2

LEMMA ProbeFailedHandler == ASSUME NEW r, World(r) PROVE Handler(r, ProbeFailed(r))
<1> DEFINE s == [r EXCEPT !.cl.stale = @ \cup Parkable(ToSet(r.cl.probes)),
                          !.cl.probes = <<>>, !.cl.asking = 0, !.cl.reflexive = FALSE,
                          !.cl.pendingOut = FALSE]
<1>1. Apart(r, s)
  BY DEF Apart, World
<1>2. ProbeFailed(r) = r \/ ProbeFailed(r) = OnDisconnect(s)
  BY DEF ProbeFailed
<1> HIDE DEF s
<1>3. CASE ProbeFailed(r) = r
  BY <1>3, ApartHandler DEF Apart, World
<1>4. CASE ProbeFailed(r) = OnDisconnect(s)
  <2>1. World(s) => Handler(s, OnDisconnect(s))
    BY OnDisconnectHandler
  <2> QED BY <1>1, <1>4, <2>1, ApartThenHandler
<1> QED BY <1>2, <1>3, <1>4

LEMMA AdoptProbeHandler ==
  ASSUME NEW r, World(r), NEW i PROVE Handler(r, AdoptProbe(r, i))
<1>1. CASE HasQuic(r)
  BY <1>1, ApartHandler DEF AdoptProbe, Apart, World
<1>2. CASE ~HasQuic(r) /\ i > Len(r.cl.probes)
  BY <1>2 DEF AdoptProbe, Handler, World, Controller, Keeps
<1>3. CASE ~HasQuic(r) /\ ~(i > Len(r.cl.probes))
  <2>1. Apart(r, AdoptProbe(r, i))
    BY <1>3 DEF AdoptProbe, Apart, World
  <2> QED BY <2>1, ApartHandler
<1> QED BY <1>1, <1>2, <1>3

LEMMA SendFrameApart ==
  ASSUME NEW r, World(r), NEW what PROVE Apart(r, SendFrame(r, what))
BY DEF SendFrame, Apart, World

LEMMA OfferApart == ASSUME NEW r, World(r) PROVE Apart(r, Offer(r))
BY DEF Offer, Apart, World

LEMMA OnAnswerApart ==
  ASSUME NEW r, World(r), NEW kinds PROVE Apart(r, OnAnswer(r, kinds))
BY DEF OnAnswer, Apart, World

LEMMA BeginPunchApart ==
  ASSUME NEW r, World(r), NEW old PROVE Apart(r, BeginPunch(r, old))
BY DEF BeginPunch, Apart, World

LEMMA ConnectApart ==
  ASSUME NEW r, World(r), NEW old PROVE Apart(r, Connect(r, old))
<1> DEFINE s == IF HasQuic(r) THEN Close(r) ELSE r
           race == [i \in 1..Cardinality(Addresses) |-> Connected("address", i)]
           t == [s EXCEPT !.cl.stale = {}, !.cl.probes = race, !.cl.pendingOut = FALSE]
<1>1. Apart(r, s)
  BY CloseApart DEF Apart, World
<1>2. Connect(r, old) = BeginPunch(t, old)
  BY DEF Connect
<1> HIDE DEF s
<1>3. Apart(r, t)
  BY <1>1 DEF Apart
<1> HIDE DEF t
<1>4. World(t)
  BY <1>3 DEF Apart, World
<1>5. Apart(t, BeginPunch(t, old))
  BY <1>4, BeginPunchApart
<1> QED BY <1>2, <1>3, <1>5 DEF Apart

LEMMA EngineClosedHandler ==
  ASSUME NEW r, World(r), NEW e PROVE Handler(r, EngineClosed(r, e))
<1> DEFINE s == ProbeFailed(r)
<1>1. Handler(r, s)
  BY ProbeFailedHandler
<1>2. EngineClosed(r, e) = s \/ EngineClosed(r, e) = [s EXCEPT !.cl.redials = @ \cup {e.at}]
  BY DEF EngineClosed
<1> HIDE DEF s
<1>3. Handler(r, [s EXCEPT !.cl.redials = @ \cup {e.at}])
  BY <1>1 DEF Handler, World
<1> QED BY <1>1, <1>2, <1>3

LEMMA AttemptHandler ==
  ASSUME NEW r, World(r), NEW old PROVE Handler(r, Attempt(r, old))
<1> DEFINE s == [r EXCEPT !.ctl.attempts = @ + 1]
           t == Connect(s, old)
<1>1. World(s) /\ s.ctl.phase = r.ctl.phase
  BY DEF World, Controller
<1>2. Attempt(r, old) = SendFrame(t, "hello")
  BY DEF Attempt
<1> HIDE DEF s
<1>3. Apart(s, t)
  BY <1>1, ConnectApart
<1> HIDE DEF t
<1>4. World(t)
  BY <1>1, <1>3 DEF Apart, World
<1>5. Apart(t, SendFrame(t, "hello"))
  BY <1>4, SendFrameApart
<1> QED BY <1>1, <1>2, <1>3, <1>5 DEF Apart, World, Handler, Keeps

-----------------------------------------------------------------------------
(* The steps.                                                              *)

\* What a step may do to the controller.
Kept == Controller(ctl') /\ (Keeps(ctl, ctl') \/ cl'.said = "attach")

LEMMA BecomeKept ==
  ASSUME Controller(ctl), NEW r, World(Now) => Handler(Now, r), Become(r) PROVE Kept
BY NowIsWorld DEF Become, Handler, World, Now, Kept

LEMMA BecomeApart ==
  ASSUME Controller(ctl), NEW r, Apart(Now, r), Become(r) PROVE Kept
<1>1. World(Now) => Handler(Now, r)
  BY ApartHandler
<1> QED BY <1>1, BecomeKept

\* A handler called with a client that has changed.
LEMMA BecomeAfter ==
  ASSUME Controller(ctl), NEW r, Apart(Now, r), NEW s, World(r) => Handler(r, s), Become(s)
  PROVE  Kept
<1>1. World(Now) => Handler(Now, s)
  BY ApartThenHandler
<1> QED BY <1>1, BecomeKept

LEMMA StartStep == ASSUME Controller(ctl), Start PROVE Kept
<1> DEFINE r == [Now EXCEPT !.ctl.phase = "running"]
           s == Connect(r, FALSE)
           t == SendFrame(s, "hello")
<1>1. World(r) /\ r.ctl.phase = "running"
  BY NowIsWorld DEF World, Controller, Now
<1>2. Become(t)
  BY DEF Start
<1> HIDE DEF r
<1>3. Apart(r, s)
  BY <1>1, ConnectApart
<1> HIDE DEF s
<1>4. World(s)
  BY <1>1, <1>3 DEF Apart, World
<1>5. Apart(s, t)
  BY <1>4, SendFrameApart
<1> HIDE DEF t
<1>6. World(t) /\ t.ctl.phase = "running"
  BY <1>1, <1>3, <1>5 DEF Apart, World
<1> QED BY <1>2, <1>6 DEF Kept, Keeps, Become, World

LEMMA ReconnectTimerStep == ASSUME Controller(ctl), ReconnectTimer PROVE Kept
<1> DEFINE r == [Now EXCEPT !.ctl.timer = FALSE]
<1>1. /\ World(r) /\ r.ctl.phase = ctl.phase /\ r.ctl.attempts = ctl.attempts
      /\ r.ctl.active = ctl.active /\ r.ctl.reconnecting = ctl.reconnecting
  BY NowIsWorld DEF World, Controller, Now
<1>2. PICK old \in BOOLEAN : Become(r) \/ Become(Attempt(r, old))
  BY DEF ReconnectTimer
<1> HIDE DEF r
<1>3. CASE Become(r)
  BY <1>1, <1>3, ApartHandler DEF Kept, Keeps, Become, World, Handler, Apart
<1>4. CASE Become(Attempt(r, old))
  <2>1. Handler(r, Attempt(r, old))
    BY <1>1, AttemptHandler
  <2> QED BY <1>1, <1>4, <2>1 DEF Kept, Keeps, Become, World, Handler
<1> QED BY <1>2, <1>3, <1>4

LEMMA RaceStep == ASSUME Controller(ctl), Race PROVE Kept
<1>1. ASSUME NEW i, NEW c, Connects(i, c) PROVE Kept
  <2> DEFINE r == [Now EXCEPT !.cl.probes[i] = Establish(@, c)]
  <2>1. Apart(Now, r)
    BY DEF Apart, Now
  <2>2. Become(AdoptProbe(r, i))
    BY <1>1 DEF Connects
  <2> HIDE DEF r
  <2> QED BY <2>1, <2>2, AdoptProbeHandler, BecomeAfter
<1>2. ASSUME NEW i, NEW c, ProbeCloses(i, c) PROVE Kept
  <2> DEFINE e == MarkClosed(cl.probes[i], c)
             r == [Now EXCEPT !.cl.probes[i] = e]
  <2>1. Apart(Now, r)
    BY DEF Apart, Now
  <2>2. Become(EngineClosed(r, e))
    BY <1>2 DEF ProbeCloses
  <2> HIDE DEF r, e
  <2> QED BY <2>1, <2>2, EngineClosedHandler, BecomeAfter
<1>3. ASSUME NEW ok, StunAnswers(ok) PROVE Kept
  <2> DEFINE r == [Now EXCEPT !.cl.asking = @ - 1, !.cl.reflexive = @ \/ ok]
  <2>1. Apart(Now, r)
    BY DEF Apart, Now
  <2>2. Become(Offer(r))
    BY <1>3 DEF StunAnswers
  <2> HIDE DEF r
  <2>3. World(r) => Handler(r, Offer(r))
    BY OfferApart, ApartHandler
  <2> QED BY <2>1, <2>2, <2>3, BecomeAfter
<1>4. ASSUME NEW e, NEW c, StaleConnects(e, c) PROVE Kept
  <2> DEFINE r == [Now EXCEPT !.cl.stale = Parkable((@ \ {e}) \cup {Establish(e, c)})]
  <2>1. Apart(Now, r)
    BY DEF Apart, Now
  <2>2. Become(AdoptProbe(r, e.at))
    BY <1>4 DEF StaleConnects
  <2> HIDE DEF r
  <2> QED BY <2>1, <2>2, AdoptProbeHandler, BecomeAfter
<1>5. ASSUME NEW e, NEW c, StaleCloses(e, c) PROVE Kept
  <2> DEFINE r == [Now EXCEPT !.cl.stale = Parkable((@ \ {e}) \cup {MarkClosed(e, c)})]
  <2>1. Apart(Now, r)
    BY DEF Apart, Now
  <2>2. Become(EngineClosed(r, e))
    BY <1>5 DEF StaleCloses
  <2> HIDE DEF r
  <2> QED BY <2>1, <2>2, EngineClosedHandler, BecomeAfter
<1>6. ASSUME NEW i, RedialTimer(i) PROVE Kept
  <2> DEFINE r == [Now EXCEPT !.cl.redials = @ \ {i}]
             s == [r EXCEPT !.cl.probes[i] = StartConnection(@)]
  <2>1. Apart(Now, r)
    BY DEF Apart, Now
  <2>2. Apart(Now, s)
    BY DEF Apart, Now
  <2>3. Become(r) \/ Become(s)
    BY <1>6 DEF RedialTimer
  <2> HIDE DEF r, s
  <2> QED BY <2>1, <2>2, <2>3, BecomeApart
<1>7. CASE FallbackTimer
  <2> DEFINE r == [Now EXCEPT !.cl.fallback = FALSE]
             s == [r EXCEPT !.cl.sig = FALSE]
  <2>1. Apart(Now, r)
    BY DEF Apart, Now
  <2>2. Apart(Now, s)
    BY DEF Apart, Now
  <2>3. Become(r) \/ Become(ProbeFailed(s))
    BY <1>7 DEF FallbackTimer
  <2> HIDE DEF r, s
  <2>4. CASE Become(r)
    BY <2>1, <2>4, BecomeApart
  <2>5. CASE Become(ProbeFailed(s))
    BY <2>2, <2>5, ProbeFailedHandler, BecomeAfter
  <2> QED BY <2>3, <2>4, <2>5
<1>8. CASE OfferTimer
  <2> DEFINE r == [Now EXCEPT !.cl.offering = FALSE]
             s == [Now EXCEPT !.sg = Send(Restart(@))]
  <2>1. Apart(Now, r)
    BY DEF Apart, Now
  <2>2. Apart(Now, s)
    BY DEF Apart, Now
  <2>3. Become(r) \/ Become(s)
    BY <1>8 DEF OfferTimer
  <2> HIDE DEF r, s
  <2> QED BY <2>1, <2>2, <2>3, BecomeApart
<1> QED BY <1>1, <1>2, <1>3, <1>4, <1>5, <1>6, <1>7, <1>8 DEF Race

LEMMA UnchangedKept == ASSUME Controller(ctl), ctl' = ctl PROVE Kept
BY DEF Kept, Keeps

LEMMA PunchStep == ASSUME Controller(ctl), Punch PROVE Kept
<1>1. CASE SocketOpens \/ HandleOffer \/ \E noticed \in BOOLEAN : SocketLost(noticed)
  BY <1>1, UnchangedKept DEF SocketOpens, HandleOffer, SocketLost
<1>2. CASE AnswerArrives
  <2>1. Become(OnAnswer(Now, answer)) \/ Become(Now)
    BY <1>2 DEF AnswerArrives
  <2>2. Apart(Now, Now) /\ Apart(Now, OnAnswer(Now, answer))
    BY NowIsWorld, OnAnswerApart DEF Apart, Now
  <2> QED BY <2>1, <2>2, BecomeApart
<1> QED BY <1>1, <1>2 DEF Punch

LEMMA LinkStep == ASSUME Controller(ctl), Link PROVE Kept
<1>1. ASSUME NEW c, LateHandshake(c) PROVE Kept
  BY <1>1, UnchangedKept DEF LateHandshake
<1>2. ASSUME NEW c, ConnCloses(c) PROVE Kept
  <2> DEFINE r == [Now EXCEPT !.cl.quic = MarkClosed(@, c)]
  <2>1. Apart(Now, r)
    BY DEF Apart, Now
  <2>2. Become(Fail(r))
    BY <1>2 DEF ConnCloses
  <2> HIDE DEF r
  <2> QED BY <2>1, <2>2, FailHandler, BecomeAfter
<1>3. ASSUME NEW same, HelloOk(same) PROVE Kept
  <2>1. Become(SendFrame(Now, "attach")) \/ Become(Fail(Now))
    BY <1>3 DEF HelloOk
  <2>2. Apart(Now, SendFrame(Now, "attach"))
    BY NowIsWorld, SendFrameApart
  <2> QED BY <2>1, <2>2, FailHandler, BecomeApart, BecomeKept
<1>4. CASE OnAttachOk
  <2> DEFINE r == [Now EXCEPT !.cl.said = "none"]
             s == [r EXCEPT !.ctl.active = TRUE]
             t == [s EXCEPT !.ctl.reconnecting = FALSE]
  <2>1. World(r) /\ r.ctl = ctl
    BY NowIsWorld DEF World, Now
  <2>2. Become(t)
    BY <1>4 DEF OnAttachOk
  <2> HIDE DEF r
  <2>3. World(s) /\ s.ctl.phase = r.ctl.phase
    BY <2>1 DEF World, Controller
  <2> HIDE DEF s
  <2>4. World(t) /\ t.ctl.phase = s.ctl.phase
    BY <2>3 DEF World, Controller
  <2> HIDE DEF t
  <2>5. Controller(ctl') /\ ctl'.phase = ctl.phase
    BY <2>1, <2>2, <2>3, <2>4 DEF Become, World
  <2> QED BY <2>5 DEF Kept, Keeps
<1>5. CASE OnError
  <2>1. Become(Exit(Now)) /\ cl.said = "attach"
    BY <1>5 DEF OnError
  <2>2. World(Exit(Now)) /\ Exit(Now).cl = cl
    BY NowIsWorld DEF Exit, World, Controller, Now
  <2> QED BY <2>1, <2>2 DEF Kept, Become, World
<1>6. CASE UserSends
  <2>1. Apart(Now, [Now EXCEPT !.cl.ack = TRUE])
    BY DEF Apart, Now
  <2> QED BY <1>6, <2>1, BecomeApart DEF UserSends
<1>7. ASSUME NEW dead, AckProbe(dead) PROVE Kept
  <2> DEFINE r == [Now EXCEPT !.cl.ack = FALSE]
  <2>1. Apart(Now, r)
    BY DEF Apart, Now
  <2>2. Become(r) \/ Become(Fail(r))
    BY <1>7 DEF AckProbe
  <2> HIDE DEF r
  <2> QED BY <2>1, <2>2, FailHandler, BecomeApart, BecomeAfter
<1> QED BY <1>1, <1>2, <1>3, <1>4, <1>5, <1>6, <1>7 DEF Link

LEMMA EventStep ==
  ASSUME Controller(ctl), Sleep \/ Wake \/ PathDown \/ PathUp PROVE Kept
<1> DEFINE a == [Now EXCEPT !.ctl.asleep = TRUE]
           b == [Now EXCEPT !.ctl.asleep = FALSE]
<1>1. \/ Become(Park(a)) \/ Become(Resume(b)) \/ Become(Park(Now)) \/ Become(Resume(Now))
  BY DEF Sleep, Wake, PathDown, PathUp, OsEvent
<1>2. /\ World(a) /\ a.ctl.phase = ctl.phase /\ a.ctl.attempts = ctl.attempts
      /\ a.ctl.active = ctl.active /\ a.ctl.reconnecting = ctl.reconnecting
  BY NowIsWorld DEF World, Controller, Now
<1>3. /\ World(b) /\ b.ctl.phase = ctl.phase /\ b.ctl.attempts = ctl.attempts
      /\ b.ctl.active = ctl.active /\ b.ctl.reconnecting = ctl.reconnecting
  BY NowIsWorld DEF World, Controller, Now
<1> HIDE DEF a, b
<1>4. CASE Become(Park(a))
  <2>1. Handler(a, Park(a))
    BY <1>2, ParkHandler
  <2> QED BY <1>2, <1>4, <2>1 DEF Kept, Keeps, Become, World, Handler
<1>5. CASE Become(Resume(b))
  <2>1. Handler(b, Resume(b))
    BY <1>3, ResumeHandler
  <2> QED BY <1>3, <1>5, <2>1 DEF Kept, Keeps, Become, World, Handler
<1>6. CASE Become(Park(Now))
  BY <1>6, ParkHandler, BecomeKept
<1>7. CASE Become(Resume(Now))
  BY <1>7, ResumeHandler, BecomeKept
<1> QED BY <1>1, <1>4, <1>5, <1>6, <1>7

LEMMA ControllerStep == ASSUME Controller(ctl), [Next]_vars PROVE Kept
<1>1. CASE UNCHANGED vars
  BY <1>1, UnchangedKept DEF vars
<1> QED BY <1>1, StartStep, ReconnectTimerStep, RaceStep, PunchStep, LinkStep, EventStep DEF Next

-----------------------------------------------------------------------------
\* An attached window ends only when the daemon refuses it or after the whole
\* budget of attempts (on_disconnect, schedule_reconnect_attempt, on_error),
\* for every budget, every set of addresses and every answer of the daemon.
THEOREM WindowGivesUpLast == Spec => GivesUpLast
<1>1. Init => Controller(ctl)
  BY DEF Init, Controller
<1>2. Controller(ctl) /\ [Next]_vars => Controller(ctl)'
  BY ControllerStep DEF Kept
<1>3. Controller(ctl) /\ [Next]_vars =>
         [Running /\ Attached /\ ctl'.phase = "gone"
            => ctl.attempts >= MaxAttempts \/ cl'.said = "attach"]_vars
  <2> SUFFICES ASSUME Controller(ctl), [Next]_vars, Running, Attached, ctl'.phase = "gone"
               PROVE  ctl.attempts >= MaxAttempts \/ cl'.said = "attach"
    OBVIOUS
  <2>1. Keeps(ctl, ctl') \/ cl'.said = "attach"
    BY ControllerStep DEF Kept
  <2> QED BY <2>1 DEF Keeps, Running, Attached
<1> QED BY <1>1, <1>2, <1>3, PTL DEF Spec, GivesUpLast

-----------------------------------------------------------------------------
(* What a window that reconnects goes on.                                  *)

Engine == [kind : {"none", "address", "local", "direct", "turn"}, at : Nat,
           conns : Seq({"trying", "up", "dead"})]

\* An engine in a race, which has a place there, and one parked after it.
Racer == {e \in Engine : e.at # 0}
Placed(e) == "at" \in DOMAIN e /\ e.at \in Nat \ {0}

\* The client's fields that decide whether it will be called back.
Client(c) ==
    /\ DOMAIN c = {"probes", "quic", "conn", "stale", "sig", "fallback", "offering", "redials",
                   "targets", "reflexive", "asking", "pendingOut", "said", "ack"}
    /\ c.probes \in Seq(Racer) /\ c.quic \in Engine /\ c.conn \in Nat
    /\ \A e \in c.stale : Placed(e)

\* A client has its connection or a race, never both, and a connection is one
\* its engine has dialled.  An engine is parked only once its race is over.
\* A punch under way has a deadline, and engines.
OneRace(c) ==
    /\ c.quic # NoEngine => c.conn # 0 /\ c.probes = <<>> /\ ~c.sig
    /\ c.conn # 0 => c.quic.conns # <<>>
    /\ c.sig => c.fallback /\ c.probes # <<>>
    /\ c.stale # {} => c.probes = <<>>

\* A race holds back the hello its winner will start with.
Steady(c) == Client(c) /\ OneRace(c) /\ (c.probes # <<>> => c.pendingOut)

\* NotStranded, of the client and the controller a handler takes or returns.
Trying(c) == (\E e \in ToSet(c.probes) : StillTrying(e)) \/ (c.sig /\ c.fallback)
Going(c, d) ==
    (d.phase = "running" /\ d.reconnecting) =>
        \/ d.timer \/ d.asleep \/ d.parked
        \/ Trying(c) \/ (c.conn # 0 /\ c.said # "none")

Sound(r) == World(r) /\ Steady(r.cl) /\ Going(r.cl, r.ctl)

SteadyInv == Controller(ctl) /\ Steady(cl) /\ Going(cl, ctl)

\* Two clients that differ in nothing of this.
Like(c, d) ==
    /\ DOMAIN d = DOMAIN c
    /\ d.probes = c.probes /\ d.quic = c.quic /\ d.conn = c.conn /\ d.stale = c.stale
    /\ d.sig = c.sig /\ d.fallback = c.fallback
    /\ d.pendingOut = c.pendingOut /\ d.said = c.said

LEMMA LikeSteady ==
  ASSUME NEW c, NEW d, Steady(c), Like(c, d)
  PROVE  Steady(d) /\ (\A x : Going(c, x) => Going(d, x))
<1>1. Steady(d)
  BY DEF Steady, Client, OneRace, Like
<1>2. Trying(d) = Trying(c)
  BY DEF Like, Trying
<1>3. \A x : Going(c, x) => Going(d, x)
  BY <1>2 DEF Like, Going
<1> QED BY <1>1, <1>3

LEMMA NowIsSound == SteadyInv => Sound(Now)
BY NowIsWorld DEF Sound, SteadyInv, Now

LEMMA BecomeSound ==
  ASSUME NEW r, Sound(r), Become(r) PROVE SteadyInv'
BY DEF Sound, World, SteadyInv, Become

\* A handler that leaves the controller, and what matters of the client.
LEMMA BecomeLike ==
  ASSUME SteadyInv, NEW r, Apart(Now, r), Like(cl, r.cl), Become(r) PROVE SteadyInv'
<1>1. Steady(r.cl) /\ (Going(cl, ctl) => Going(r.cl, ctl))
  BY LikeSteady DEF SteadyInv
<1>2. Sound(r)
  BY <1>1 DEF Sound, SteadyInv, World, Apart, Now
<1> QED BY <1>2, BecomeSound

\* Engines.
LEMMA SeqPlace ==
  ASSUME NEW S, NEW p \in Seq(S), NEW i, NEW e, i \in DOMAIN p => e \in S
  PROVE  /\ [p EXCEPT ![i] = e] \in Seq(S)
         /\ Len([p EXCEPT ![i] = e]) = Len(p)
         /\ [p EXCEPT ![i] = e] # <<>> <=> p # <<>>
<1> DEFINE q == [p EXCEPT ![i] = e]
<1>1. p \in [1..Len(p) -> S] /\ Len(p) \in Nat
  OBVIOUS
<1>2. q \in [1..Len(p) -> S]
  BY <1>1
<1>3. q \in Seq(S) /\ Len(q) = Len(p)
  BY <1>1, <1>2
<1>4. q # <<>> <=> Len(q) # 0
  BY <1>3
<1>5. p # <<>> <=> Len(p) # 0
  OBVIOUS
<1> QED BY <1>3, <1>4, <1>5

LEMMA JoinSeq ==
  ASSUME NEW S, NEW p \in Seq(S), NEW q \in Seq(S), Len(q) # 0
  PROVE  p \o q \in Seq(S) /\ p \o q # <<>>
<1>1. p \o q \in Seq(S) /\ Len(p \o q) = Len(p) + Len(q) /\ Len(p) \in Nat /\ Len(q) \in Nat
  OBVIOUS
<1> QED BY <1>1

LEMMA DialledEngine ==
  ASSUME NEW e \in Racer
  PROVE  /\ StartConnection(e) \in Racer /\ StartConnection(e).conns # <<>>
         /\ StillTrying(StartConnection(e))
<1> DEFINE s == Append(e.conns, "trying")
<1>1. e \in Engine /\ e.at # 0 /\ e.conns \in Seq({"trying", "up", "dead"})
  BY DEF Racer, Engine
<1>2. s \in Seq({"trying", "up", "dead"}) /\ Len(s) = Len(e.conns) + 1 /\ s[Len(s)] = "trying"
  BY <1>1
<1>3. Len(e.conns) \in Nat /\ Len(s) # 0
  BY <1>1, <1>2
<1> HIDE DEF s
<1>4. s # <<>>
  BY <1>2, <1>3
<1>5. [e EXCEPT !.conns = s] \in Racer /\ [e EXCEPT !.conns = s].conns = s
  BY <1>1, <1>2 DEF Racer, Engine
<1>6. StartConnection(e) = [e EXCEPT !.conns = s]
  BY DEF StartConnection, s
<1> QED BY <1>2, <1>4, <1>5, <1>6 DEF StillTrying

LEMMA NewEngine ==
  ASSUME NEW k \in {"address", "local", "direct", "turn"}, NEW n \in Nat \ {0}
  PROVE  CreateClient(k, n) \in Racer /\ Connected(k, n) \in Racer
<1>1. CreateClient(k, n) \in Racer
  BY DEF CreateClient, Racer, Engine
<1> QED BY <1>1, DialledEngine DEF Connected

\* What happens to a connection leaves its engine what it was.
LEMMA ConnEngine ==
  ASSUME NEW e \in Engine, NEW c, NEW x \in {"up", "dead"}
  PROVE  LET f == [e EXCEPT !.conns[c] = x]
         IN  f \in Engine /\ (e \in Racer => f \in Racer) /\ (f.conns # <<>> <=> e.conns # <<>>)
<1> DEFINE s == [e.conns EXCEPT ![c] = x]
<1>1. e.conns \in Seq({"trying", "up", "dead"})
  BY DEF Engine
<1>2. s \in Seq({"trying", "up", "dead"}) /\ (s # <<>> <=> e.conns # <<>>)
  BY <1>1, SeqPlace
<1>3. [e EXCEPT !.conns[c] = x] = [e EXCEPT !.conns = s]
  BY <1>1 DEF Engine
<1> HIDE DEF s
<1>4. /\ [e EXCEPT !.conns = s] \in Engine /\ [e EXCEPT !.conns = s].conns = s
      /\ e \in Racer => [e EXCEPT !.conns = s] \in Racer
  BY <1>1, <1>2 DEF Racer, Engine
<1> QED BY <1>2, <1>3, <1>4

LEMMA ParkedEngine ==
  ASSUME NEW S, \A e \in S : Placed(e) PROVE \A e \in Parkable(S) : Placed(e)
BY DEF Parkable, OnlyHandshakes, Placed

LEMMA ParkedRacers ==
  ASSUME NEW p \in Seq(Racer), NEW S \in SUBSET ToSet(p)
  PROVE  \A e \in Parkable(S) : Placed(e)
<1>1. \A e \in ToSet(p) : e \in Racer
  BY DEF ToSet
<1>2. \A e \in S : Placed(e)
  BY <1>1 DEF Racer, Engine, Placed
<1> QED BY <1>2, ParkedEngine

-----------------------------------------------------------------------------
(* Handlers.  A window that reconnects leaves them with something to go on. *)

LEMMA ScheduleGoes ==
  ASSUME NEW r, World(r)
  PROVE  Schedule(r).cl = r.cl /\ \A c : Going(c, Schedule(r).ctl)
<1>1. CASE r.ctl.asleep \/ r.ctl.timer
  BY <1>1 DEF Schedule, Going
<1>2. CASE ~(r.ctl.asleep \/ r.ctl.timer) /\ r.ctl.attempts >= MaxAttempts
  <2>1. Schedule(r).cl = r.cl /\ Schedule(r).ctl.phase = "gone"
    BY <1>2 DEF Schedule, Exit, World, Controller
  <2> QED BY <2>1 DEF Going
<1>3. CASE ~(r.ctl.asleep \/ r.ctl.timer) /\ ~(r.ctl.attempts >= MaxAttempts)
  <2>1. Schedule(r).cl = r.cl /\ Schedule(r).ctl.timer
    BY <1>3 DEF Schedule, World, Controller
  <2> QED BY <2>1 DEF Going
<1> QED BY <1>1, <1>2, <1>3

LEMMA OnDisconnectGoes ==
  ASSUME NEW r, World(r)
  PROVE  /\ World(OnDisconnect(r)) /\ OnDisconnect(r).cl = r.cl
         /\ \A c : Going(c, OnDisconnect(r).ctl)
<1>1. World(OnDisconnect(r))
  BY OnDisconnectHandler DEF Handler
<1>2. CASE r.ctl.reconnecting
  BY <1>1, <1>2, ScheduleGoes DEF OnDisconnect
<1>3. CASE ~r.ctl.reconnecting /\ r.ctl.active
  <2> DEFINE s == [r EXCEPT !.ctl.active = FALSE, !.ctl.reconnecting = TRUE, !.ctl.attempts = 0]
  <2>1. World(s) /\ s.cl = r.cl
    BY DEF World, Controller
  <2>2. OnDisconnect(r) = Schedule(s)
    BY <1>3 DEF OnDisconnect, BeginReconnect
  <2> HIDE DEF s
  <2> QED BY <1>1, <2>1, <2>2, ScheduleGoes
<1>4. CASE ~r.ctl.reconnecting /\ ~r.ctl.active
  <2>1. OnDisconnect(r).cl = r.cl /\ OnDisconnect(r).ctl.phase = "gone"
    BY <1>4 DEF OnDisconnect, Exit, World, Controller
  <2> QED BY <1>1, <2>1 DEF Going
<1> QED BY <1>2, <1>3, <1>4

LEMMA OnDisconnectSound ==
  ASSUME NEW r, World(r), Steady(r.cl) PROVE Sound(OnDisconnect(r))
BY OnDisconnectGoes DEF Sound

LEMMA NoEngineIsEngine == NoEngine \in Engine /\ NoEngine.conns = <<>>
BY DEF NoEngine, CreateClient, Engine

\* Closing leaves no connection, and a race only if there was no connection.
LEMMA CloseSteady ==
  ASSUME NEW r, World(r), Steady(r.cl), r.cl.conn # 0 \/ HasQuic(r)
  PROVE  /\ Steady(Close(r).cl) /\ Close(r).cl.conn = 0 /\ ~HasQuic(Close(r))
         /\ Close(r).cl.probes = <<>> /\ DOMAIN Close(r).cl = DOMAIN r.cl
<1> DEFINE d == Close(r).cl
<1>1. /\ d.probes = r.cl.probes /\ d.quic = NoEngine /\ d.conn = 0 /\ d.stale = r.cl.stale
      /\ d.sig = FALSE /\ DOMAIN d = DOMAIN r.cl
  BY DEF Close, World, Steady, Client
<1>2. r.cl.quic # NoEngine
  BY NoEngineIsEngine DEF Steady, OneRace, HasQuic
<1>3. r.cl.probes = <<>>
  BY <1>2 DEF Steady, OneRace
<1> HIDE DEF d
<1>4. Client(d)
  BY <1>1, NoEngineIsEngine DEF Steady, Client
<1>5. OneRace(d)
  BY <1>1, <1>3 DEF OneRace
<1> QED BY <1>1, <1>3, <1>4, <1>5 DEF Steady, HasQuic, d

LEMMA FailSound ==
  ASSUME NEW r, World(r), Steady(r.cl), r.cl.conn # 0 \/ Going(r.cl, r.ctl)
  PROVE  Sound(Fail(r))
<1>1. CASE r.cl.conn = 0
  BY <1>1 DEF Fail, Sound
<1>2. CASE r.cl.conn # 0
  <2>1. World(Close(r)) /\ Steady(Close(r).cl)
    BY <1>2, CloseSteady, CloseApart DEF Apart, World
  <2> QED BY <1>2, <2>1, OnDisconnectSound DEF Fail
<1> QED BY <1>1, <1>2

\* Either something of the race is left, or on_disconnect is called.
LEMMA ProbeFailedSound ==
  ASSUME NEW r, World(r), Steady(r.cl), HasQuic(r) => Going(r.cl, r.ctl)
  PROVE  Sound(ProbeFailed(r))
<1> DEFINE s == [r EXCEPT !.cl.stale = @ \cup Parkable(ToSet(r.cl.probes)),
                          !.cl.probes = <<>>, !.cl.asking = 0, !.cl.reflexive = FALSE,
                          !.cl.pendingOut = FALSE]
           left == HasQuic(r) \/ (\E e \in ToSet(r.cl.probes) : StillTrying(e)) \/ r.cl.sig
<1>1. CASE left
  <2>1. ProbeFailed(r) = r
    BY <1>1 DEF ProbeFailed
  <2>2. HasQuic(r) \/ Trying(r.cl)
    BY <1>1 DEF Trying, Steady, OneRace
  <2>3. Going(r.cl, r.ctl)
    BY <2>2 DEF Going
  <2> QED BY <2>1, <2>3 DEF Sound
<1>2. CASE ~left
  <2>1. ProbeFailed(r) = OnDisconnect(s)
    BY <1>2 DEF ProbeFailed
  <2>2. /\ s.cl.probes = <<>> /\ s.cl.quic = r.cl.quic /\ s.cl.conn = r.cl.conn
        /\ s.cl.stale = r.cl.stale \cup Parkable(ToSet(r.cl.probes)) /\ s.cl.sig = r.cl.sig
        /\ DOMAIN s.cl = DOMAIN r.cl /\ World(s)
    BY DEF World, Steady, Client
  <2>3. r.cl.quic = NoEngine /\ ~r.cl.sig
    BY <1>2 DEF HasQuic
  <2>4. \A e \in Parkable(ToSet(r.cl.probes)) : Placed(e)
    BY ParkedRacers DEF Steady, Client
  <2> HIDE DEF s
  <2>5. Client(s.cl)
    BY <2>2, <2>4 DEF Steady, Client
  <2>6. OneRace(s.cl)
    BY <2>2, <2>3, NoEngineIsEngine DEF Steady, OneRace
  <2> QED BY <2>1, <2>2, <2>5, <2>6, OnDisconnectSound DEF Steady
<1> QED BY <1>1, <1>2

LEMMA EngineClosedSound ==
  ASSUME NEW r, World(r), Steady(r.cl), HasQuic(r) => Going(r.cl, r.ctl), NEW e
  PROVE  Sound(EngineClosed(r, e))
<1> DEFINE s == ProbeFailed(r)
           t == [s EXCEPT !.cl.redials = @ \cup {e.at}]
<1>1. Sound(s)
  BY ProbeFailedSound
<1>2. EngineClosed(r, e) = s \/ EngineClosed(r, e) = t
  BY DEF EngineClosed
<1> HIDE DEF s
<1>3. Like(s.cl, t.cl) /\ t.ctl = s.ctl /\ World(t)
  BY <1>1 DEF Sound, World, Steady, Client, Like
<1> HIDE DEF t
<1>4. Sound(t)
  BY <1>1, <1>3, LikeSteady DEF Sound
<1> QED BY <1>1, <1>2, <1>4

\* A winner has dialled the connection it is adopted with, and says hello.
LEMMA AdoptProbeSound ==
  ASSUME NEW r, World(r), Steady(r.cl), NEW i \in DOMAIN r.cl.probes,
         r.cl.probes[i].conns # <<>>
  PROVE  Sound(AdoptProbe(r, i))
<1> DEFINE e == r.cl.probes[i]
           t == AdoptProbe(r, i)
           ps == Parkable(ToSet(r.cl.probes) \ {e})
<1>1. r.cl.probes # <<>> /\ i \in 1..Len(r.cl.probes) /\ r.cl.probes \in Seq(Racer)
  BY DEF Steady, Client
<1>2. ~HasQuic(r) /\ r.cl.pendingOut /\ ~(i > Len(r.cl.probes))
  BY <1>1 DEF Steady, OneRace, HasQuic
<1>3. /\ t.cl.quic = e /\ t.cl.conn = Len(e.conns) /\ t.cl.stale = r.cl.stale \cup ps
      /\ t.cl.probes = <<>> /\ t.cl.sig = FALSE /\ t.cl.said = "hello"
      /\ DOMAIN t.cl = DOMAIN r.cl /\ t.ctl = r.ctl /\ DOMAIN t = DOMAIN r
  BY <1>2 DEF AdoptProbe, World, Steady, Client
<1>4. e \in Racer
  BY <1>1
<1>5. e \in Engine /\ e.conns \in Seq({"trying", "up", "dead"})
  BY <1>4 DEF Racer, Engine
<1>6. Len(e.conns) \in Nat /\ Len(e.conns) # 0
  BY <1>5
<1>7. \A x \in ps : Placed(x)
  BY <1>1, ParkedRacers
<1> HIDE DEF e, t, ps
<1>8. Client(t.cl)
  BY <1>3, <1>5, <1>6, <1>7 DEF Steady, Client
<1>9. OneRace(t.cl)
  BY <1>3, <1>6 DEF OneRace, e
<1>10. Sound(t)
  BY <1>3, <1>6, <1>8, <1>9 DEF Sound, World, Steady, Going
<1> QED BY <1>10 DEF t

\* A parked engine that completes finds a connection, or no race at all.
LEMMA AdoptParkedSound ==
  ASSUME NEW r, World(r), Steady(r.cl), Going(r.cl, r.ctl), r.cl.probes = <<>>,
         NEW i \in Nat \ {0}
  PROVE  Sound(AdoptProbe(r, i))
<1>1. CASE HasQuic(r)
  BY <1>1 DEF AdoptProbe, Sound
<1>2. CASE ~HasQuic(r)
  <2>1. i > Len(r.cl.probes)
    OBVIOUS
  <2>2. AdoptProbe(r, i) = [r EXCEPT !.ctl.phase = "crashed"]
    BY <1>2, <2>1 DEF AdoptProbe
  <2>3. /\ AdoptProbe(r, i).cl = r.cl /\ World(AdoptProbe(r, i))
        /\ AdoptProbe(r, i).ctl.phase = "crashed"
    BY <2>2 DEF World, Controller
  <2> QED BY <2>3 DEF Sound, Going
<1> QED BY <1>1, <1>2

\* connect() and begin_punch(), with the frame that follows them.
LEMMA RaceSeq == [i \in 1..Cardinality(Addresses) |-> Connected("address", i)] \in Seq(Racer)
<1>1. Cardinality(Addresses) \in Nat
  BY ReconnectAssumption, FS_CardinalityType
<1>2. \A i \in 1..Cardinality(Addresses) : Connected("address", i) \in Racer
  BY NewEngine
<1> QED BY <1>1, <1>2

LEMMA ConnectSteady ==
  ASSUME NEW r, World(r), Steady(r.cl), NEW old
  PROVE  LET c == Connect(r, old).cl
         IN  Client(c) /\ OneRace(c) /\ c.conn = 0 /\ c.probes # <<>> /\ c.sig /\ c.fallback
<1> DEFINE s == IF HasQuic(r) THEN Close(r) ELSE r
           race == [i \in 1..Cardinality(Addresses) |-> Connected("address", i)]
           t == [s EXCEPT !.cl.stale = {}, !.cl.probes = race, !.cl.pendingOut = FALSE]
           u == BeginPunch(t, old)
           two == <<CreateClient("direct", Len(race) + 1), CreateClient("turn", Len(race) + 2)>>
<1>1. Steady(s.cl) /\ s.cl.conn = 0 /\ s.cl.quic = NoEngine /\ Apart(r, s)
  <2>1. CASE HasQuic(r)
    BY <2>1, CloseSteady, CloseApart DEF HasQuic
  <2>2. CASE ~HasQuic(r)
    BY <2>2, NoEngineIsEngine DEF HasQuic, Steady, OneRace, Apart, World
  <2> QED BY <2>1, <2>2
<1>2. Connect(r, old) = u
  BY DEF Connect
<1>3. race \in Seq(Racer)
  BY RaceSeq
<1> HIDE DEF s, race
<1>4. race \in Seq(Racer) /\ Len(race) \in Nat
  BY <1>3
<1>5. two \in Seq(Racer) /\ Len(two) = 2
  BY <1>4, NewEngine
<1>6. /\ t.cl.stale = {} /\ t.cl.probes = race /\ t.cl.conn = 0 /\ t.cl.quic = NoEngine
      /\ DOMAIN t.cl = DOMAIN s.cl /\ DOMAIN t = {"cl", "ctl", "sg"}
  BY <1>1 DEF Apart, Steady, Client
<1>7. DOMAIN t.cl = DOMAIN s.cl /\ Client(s.cl)
  BY <1>1, <1>6 DEF Steady
<1> HIDE DEF t
<1>8. /\ u.cl.stale = {} /\ u.cl.probes = race \o two /\ u.cl.conn = 0 /\ u.cl.quic = NoEngine
      /\ u.cl.sig = TRUE /\ u.cl.fallback = TRUE /\ DOMAIN u.cl = DOMAIN t.cl
  <2> DEFINE d == [t.cl EXCEPT !.sig = TRUE, !.fallback = TRUE, !.targets = {},
                               !.reflexive = FALSE, !.asking = 2, !.probes = race \o two]
  <2>1. u.cl = d
    BY <1>6 DEF BeginPunch
  <2>2. /\ d.stale = {} /\ d.probes = race \o two /\ d.conn = 0 /\ d.quic = NoEngine
        /\ d.sig = TRUE /\ d.fallback = TRUE /\ DOMAIN d = DOMAIN t.cl
    BY <1>6, <1>7 DEF Client
  <2> QED BY <2>1, <2>2
<1> HIDE DEF two, u
<1>9. race \o two \in Seq(Racer) /\ race \o two # <<>>
  BY <1>4, <1>5, JoinSeq
<1>10. u.cl.probes # <<>>
  BY <1>8, <1>9
<1>11. Client(u.cl)
  BY <1>7, <1>8, <1>9, NoEngineIsEngine DEF Client
<1>12. OneRace(u.cl)
  BY <1>8, <1>10 DEF OneRace
<1> QED BY <1>2, <1>8, <1>10, <1>11, <1>12

LEMMA OpeningSound ==
  ASSUME NEW r, World(r), Steady(r.cl), NEW old
  PROVE  Sound(SendFrame(Connect(r, old), "hello"))
<1> DEFINE s == Connect(r, old)
           t == SendFrame(s, "hello")
<1>1. /\ Client(s.cl) /\ OneRace(s.cl) /\ s.cl.conn = 0 /\ s.cl.probes # <<>>
      /\ s.cl.sig /\ s.cl.fallback
  BY ConnectSteady
<1>2. World(s)
  BY ConnectApart DEF Apart, World
<1> HIDE DEF s
<1>3. t = [s EXCEPT !.cl.pendingOut = TRUE]
  BY <1>1 DEF SendFrame
<1>4. /\ t.cl.probes = s.cl.probes /\ t.cl.quic = s.cl.quic /\ t.cl.conn = s.cl.conn
      /\ t.cl.stale = s.cl.stale /\ t.cl.sig = s.cl.sig /\ t.cl.fallback = s.cl.fallback
      /\ t.cl.pendingOut = TRUE /\ DOMAIN t.cl = DOMAIN s.cl /\ World(t)
  BY <1>1, <1>2, <1>3 DEF World, Client
<1> HIDE DEF t
<1>5. Steady(t.cl)
  BY <1>1, <1>4 DEF Steady, Client, OneRace
<1>6. Sound(t)
  BY <1>1, <1>4, <1>5 DEF Sound, Going, Trying
<1> QED BY <1>6 DEF s, t

\* Answers and redials dial from engines of a race whose punch is under way.
LEMMA PunchSound ==
  ASSUME NEW r, World(r), NEW c, Steady(c), c.sig, r.cl.probes \in Seq(Racer),
         r.cl.probes # <<>>, DOMAIN r.cl = DOMAIN c,
         r.cl.quic = c.quic, r.cl.conn = c.conn, r.cl.stale = c.stale, r.cl.sig = c.sig,
         r.cl.fallback = c.fallback, r.cl.pendingOut = c.pendingOut
  PROVE  Sound(r)
<1>1. Client(r.cl)
  BY DEF Steady, Client
<1>2. c.quic = NoEngine /\ c.stale = {} /\ c.pendingOut
  BY DEF Steady, OneRace
<1>3. OneRace(r.cl)
  BY <1>2 DEF Steady, OneRace
<1> QED BY <1>1, <1>2, <1>3 DEF Sound, Steady, Going, Trying, OneRace

LEMMA OnAnswerSound ==
  ASSUME NEW r, World(r), Steady(r.cl), r.cl.sig, NEW kinds
  PROVE  Sound(OnAnswer(r, kinds))
<1> DEFINE n == Len(r.cl.probes)
           dial(ps, i, kind) == IF kind \in kinds THEN [ps EXCEPT ![i] = StartConnection(@)] ELSE ps
           first == dial(r.cl.probes, n - 1, "stun")
           second == dial(first, n, "turn")
           punched == IF n >= 2 THEN second ELSE r.cl.probes
           joined == IF "local" \in kinds THEN Append(punched, Connected("local", n + 1)) ELSE punched
           t == OnAnswer(r, kinds)
<1>1. ~HasQuic(r) /\ r.cl.probes \in Seq(Racer) /\ r.cl.probes # <<>> /\ n \in Nat
  BY DEF Steady, OneRace, HasQuic, Client
<1>2. /\ t.cl.probes = joined /\ DOMAIN t.cl = DOMAIN r.cl
      /\ t.cl.quic = r.cl.quic /\ t.cl.conn = r.cl.conn /\ t.cl.stale = r.cl.stale
      /\ t.cl.sig = r.cl.sig /\ t.cl.fallback = r.cl.fallback
      /\ t.cl.pendingOut = r.cl.pendingOut
  BY <1>1 DEF OnAnswer, World, Steady, Client
<1>3. World(t)
  BY OnAnswerApart DEF Apart, World
<1>4. ASSUME NEW ps \in Seq(Racer), ps # <<>>, NEW i, NEW kind
      PROVE  dial(ps, i, kind) \in Seq(Racer) /\ dial(ps, i, kind) # <<>>
  <2>1. i \in DOMAIN ps => ps[i] \in Racer
    OBVIOUS
  <2>2. i \in DOMAIN ps => StartConnection(ps[i]) \in Racer
    BY <2>1, DialledEngine
  <2>3. [ps EXCEPT ![i] = StartConnection(ps[i])] \in Seq(Racer)
        /\ [ps EXCEPT ![i] = StartConnection(ps[i])] # <<>>
    BY <1>4, <2>2, SeqPlace
  <2> QED BY <1>4, <2>3
<1> HIDE DEF dial
<1>5. first \in Seq(Racer) /\ first # <<>>
  BY <1>1, <1>4
<1> HIDE DEF first
<1>6. second \in Seq(Racer) /\ second # <<>>
  BY <1>4, <1>5
<1> HIDE DEF second
<1>7. punched \in Seq(Racer) /\ punched # <<>>
  BY <1>1, <1>6
<1>8. Connected("local", n + 1) \in Racer
  BY <1>1, NewEngine
<1> HIDE DEF punched
<1>9. joined \in Seq(Racer) /\ joined # <<>>
  BY <1>7, <1>8
<1> HIDE DEF joined, t, n
<1>10. Sound(t)
  BY <1>2, <1>3, <1>9, PunchSound
<1> QED BY <1>10 DEF t

-----------------------------------------------------------------------------
(* Every step of a window that is sound leaves it so.                      *)

LEMMA StartSound == ASSUME SteadyInv, Start PROVE SteadyInv'
<1> DEFINE r == [Now EXCEPT !.ctl.phase = "running"]
<1>1. World(r) /\ r.cl = cl
  BY NowIsWorld DEF SteadyInv, World, Controller, Now
<1>2. Become(SendFrame(Connect(r, FALSE), "hello"))
  BY DEF Start
<1> HIDE DEF r
<1>3. Sound(SendFrame(Connect(r, FALSE), "hello"))
  BY <1>1, OpeningSound DEF SteadyInv
<1> QED BY <1>2, <1>3, BecomeSound

LEMMA ReconnectTimerSound == ASSUME SteadyInv, ReconnectTimer PROVE SteadyInv'
<1> DEFINE r == [Now EXCEPT !.ctl.timer = FALSE]
           s == [r EXCEPT !.ctl.attempts = @ + 1]
<1>1. World(r) /\ r.cl = cl /\ r.ctl.reconnecting = ctl.reconnecting
  BY NowIsWorld DEF SteadyInv, World, Controller, Now
<1>2. PICK old \in BOOLEAN : IF ctl.reconnecting THEN Become(Attempt(r, old)) ELSE Become(r)
  BY DEF ReconnectTimer
<1>3. Attempt(r, old) = SendFrame(Connect(s, old), "hello")
  BY DEF Attempt
<1> HIDE DEF r
<1>4. World(s) /\ s.cl = cl
  BY <1>1 DEF World, Controller
<1> HIDE DEF s
<1>5. CASE ctl.reconnecting
  <2>1. Sound(SendFrame(Connect(s, old), "hello"))
    BY <1>4, OpeningSound DEF SteadyInv
  <2> QED BY <1>2, <1>3, <1>5, <2>1, BecomeSound
<1>6. CASE ~ctl.reconnecting
  <2>1. Sound(r)
    BY <1>1, <1>6 DEF Sound, SteadyInv, Going
  <2> QED BY <1>2, <1>6, <2>1, BecomeSound
<1> QED BY <1>5, <1>6

LEMMA ConnectsSound ==
  ASSUME SteadyInv, NEW i \in DOMAIN cl.probes, NEW c, Connects(i, c) PROVE SteadyInv'
<1> DEFINE p == [cl.probes EXCEPT ![i] = Establish(@, c)]
           r == [Now EXCEPT !.cl.probes[i] = Establish(@, c)]
<1>1. cl.probes \in Seq(Racer) /\ cl.probes # <<>> /\ cl.probes[i] \in Racer
  BY DEF SteadyInv, Steady, Client
<1>2. cl.probes[i].conns # <<>>
  <2>1. c \in DOMAIN cl.probes[i].conns
    BY DEF Connects, Handshakes
  <2> QED BY <2>1
<1>3. Establish(cl.probes[i], c) \in Racer /\ Establish(cl.probes[i], c).conns # <<>>
  <2>1. cl.probes[i] \in Engine
    BY <1>1 DEF Racer
  <2> QED BY <1>1, <1>2, <2>1, ConnEngine DEF Establish
<1>4. p \in Seq(Racer) /\ p # <<>> /\ DOMAIN p = DOMAIN cl.probes /\ p[i] = Establish(cl.probes[i], c)
  <2>1. p \in Seq(Racer) /\ p # <<>>
    BY <1>1, <1>3, SeqPlace
  <2> QED BY <2>1
<1>5. Become(AdoptProbe(r, i))
  BY DEF Connects
<1>6. /\ r.cl.probes = p /\ DOMAIN r.cl = DOMAIN cl /\ r.cl.quic = cl.quic /\ r.cl.conn = cl.conn
      /\ r.cl.stale = cl.stale /\ r.cl.sig = cl.sig /\ r.cl.fallback = cl.fallback
      /\ r.cl.pendingOut = cl.pendingOut /\ World(r)
  BY NowIsWorld DEF SteadyInv, Steady, Client, World, Now
<1> HIDE DEF p, r
<1>7. Steady(r.cl)
  BY <1>1, <1>4, <1>6 DEF SteadyInv, Steady, Client, OneRace
<1>8. i \in DOMAIN r.cl.probes /\ r.cl.probes[i].conns # <<>>
  BY <1>3, <1>4, <1>6
<1>9. Sound(AdoptProbe(r, i))
  BY <1>6, <1>7, <1>8, AdoptProbeSound
<1> QED BY <1>5, <1>9, BecomeSound

LEMMA ProbeClosesSound ==
  ASSUME SteadyInv, NEW i \in DOMAIN cl.probes, NEW c, ProbeCloses(i, c) PROVE SteadyInv'
<1> DEFINE e == MarkClosed(cl.probes[i], c)
           p == [cl.probes EXCEPT ![i] = e]
           r == [Now EXCEPT !.cl.probes[i] = e]
<1>1. cl.probes \in Seq(Racer) /\ cl.probes # <<>> /\ cl.probes[i] \in Racer
  BY DEF SteadyInv, Steady, Client
<1>2. e \in Racer
  <2>1. cl.probes[i] \in Engine
    BY <1>1 DEF Racer
  <2> QED BY <1>1, <2>1, ConnEngine DEF MarkClosed
<1>3. Become(EngineClosed(r, e))
  BY DEF ProbeCloses
<1> HIDE DEF e
<1>4. p \in Seq(Racer) /\ p # <<>>
  BY <1>1, <1>2, SeqPlace
<1>5. /\ r.cl.probes = p /\ DOMAIN r.cl = DOMAIN cl /\ r.cl.quic = cl.quic /\ r.cl.conn = cl.conn
      /\ r.cl.stale = cl.stale /\ r.cl.sig = cl.sig /\ r.cl.fallback = cl.fallback
      /\ r.cl.pendingOut = cl.pendingOut /\ World(r)
  BY NowIsWorld DEF SteadyInv, Steady, Client, World, Now
<1> HIDE DEF p, r
<1>6. Steady(r.cl)
  BY <1>1, <1>4, <1>5 DEF SteadyInv, Steady, Client, OneRace
<1>7. ~HasQuic(r)
  BY <1>4, <1>5, <1>6 DEF HasQuic, Steady, OneRace
<1>8. Sound(EngineClosed(r, e))
  BY <1>5, <1>6, <1>7, EngineClosedSound
<1> QED BY <1>3, <1>8, BecomeSound

\* A callback of a parked engine e, which leaves it f.
LEMMA ParkedSteady ==
  ASSUME SteadyInv, NEW e \in cl.stale, NEW f, Placed(e) => Placed(f)
  PROVE  LET r == [Now EXCEPT !.cl.stale = Parkable((@ \ {e}) \cup {f})]
         IN  /\ World(r) /\ Steady(r.cl) /\ Going(r.cl, r.ctl) /\ r.cl.probes = <<>>
             /\ e.at \in Nat \ {0}
<1> DEFINE S == (cl.stale \ {e}) \cup {f}
           r == [Now EXCEPT !.cl.stale = Parkable((@ \ {e}) \cup {f})]
<1>1. (\A y \in cl.stale : Placed(y)) /\ cl.probes = <<>>
  BY DEF SteadyInv, Steady, Client, OneRace
<1>2. \A y \in S : Placed(y)
  BY <1>1
<1>3. \A y \in Parkable(S) : Placed(y)
  BY <1>2, ParkedEngine
<1>4. /\ r.cl.stale = Parkable(S)
      /\ r.cl.probes = cl.probes /\ DOMAIN r.cl = DOMAIN cl /\ r.cl.quic = cl.quic
      /\ r.cl.conn = cl.conn /\ r.cl.sig = cl.sig /\ r.cl.fallback = cl.fallback
      /\ r.cl.pendingOut = cl.pendingOut /\ r.cl.said = cl.said /\ World(r) /\ r.ctl = ctl
  BY NowIsWorld DEF SteadyInv, Steady, Client, World, Now
<1> HIDE DEF S, r
<1>5. Steady(r.cl)
  BY <1>1, <1>3, <1>4 DEF SteadyInv, Steady, Client, OneRace
<1>6. Going(r.cl, r.ctl)
  BY <1>4 DEF SteadyInv, Going, Trying
<1> QED BY <1>1, <1>4, <1>5, <1>6 DEF r, Placed

LEMMA StaleConnectsSound ==
  ASSUME SteadyInv, NEW e \in cl.stale, NEW c, StaleConnects(e, c) PROVE SteadyInv'
<1> DEFINE f == Establish(e, c)
           r == [Now EXCEPT !.cl.stale = Parkable((@ \ {e}) \cup {f})]
<1>1. Placed(e) => Placed(f)
  BY DEF Placed, Establish
<1>2. Become(AdoptProbe(r, e.at))
  BY DEF StaleConnects
<1> HIDE DEF f
<1>3. /\ World(r) /\ Steady(r.cl) /\ Going(r.cl, r.ctl) /\ r.cl.probes = <<>>
      /\ e.at \in Nat \ {0}
  BY <1>1, ParkedSteady
<1> HIDE DEF r
<1>4. Sound(AdoptProbe(r, e.at))
  BY <1>3, AdoptParkedSound
<1> QED BY <1>2, <1>4, BecomeSound

LEMMA StaleClosesSound ==
  ASSUME SteadyInv, NEW e \in cl.stale, NEW c, StaleCloses(e, c) PROVE SteadyInv'
<1> DEFINE f == MarkClosed(e, c)
           r == [Now EXCEPT !.cl.stale = Parkable((@ \ {e}) \cup {f})]
<1>1. Placed(e) => Placed(f)
  BY DEF Placed, MarkClosed
<1>2. Become(EngineClosed(r, e))
  BY DEF StaleCloses
<1> HIDE DEF f
<1>3. World(r) /\ Steady(r.cl) /\ Going(r.cl, r.ctl)
  BY <1>1, ParkedSteady
<1> HIDE DEF r
<1>4. Sound(EngineClosed(r, e))
  BY <1>3, EngineClosedSound
<1> QED BY <1>2, <1>4, BecomeSound

LEMMA RedialSound == ASSUME SteadyInv, NEW i, RedialTimer(i) PROVE SteadyInv'
<1> DEFINE r == [Now EXCEPT !.cl.redials = @ \ {i}]
           s == [r EXCEPT !.cl.probes[i] = StartConnection(@)]
           p == [cl.probes EXCEPT ![i] = StartConnection(@)]
<1>1. Become(r) \/ (cl.sig /\ Become(s))
  BY DEF RedialTimer
<1>2. Apart(Now, r) /\ Like(cl, r.cl)
  BY DEF SteadyInv, Steady, Client, Apart, Like, Now
<1>3. CASE Become(r)
  BY <1>2, <1>3, BecomeLike
<1>4. CASE cl.sig /\ Become(s)
  <2>1. cl.probes \in Seq(Racer) /\ cl.probes # <<>>
    BY <1>4 DEF SteadyInv, Steady, Client, OneRace
  <2>2. i \in DOMAIN cl.probes => StartConnection(cl.probes[i]) \in Racer
    BY <2>1, DialledEngine
  <2>3. p \in Seq(Racer) /\ p # <<>>
    BY <2>1, <2>2, SeqPlace
  <2>4. s.cl.probes = p /\ DOMAIN s.cl = DOMAIN cl
    BY DEF SteadyInv, Steady, Client, Now
  <2>5. /\ s.cl.quic = cl.quic /\ s.cl.conn = cl.conn
        /\ s.cl.stale = cl.stale /\ s.cl.sig = cl.sig /\ s.cl.fallback = cl.fallback
        /\ s.cl.pendingOut = cl.pendingOut /\ World(s)
    BY NowIsWorld DEF SteadyInv, Steady, Client, World, Now
  <2> HIDE DEF s, p
  <2>6. Sound(s)
    BY <1>4, <2>3, <2>4, <2>5, PunchSound DEF SteadyInv
  <2> QED BY <1>4, <2>6, BecomeSound
<1> QED BY <1>1, <1>3, <1>4

LEMMA FallbackSound == ASSUME SteadyInv, FallbackTimer PROVE SteadyInv'
<1> DEFINE r == [Now EXCEPT !.cl.fallback = FALSE]
           s == [r EXCEPT !.cl.sig = FALSE]
<1>1. IF HasQuic(Now) \/ ~cl.sig THEN Become(r) ELSE Become(ProbeFailed(s))
  BY DEF FallbackTimer, HasQuic, SteadyInv, Steady, Client, Now
<1>2. /\ r.cl.probes = cl.probes /\ DOMAIN r.cl = DOMAIN cl /\ r.cl.quic = cl.quic
      /\ r.cl.conn = cl.conn /\ r.cl.stale = cl.stale /\ r.cl.sig = cl.sig
      /\ r.cl.pendingOut = cl.pendingOut /\ r.cl.said = cl.said /\ World(r) /\ r.ctl = ctl
  BY NowIsWorld DEF SteadyInv, Steady, Client, World, Now
<1>3. /\ s.cl.probes = cl.probes /\ DOMAIN s.cl = DOMAIN cl /\ s.cl.quic = cl.quic
      /\ s.cl.conn = cl.conn /\ s.cl.stale = cl.stale /\ s.cl.sig = FALSE
      /\ s.cl.pendingOut = cl.pendingOut /\ World(s)
  BY <1>2 DEF SteadyInv, Steady, Client, World
<1> HIDE DEF r, s
<1>4. CASE HasQuic(Now) \/ ~cl.sig
  <2>1. ~cl.sig
    BY <1>4 DEF SteadyInv, Steady, OneRace, HasQuic, Now
  <2>2. Steady(r.cl)
    BY <1>2, <2>1 DEF SteadyInv, Steady, Client, OneRace
  <2>3. Going(r.cl, r.ctl)
    BY <1>2, <2>1 DEF SteadyInv, Going, Trying
  <2> QED BY <1>1, <1>2, <1>4, <2>2, <2>3, BecomeSound DEF Sound
<1>5. CASE ~HasQuic(Now) /\ cl.sig
  <2>1. Steady(s.cl)
    BY <1>3 DEF SteadyInv, Steady, Client, OneRace
  <2>2. ~HasQuic(s)
    BY <1>3, <1>5 DEF HasQuic, Now
  <2>3. Sound(ProbeFailed(s))
    BY <1>3, <2>1, <2>2, ProbeFailedSound
  <2> QED BY <1>1, <1>5, <2>3, BecomeSound
<1> QED BY <1>4, <1>5

LEMMA RaceSound == ASSUME SteadyInv, Race PROVE SteadyInv'
<1>1. ASSUME NEW ok, StunAnswers(ok) PROVE SteadyInv'
  <2> DEFINE r == [Now EXCEPT !.cl.asking = @ - 1, !.cl.reflexive = @ \/ ok]
  <2>1. Become(Offer(r))
    BY <1>1 DEF StunAnswers
  <2>2. Apart(Now, r) /\ Like(cl, r.cl)
    BY DEF SteadyInv, Steady, Client, Apart, Like, Now
  <2> HIDE DEF r
  <2>3. Apart(Now, Offer(r)) /\ Like(cl, Offer(r).cl)
    BY <2>2 DEF Offer, Apart, Like, SteadyInv, Steady, Client
  <2> QED BY <2>1, <2>3, BecomeLike
<1>2. CASE OfferTimer
  <2> DEFINE r == [Now EXCEPT !.cl.offering = FALSE]
             s == [Now EXCEPT !.sg = Send(Restart(@))]
  <2>1. Become(r) \/ Become(s)
    BY <1>2 DEF OfferTimer
  <2>2. Apart(Now, r) /\ Like(cl, r.cl) /\ Apart(Now, s) /\ Like(cl, s.cl)
    BY DEF SteadyInv, Steady, Client, Apart, Like, Now
  <2> HIDE DEF r, s
  <2> QED BY <2>1, <2>2, BecomeLike
<1> QED BY <1>1, <1>2, ConnectsSound, ProbeClosesSound, StaleConnectsSound,
           StaleClosesSound, RedialSound, FallbackSound DEF Race

LEMMA UnchangedSound == ASSUME SteadyInv, cl' = cl, ctl' = ctl PROVE SteadyInv'
BY DEF SteadyInv

LEMMA PunchStepSound == ASSUME SteadyInv, Punch PROVE SteadyInv'
<1>1. CASE SocketOpens \/ HandleOffer \/ \E noticed \in BOOLEAN : SocketLost(noticed)
  BY <1>1, UnchangedSound DEF SocketOpens, HandleOffer, SocketLost
<1>2. CASE AnswerArrives
  <2>1. (cl.sig /\ Become(OnAnswer(Now, answer))) \/ Become(Now)
    BY <1>2 DEF AnswerArrives
  <2>2. World(Now) /\ Now.cl = cl /\ Sound(Now)
    BY NowIsWorld, NowIsSound DEF SteadyInv, Now
  <2>3. cl.sig => Sound(OnAnswer(Now, answer))
    BY <2>2, OnAnswerSound DEF SteadyInv
  <2> QED BY <2>1, <2>2, <2>3, BecomeSound
<1> QED BY <1>1, <1>2 DEF Punch

LEMMA LateHandshakeSound == ASSUME SteadyInv, NEW c, LateHandshake(c) PROVE SteadyInv'
<1> DEFINE e == Establish(cl.quic, c)
<1>1. /\ cl.conn # 0 /\ cl' = [cl EXCEPT !.quic = e] /\ ctl' = ctl /\ cl.quic \in Engine
      /\ DOMAIN cl = DOMAIN cl'
  BY DEF LateHandshake, SteadyInv, Steady, Client
<1>2. e \in Engine /\ e.conns # <<>>
  BY <1>1, ConnEngine DEF Establish, SteadyInv, Steady, OneRace
<1>3. cl.quic # NoEngine
  BY <1>1, NoEngineIsEngine DEF SteadyInv, Steady, OneRace
<1> HIDE DEF e
<1>4. /\ cl'.quic = e /\ cl'.probes = cl.probes /\ cl'.conn = cl.conn /\ cl'.stale = cl.stale
      /\ cl'.sig = cl.sig /\ cl'.fallback = cl.fallback
      /\ cl'.pendingOut = cl.pendingOut /\ cl'.said = cl.said
  BY <1>1 DEF SteadyInv, Steady, Client
<1>5. Client(cl)'
  BY <1>1, <1>2, <1>4 DEF SteadyInv, Steady, Client
<1>6. OneRace(cl)'
  BY <1>2, <1>3, <1>4 DEF SteadyInv, Steady, OneRace
<1>7. Going(cl, ctl)'
  BY <1>1, <1>4 DEF SteadyInv, Going, Trying
<1> QED BY <1>1, <1>4, <1>5, <1>6, <1>7 DEF SteadyInv, Steady

LEMMA ConnClosesSound == ASSUME SteadyInv, NEW c, ConnCloses(c) PROVE SteadyInv'
<1> DEFINE e == MarkClosed(cl.quic, c)
           r == [Now EXCEPT !.cl.quic = MarkClosed(@, c)]
<1>1. Become(Fail(r)) /\ cl.conn # 0 /\ cl.quic \in Engine
  BY DEF ConnCloses, SteadyInv, Steady, Client
<1>2. e \in Engine /\ e.conns # <<>>
  BY <1>1, ConnEngine DEF MarkClosed, SteadyInv, Steady, OneRace
<1>3. cl.quic # NoEngine
  BY <1>1, NoEngineIsEngine DEF SteadyInv, Steady, OneRace
<1>4. /\ r.cl.quic = e /\ r.cl.probes = cl.probes /\ r.cl.conn = cl.conn /\ r.cl.stale = cl.stale
      /\ r.cl.sig = cl.sig /\ r.cl.fallback = cl.fallback /\ DOMAIN r.cl = DOMAIN cl
      /\ r.cl.pendingOut = cl.pendingOut /\ World(r)
  BY NowIsWorld DEF SteadyInv, Steady, Client, World, Now
<1> HIDE DEF e, r
<1>5. Steady(r.cl)
  BY <1>2, <1>3, <1>4 DEF SteadyInv, Steady, Client, OneRace
<1>6. Sound(Fail(r))
  BY <1>1, <1>4, <1>5, FailSound
<1> QED BY <1>1, <1>6, BecomeSound

LEMMA HelloOkSound == ASSUME SteadyInv, NEW same, HelloOk(same) PROVE SteadyInv'
<1> DEFINE s == SendFrame(Now, "attach")
<1>1. cl.conn # 0 /\ (Become(s) \/ Become(Fail(Now)))
  BY DEF HelloOk, Delivered
<1>2. World(Now) /\ Now.cl = cl /\ Now.ctl = ctl
  BY NowIsWorld DEF SteadyInv, Now
<1>3. CASE Become(Fail(Now))
  BY <1>1, <1>2, <1>3, FailSound, BecomeSound DEF SteadyInv
<1>4. CASE Become(s)
  <2>1. /\ s.cl.probes = cl.probes /\ s.cl.quic = cl.quic /\ s.cl.conn = cl.conn
        /\ s.cl.stale = cl.stale /\ s.cl.sig = cl.sig /\ s.cl.fallback = cl.fallback
        /\ s.cl.pendingOut = cl.pendingOut /\ s.cl.said = "attach"
        /\ DOMAIN s.cl = DOMAIN cl /\ World(s)
    BY <1>1, <1>2 DEF SendFrame, SteadyInv, Steady, Client, World
  <2> HIDE DEF s
  <2>2. Steady(s.cl)
    BY <2>1 DEF SteadyInv, Steady, Client, OneRace
  <2>3. Going(s.cl, s.ctl)
    BY <1>1, <2>1 DEF Going
  <2> QED BY <1>4, <2>1, <2>2, <2>3, BecomeSound DEF Sound
<1> QED BY <1>1, <1>3, <1>4

\* The daemon's last word: the window is attached, or closes.
LEMMA OnAttachOkSound == ASSUME SteadyInv, OnAttachOk PROVE SteadyInv'
<1> DEFINE r == [Now EXCEPT !.cl.said = "none"]
           s == [r EXCEPT !.ctl.active = TRUE]
           t == [s EXCEPT !.ctl.reconnecting = FALSE]
<1>1. Become(t)
  BY DEF OnAttachOk
<1>2. /\ r.cl.probes = cl.probes /\ r.cl.quic = cl.quic /\ r.cl.conn = cl.conn
      /\ r.cl.stale = cl.stale /\ r.cl.sig = cl.sig /\ r.cl.fallback = cl.fallback
      /\ r.cl.pendingOut = cl.pendingOut /\ DOMAIN r.cl = DOMAIN cl /\ World(r)
  BY NowIsWorld DEF SteadyInv, Steady, Client, World, Now
<1> HIDE DEF r
<1>3. World(s) /\ s.cl = r.cl
  BY <1>2 DEF World, Controller
<1> HIDE DEF s
<1>4. World(t) /\ t.cl = s.cl /\ t.ctl.reconnecting = FALSE
  BY <1>3 DEF World, Controller
<1> HIDE DEF t
<1>5. Steady(r.cl)
  BY <1>2 DEF SteadyInv, Steady, Client, OneRace
<1>6. Sound(t)
  BY <1>3, <1>4, <1>5 DEF Sound, Going
<1> QED BY <1>1, <1>6, BecomeSound

LEMMA OnErrorSound == ASSUME SteadyInv, OnError PROVE SteadyInv'
<1>1. Become(Exit(Now))
  BY DEF OnError
<1>2. World(Exit(Now)) /\ Exit(Now).cl = cl /\ Exit(Now).ctl.phase = "gone"
  BY NowIsWorld DEF SteadyInv, Exit, World, Controller, Now
<1>3. Sound(Exit(Now))
  BY <1>2 DEF SteadyInv, Sound, Going
<1> QED BY <1>1, <1>3, BecomeSound

LEMMA AckSound ==
  ASSUME SteadyInv, UserSends \/ \E dead \in BOOLEAN : AckProbe(dead) PROVE SteadyInv'
<1> DEFINE r == [Now EXCEPT !.cl.ack = FALSE]
           s == [Now EXCEPT !.cl.ack = TRUE]
<1>1. Become(r) \/ Become(s) \/ Become(Fail(r))
  BY DEF UserSends, AckProbe
<1>2. Apart(Now, r) /\ Like(cl, r.cl) /\ Apart(Now, s) /\ Like(cl, s.cl) /\ r.ctl = ctl
  BY DEF SteadyInv, Steady, Client, Apart, Like, Now
<1> HIDE DEF r, s
<1>3. World(r) /\ Steady(r.cl) /\ Going(r.cl, r.ctl)
  BY <1>2, LikeSteady, NowIsWorld DEF SteadyInv, World, Apart, Now
<1>4. CASE Become(Fail(r))
  BY <1>3, <1>4, FailSound, BecomeSound
<1> QED BY <1>1, <1>2, <1>4, BecomeLike

LEMMA LinkSound == ASSUME SteadyInv, Link PROVE SteadyInv'
BY LateHandshakeSound, ConnClosesSound, HelloOkSound, OnAttachOkSound, OnErrorSound, AckSound
   DEF Link

\* A parked attempt is remembered.
LEMMA ParkSound == ASSUME NEW r, Sound(r) PROVE Sound(Park(r))
<1>1. Like(r.cl, Park(r).cl) /\ World(Park(r))
  BY DEF Sound, Park, World, Controller, Steady, Client, Like
<1>2. /\ Park(r).ctl.phase = r.ctl.phase /\ Park(r).ctl.reconnecting = r.ctl.reconnecting
      /\ Park(r).ctl.asleep = r.ctl.asleep /\ Park(r).ctl.parked = (r.ctl.parked \/ r.ctl.timer)
  BY DEF Sound, Park, World, Controller
<1>3. Steady(Park(r).cl) /\ Going(Park(r).cl, r.ctl)
  BY <1>1, LikeSteady DEF Sound
<1>4. Going(Park(r).cl, Park(r).ctl)
  BY <1>2, <1>3 DEF Going
<1> QED BY <1>1, <1>3, <1>4 DEF Sound

\* A machine that wakes, or finds a network, goes on with what waits.
LEMMA ResumeSound ==
  ASSUME NEW r, World(r), Steady(r.cl), r.ctl.asleep => Going(r.cl, r.ctl)
  PROVE  Sound(Resume(r))
<1>1. World(Resume(r))
  BY ResumeHandler DEF Handler
<1>2. CASE r.ctl.asleep
  BY <1>2 DEF Resume, Sound
<1>3. CASE ~r.ctl.asleep /\ r.ctl.reconnecting
  <2> DEFINE s == [r EXCEPT !.ctl.attempts = 0]
  <2>1. World(s) /\ s.cl = r.cl
    BY DEF World, Controller
  <2>2. Resume(r) = Schedule(s)
    BY <1>3 DEF Resume
  <2> HIDE DEF s
  <2> QED BY <1>1, <2>1, <2>2, ScheduleGoes DEF Sound
<1>4. CASE ~r.ctl.asleep /\ ~r.ctl.reconnecting
  <2> DEFINE s == [r EXCEPT !.cl.ack = TRUE]
  <2>1. Resume(r) = r \/ Resume(r) = s
    BY <1>4 DEF Resume
  <2>2. Like(r.cl, s.cl) /\ s.ctl = r.ctl /\ Like(r.cl, r.cl)
    BY DEF World, Steady, Client, Like
  <2> HIDE DEF s
  <2>3. Steady(Resume(r).cl) /\ Resume(r).ctl = r.ctl
    BY <2>1, <2>2, LikeSteady
  <2> QED BY <1>1, <1>4, <2>3 DEF Sound, Going
<1> QED BY <1>2, <1>3, <1>4

LEMMA EventSound ==
  ASSUME SteadyInv, Sleep \/ Wake \/ PathDown \/ PathUp PROVE SteadyInv'
<1> DEFINE a == [Now EXCEPT !.ctl.asleep = TRUE]
           b == [Now EXCEPT !.ctl.asleep = FALSE]
<1>1. \/ Become(Park(a)) \/ Become(Resume(b)) \/ Become(Park(Now)) \/ Become(Resume(Now))
  BY DEF Sleep, Wake, PathDown, PathUp, OsEvent
<1>2. World(a) /\ a.cl = cl /\ a.ctl.asleep = TRUE
  BY NowIsWorld DEF SteadyInv, World, Controller, Now
<1>3. World(b) /\ b.cl = cl /\ b.ctl.asleep = FALSE
  BY NowIsWorld DEF SteadyInv, World, Controller, Now
<1> HIDE DEF a, b
<1>4. Sound(a)
  BY <1>2 DEF Sound, SteadyInv, Going
<1>5. Sound(Resume(b))
  BY <1>3, ResumeSound DEF SteadyInv
<1>6. Sound(Park(a)) /\ Sound(Park(Now))
  BY <1>4, NowIsSound, ParkSound
<1>7. Sound(Resume(Now))
  BY NowIsSound, ResumeSound DEF Sound
<1> QED BY <1>1, <1>5, <1>6, <1>7, BecomeSound

\* A window that reconnects is never left with nothing to go on
\* (schedule_reconnect_attempt, probe_failed, adopt_probe, park,
\* connectivity_event): for every race, every order of callbacks and timers,
\* every answer and any number of lost links, sleeps and network changes.
THEOREM WindowIsNotStranded == Spec => []NotStranded
<1>1. Init => SteadyInv
  BY NoEngineIsEngine DEF Init, SteadyInv, Controller, Steady, Client, OneRace, Going
<1>2. SteadyInv /\ [Next]_vars => SteadyInv'
  <2> SUFFICES ASSUME SteadyInv, [Next]_vars PROVE SteadyInv'
    OBVIOUS
  <2>1. CASE UNCHANGED vars
    BY <2>1, UnchangedSound DEF vars
  <2> QED BY <2>1, StartSound, ReconnectTimerSound, RaceSound, PunchStepSound, LinkSound,
             EventSound DEF Next
<1>3. SteadyInv => NotStranded
  BY DEF SteadyInv, Going, Trying, NotStranded, RaceRuns, Spoken, Running
<1> QED BY <1>1, <1>2, <1>3, PTL DEF Spec
=============================================================================
