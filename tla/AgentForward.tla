---------------------------- MODULE AgentForward -----------------------------
(***************************************************************************)
(* SSH agent forwarding: a connection to a session's agent socket becomes  *)
(* a stream, bridged over the control channel of the client that connected *)
(* last to that client's own agent.  The daemon works in batches of events *)
(* (EventLoop) and frees dead clients after each; clients come and go.     *)
(*                                                                         *)
(* `r' is the daemon: its tables, its control frames on their way and the  *)
(* ssh ends it reads, writes and closes.  Clients count as attached as     *)
(* soon as they are accepted (Rivtd has the handshake).  Bytes are chunks, *)
(* <<i, n>> the n-th that ssh i sends, which the agent sends back.         *)
(*                                                                         *)
(* Sources: src/src/daemon/rivtd.cpp, src/src/remote/remote_client.cpp.    *)
(***************************************************************************)
EXTENDS EventLoop

CONSTANTS
    MaxConn,  \* bound: connections of the client
    Talk,     \* bound: chunks each connection to the agent socket sends
    MaxFaults,\* bound: full clients, refused or dropped connections, ended sessions
    MaxBatch  \* events of one epoll_wait (16)

ASSUME AgentAssumption ==
    Talk \in Seq(Nat) /\ MaxConn \in Nat /\ MaxFaults \in Nat /\ MaxBatch \in Nat \ {0}

Sshs  == DOMAIN Talk
Room  == {0} \cup UNION {0..Talk[i] : i \in Sshs}  \* chunks a socket may take at once
Conns == 1..MaxConn

VARIABLES
    fds,     \* the loop's table: descriptor -> owner
    batch,   \* events still to dispatch
    streams, \* m_agent_streams, by id
    next,    \* m_next_agent_stream
    clients, \* m_clients, by connection
    up, down,\* per connection: agent frames on their way
    hung,    \* connections whose other end is closed, by the side that did
    ssh,     \* the ssh processes
    bridges, \* RemoteClient::m_agent, by stream id
    agent,   \* the agent's ends, by stream id
    current,    \* the client's connection, 0 when it has none
    made,    \* connections so far
    crashed, \* the client died
    faults   \* faults so far

loopVars == <<fds, batch, streams, next, clients>>
lineVars   == <<up, down, hung>>
clientVars == <<bridges, current, made, crashed>>
agentVars == <<loopVars, lineVars, clientVars, ssh, agent, faults>>

Listener == [k |-> "listen", n |-> 0]
Door     == [k |-> "accept", n |-> 0]
Owner(kind, n) == [k |-> kind, n |-> n]

Ssh(st, id) == [st |-> st, id |-> id, sent |-> 0, unread |-> <<>>, got |-> <<>>]

AgentInit ==
    /\ fds = <<Door, Listener>>
    /\ batch = <<>> /\ streams = <<>> /\ next = 1 /\ clients = <<>>
    /\ up = [k \in Conns |-> <<>>] /\ down = [k \in Conns |-> <<>>]
    /\ hung = {}
    /\ ssh = [i \in Sshs |-> Ssh("idle", 0)]
    /\ bridges = <<>> /\ agent = <<>>
    /\ current = 0 /\ made = 0 /\ crashed = FALSE /\ faults = 0

With(f, x, y) == [z \in DOMAIN f \cup {x} |-> IF z = x THEN y ELSE f[z]]
Frame(t, id, chunk) == [t |-> t, id |-> id, chunk |-> chunk]
FirstN(s, n) == SubSeq(s, 1, IF n < Len(s) THEN n ELSE Len(s))
AfterN(s, n) == SubSeq(s, n + 1, Len(s))

-----------------------------------------------------------------------------
(* The daemon.                                                             *)

Daemon == [fds |-> fds, streams |-> streams, next |-> next, clients |-> clients,
           down |-> down, hung |-> hung, ssh |-> ssh]

Live(r, k) == k \in DOMAIN r.clients /\ ~r.clients[k].dead

\* send_control of frames to some clients; `full' are clients whose buffers are
\* at their limit.
SendControl(r, to, frames, full) ==
    LET told == {k \in to : Live(r, k) /\ <<"client", k>> \notin r.hung /\ frames # <<>>}
    IN IF full
       THEN [r EXCEPT !.clients = [k \in DOMAIN @ |-> IF k \in told THEN [@[k] EXCEPT !.dead = TRUE] ELSE @[k]]]
       ELSE [r EXCEPT !.down = [k \in Conns |-> IF k \in told THEN @[k] \o frames ELSE @[k]]]

\* Out of the table and the loop, and closed.
DropStreams(r, ids) ==
    [r EXCEPT !.fds = RemoveFds(@, {r.streams[id].fd : id \in ids}),
              !.streams = Restrict(@, DOMAIN @ \ ids),
              !.ssh = [i \in Sshs |-> IF \E id \in ids : r.streams[id].ssh = i
                                     THEN Ssh("closed", @[i].id) ELSE @[i]]]

\* close_agent_stream
CloseAgentStream(r, id, notify, full) ==
    IF id \notin DOMAIN r.streams THEN r
    ELSE LET s == DropStreams(r, {id})
         IN IF notify THEN SendControl(s, {r.streams[id].client}, <<Frame("close", id, <<>>)>>, full) ELSE s

\* Mutant: what the socket does not take at once is forgotten.
FlushOnce(r, id, n) ==
    LET st == r.streams[id]
    IN [r EXCEPT !.streams[id].out = <<>>,
                 !.ssh[st.ssh].got = @ \o FirstN(st.out, n)]

\* agent_stream_flush: the socket takes up to n chunks.
Flush(r, id, n) ==
    LET st == r.streams[id]
    IN [r EXCEPT !.streams[id].out = AfterN(@, n),
                 !.ssh[st.ssh].got = @ \o FirstN(st.out, n)]

\* The descriptor accept4 returns.
NewFd(r) == LowestFree({1, 2} \cup {r.clients[k].fd : k \in DOMAIN r.clients}
                              \cup {r.streams[id].fd : id \in DOMAIN r.streams})

\* agent_accept, for one connection; with nobody attached it is refused.
Accepted(r, i, full) ==
    LET live == {k \in DOMAIN r.clients : Live(r, k)}
        fd   == NewFd(r)
        s    == [r EXCEPT !.fds = AddFd(@, fd, Owner("stream", r.next)), !.next = @ + 1,
                          !.streams = With(@, r.next, [fd |-> fd, client |-> Max(live), ssh |-> i, out |-> <<>>]),
                          !.ssh[i] = Ssh("open", r.next)]
    IN IF live = {} THEN [r EXCEPT !.ssh[i] = Ssh("closed", 0)]
       ELSE SendControl(s, {Max(live)}, <<Frame("open", r.next, <<>>)>>, full)

AgentAccept(r, full) ==
    LET done[i \in 0..Len(Talk)] ==
          IF i = 0 THEN r
          ELSE LET s == done[i - 1] IN IF s.ssh[i].st = "waiting" THEN Accepted(s, i, full) ELSE s
    IN done[Len(Talk)]

DataFrames(id, chunks) == [j \in DOMAIN chunks |-> Frame("data", id, chunks[j])]

\* agent_stream_event: all there is to read, then the end of it.
AgentStreamEvent(r, id, ev, n, full) ==
    LET i  == r.streams[id].ssh
        k  == r.streams[id].client
        w  == IF "write" \in ev THEN Flush(r, id, IF n = 0 THEN 1 ELSE n) ELSE r
        rd == IF "read" \in ev
              THEN SendControl([w EXCEPT !.ssh[i].unread = <<>>], {k}, DataFrames(id, r.ssh[i].unread), full)
              ELSE w
    IN IF ("read" \in ev /\ r.ssh[i].st = "leaving") \/ "hup" \in ev THEN CloseAgentStream(rd, id, TRUE, full) ELSE rd

\* handle_control, for the frames that are about agent streams.
HandleControl(r, k, f, n) ==
    IF f.id \notin DOMAIN r.streams \/ r.streams[f.id].client # k THEN r
    ELSE IF f.t = "close" THEN CloseAgentStream(r, f.id, FALSE, FALSE)
    ELSE LET s == [r EXCEPT !.streams[f.id].out = Append(@, f.chunk)]
         IN Flush(s, f.id, n)

\* client_event: every frame that has come, then the end of the connection.
ClientEvent(r, k, n) ==
    LET done[j \in 0..Len(up[k])] ==
          IF j = 0 THEN r ELSE HandleControl(done[j - 1], k, up[k][j], n)
    IN [done[Len(up[k])] EXCEPT !.clients[k].dead = @ \/ <<"client", k>> \in hung]

\* Mutant: streams outlive their client.
SweptStreams(r, ks) == r

\* sweep: the streams of dead clients are closed ...
SweptOf(r, ks) == DropStreams(r, {id \in DOMAIN r.streams : r.streams[id].client \in ks})

\* ... and then the clients.
Sweep(r) ==
    LET dead == {k \in DOMAIN r.clients : r.clients[k].dead}
    IN [SweptOf(r, dead) EXCEPT
          !.fds = RemoveFds(@, {r.clients[k].fd : k \in dead}),
          !.clients = Restrict(@, DOMAIN @ \ dead),
          !.hung = @ \cup {<<"daemon", k>> : k \in dead}]

\* Connections nobody has accepted yet
Backlog(r) == {k \in 1..made : k \notin DOMAIN r.clients /\ <<"daemon", k>> \notin r.hung}

\* What epoll_wait would report for a descriptor.  A socket with bytes to
\* come out is taken for one that has room again.
Events(fd) ==
    LET o == fds[fd]
    IN CASE o.k = "accept" -> IF Backlog(Daemon) # {} THEN {"read"} ELSE {}
         [] o.k = "listen" -> IF \E i \in Sshs : ssh[i].st = "waiting" THEN {"read"} ELSE {}
         [] o.k = "client" -> (IF up[o.n] # <<>> THEN {"read"} ELSE {}) \cup
                              (IF <<"client", o.n>> \in hung THEN {"read", "hup"} ELSE {})
         [] OTHER          -> LET i == streams[o.n].ssh IN
                              (IF ssh[i].unread # <<>> THEN {"read"} ELSE {}) \cup
                              (IF ssh[i].st = "leaving" THEN {"read", "hup"} ELSE {}) \cup
                              (IF streams[o.n].out # <<>> THEN {"write"} ELSE {})

Ready == {[fd |-> f, ev |-> Events(f)] : f \in {g \in DOMAIN fds : Events(g) # {}}}

\* poll: a batch is taken ...
Poll ==
    /\ batch = <<>>
    /\ batch' \in Batches(Ready, MaxBatch)
    /\ UNCHANGED <<fds, streams, next, clients, lineVars, clientVars, ssh, agent>>

\* on_accept
Joined(r, k) ==
    LET fd == NewFd(r)
    IN [r EXCEPT !.fds = AddFd(@, fd, Owner("client", k)),
                 !.clients = With(@, k, [fd |-> fd, dead |-> FALSE])]

AcceptClient(r) ==
    LET done[k \in 0..made] ==
          IF k = 0 THEN r
          ELSE LET s == done[k - 1] IN IF k \in Backlog(s) THEN Joined(s, k) ELSE s
    IN done[made]

\* The callback of the descriptor, if it still has one.
Callback(r, e, n, full) ==
    IF e.fd \notin DOMAIN r.fds THEN r
    ELSE LET o == r.fds[e.fd]
         IN CASE o.k = "accept" -> AcceptClient(r)
              [] o.k = "listen" -> AgentAccept(r, full)
              [] o.k = "client" -> IF Live(r, o.n) THEN ClientEvent(r, o.n, n) ELSE r
              [] OTHER          -> AgentStreamEvent(r, o.n, e.ev, n, full)

Became(r) ==
    /\ fds' = r.fds /\ streams' = r.streams /\ next' = r.next /\ clients' = r.clients
    /\ down' = r.down /\ hung' = r.hung /\ ssh' = r.ssh

\* ... dispatched one by one, and swept after.
Dispatch(n, full) ==
    /\ batch # <<>>
    /\ LET r == Callback(Daemon, Head(batch), n, full)
           read == {k \in Conns : /\ Live(Daemon, k) /\ Head(batch).fd \in DOMAIN fds
                                  /\ fds[Head(batch).fd] = Owner("client", k)}
       IN /\ Became(IF Tail(batch) = <<>> THEN Sweep(r) ELSE r)
          /\ up' = [k \in Conns |-> IF k \in read THEN <<>> ELSE up[k]]
    /\ batch' = Tail(batch)
    /\ UNCHANGED <<clientVars, agent>>

\* close_session, which a client's frame or a shell's end leads to: nobody
\* is told of a stream, attached clients are told of the session.
CloseSession(full) ==
    /\ Listener \in ToSet(fds)
    /\ LET q == DropStreams(Daemon, DOMAIN streams)
           r == [q EXCEPT !.fds = RemoveFds(@, {2}),
                          !.ssh = [i \in Sshs |-> IF @[i].st = "waiting" THEN [@[i] EXCEPT !.st = "closed"] ELSE @[i]]]
           told == SendControl(r, DOMAIN clients, <<Frame("gone", 0, <<>>)>>, full)
       IN Became(IF batch = <<>> THEN Sweep(told) ELSE told)
    /\ UNCHANGED <<batch, up, clientVars, agent>>

-----------------------------------------------------------------------------
(* The programs at the two ends.                                           *)

\* ssh connects, sends a chunk, or closes its end.
SshConnects(i) ==
    /\ ssh[i].st = "idle" /\ Listener \in ToSet(fds) /\ \A j \in 1..(i - 1) : ssh[j].st # "idle"
    /\ ssh' = [ssh EXCEPT ![i].st = "waiting"]
    /\ UNCHANGED <<loopVars, lineVars, clientVars, agent>>

SshSends(i) ==
    /\ ssh[i].st = "open" /\ ssh[i].sent < Talk[i]
    /\ ssh' = [ssh EXCEPT ![i].sent = @ + 1, ![i].unread = Append(@, <<i, ssh[i].sent + 1>>)]
    /\ UNCHANGED <<loopVars, lineVars, clientVars, agent>>

SshLeaves(i) ==
    /\ ssh[i].st = "open"
    /\ ssh' = [ssh EXCEPT ![i].st = "leaving"]
    /\ UNCHANGED <<loopVars, lineVars, clientVars, agent>>

\* The agent sends back the next chunk it got, or closes its end.
AgentReplies(id) ==
    /\ agent[id].st = "open" /\ agent[id].sent < Len(agent[id].got)
    /\ agent' = [agent EXCEPT ![id].sent = @ + 1,
                              ![id].unread = Append(@, agent[id].got[agent[id].sent + 1])]
    /\ UNCHANGED <<loopVars, lineVars, clientVars, ssh>>

AgentLeaves(id) ==
    /\ agent[id].st = "open"
    /\ agent' = [agent EXCEPT ![id].st = "leaving"]
    /\ UNCHANGED <<loopVars, lineVars, clientVars, ssh>>

-----------------------------------------------------------------------------
(* The client.                                                             *)

Shut(ids) == Restrict(agent, DOMAIN agent \ ids)

\* fail, and close with its agent_close_all
Fail ==
    /\ current' = 0 /\ bridges' = <<>> /\ agent' = Shut(DOMAIN bridges)
    /\ hung' = hung \cup {<<"client", current>>} /\ down' = [down EXCEPT ![current] = <<>>]
    /\ UNCHANGED made

\* agent_flush: the agent takes up to n chunks.
AgentFlush(id, out, n) ==
    /\ bridges' = With(bridges, id, AfterN(out, n))
    /\ agent' = [agent EXCEPT ![id].got = @ \o FirstN(out, n)]

\* agent_open, with an agent to connect to or none.
AgentOpen(id, there) ==
    IF there THEN /\ bridges' = With(bridges, id, <<>>)
                  /\ agent' = With(agent, id, [st |-> "open", got |-> <<>>, sent |-> 0, unread |-> <<>>])
                  /\ UNCHANGED up
    ELSE /\ up' = [up EXCEPT ![current] = Append(@, Frame("close", id, <<>>))]
         /\ UNCHANGED <<bridges, agent>>

\* agent_close
AgentClose(id, notify) ==
    /\ bridges' = Restrict(bridges, DOMAIN bridges \ {id})
    /\ agent' = Shut({id})
    /\ up' = IF notify THEN [up EXCEPT ![current] = Append(@, Frame("close", id, <<>>))] ELSE up

Connects ==
    /\ current = 0 /\ ~crashed /\ made < MaxConn /\ Listener \in ToSet(fds)
    /\ current' = made + 1 /\ made' = made + 1
    /\ UNCHANGED <<loopVars, lineVars, bridges, crashed, ssh, agent>>

\* The next frame from the daemon, of type t
Reads(t) ==
    /\ current # 0 /\ down[current] # <<>> /\ Head(down[current]).t = t
    /\ down' = [down EXCEPT ![current] = Tail(@)]
    /\ UNCHANGED <<loopVars, ssh, hung, current, made, crashed>>

Read == Head(down[current])

ReadsOpen(there) == Reads("open") /\ AgentOpen(Read.id, there)
ReadsClose       == Reads("close") /\ AgentClose(Read.id, FALSE)
ReadsData(n) ==
    /\ Reads("data") /\ UNCHANGED up
    /\ IF Read.id \in DOMAIN bridges
       THEN n <= Len(bridges[Read.id]) + 1 /\ AgentFlush(Read.id, Append(bridges[Read.id], Read.chunk), n)
       ELSE n = 0 /\ UNCHANGED <<bridges, agent>>

\* The session is gone and the window closes, the daemon has closed the
\* connection, or the window lets go of it.
Disconnects(asked) ==
    /\ current # 0
    /\ \/ asked
       \/ down[current] # <<>> /\ Read.t = "gone"
       \/ down[current] = <<>> /\ <<"daemon", current>> \in hung
    /\ Fail
    /\ UNCHANGED <<loopVars, ssh, up, crashed>>

\* agent_event: all the agent sent, then its end.  A send on a connection the
\* daemon has closed fails and frees the bridge the loop is reading from; the
\* read that follows finds it closed or ends the process.
AgentEvent(id, lucky) ==
    /\ agent[id].unread # <<>> \/ agent[id].st = "leaving"
    /\ IF <<"daemon", current>> \in hung
       THEN /\ Fail /\ UNCHANGED up
            /\ crashed' = (agent[id].unread # <<>> /\ ~lucky)
       ELSE LET sent  == DataFrames(id, agent[id].unread)
                close == IF agent[id].st = "leaving" THEN <<Frame("close", id, <<>>)>> ELSE <<>>
            IN /\ up' = [up EXCEPT ![current] = @ \o sent \o close]
               /\ IF close # <<>>
                  THEN /\ bridges' = Restrict(bridges, DOMAIN bridges \ {id})
                       /\ agent' = Shut({id})
                  ELSE agent' = [agent EXCEPT ![id].unread = <<>>] /\ UNCHANGED bridges
               /\ UNCHANGED <<down, hung, current, made, crashed>>
    /\ UNCHANGED <<loopVars, ssh>>

\* The agent's socket has room again.
Drains(id, n) ==
    /\ n \in DOMAIN bridges[id] /\ AgentFlush(id, bridges[id], n)
    /\ UNCHANGED <<loopVars, lineVars, current, made, crashed, ssh>>

-----------------------------------------------------------------------------

Fault(happens) ==
    /\ faults + (IF happens THEN 1 ELSE 0) <= MaxFaults
    /\ faults' = faults + (IF happens THEN 1 ELSE 0)

\* Chunks that may be waiting for a stream's socket
Waiting == {0} \cup UNION {0..Len(streams[id].out \o up[streams[id].client]) : id \in DOMAIN streams}

Loop   == \/ Poll /\ Fault(FALSE)
          \/ \E n \in Waiting, full \in BOOLEAN : Dispatch(n, full) /\ Fault(full)
Client == \/ \E there \in BOOLEAN : ReadsOpen(there) /\ Fault(~there)
          \/ ReadsClose /\ Fault(FALSE)
          \/ \E n \in Room : ReadsData(n) /\ Fault(FALSE)
          \/ \E id \in DOMAIN bridges : \/ \E lucky \in BOOLEAN : AgentEvent(id, lucky) /\ Fault(FALSE)
                                        \/ \E n \in Room : Drains(id, n) /\ Fault(FALSE)
          \/ Disconnects(FALSE) /\ Fault(FALSE)
Ends   == \/ \E i \in Sshs : (SshConnects(i) \/ SshSends(i) \/ SshLeaves(i)) /\ Fault(FALSE)
          \/ \E id \in DOMAIN agent : \/ AgentReplies(id) /\ Fault(FALSE)
                                      \/ AgentLeaves(id) /\ Fault(TRUE)
AgentNext ==
    \/ Loop \/ Client \/ Ends
    \/ Connects /\ Fault(FALSE)
    \/ Disconnects(TRUE) /\ Fault(TRUE)
    \/ \E full \in BOOLEAN : CloseSession(full) /\ Fault(TRUE)

AgentSpec == AgentInit /\ [][AgentNext]_agentVars

\* What a step of the daemon's loop does to the batch, which nothing else
\* changes: it can be taken exactly when Loop can.
Turn == IF batch = <<>> THEN batch' \in Batches(Ready, MaxBatch) ELSE batch' = Tail(batch)

\* Both event loops go on while they have something to do.
FairAgentSpec == AgentSpec /\ WF_batch(Turn) /\ WF_agentVars(Client)

-----------------------------------------------------------------------------
(* Properties.                                                             *)

Chunks(frames, id) ==
    LET of[n \in 0..Len(frames)] ==
          IF n = 0 THEN <<>>
          ELSE IF frames[n].t = "data" /\ frames[n].id = id THEN Append(of[n - 1], frames[n].chunk)
          ELSE of[n - 1]
    IN of[Len(frames)]

\* A stream whose two ends and connection are alive.
Bridged(id) ==
    /\ id \in DOMAIN streams /\ id \in DOMAIN bridges
    /\ Live(Daemon, streams[id].client)
    /\ {<<"daemon", current>>, <<"client", current>>} \cap hung = {}

\* Every chunk of a bridged stream is with its receiver or on its way there,
\* each way once and in the order it was sent: through full sockets, other
\* streams and clients that come and go (agent_stream_event, agent_flush,
\* agent_event, agent_stream_flush).
NothingLost ==
    \A id \in DOMAIN streams : Bridged(id) =>
        LET i == streams[id].ssh  k == streams[id].client  a == agent[id]
        IN /\ a.got \o bridges[id] \o Chunks(down[k], id) \o ssh[i].unread
                 = [n \in 1..ssh[i].sent |-> <<i, n>>]
           /\ ssh[i].got \o streams[id].out \o Chunks(up[k], id) \o a.unread
                 = SubSeq(a.got, 1, a.sent)

\* When one end of a stream closes, the other one is closed in the end, lost
\* connections, refusals and the end of the session included
\* (close_agent_stream, agent_close, sweep, agent_close_all).
HalfOpen(i) ==
    (ssh[i].st \in {"open", "leaving"}) # (ssh[i].id \in DOMAIN agent)
EndsTogether == \A i \in Sshs : HalfOpen(i) ~> ~HalfOpen(i)
=============================================================================
