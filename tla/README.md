# rivt: models, checks and proofs

rivt is a terminal emulator whose shells can live in a daemon, `rivtd`, on this
or another machine. The daemon owns sessions, windows and panes; a remote
window mirrors one session over a Unix socket or QUIC and survives lost links,
roaming, and upgrades of the daemon. A local window keeps its own tabs and
panes, and can show a tmux session in them. This directory holds TLA+ models of
that system, the TLC runs that check them and the TLAPS proofs about them. Paths
below are relative to the repository; its program is under `src/`.

Run `tlc -config X.cfg MCModule` for a check and `tlapm M.tla` for a proof.
`PROJECT.json` lists every component, run, mutant, source line, hazard and
theorem.

## Inventory

| Component | State it keeps | Operations | Talks to | What is hard | What makes it correct | Modules |
|---|---|---|---|---|---|---|
| Daemon registry (`daemon/rivtd.cpp`) | sessions, windows, panes, clients, dead panes, agent streams, id counters | control requests, shell exit, kill, `sweep`, `upgrade` | clients, shells, event loop | deferred destruction, raw pointers, exec in mid-state, wrapping ids | the indexes agree; nothing keeps a freed pointer; nobody stays attached to nothing | Rivtd |
| Pane output stream (`rivtd.cpp`, `remote_client.cpp`, `remote_controller.cpp`) | replay ring and offset per pane; the client's offset; frames parked before the layout | output, Hello / Attach, snapshot, resume, upgrade, reconnect | one stream per pane over QUIC | links die anywhere, late bytes, epochs | the replica is a prefix of the output; a resume continues exactly where it stands | PaneReplica, PaneStream |
| Remote window (`remote_controller.cpp`, `window.cpp`) | windows, pane map, resync set, mode | user requests, layouts, window events, reconnect, exit | daemon | resync after events were missed | the mirror equals the session; the window never hangs | RemoteSession |
| Backpressure (`rivtd.cpp`, `quic_engine.cpp`, `pane.cpp`) | send queue per connection, paused flag per pane | output, drain, close, kill | event loop, QUIC | who resumes a paused pane | no pane paused for ever; bounded queues | Backpressure |
| Predictive echo (`rivtd.cpp`, `remote_controller.cpp`) | input number, last acknowledged, sender; predictions | input, PANE_ACK, judge, expire | shell | numbers restart with the connection | acknowledgements mean what they say; predictions end | EchoAck |
| Device membership (`membership.cpp`, `pairing.cpp`, worker `spike/rendezvous`) | log file, trust bundle, shared log, mailboxes | sync, invite, join | HTTP | unlocked file, concurrent writers, lost requests | one log; whoever joined is trusted | Membership |
| Reconnect, QUIC engine, signaling (`remote_client.cpp`, `remote_controller.cpp`, `quic_engine.cpp`, `signaling.cpp`) | timers, attempts, candidate engines, parked engines, the shared socket and its queued offers | attempt, race, punch, adopt, fail, wake, path change | each other through callbacks | overlapping attempts, late winners, stale timers | a window that reconnects always has something to go on, and ends connected or closed | Reconnect, QuicEngine, Signaling |
| Agent forwarding, event loop (`rivtd.cpp`, `remote_client.cpp`, `event_loop.cpp`) | descriptors, streams and buffers on both sides | accept, open, data, flush, close | ssh, ssh-agent | either end closes first, descriptors reused within a batch | bytes once and in order, both ends closed | AgentForward, EventLoop |
| Screen, images, snapshot (`screen_buffer.cpp`, `image_store.cpp`, `snapshot.cpp`) | grid as a ring, alternate grid, margins, cursor, history, view, images | print, scroll, erase, resize, reflow, snapshot, restore, fetch | pane, daemon, window | a ring cut anywhere, history that is trimmed on both sides | replica equals daemon; a line of history is one line everywhere; reflow loses nothing | Screen, Images, Terminal |
| Parser, pane, pty (`vt_parser.cpp`, `pane.cpp`, `pty.cpp`) | parser state, queued input, pause, watched events | feed, read, write, flush, pause, die | event loop, shell | reads cut anywhere, partial writes | the same bytes parse the same however cut; input keeps its order | VtParser, PaneIo |
| Tabs and layout of a local window (`tab_manager.cpp`, `layout.cpp`, `window.cpp`) | tabs, active position, split tree, focus, rectangles, drag | new, split, close, navigate, click, drag, resize, reap | user, shells | shells exit in between; four structures kept apart | they agree; the visible panes tile the window; focus moves for a reason | Layout, Tabs, LocalWindow |
| tmux control mode (`tmux_client.cpp`, `tmux_controller.cpp`, `window.cpp`) | answer queue, window and pane maps, gateway pane | command, block, notification, exit, drain | tmux | answers matched by order; panes that go meanwhile | each answer to its command; tabs are tmux's windows; the terminal comes back | Tmux |
| TURN relay, STUN, HTTP, identity, resize negotiation, rendering, platform, configuration | | | | | | not modelled, see the end |

## How the modules are built

`Rivtd` is extended by `RemoteSession`, `Images` by `Screen` and that by
`Terminal`, `VtParser` by `PaneIo`, `Layout` by `Tabs` and that by
`LocalWindow` and `Tmux`, `EventLoop` by `AgentForward`, `QuicEngine` and
`Signaling` by `Reconnect`. The others stand alone, each following one protocol
through all the parts it crosses. A module `MCx` instantiates `x` for TLC,
`xProofs` holds its proofs; RemoteSessionProofs holds those of Rivtd too, which
it builds on, PaneFlowProofs those of Backpressure and EchoAck, and StreamProofs
those of PaneStream and AgentForward (the second of each two has names of its own
for its specification: `EchoSpec`, `AgentSpec`). Definitions whose comment starts with "Mutant" are not part of any
specification: each is a plausible bug a run must see.

**PaneReplica** is the abstract promise: a pane's output grows, and a replica
is a prefix of it that moves forward or is replaced by a newer one.
**PaneStream** is the protocol: frames in flight, ring and offsets, the
handshake, epochs, upgrades, links that fail on either side first, and frames
parked in `m_early`. Bytes are positions; a frame is the interval it stands for.
`LateDelivery`, `EarlyOverflow` and `UniqueEpochs` switch three behaviours of
the code on and off. The first two damage a replica (`Damaged`) until the next
snapshot, the third makes an epoch name two images of the daemon.

**Rivtd** has an action for every handler that changes the registry, each with
everything the handler calls. `sweeping` is the time between the batch of
events and the end of `sweep()`, when no handler runs. **RemoteSession** adds
the window: its mirror, the requests on their way, the resync with SessionList
as end mark, reconnecting, closes that go the local path while it does, and a
daemon that goes on believing in an abandoned connection (`peer`).

**Backpressure** has a queue length per client and a paused flag per pane.
`Drain` is `prepare_to_send`, which calls back when the queue crosses the low
mark; `Sweep` is separate from `Kill` because the order in which `sweep` clears
pointers decides whether panes resume.

**EchoAck** follows keys from `send_input` through the pane, the shell, the
output and PANE_ACK back to `shadow_ack`. A prediction is right when the echo
of its key is in the output applied so far. Expiry happens where the code looks
at the clock: when a key is typed and when an acknowledgement arrives.

**Membership** runs, per device, the daemon's sync and `rivt pair` with a step
for each request and each file they touch. An operation carries the one before
it, which is what its hash amounts to; the rendezvous only counts. Founding a
set, and reading, extending and saving the log at an approval, are one step
each: no request lies between.

**Reconnect** treats the client process as a record `r` and each handler as a
function on it, composed as the code calls them: `ctl` is the
`RemoteController` (attempts, timer, sleep, parked), `cl` the `RemoteClient`
(candidates, the adopted connection, parked engines with their callbacks,
timers). An engine (**QuicEngine**) has connections that try, are up or are
dead, and its callbacks name a candidate by index, as the lambdas do.
**Signaling** is the socket the process shares, with offers queued until it
opens. A late winner that finds its index gone is the phase `crashed`.

**EventLoop** is the descriptor table and what a batch of events is;
**AgentForward** runs the daemon's loop on it: `Poll` draws a batch, `Dispatch`
looks each descriptor up when its turn comes, and the sweep follows the batch.
Ssh processes, the client, and its agent are the other actors. Bytes are chunks
that carry who sent them and when, so that order and loss are visible.

**Screen** maps a screen to a screen for each operation the parser dispatches,
keeping the code's ring (`first`), margins, pending wrap, saved cursor, second
grid, history with its count of trimmed lines, view, and images (**Images**).
**Terminal** has two of them, the daemon's and the window's, joined by
serialisation, output and scrollback chunks on one stream.

**VtParser** is `VtParser::feed` for one byte, over classes of bytes; **PaneIo**
puts it between a terminal read in pieces and a client that is sent the reads,
the gap in one piece, or a snapshot with the parser in it, and has the pty's
queue of input, the pause, hang-up and upgrade around it.

**Layout** is the split tree with nodes known by number as the code knows them
by address, and the rectangles it computes; **Tabs** is `TabManager`;
**LocalWindow** adds the window's handlers: each key or click with the
recomputation the code does or does not do after it, the divider drag with its
raw node pointer, and the reaping of shells that exited.

**Tmux** has the client (answer queue, current block, maps, tabs), the gateway
pane in its modes, and the two directions of the terminal between it and tmux.
tmux itself is external: windows with panes, obeying the commands this code
sends and announcing changes, as far as the client can tell.

## Runs

| Run | Bounds | Shows |
|---|---|---|
| `pane_stream` | 4 bytes, reads of up to 2, ring of 2, 2 daemon images, one parked frame, late bytes and overflow on, fair | undamaged replicas are exact, resumes current, offsets monotone, PaneReplica implemented; every byte reaches the screen once things hold still |
| `rivtd` | 2 connections, 2 sessions, 3 shells, 1 agent stream, spawn may fail | registry exact, no dangling client or session, no session without windows |
| `remote_session` | 1 window and the ghost of its connection, 3 shells, a request, an exit, an upgrade, a local close, fair | mirror exact once everything is read, no live window dropped; exact again or told that the session is over |
| `backpressure` | 2 clients, 3 panes in 2 sessions, 2 attaches each, detach, kills, fair | queues bounded; no pane left paused and stalls end while clients stay put |
| `echo_ack` | 3 keys, 1 other output, 2 connections, a ghost, fair | acknowledgements belong to the connection; predictions of the first link are judged |
| `membership` | 3 devices, one inviter without a daemon, 3 operations, 1 fault, fair | one log, verified everywhere, that only grows; every daemon comes to trust the members of its set |
| `terminal` | 2 x 2 cells, other sizes 3 x 2 and 2 x 3, 2 lines of history, 4 steps of output, resize, view or fetch, 1 frame on the wire | replica exact, histories agree, history immutable, reflow keeps the text |
| `pane_io` | 2 of 8 outputs cut everywhere, 3 keys, room for 1, one reconnect or upgrade | both parsers agree; input whole and in order; the loop watches for what is waited for |
| `local_window` | 3 tabs, 3 panes, 7 steps, 2 sizes, 2 points | tabs, layouts, focus agree; panes tile the window; focus moves only for a reason |
| `tmux` | 2 windows, 3 panes, 3 changes, fair | answers match; tabs come to be tmux's windows; the gateway gets its terminal back |
| `reconnect` | 1 address and the punch with a local or a STUN candidate in the answer, 1 retry, 3 dials an engine, 4 candidates, 2 events of the machine, fair | never stranded, closed only when refused or out of attempts, in the end connected or closed |
| `agent` | 2 connections to the agent socket, 2 chunks, 2 client connections, 1 fault, batches of up to 5, fair | chunks once and in order; no stream stays open at one end |

Why the bounds are enough: every counter is bounded by a named constant, chosen
so that each interesting event happens at least twice or in each order. A ring
of two against four bytes is overtaken, trimmed and resumed from. Two
connections make one ghost beside one live client; three pane ids allow a split
and a second window. Water marks of 2 and 3 against bursts of 2 let a queue
cross both marks in one step and in two. Two lines of history against two rows
are filled and trimmed by four steps of output, and every resize moves the ring.
Three panes in three tabs make a tab in front of, at and behind the active one.
Two events (sleep, wake, path down, path up) meet each other in either order
within a race, a punch or a link. Two ssh connections are the least that let a
descriptor be reused for another stream in one batch.

Deadlock is not checked: every model stops when its bounds are used up, and a
program with nothing to do rests.

Conditions in properties name what the code does not keep, so that the rest is
checked at full strength; each is listed under "Where the code and its comments
part". `StallEnds` is about a pane alone in its session on purpose: with two
panes, one that was never paused can hold a client's queue between the marks for
ever, and the other waits, which is the design's documented cost ("one slow
client stalls the pane for all", `rivtd.cpp`). `NeverLeftPaused` and `StallEnds`
are about clients that stay put: attach once and stay until the connection
closes. `membership` has one inviter, and on its device no daemon.

### Fairness

Only steps that the program's own scheduling makes happen are fair: an event
loop dispatches what is ready (serving requests, reading frames, sweeping,
draining), a dead connection is noticed by its idle timeout, an armed timer
fires, a handshake ends one way or the other because QUIC gives up, what was
said on a connection is answered or the connection is lost, a process whose
requests are answered runs on. Never fair: what users do, output a shell writes
of its own, failures, sleep, waking and upgrades. `Drain \/ Close` is one fair
action, because either may starve the other: a link that does not drain is
closed by the idle timeout. In `EchoAck` the shell's echo is fair: it is the
assumption under which a prediction can be right at all. In `Tmux`, tmux reads
its commands. In `AgentForward` the daemon's turn is stated as the change of its
batch that `Loop` makes, which nothing else makes.


## Where the code and its comments part

Properties that state what a comment or document promises, and that the models
refute. They are defined in the modules beside those the runs check; to see one
fail, put it alone in the named configuration.

| Promise | Property, and where it fails | What happens |
|---|---|---|
| "the client's replica is current through it" (`messages.h`, PANE_RESUME) | `PaneStream!ResumeCurrent`, in `PaneStream.cfg` with `~Damaged` taken out of it | bytes of a dead link, still in picoquic's buffers, reach `m_qin` of the next one (`remote_client.cpp:548`) |
| an epoch names one image of the daemon | `ResumeCurrent`, in `PaneStream.cfg` with `UniqueEpochs = FALSE` | a clock set back and a pid used again would do it (`rivtd.cpp:1590`); the proofs assume it away |
| "Freeing them locally leaves dangling Pane pointers in the controller maps" (`window.cpp:338`) | `RemoteSession!MapsLive`, in `RemoteSession.cfg` | the local path is taken all the same while the controller reconnects, because it is chosen by `active()` (`window.cpp:346`) |
| on_exit is "fired when the session ends" | `RemoteSession!ConnectingEnds`, in `RemoteSession.cfg` | an Error that answers the first Attach is only logged (`remote_controller.cpp:209`), and nothing else comes |
| "Predictions must survive a 10s outage (they confirm after it" (`remote_controller.cpp:552`) | `EchoAck!OutageSettles`, in `EchoAck.cfg` | numbers restart with the connection, so a prediction numbered before it waits for an acknowledgement of that many keys typed after it |
| "The output sent so far reflects this client's input through seq" | `EchoAck!AckReflects`, in `EchoAck.cfg` | the acknowledgement follows any output, also output the shell wrote before it read the key: a prediction is then judged early and dropped |
| "A signed, append-only operation log" | `Membership!NeverForgets`, in `Membership.cfg` with `MaxOps = 4`, or with the inviter also in `Syncers` | a sync saves the whole log it fetched over one that `rivt join` or `rivt pair` has written since it read the file (`membership.cpp:326`) |
| "This device is now trusted" | `Membership!JoinedIsTrusted`, in `Membership.cfg` with the inviter also in `Syncers`; it holds in `Membership.cfg` itself | the sync's bundle, from an older log, overwrites the one with the new device until the next sync |
| "Append requires the expected seq to serialize concurrent writers" | `Membership!LogsAgree`, in `Membership.cfg` with two inviters | both extend their copy on disk before either has pushed, and the loser keeps its branch |
| callbacks must not outlive the pane they capture (`pane.h:72`) | `Tmux!FreedUntouched`, in `Tmux.cfg` | the answer to `capture-pane` writes to a pane closed meanwhile (`tmux_controller.cpp:277`) |
| pane channels are "> 0" (`messages.h`) | `Rivtd!PaneIdPositive`, in `Rivtd.cfg` with `PaneMod = 3` | the 16-bit counter passes through 0, the control channel, and through ids still in use (`PanesExact` with `PaneMod = 2`) |
| "never leave panes paused" (`rivtd.cpp:213`) | `Backpressure!PausedHasReason`, in `Backpressure.cfg` | a client that detaches or attaches elsewhere no longer wakes what it paused (802) |

Seen while reading the code for the models; each is in the model unless it says
otherwise:

- *Screen.* The view drifts one line past the start of history when a line is
  trimmed (`screen_buffer.cpp:455`, against the comment at 411). ED 3 clears
  history without counting the lines as trimmed. A bottom margin of zero
  (`CSI 0;0r`) makes margins a snapshot does not reproduce (900-904). A saved
  cursor is not clamped after a resize. Resizing while the alternate screen
  shows pulls primary history into it (85). RIS assigns a new buffer over the
  old, callbacks and all (1123; not modelled). Reflow drops semantic zones and
  the pending wrap. Histories that were cut differently reflow differently, so
  a window that holds fewer lines than the daemon may number them otherwise
  after a resize; two scrollback requests around an AttachOk can end the fetch
  early. A heavy snapshot "ships less" with 200 lines where the light one has
  100 (`rivtd.cpp:786`).
- *Images.* Each chunk of a transfer starts the payload again or doubles the
  first (`screen_buffer.cpp:1039`), image 0 is never placed, and collecting
  removes images that were sent to be placed later.
- *Parser and pane.* The two bytes of ESC \ must lie in one read to end a string
  (`vt_parser.cpp:254`), so a gap replayed in one piece may parse differently;
  so must the marker of tmux (`pane.cpp:50`). An upgrade drops input the shell
  has not taken (`rivtd.cpp:1443`). A hang-up of a paused pane comes before its
  last output is read (`pane.cpp:102`).
- *Local windows.* The active tab is known by position, so reaping a tab in
  front of it moves the focus to the next tab (`tab_manager.cpp:124`). The
  divider drag keeps a raw pointer to a node that a shell's exit frees
  (`window.cpp:986`), and releasing the button over the tab bar does not end it.
- *tmux.* Closing a tmux tab with the mouse frees panes the controller still
  maps (`window.cpp:949`). `kill-pane`, `split-window` and `new-window` name no
  target, and tmux is not told which pane the user chose (`window.cpp:345`).
  Blank lines of captured text are dropped (`tmux_client.cpp:29`). A pane that
  moves between windows leaves an orphan (`tmux_controller.cpp:243`). The block
  tmux sends by itself at the start, after an early resize, shifts the queue of
  answers by one. Output in the same read after `%exit` is swallowed, and the
  drain misses a terminator cut in two (`window.cpp:37`).
- *Reconnect.* A probe parked when its race was lost keeps its callbacks and may
  be adopted by its number in a list that has been emptied
  (`remote_client.cpp:409`). A second answer of the punch dials with the engines
  of the first (378). Timers of a redial or an offer outlive `connect()`. A path
  that comes back during a race arms a timer that tears down the connection
  just adopted. Adopting flushes what was pending without arming the ack probe.
  Any Error while reconnecting closes the window.
- *Agent.* A batch may still hold an event of a descriptor that was closed and
  handed to a new stream (`event_loop.cpp:98`), which is then closed. AgentClose
  drops what the daemon had not yet written to ssh (`rivtd.cpp:1301`).
  `agent_event` uses its iterator after `fail()` may have emptied the map
  (`remote_client.cpp:787`; it crashes, or nothing comes of it).

## Proofs

TLC checks small instances; the theorems hold for every value of the constants
that the named assumptions allow.

**StreamProofs.** Of PaneStream, under `UniqueEpochs`: `TypeCorrect`, `FaithfulReplica`
(`ReplicaFaithful`), `ResumeIsCurrent` (`ResumeCurrent`), `OffsetsAreMonotone`
(`OffsetMonotone`), `Implements` (PaneStream implements PaneReplica) and, with
room in `m_early` and no late bytes, `NeverGarbled`. What makes a resume right
is spread over both ends and
all that is between them, and the invariant `IInv` says what each place knows:
the frames of a stream are a chain (`ChainInv`) that starts where the window has
read to (`HeadInv`) and ends where the daemon has written to (`TailInv`); the
offset in a resume and the one the window counts name the same positions
(`AnchorInv`, `OffInv`); and the handshake carries the offset and the epoch
that still hold when it ends (`HandshakeInv`). The offset also needs that a resume
comes first on its stream or right behind a snapshot (`ResumeInv`).

Of AgentForward: `NothingIsLost` (`NothingLost`) for any number of sockets,
connections and faults and any batch size. The equation of `NothingLost`, that
what one end has, what the buffers hold and what is on the wire is what the other
end sent, is kept by a step only if the frames on the wire belong to the stream
that bears their number. So `ForwardInv` has, beside the equations (`Flow`): the
numbers on the wire and in the bridges have been drawn (`Drawn`), a stream's
open frame comes once and before all of its data, and before it is read there is
no bridge and nothing on its way back (`Opens`); a stream is its client's and the
ssh's that knows its number (`Owned`), and the loop calls a stream for its own
descriptor only (`Called`). The invariant is one of a record `r` and of the frames
up, because `Dispatch` is a composition: each operation of the daemon is shown to
keep it for every `r`, and the recursive functions that accept, join and read all
there is keep it step by step. What the wire carries of a stream (`Chunks`) is
shown to be the concatenation of what its parts carry (`ChunksCat`), so a step
only has to account for the frames it adds or takes (`Sent`, `Taken`).

**PaneFlowProofs.** Of Backpressure: `TypeCorrect`, and `PanesAreWoken`
(`NeverLeftPaused`) for any number of clients, panes and sessions. The invariant
speaks of clients that stay put, so the proof needs that whoever stays put after
a step did so before it (`StayedPut`), which rests on counting attaches
(`AttachCounted`). `QueuesAreBounded` (`QueueBounded`) charges a burst to the
pane that sends it: what is queued for a client and one burst of each pane of
its session that is awake always fit (`Fits`), because a pane that overfills a
queue goes to sleep, and is woken only when the client's queue is low, or by an
attach that is counted. Of EchoAck: `AcksAreSane` (`AckSane`), because the number
the pane keeps belongs to its sender's connection (`Numbered`), a connection that
is not yet made has no input on its way (`Unused`) and a broken link carries no
frames (`Silent`).

**RemoteSessionProofs.** Of Rivtd: `TypeCorrect`, `SessionsArePopulated`,
`RecordsAreLive` and `IndexIsExact`. A handler is a composition of a few building
blocks (end a window, remove a pane, close a session, add a window), so there is
a lemma for what each block does to each invariant, and a step of a theorem
composes them.
`LiveInv` is the conjunction of `SessionsPopulated`, `RecordsLive` and the fact
that only a client that has said Hello is attached (`Greeted`). `IndexIsExact`
holds as long as ids do not wrap (`NoWrap`), and needs that ids of the future are
not in use (`Drawn`), that windows do not share panes (`Apart`) and that a pane
without an entry waits for the sweep, and none with one does (`Waiting`,
`Unlisted`).

Of RemoteSession: `MirrorTypeCorrect` (`TypeOK`), and, while pane ids do not wrap (`NoWrap`), `MirrorIsExact` (`MirrorExact`) and `ResyncSpares`
(`NoLiveWindowDropped`), for any number of windows, connections and ghosts. Both
are about what is still on its way, so the invariant is about where reading it
leads: a *view* is what a window shows and believes, `Effect` what a message
makes of it, and `Leads(c, q, d, R)` says that reading q takes view c to view d
and drops no window the daemon has on any step. `MirrorInv` says that every
window's way leads to a view that agrees with the daemon's registry (`Agrees`,
through the resync: what has been announced so far counts, not what is shown).
The daemon lengthens ways, a window walks along its own. That the way stays good
when the registry changes behind it needs that ids are only ever drawn
(`Grows`), and that a pane never leaves the window it was opened in: `home` in
`Tracked` remembers which that was, also of panes the daemon has forgotten and a
message still names. There is a lemma for what each building block of the
daemon sends (the `Carried` lemmas, which all handlers compose), and the proofs
of Rivtd are used as they are: every step here makes a step of the daemon or none
(`DaemonStep`, `Works`).

**MembershipProofs.** `OwnLogsAreGood`: every log a device keeps or acts on
verifies (`OwnLogsVerify`, the half of `LogsVerify` that is about devices), with
any number of inviters and syncs that race for the files. Nothing is assumed of
what the rendezvous holds; with two inviters it may be a mix of branches.
Under `OneInviter` (one device invites, and runs no daemon, as in the run):
`SharedLogsAreGood` (`LogsVerify`), `ThereIsOneLog` (`LogsAgree`) and
`LogsOnlyGrow` (`DiskGrows`), for any number of devices, operations and faults.
The inviter's file is all there is of its set (`Full`), and every other copy is a
prefix of it: on disk (`Copies`), in a process (`Fits`), at the rendezvous
(`Shared`) and, in full, in a mailbox (`Owners`). The file only grows (`Grown`),
because a pairing never adopts anything: no copy is longer than what it read.
`DiskGrows` leaves out the one race in which a sync saves over what a join wrote
after it had read the file; it takes a device that joins its set a second time
and four operations, one more than the run has, so the theorem says more there
than the run does.

**PaneIoProofs.** `InputIsInOrder` (`InputInOrder`) and `NothingIsForgotten`
(`NothingForgotten`), for a terminal of any size. The argument is about one
sequence, what the terminal took followed by what waits (`Ordered`, `Whole`): a
write appends to it, a flush moves the boundary, a hang-up or an upgrade cuts it
there; and what the pane remembers having asked of the loop is what it asked
(`Watched`). `BothParseTheSame` (`SameParse`), for every set of outputs the shell
may write: the window's parser will be the daemon's once it is fed what is under
way (`Faithful`), whether that comes read by read or in one piece after a
reconnect. A read fed in two parts is the read, unless the cut falls where the
parser looks at the byte that follows (`Untorn`, against `Tear`); that several
reads are their concatenation follows read by read.

**LocalWindowProofs.** Under `LocalWindowAssumption` (cells have a size, and
neither the border nor the bar a negative one): `WindowKept` (the invariant), `TabsAlwaysAgree`
(`TabsAgree`), `KeysAlwaysStay` (`KeysStay`) and `AlwaysTiled` (`Tiled`), for any
number of tabs and panes, every window size and every point of a click.
`TabsAgree` says little of why a layout stays right, so `WindowInv` says that
each is a tree (`IsTree`): a node is named once, by one parent, and has a smaller
number than its children, because the numbers are drawn in that order and a
sibling that takes its parent's place is still below its grandparent. The numbers
are the rank along which the proofs go down a layout (`RootFirst`) and up
(`LeavesFirst`); `SplitPane`, `RemoveLeaf` and reaping each keep the tree.
`KeysStay` leaves one action to argue about, the reaping of shells that died.
For `Tiled` the rectangle of a node is inside its parent's, two children divide
it but for the border, so of two nodes one is below the other or their rectangles
are apart; a window too small for its borders gives empty rectangles, which are
apart from everything. That the rectangles are those of the present layout
(`Placed`) is what each handler's recomputation is for.

**TmuxProofs.** `AnswersAlwaysMatch` (`AnswersMatch`), for sessions of every size
(`TmuxAssumption` only says that their bounds are numbers) and any number of
changes from either side. tmux's answers carry no name; the code goes by their
order. The invariant `TmuxInv` follows that order from end to end (`Matched`): the
answers among the lines on the wire, then the commands tmux has not read, are
what the callbacks in the queue wait for, one for one. Every handler only adds
commands with their callbacks (`Sends`, which composes); what tmux says unasked
changes nothing; an answer moves from the commands to the wire, and from the
wire to the callback that waits first. Before the block that tmux sends on
attaching nothing may be sent, and nothing is as long as there is no pane to
type into (`Unsent`), but a resize or a close is: `early`.

**ReconnectProofs.** `WindowGivesUpLast` (`GivesUpLast`) for every budget and
every set of candidates. All that engines, sockets and timers do to the
controller is to call `on_disconnect`; so the proof has a lemma for what each
handler does to the controller (`Handler`), or that it does nothing (`Apart`),
and composes them as the code's calls do.
`WindowIsNotStranded` (`NotStranded`) needs the client as well. `NotStranded` is
not inductive: that a race runs says nothing of whether its end will be told.
What makes it so is `Steady`: a client has its connection or a race and never
both, a connection is one its engine dialled, a punch under way has its deadline
armed, engines are parked only when no race is left, and a race holds back the
hello its winner starts with. Each handler is shown to keep that and to leave
the window something to go on (`Sound`): `probe_failed` either finds some of the
race left or calls `on_disconnect`, which arms the timer, waits for the machine
or closes the window. A run with `Sound` as its invariant came before the proof.
A corollary of `Steady`: a parked engine that completes finds a connection or an
empty list, never another race's engine in its place.

What a recursive function makes of a sequence of any length is proved by
induction over a set of numbers: `UpTo` says that a set that has 0 and is closed
under the successor has them all, `RootFirst` and `LeavesFirst` say the same of
the nodes of a tree. So `Without`, `Pruned`, the reads of `PaneIo`, the
handlers of `Tmux` and the callbacks of `AgentForward` are recursive functions, with a lemma that unfolds each.

Only model-checked: everything about liveness (the provers do not treat
fairness and ENABLED); the properties of Terminal, where a screen is the outcome
of every operation of the parser and no inductive invariant short of a model of
its own has been stated; and `Mirrored` of Tmux, which is about when the lines on
the wire have been read and needs an account of what each will have made of the
tabs by then. The provers cannot look into `SelectSeq`: an engine's connections in
**QuicEngine** stay in its list when they die, as they do in `m_conns`.

## Not modelled

- *TURN relay* (`net/turn.cpp`): encodes packets and has one request at a time
  with a server whose nonces and lifetimes decide everything.
- *Resize negotiation*: the daemon copies the size it is told; whether two
  windows of one session settle depends on what their window managers grant.
- *STUN, identity, sockets, rendezvous HTTP*: packet encoding, OpenSSL calls and
  blocking requests without state of their own.
- *Rendering, platform, configuration*: OpenGL, X11 and Cocoa calls and parsing
  of options; a function of the screen and of files.
- Within modelled components: selection, search and links of the screen; colours
  (one mark stands for them); encodings of frames, snapshots and operations;
  cryptography (a signature cannot be forged, a hash names what it is of);
  picoquic, which is vendored and modelled by what its callbacks tell; an exec
  that fails during an upgrade; expiry and removal of devices, which nothing in
  the program signs; `rivt list`.
