------------------------------- MODULE PaneIo -------------------------------
(***************************************************************************)
(* PaneIo: a daemon pane between its terminal and a client's replica.      *)
(*                                                                         *)
(* Output is read in pieces as the loop finds it, parsed, and sent on read *)
(* by read; after a reconnect the client is sent the gap in one piece, or  *)
(* a snapshot that carries the parser.  Input the terminal does not take   *)
(* waits in the pty's queue until the loop reports it writable.            *)
(*                                                                         *)
(* Source: src/src/core/pane.cpp, src/src/pty/pty.cpp, with the parser of  *)
(* src/src/terminal/vt_parser.cpp and what rivtd does with them.           *)
(***************************************************************************)
EXTENDS VtParser, SequencesExt

CONSTANTS
    Outputs,    \* what the shell may write at once
    MaxOut,     \* how often it does
    MaxTyped,   \* pieces of input
    MaxTty,     \* pieces of input the terminal holds
    MaxEvents   \* pauses, upgrades and reconnects

ASSUME PaneIoAssumption ==
    /\ {MaxOut, MaxTyped, MaxEvents} \subseteq Nat
    /\ MaxTty \in Nat \ {0}
    /\ Outputs \subseteq Seq(Bytes)

VARIABLES
    tty,      \* output the shell has written and nobody has read
    made,     \* how often it has written
    parser,   \* the pane's parser
    last,     \* the last byte of the last read
    sent,     \* reads on their way to the client
    replica,  \* the client's parser
    torn,     \* a string's terminator was cut in two by a read
    queue,    \* m_write_buf past m_write_off
    typed,    \* number of pieces written to the pane
    got,      \* the pieces the terminal took
    held,     \* how many of them the shell has yet to read
    pty,      \* m_read_paused, m_pty_write_armed and the events registered
    lost,     \* the upgrade dropped queued input
    life,     \* "open", "hup" when the shell has gone, "dead" after on_dead
    events

outVars == <<tty, made, parser, last, sent, replica, torn>>
inVars  == <<queue, typed, got, held, lost>>
vars    == <<outVars, inVars, pty, life, events>>

\* What the loop is asked to watch, as register_pty, set_read_paused and
\* update_pty_write_interest each compute it.
Mask(paused, armed) ==
    (IF paused THEN {} ELSE {"read"}) \cup (IF armed THEN {"write"} ELSE {})

Registered == [paused |-> FALSE, armed |-> FALSE, mask |-> {"read"}]

Init ==
    /\ tty = <<>> /\ made = 0 /\ parser = NewParser /\ last = "none"
    /\ sent = <<>> /\ replica = NewParser /\ torn = FALSE
    /\ queue = <<>> /\ typed = 0 /\ got = <<>> /\ held = 0 /\ lost = FALSE
    /\ pty = Registered /\ life = "open" /\ events = 0

\* Pane::update_pty_write_interest with the queue as it will be.
WriteInterest(q) ==
    IF pty.armed = (q # <<>>) THEN pty
    ELSE [pty EXCEPT !.armed = q # <<>>, !.mask = Mask(pty.paused, q # <<>>)]

-----------------------------------------------------------------------------
\* The shell.

ShellWrites(output) ==
    /\ life = "open" /\ made < MaxOut
    /\ tty' = tty \o output /\ made' = made + 1
    /\ UNCHANGED <<parser, last, sent, replica, torn, inVars, pty, life, events>>

ShellReads ==
    /\ life = "open" /\ held > 0 /\ held' = held - 1
    /\ UNCHANGED <<outVars, queue, typed, got, lost, pty, life, events>>

ShellExits ==
    /\ life = "open" /\ life' = "hup"
    /\ UNCHANGED <<outVars, inVars, pty, events>>

-----------------------------------------------------------------------------
\* The loop reports the terminal.

\* EV_READ: one read of what there is, however little.  Rivtd sends each on.
Read ==
    /\ life # "dead" /\ "read" \in pty.mask
    /\ \E n \in 1..Len(tty) :
         LET chunk == SubSeq(tty, 1, n) IN
         /\ parser' = Feed(parser, chunk)
         /\ sent' = Append(sent, chunk)
         /\ last' = chunk[n]
         /\ tty' = SubSeq(tty, n + 1, Len(tty))
         /\ torn' = (torn \/ (parser.state \in Strings /\ last = "ESC" /\ chunk[1] = "backslash"))
    /\ UNCHANGED <<made, replica, inVars, pty, life, events>>

\* EV_WRITE: Pty::flush_writes, and the interest as the queue then is.  A
\* terminal whose shell has gone fails the write, and the queue is dropped.
Flush ==
    /\ life # "dead" /\ "write" \in pty.mask
    /\ \/ /\ life = "hup" /\ queue' = <<>>
          /\ UNCHANGED <<got, held>>
       \/ /\ life = "open" /\ held < MaxTty /\ queue # <<>>
          /\ LET n == IF Len(queue) <= MaxTty - held THEN Len(queue) ELSE MaxTty - held IN
             /\ got' = got \o SubSeq(queue, 1, n)
             /\ held' = held + n
             /\ queue' = SubSeq(queue, n + 1, Len(queue))
    /\ pty' = WriteInterest(queue')
    /\ UNCHANGED <<outVars, typed, lost, life, events>>

\* A read fails once the output of a shell that has gone is read; a hang-up
\* is reported whatever the mask, after the reads of the same report.
Die ==
    /\ life = "hup" /\ life' = "dead"
    /\ "read" \in pty.mask => tty = <<>>
    /\ UNCHANGED <<outVars, inVars, pty, events>>

-----------------------------------------------------------------------------
\* The daemon.

\* Mutant: a later piece goes straight to a terminal that has room again.
WriteAhead ==
    /\ life # "dead" /\ typed < MaxTyped /\ typed' = typed + 1
    /\ \/ /\ life = "open" /\ held < MaxTty
          /\ got' = Append(got, typed + 1) /\ held' = held + 1 /\ UNCHANGED queue
       \/ /\ life = "open" /\ held = MaxTty
          /\ queue' = Append(queue, typed + 1) /\ UNCHANGED <<got, held>>
       \/ /\ life = "hup"
          /\ queue' = IF queue = <<>> THEN <<>> ELSE Append(queue, typed + 1)
          /\ UNCHANGED <<got, held>>
    /\ pty' = WriteInterest(queue')
    /\ UNCHANGED <<outVars, lost, life, events>>

\* Pane::write: straight to the terminal when nothing waits, the rest queued.
Write ==
    /\ life # "dead" /\ typed < MaxTyped /\ typed' = typed + 1
    /\ \/ /\ life = "open" /\ queue = <<>> /\ held < MaxTty
          /\ got' = Append(got, typed + 1) /\ held' = held + 1 /\ UNCHANGED queue
       \/ /\ life = "open" /\ (queue # <<>> \/ held = MaxTty)
          /\ queue' = Append(queue, typed + 1) /\ UNCHANGED <<got, held>>
       \/ /\ life = "hup"
          /\ queue' = IF queue = <<>> THEN <<>> ELSE Append(queue, typed + 1)
          /\ UNCHANGED <<got, held>>
    /\ pty' = WriteInterest(queue')
    /\ UNCHANGED <<outVars, lost, life, events>>

\* Mutant: pausing forgets that the pane waits to write.
SetReadPausedOnly(paused) ==
    /\ life # "dead" /\ events < MaxEvents /\ events' = events + 1
    /\ paused # pty.paused
    /\ pty' = [pty EXCEPT !.paused = paused, !.mask = Mask(paused, FALSE)]
    /\ UNCHANGED <<outVars, inVars, life>>

\* Pane::set_read_paused, for a client that cannot keep up.
SetReadPaused(paused) ==
    /\ life # "dead" /\ events < MaxEvents /\ events' = events + 1
    /\ paused # pty.paused
    /\ pty' = [pty EXCEPT !.paused = paused, !.mask = Mask(paused, pty.armed)]
    /\ UNCHANGED <<outVars, inVars, life>>

\* Mutant: the count of bytes a character still needs is not carried.
SnapshotPart(p) == IF p.state = "Utf8" THEN [p EXCEPT !.left = 1] ELSE p

\* The parser as a snapshot carries it: SEC_PARSER out and in.
Snapshot(p) == p

\* Daemon::upgrade and restore_handover: parser and terminal survive the exec,
\* registered anew; the queue is not part of the handover.
Upgrade ==
    /\ life # "dead" /\ events < MaxEvents /\ events' = events + 1
    /\ parser' = Snapshot(parser)
    /\ queue' = <<>> /\ lost' = (lost \/ queue # <<>>)
    /\ pty' = Registered
    /\ UNCHANGED <<tty, made, last, sent, replica, torn, typed, got, held, life>>

-----------------------------------------------------------------------------
\* The client.

\* PANE_OUT: Pane::feed_data.
FeedData ==
    /\ sent # <<>>
    /\ replica' = Feed(replica, Head(sent)) /\ sent' = Tail(sent)
    /\ UNCHANGED <<tty, made, parser, last, torn, inVars, pty, life, events>>

\* A reconnect within the ring: what was under way is replayed as one frame.
Resume ==
    /\ events < MaxEvents /\ events' = events + 1
    /\ sent' = IF sent = <<>> THEN <<>> ELSE <<FlattenSeq(sent)>>
    /\ UNCHANGED <<tty, made, parser, last, replica, torn, inVars, pty, life>>

\* A reconnect past it: a snapshot.
Reattach ==
    /\ life # "dead" /\ events < MaxEvents /\ events' = events + 1
    /\ replica' = Snapshot(parser) /\ sent' = <<>> /\ torn' = FALSE
    /\ UNCHANGED <<tty, made, parser, last, inVars, pty, life>>

Next ==
    \/ \E output \in Outputs : ShellWrites(output)
    \/ ShellReads \/ ShellExits \/ Read \/ Flush \/ Die \/ Write
    \/ \E paused \in BOOLEAN : SetReadPaused(paused)
    \/ Upgrade \/ FeedData \/ Resume \/ Reattach

Spec == Init /\ [][Next]_vars
-----------------------------------------------------------------------------
\* The replica once it is fed the reads under way, one after the other.
After(p, reads) ==
    LET after[i \in 0..Len(reads)] == IF i = 0 THEN p ELSE Feed(after[i - 1], reads[i])
    IN after

\* However output was cut into reads, and the reads put together again for a
\* client that reconnected, both parsers come to the same state by the same
\* calls: escape sequences and characters cross reads (vt_parser.cpp), and the
\* snapshot carries the state between them (snapshot.cpp).  A terminator cut
\* in two is the exception: feed looks for it in one read only.
SameParse == torn \/ After(replica, sent)[Len(sent)] = parser

\* Input reaches the shell in the order written and whole, whatever part of
\* it the terminal took at a time (pty.cpp).  Only an upgrade drops any.
InputInOrder ==
    /\ \A i, j \in 1..Len(got \o queue) : i < j => (got \o queue)[i] < (got \o queue)[j]
    /\ ~lost /\ life = "open" => Len(got \o queue) = typed

\* The loop watches a pane for exactly what it waits for: pausing does not
\* lose sight of queued input, and writing does not start a paused pane.
NothingForgotten ==
    pty.mask = Mask(pty.paused, queue # <<>>)

=============================================================================
