------------------------------- MODULE EchoAck -------------------------------
(***************************************************************************)
(* Predictive echo: a window shows a key before its echo comes back, and   *)
(* judges the prediction when the daemon acknowledges the input.           *)
(*                                                                         *)
(* One pane.  Keys are numbered as they are typed; a prediction is right   *)
(* if the key's echo is among the output the window has applied.  The      *)
(* shell echoes every key and may write other output at any time.          *)
(*                                                                         *)
(* Sources: src/src/daemon/rivtd.cpp, src/src/remote/remote_client.cpp and *)
(* src/src/remote/remote_controller.cpp.                                   *)
(***************************************************************************)
EXTENDS Naturals, Sequences

CONSTANTS
    MaxKeys,    \* bound: keys typed
    MaxNoise,   \* bound: other output of the shell
    MaxConns    \* bound: connections

ASSUME EchoAssumption == MaxKeys \in Nat /\ MaxNoise \in Nat /\ MaxConns \in Nat \ {0}

VARIABLES
    typed,      \* keys typed so far
    noise,      \* other output so far
    conn,       \* the window's connections so far
    linked,     \* is the last of them up?
    sent,       \* keys numbered since close() last cleared m_in_seq
    preds,      \* PanePredict::preds: a key and the seq it was sent as
    seen,       \* how much of the output the window has applied
    up,         \* input on its way, per connection
    down,       \* frames on their way to the window
    alive,      \* connections the daemon has a client for
    inSeq, ackedSeq, inClient,   \* of PaneRef; client 0 is the null pointer
    pty,        \* input the shell has not read
    tail,       \* output the daemon has not read
    out         \* output the daemon has read

echoVars == <<typed, noise, conn, linked, sent, preds, seen, up, down, alive,
              inSeq, ackedSeq, inClient, pty, tail, out>>
window == <<typed, noise, conn, linked, sent, preds, seen>>
pane   == <<inSeq, ackedSeq, inClient>>
shell  == <<pty, tail, out>>

Other == 0
Conns == 1..MaxConns
Echoed(k, n) == \E i \in 1..n : out[i] = k

EchoInit ==
    /\ typed = 0 /\ noise = 0 /\ conn = 1 /\ linked = TRUE
    /\ sent = <<>> /\ preds = <<>> /\ seen = 0
    /\ up = [c \in Conns |-> <<>>] /\ down = <<>> /\ alive = {1}
    /\ inSeq = 0 /\ ackedSeq = 0 /\ inClient = 0
    /\ pty = <<>> /\ tail = <<>> /\ out = <<>>

-----------------------------------------------------------------------------
(* The window.                                                             *)

\* send_input and shadow_predict: without a connection the frame is dropped,
\* but numbered and predicted all the same.  Predictions older than ten
\* seconds are dropped only here and when an acknowledgement arrives.
Type ==
    /\ typed < MaxKeys
    /\ typed' = typed + 1
    /\ sent' = Append(sent, typed')
    /\ up' = IF linked
             THEN [up EXCEPT ![conn] = Append(@, [seq |-> Len(sent'), key |-> typed'])]
             ELSE up
    /\ \E kept \in {<<>>, preds} :
          preds' = Append(kept, [seq |-> Len(sent'), key |-> typed'])
    /\ UNCHANGED <<noise, conn, linked, seen, down, alive, pane, shell>>

\* shadow_ack: the predictions up to the first one with a later number are
\* judged; one miss voids them all.
Judge(n) ==
    LET due == {i \in DOMAIN preds : \A j \in 1..i : preds[j].seq <= n}
        hit == \A i \in due : Echoed(preds[i].key, seen)
    IN preds' \in {<<>>, IF hit THEN SelectSeq(preds, LAMBDA p :
                                       \A i \in due : preds[i] # p) ELSE <<>>}

\* The next frame: output, a snapshot, or an acknowledgement.
Recv ==
    /\ linked /\ down # <<>>
    /\ down' = Tail(down)
    /\ LET f == Head(down)
       IN IF f.kind = "ack"
          THEN Judge(f.seq) /\ UNCHANGED seen
          ELSE /\ seen' = f.upto
               /\ preds' = IF f.kind = "snap" THEN <<>> ELSE preds
    /\ UNCHANGED <<typed, noise, conn, linked, sent, up, alive, pane, shell>>

\* The link fails: close() clears m_in_seq, and what was on its way to the
\* daemon may still arrive there.
Disconnect ==
    /\ linked /\ conn < MaxConns
    /\ linked' = FALSE
    /\ sent' = <<>> /\ down' = <<>>
    /\ UNCHANGED <<typed, noise, conn, preds, seen, up, alive, pane, shell>>

\* Reconnect and Attach: the daemon replays what is missing or sends a
\* snapshot.  The client of the old connection may still be there.
Reconnect ==
    /\ ~linked /\ conn < MaxConns
    /\ linked' = TRUE /\ conn' = conn + 1
    /\ alive' = alive \cup {conn'}
    /\ \E k \in {"out", "snap"} : down' = <<[kind |-> k, upto |-> Len(out), seq |-> 0]>>
    /\ UNCHANGED <<typed, noise, sent, preds, seen, up, pane, shell>>

-----------------------------------------------------------------------------
(* The daemon and the shell.                                               *)

\* Mutant: only the first input leaves its number with the pane.
HandleInputFirst(c) ==
    /\ c \in alive /\ up[c] # <<>>
    /\ inSeq' = IF inSeq = 0 THEN Head(up[c]).seq ELSE inSeq
    /\ inClient' = c
    /\ pty' = Append(pty, Head(up[c]).key)
    /\ up' = [up EXCEPT ![c] = Tail(@)]
    /\ UNCHANGED <<window, down, alive, ackedSeq, tail, out>>

\* handle_pane_input
HandleInput(c) ==
    /\ c \in alive /\ up[c] # <<>>
    /\ inSeq' = Head(up[c]).seq /\ inClient' = c
    /\ pty' = Append(pty, Head(up[c]).key)
    /\ up' = [up EXCEPT ![c] = Tail(@)]
    /\ UNCHANGED <<window, down, alive, ackedSeq, tail, out>>

\* Mutant: every attached client gets the acknowledgement.
ReadPtyAckAll ==
    /\ tail # <<>>
    /\ \E n \in 1..Len(tail) :
          /\ out' = out \o SubSeq(tail, 1, n)
          /\ tail' = SubSeq(tail, n + 1, Len(tail))
    /\ LET acks == inSeq # ackedSeq
       IN /\ ackedSeq' = IF acks THEN inSeq ELSE ackedSeq
          /\ down' = IF ~linked THEN down
                     ELSE Append(down, [kind |-> "out", upto |-> Len(out'), seq |-> 0])
                          \o IF acks THEN <<[kind |-> "ack", upto |-> Len(out'),
                                             seq |-> inSeq]>> ELSE <<>>
    /\ UNCHANGED <<window, up, alive, inSeq, inClient, pty>>

\* Pane::on_output: what was read goes to every client, and the sender of the
\* last input gets its acknowledgement.
ReadPty ==
    /\ tail # <<>>
    /\ \E n \in 1..Len(tail) :
          /\ out' = out \o SubSeq(tail, 1, n)
          /\ tail' = SubSeq(tail, n + 1, Len(tail))
    /\ LET acks == inClient # 0 /\ inSeq # ackedSeq
       IN /\ ackedSeq' = IF acks THEN inSeq ELSE ackedSeq
          /\ down' = IF ~linked THEN down
                     ELSE Append(down, [kind |-> "out", upto |-> Len(out'), seq |-> 0])
                          \o IF acks /\ inClient = conn
                             THEN <<[kind |-> "ack", upto |-> Len(out'), seq |-> inSeq]>>
                             ELSE <<>>
    /\ UNCHANGED <<window, up, alive, inSeq, inClient, pty>>

\* The daemon notices that the old connection is gone.
SweepClient(c) ==
    /\ c \in alive /\ ~(linked /\ c = conn)
    /\ alive' = alive \ {c}
    /\ inClient' = IF inClient = c THEN 0 ELSE inClient
    /\ UNCHANGED <<window, up, down, inSeq, ackedSeq, shell>>

Echo ==
    /\ pty # <<>>
    /\ pty' = Tail(pty) /\ tail' = Append(tail, Head(pty))
    /\ UNCHANGED <<window, up, down, alive, pane, out>>

Chatter ==
    /\ noise < MaxNoise
    /\ noise' = noise + 1
    /\ tail' = Append(tail, Other)
    /\ UNCHANGED <<typed, conn, linked, sent, preds, seen, up, down, alive, pane, pty, out>>

EchoNext ==
    \/ Type \/ Recv \/ Disconnect \/ Reconnect
    \/ \E c \in Conns : HandleInput(c) \/ SweepClient(c)
    \/ ReadPty \/ Echo \/ Chatter

EchoSpec == EchoInit /\ [][EchoNext]_echoVars

\* Everything but the user's keys, failing links and chatter goes on.
FairEchoSpec ==
    /\ EchoSpec
    /\ WF_echoVars(Recv) /\ WF_echoVars(Reconnect) /\ WF_echoVars(ReadPty) /\ WF_echoVars(Echo)
    /\ \A c \in Conns : WF_echoVars(HandleInput(c)) /\ WF_echoVars(SweepClient(c))

-----------------------------------------------------------------------------
(* Properties.                                                             *)

\* A window is never told about input of another connection than its own,
\* although the numbers start again with every connection and the daemon
\* keeps only the last one.
AckSane ==
    \A i \in DOMAIN down : down[i].kind = "ack" => down[i].seq <= Len(sent)

\* "The output sent so far reflects this client's input through seq."
AckReflects ==
    \A i \in DOMAIN down : down[i].kind = "ack" =>
        \A j \in 1..down[i].seq : Echoed(sent[j], down[i].upto)

\* Every prediction is judged: an underlined key never stays on the screen.
\* This is for the first connection; what a link that fails leaves unjudged
\* is the next property's.
FirstLink == conn = 1 /\ linked
PredsSettle == (FirstLink /\ preds # <<>>) ~> (preds = <<>> \/ ~FirstLink)

\* "Predictions must survive a 10s outage (they confirm after it": those
\* made before and during an outage are judged after it.
OutageSettles == preds # <<>> ~> preds = <<>>
=============================================================================
