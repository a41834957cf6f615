------------------------------ MODULE VtParser ------------------------------
(***************************************************************************)
(* VtParser: the state machine that turns output into handler calls.       *)
(*                                                                         *)
(* Bytes are told apart as far as the machine does: a byte is "ESC", "BEL",*)
(* another control "C0", the characters with a meaning of their own, or    *)
(* the name of its range.  Calls are collected in `calls`.                 *)
(*                                                                         *)
(* Source: src/src/terminal/vt_parser.cpp.                                 *)
(***************************************************************************)
EXTENDS Naturals, Sequences

Controls == {"BEL", "C0"}
Digits   == {"digit", ";"}                            \* 0x30..0x3B
Private  == {"?"}                                     \* 0x3C..0x3F
Between  == {"space"}                                 \* 0x20..0x2F
Finals   == {"[", "]", "P", "_", "backslash", "m"}    \* 0x40..0x7E
Leads    == {"lead2", "lead3"}                        \* 0xC0..0xF7

Bytes == {"ESC", "cont"} \cup Controls \cup Digits \cup Private \cup Between \cup Finals \cup Leads

\* In these an ESC does not begin a sequence.
Strings == {"OscString", "ApcString", "DcsPassthrough"}

NewParser == [state |-> "Ground", buf |-> <<>>, inter |-> "", left |-> 0,
              skip |-> FALSE, calls |-> <<>>]

Go(p, state)      == [p EXCEPT !.state = state]
Call(p, call)     == [p EXCEPT !.calls = Append(@, call)]
Collect(p, b)     == [p EXCEPT !.buf = Append(@, b)]

\* transition: the entry actions.
Enter(p, state) == [p EXCEPT !.state = state, !.inter = "", !.buf = <<>>]

OnUtf8(p, b) ==
    LET q == [Collect(p, b) EXCEPT !.left = @ - 1]
    IN IF q.left = 0 THEN Go(Call(q, <<"print", q.buf>>), "Ground") ELSE q

OnGround(p, b) ==
    IF b \in Leads
    THEN [p EXCEPT !.state = "Utf8", !.buf = <<b>>, !.left = IF b = "lead2" THEN 1 ELSE 2]
    ELSE IF b = "cont" THEN p ELSE Call(p, <<"print", <<b>>>>)

EscDone(p, b) == Go(Call(p, <<"esc", p.inter, b>>), "Ground")

OnEscape(p, b) ==
    CASE b = "[" -> Enter(p, "CsiEntry")
      [] b = "]" -> Enter(p, "OscString")
      [] b = "P" -> Enter(p, "DcsEntry")
      [] b = "_" -> Enter(p, "ApcString")
      [] b \in Between -> [p EXCEPT !.inter = b, !.state = "EscapeIntermediate"]
      [] b \in Digits \cup Private \cup {"backslash", "m"} -> EscDone(p, b)
      [] OTHER -> Go(p, "Ground")

OnEscapeIntermediate(p, b) ==
    CASE b \in Between -> [p EXCEPT !.inter = b]
      [] b \in Digits \cup Private \cup Finals -> EscDone(p, b)
      [] OTHER -> Go(p, "Ground")

\* The three states of a control sequence, and what each does with a
\* private marker or an intermediate.
OnCsi(p, b) ==
    CASE b \in Digits /\ p.state # "CsiIntermediate" -> Go(Collect(p, b), "CsiParam")
      [] b \in Private /\ p.state = "CsiEntry" -> [p EXCEPT !.inter = b, !.state = "CsiParam"]
      [] b \in Finals -> Go(Call(p, <<"csi", p.buf, p.inter, b>>), "Ground")
      [] b \in Between -> IF p.state = "CsiIntermediate" THEN p
                          ELSE [p EXCEPT !.inter = b, !.state = "CsiIntermediate"]
      [] OTHER -> Go(p, "CsiIgnore")

\* An OSC or APC string, or a passed-through DCS string, which has no other
\* effect.  ESC ends it only if the backslash is in the same read.
OnString(p, b, next) ==
    LET end == CASE p.state = "OscString" -> Go(Call(p, <<"osc", p.buf>>), "Ground")
                 [] p.state = "ApcString" -> Go(Call(p, <<"apc", p.buf>>), "Ground")
                 [] OTHER -> Go(p, "Ground")
    IN CASE b = "BEL" /\ p.state # "DcsPassthrough" -> end
         [] b = "ESC" /\ next = "backslash" -> [end EXCEPT !.skip = TRUE]
         [] b = "ESC" /\ next # "backslash" -> p
         [] OTHER -> IF p.state = "DcsPassthrough" THEN p ELSE Collect(p, b)

OnDcsEntry(p, b) ==
    IF b \in Digits \cup Private THEN Collect(p, b) ELSE Go(p, "DcsPassthrough")

\* One byte; `next` is the one after it in the same read, or "none".
Step(p, b, next) ==
    LET q == IF p.state = "Utf8" /\ b # "cont" THEN Go(p, "Ground") ELSE p
    IN CASE q.skip -> [q EXCEPT !.skip = FALSE]
         [] ~q.skip /\ q.state = "Utf8" -> OnUtf8(q, b)
         [] ~q.skip /\ q.state \in Strings -> OnString(q, b, next)
         [] ~q.skip /\ q.state \notin Strings \cup {"Utf8"} ->
              CASE b = "ESC" -> Enter(q, "Escape")
                [] b \in Controls -> Call(q, <<"execute", b>>)
                [] b \notin Controls \cup {"ESC"} ->
                     CASE q.state = "Ground" -> OnGround(q, b)
                       [] q.state = "Escape" -> OnEscape(q, b)
                       [] q.state = "EscapeIntermediate" -> OnEscapeIntermediate(q, b)
                       [] q.state \in {"CsiEntry", "CsiParam", "CsiIntermediate"} -> OnCsi(q, b)
                       [] q.state = "CsiIgnore" -> IF b \in Finals THEN Go(q, "Ground") ELSE q
                       [] q.state = "DcsEntry" -> OnDcsEntry(q, b)

\* A read: bytes are taken one by one, with a look at the one that follows.
Following(chunk, i) == IF i < Len(chunk) THEN chunk[i + 1] ELSE "none"

Run(p, chunk) ==
    LET at[i \in 0..Len(chunk)] ==
          IF i = 0 THEN p ELSE Step(at[i - 1], chunk[i], Following(chunk, i))
    IN at

Feed(p, chunk) == Run(p, chunk)[Len(chunk)]
=============================================================================
