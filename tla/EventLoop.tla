------------------------------ MODULE EventLoop ------------------------------
(***************************************************************************)
(* The epoll loop's table of descriptors: who is called for which one.     *)
(* poll() takes a batch of events and dispatches each by its descriptor's  *)
(* number alone, looked up when its turn comes; an event of a descriptor   *)
(* closed earlier in the batch goes to whoever got the number since.       *)
(*                                                                         *)
(* Source: src/src/core/event_loop.cpp.                                    *)
(***************************************************************************)
EXTENDS Naturals, Sequences, FiniteSets, FiniteSetsExt, Functions, SequencesExt

\* add_fd and remove_fd, on a table [fd -> owner]
AddFd(fds, fd, owner) == [f \in DOMAIN fds \cup {fd} |-> IF f = fd THEN owner ELSE fds[f]]
RemoveFds(fds, gone)  == Restrict(fds, DOMAIN fds \ gone)

\* What open(2) and accept(2) return: the lowest number not in use.
LowestFree(used) == Min({n \in 1..(Cardinality(used) + 1) : n \notin used})

\* epoll_wait: the ready descriptors, `size' of them at most, in any order.
Batches(ready, size) ==
    LET n == Min({size, Cardinality(ready)})
    IN IF ready = {} THEN {} ELSE UNION {SetToSeqs(s) : s \in kSubset(n, ready)}
=============================================================================
