------------------------------- MODULE Images -------------------------------
(***************************************************************************)
(* The image store of a screen (Kitty graphics): images by number, the     *)
(* places they are shown at, and a transfer that arrives in chunks.        *)
(*                                                                         *)
(* A store is a record; an operation maps a store to a store.  The bytes   *)
(* of a picture are abstracted to whether they decode.                     *)
(*                                                                         *)
(* Sources: src/src/terminal/image_store.cpp and kitty_graphics.cpp.       *)
(***************************************************************************)
EXTENDS Naturals

\* Image number 0 is "none given" in a command and "none pending" in a store.
NewImages == [held |-> {}, placed |-> {}, pending |-> 0, next |-> 1]

\* What parse_kitty_graphics leaves in the fields nobody set.
Command == [action |-> "t", id |-> 0, more |-> FALSE, ok |-> TRUE, target |-> "a"]

StoreImage(m, cmd) ==
    LET id == IF cmd.id = 0 THEN m.next ELSE cmd.id
    IN [m EXCEPT !.next = IF cmd.id = 0 THEN @ + 1 ELSE @,
                 !.held = IF cmd.ok THEN @ \cup {id} ELSE @]

BeginTransfer(m, cmd) ==
    [m EXCEPT !.pending = IF cmd.id = 0 THEN m.next ELSE cmd.id,
              !.next = IF cmd.id = 0 THEN @ + 1 ELSE @]

\* The last chunk: the image goes under the number the transfer began with.
FinishTransfer(m, cmd) ==
    [m EXCEPT !.held = IF cmd.ok THEN @ \cup {m.pending} ELSE @,
              !.pending = 0]

\* An image the store does not hold is not placed.
PlaceImage(m, id, line) ==
    IF id \in m.held
    THEN [m EXCEPT !.placed = @ \cup {[id |-> id, line |-> line]}]
    ELSE m

RemoveAll(m) == [m EXCEPT !.held = {}, !.placed = {}]

ClearPlacements(m) == [m EXCEPT !.placed = {}]

\* Mutant: the image goes, its places stay.
DeleteImagesKeepPlaces(m, cmd) == [m EXCEPT !.held = @ \ {cmd.id}]

DeleteImages(m, cmd) ==
    CASE cmd.target = "a" -> RemoveAll(m)
      [] cmd.target = "i" ->
             [m EXCEPT !.placed = {p \in @ : p.id # cmd.id}, !.held = @ \ {cmd.id}]
      [] OTHER -> [m EXCEPT !.placed = {p \in @ : p.id # cmd.id}]

\* A trimmed line takes its places with it, and then every image that is
\* left without one, also one that was sent ahead and never shown.
GcPlacements(m, first) ==
    LET kept == {p \in m.placed : p.line >= first}
    IN [m EXCEPT !.placed = kept, !.held = {i \in @ : \E p \in kept : p.id = i}]
=============================================================================
