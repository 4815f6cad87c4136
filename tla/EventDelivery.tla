--------------------------- MODULE EventDelivery ----------------------------
(***************************************************************************)
(* What the event pipeline promises to the subscribers of the complaint    *)
(* events, without its mechanism: every event committed with a change is   *)
(* announced once, and the events of one complaint are announced in the    *)
(* order of its changes.  Nothing else is ever announced.                  *)
(***************************************************************************)
EXTENDS Naturals, Sequences

VARIABLES
  changes,     \* the committed changes: event id -> complaint and ordinal
  announced    \* the event ids announced to the subscriber, in order

vars == <<changes, announced>>

Announced == {announced[k] : k \in DOMAIN announced}

Init == changes = <<>> /\ announced = <<>>

(* a change is committed under a new event id *)
Commit(e, c, n) ==
  /\ e \notin DOMAIN changes
  /\ changes' = [d \in DOMAIN changes \cup {e} |->
                   IF d = e THEN [cid |-> c, n |-> n] ELSE changes[d]]
  /\ UNCHANGED announced

Announce(e) ==
  /\ e \in DOMAIN changes \ Announced
  /\ \A d \in DOMAIN changes :
       changes[d].cid = changes[e].cid /\ changes[d].n < changes[e].n => d \in Announced
  /\ announced' = Append(announced, e)
  /\ UNCHANGED changes

=============================================================================
