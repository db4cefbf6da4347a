----------------------------- MODULE AtLeastOnce -----------------------------
(***************************************************************************)
(* What a durable edge promises: a record its producer was told is stored  *)
(* stays queued until the consuming node has handled it.  It may be queued *)
(* more than once, and handled more than once.  A record that cannot be    *)
(* decoded counts as handled.                                              *)
(***************************************************************************)
CONSTANTS Records, Undecodable

VARIABLES
  accepted,  \* the records the producer was told are stored
  queued,    \* the records the edge holds
  handled    \* the records the consuming node has handled

vars == <<accepted, queued, handled>>

Init == accepted = {} /\ queued = {} /\ handled = {}

(* Stored; the producer may not learn of it, and then stores it again. *)
Store(r) ==
  /\ queued' = queued \cup {r}
  /\ accepted' \in {accepted, accepted \cup {r}}
  /\ UNCHANGED handled

(* Records the edge holds are handled, and what is settled leaves it. *)
Consume ==
  /\ handled \subseteq handled'
  /\ handled' \ handled \subseteq queued
  /\ queued' \subseteq queued
  /\ queued \ queued' \subseteq handled' \cup Undecodable
  /\ UNCHANGED accepted

Next == Consume \/ \E r \in Records : Store(r)

Spec == Init /\ [][Next]_vars

(* What the specification is for: what was accepted is never lost. *)
Lossless == accepted \subseteq queued \cup handled \cup Undecodable

=============================================================================
