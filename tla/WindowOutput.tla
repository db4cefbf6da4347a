---------------------------- MODULE WindowOutput ----------------------------
(***************************************************************************)
(* The order in which the aggregates of a window node reach a join: what   *)
(* Join assumes of its orderly inputs, and WindowProofs shows of Window.   *)
(* An aggregate is known by the end of its window and its group's labels.  *)
(***************************************************************************)
EXTENDS Naturals

(* What may come after the aggregates before it: a later window, or        *)
(* another group of the one that is being sent.                            *)
MayFollow(before, b) == \A c \in before : c.end <= b.end /\ c # b

=============================================================================
