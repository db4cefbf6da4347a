----------------------------- MODULE EventTime -----------------------------
(***************************************************************************)
(* Event time as the window transform reckons it: which epoch-aligned      *)
(* windows hold a timestamp, and how far the watermark trails the newest   *)
(* event.  Shared by the abstract specification of a window (WindowSpec)   *)
(* and by the detailed one (Window).                                       *)
(*                                                                         *)
(* Times are natural numbers.  The code's are u64 nanoseconds: the sums    *)
(* below never wrap for a timestamp that is further than one window from   *)
(* the end of the u64 range (the year 2554).                               *)
(***************************************************************************)
EXTENDS Naturals

CONSTANTS
  Size,      \* length of a window
  Slide,     \* distance between window starts; Size for a tumbling window
  Lateness   \* allowed_lateness: how far the watermark trails the newest event

(* What `validate` lets through: a positive slide no larger than the size. *)
ASSUME TimeAssumption ==
  /\ Size \in Nat
  /\ Slide \in Nat \ {0}
  /\ Slide <= Size
  /\ Lateness \in Nat

Time == Nat

Max2(a, b) == IF a >= b THEN a ELSE b

(* u64::saturating_sub *)
SaturatingSub(a, b) == IF a >= b THEN a - b ELSE 0

(* The event time up to which input is treated as complete. *)
Watermark(maxEvent) == SaturatingSub(maxEvent, Lateness)

(* The newest slide-aligned start at or before t. *)
NewestStart(t) == (t \div Slide) * Slide

(* The newest window, then every earlier aligned one that still holds t. *)
WindowStarts(t) ==
  {NewestStart(t)} \cup
  {s \in {k * Slide : k \in 0 .. (t \div Slide)} : s + Size > t}

(* A window has fired, or is due to, once the watermark reaches its end. *)
Passed(start, watermark) == start + Size <= watermark

=============================================================================
