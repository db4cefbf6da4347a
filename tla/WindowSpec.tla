----------------------------- MODULE WindowSpec -----------------------------
(***************************************************************************)
(* What an event-time window promises, with no accumulators and no state   *)
(* but its history: the records it has received and the aggregates it has  *)
(* sent.  The value of a window is a function of the input sequence alone, *)
(* a window is sent once, when the watermark reaches its end (or when the  *)
(* input has closed), and windows are sent in order of their start.        *)
(*                                                                         *)
(* A record is [n, ts, group, num]: its arrival number, its event time,    *)
(* the tuple of its group_by attributes and whether the field to aggregate *)
(* is usable ("ok"), absent ("missing") or not a number ("invalid").       *)
(***************************************************************************)
EXTENDS EventTime, FiniteSets, Sequences

CONSTANTS
  Groups,      \* the values of the group_by tuple
  Numerics,    \* how the field to aggregate may turn out
  MaxGroups,   \* max_groups; at least Cardinality(Groups) is "unset"
  MaxRecords,  \* bound: records in a behaviour
  MaxTs        \* bound: largest event time

VARIABLES
  seen,    \* the records received
  sent,    \* the aggregates sent, in order
  closed   \* the input has ended

absVars == <<seen, sent, closed>>

Record == [n : 1 .. MaxRecords, ts : 0 .. MaxTs, group : Groups, num : Numerics]

(* The newest event among some records; 0 before the first. *)
NewestEvent(recs) ==
  LET times == {r.ts : r \in recs} \cup {0}
  IN  CHOOSE m \in times : \A t \in times : t <= m

(* The watermark a record met when it arrived. *)
WatermarkBefore(r) == Watermark(NewestEvent({x \in seen : x.n < r.n}))

(* The window at s held r, and had not been closed by an earlier event. *)
InTime(s, r) ==
  /\ r.num = "ok"
  /\ s \in WindowStarts(r.ts)
  /\ ~Passed(s, WatermarkBefore(r))

Candidates(s, g) == {r \in seen : r.group = g /\ InTime(s, r)}

FirstArrival(s, g) ==
  CHOOSE n \in {r.n : r \in Candidates(s, g)} : \A r \in Candidates(s, g) : n <= r.n

(* At most MaxGroups groups are admitted to a window, first come first served. *)
Admitted(s, g) ==
  /\ Candidates(s, g) # {}
  /\ Cardinality({h \in Groups : /\ Candidates(s, h) # {}
                                 /\ FirstArrival(s, h) < FirstArrival(s, g)}) < MaxGroups

(* The records an aggregate for group g of the window at s is made of. *)
Contents(s, g) == IF Admitted(s, g) THEN Candidates(s, g) ELSE {}

Starts == UNION {WindowStarts(r.ts) : r \in seen}

(* The aggregates still owed: complete, not empty, and not sent. *)
Due ==
  {o \in [start : Starts, group : Groups] :
    /\ closed \/ Passed(o.start, Watermark(NewestEvent(seen)))
    /\ Contents(o.start, o.group) # {}
    /\ \A i \in DOMAIN sent : sent[i].start # o.start \/ sent[i].group # o.group}

-----------------------------------------------------------------------------

AbsInit == seen = {} /\ sent = << >> /\ closed = FALSE

AbsReceive ==
  /\ ~closed
  /\ \E r \in Record : r.n = Cardinality(seen) + 1 /\ seen' = seen \cup {r}
  /\ UNCHANGED <<sent, closed>>

AbsSend ==
  /\ \E o \in Due :
       /\ \A p \in Due : o.start <= p.start
       /\ sent' = Append(sent, [start |-> o.start, group |-> o.group,
                                recs |-> Contents(o.start, o.group)])
  /\ UNCHANGED <<seen, closed>>

AbsClose == ~closed /\ closed' = TRUE /\ UNCHANGED <<seen, sent>>

AbsNext == AbsReceive \/ AbsSend \/ AbsClose

AbsSpec == AbsInit /\ [][AbsNext]_absVars

=============================================================================
