------------------------------- MODULE Window -------------------------------
(***************************************************************************)
(* The window transform: the synchronous core (struct Window) and the task *)
(* that drives it (run), which selects between the next input record, the  *)
(* idle timer and an inspection query, and sends what fires downstream.    *)
(*                                                                         *)
(* The open windows are the set of their folds: f = [start, rec] says that *)
(* rec was added to the accumulator of group rec.group in the window at    *)
(* f.start.  A window or a group exists in the code exactly when it has a  *)
(* fold here (an accumulator is created by the record it then adds).  The  *)
(* arithmetic an accumulator does on its records is left out.              *)
(***************************************************************************)
EXTENDS EventTime, FiniteSets, Sequences

CONSTANTS
  Groups,       \* the values of the group_by tuple
  Numerics,     \* bound: how the aggregated field of a record may turn out
  MaxGroups,    \* max_groups; at least Cardinality(Groups) is "unset"
  OnMissing,    \* FaultAction for a record without the aggregated field
  OnInvalid,    \* FaultAction for a record whose field is not a number
  IdleTimeout,  \* idle_timeout in ticks of the clock; 0 is "unset"
  Inspectable,  \* whether the node is registered for state inspection
  MaxRecords,   \* bound: records received in a behaviour
  MaxTs         \* bound: largest event time

ASSUME WindowAssumption ==
  /\ IsFiniteSet(Groups)
  /\ Numerics \subseteq {"ok", "missing", "invalid"}
  /\ MaxGroups \in Nat \ {0}
  /\ {OnMissing, OnInvalid} \subseteq {"skip", "error"}
  /\ IdleTimeout \in Nat
  /\ Inspectable \in BOOLEAN
  /\ MaxRecords \in Nat
  /\ MaxTs \in Nat

VARIABLES
  windows,   \* the folds of the open windows
  maxEvent,  \* the newest event time seen
  metered,   \* records dropped so far, by reason
  pc,        \* where the task is: "select", "emit", "flush", "done" or "failed"
  out,       \* the fired aggregates `emit` has not handed over yet
  sent,      \* what went downstream, in order
  inspect,   \* the node still holds its inspection queue
  timer,     \* ticks the sleep of this turn of the loop has run for
  closed,    \* recv has answered None
  seen,      \* history: the records on_record has accepted
  collapsed  \* history: the idle timeout has collapsed open windows

coreVars == <<windows, maxEvent, metered>>
vars == <<windows, maxEvent, metered, pc, out, sent, inspect, timer, closed, seen, collapsed>>

DropReason == {"invalid", "late", "capped"}

Record == [n : 1 .. MaxRecords, ts : 0 .. MaxTs, group : Groups,
           num : Numerics]

Fold == [start : Time, rec : Record]

Aggregate == [start : Time, group : Groups, recs : SUBSET Record]

TypeOK ==
  /\ windows \subseteq Fold
  /\ maxEvent \in Time
  /\ metered \in [DropReason -> Nat]
  /\ pc \in {"select", "emit", "flush", "done", "failed"}
  /\ out \subseteq Aggregate
  /\ sent \in Seq(Aggregate)
  /\ inspect \in BOOLEAN
  /\ timer \in 0 .. IdleTimeout
  /\ closed \in BOOLEAN
  /\ seen \subseteq Record
  /\ collapsed \in BOOLEAN

Init ==
  /\ windows = {}
  /\ maxEvent = 0
  /\ metered = [d \in DropReason |-> 0]
  /\ pc = "select"
  /\ out = {}
  /\ sent = << >>
  /\ inspect = Inspectable
  /\ timer = 0
  /\ closed = FALSE
  /\ seen = {}
  /\ collapsed = FALSE

-----------------------------------------------------------------------------
(* The core. *)

GroupsOf(start) == {f.rec.group : f \in {x \in windows : x.start = start}}

(* Faulty variant: a window is open however far the watermark is. *)
OpenForAny(r) == WindowStarts(r.ts)

(* Faulty variant: no allowed lateness for a record that is out of order. *)
OpenForNoGrace(r) == {s \in WindowStarts(r.ts) : ~Passed(s, maxEvent)}

(* The windows that hold the record and have not fired. *)
OpenFor(r) == {s \in WindowStarts(r.ts) : ~Passed(s, Watermark(maxEvent))}

(* Those of them that take it: its group is there, or there is room for one more. *)
TakenBy(r) ==
  {s \in OpenFor(r) : r.group \in GroupsOf(s) \/ Cardinality(GroupsOf(s)) < MaxGroups}

(* The records an accumulator has added. *)
RecordsOf(folds, start, group) ==
  {f.rec : f \in {x \in folds : x.start = start /\ x.rec.group = group}}

(* One aggregate for each group of each window. *)
Aggregates(folds) ==
  {[start |-> f.start, group |-> f.rec.group,
    recs |-> RecordsOf(folds, f.start, f.rec.group)] : f \in folds}

(* Faulty variant: a window fires only once the watermark is past its end. *)
ReadyPastEnd(folds, newest) == {f \in folds : f.start + Size < Watermark(newest)}

Ready(folds, newest) == {f \in folds : Passed(f.start, Watermark(newest))}

(* drain_ready, then into `emit`, which returns at once when nothing fired. *)
DrainReady(folds, newest) ==
  LET fired == Ready(folds, newest)
  IN  /\ windows' = folds \ fired
      /\ out' = Aggregates(fired)
      /\ pc' = IF fired = {} THEN "select" ELSE "emit"

DrainAll(next) == windows' = {} /\ out' = Aggregates(windows) /\ pc' = next

Meter(reason) == metered' = [metered EXCEPT ![reason] = @ + 1]

Policy(r) == IF r.num = "missing" THEN OnMissing ELSE OnInvalid

-----------------------------------------------------------------------------
(* recv answers a record: on_record, meter_drops and drain_ready, with no  *)
(* await among them, and the loop comes round with a new timer.            *)

Arrives(r) ==
  /\ pc = "select"
  /\ Cardinality(seen) < MaxRecords
  /\ r.n = Cardinality(seen) + 1
  /\ timer' = 0
  /\ UNCHANGED <<sent, inspect, closed, collapsed>>

(* The field cannot be aggregated and the policy is to skip the record. *)
SkipRecord(r) ==
  /\ Arrives(r)
  /\ r.num # "ok"
  /\ Policy(r) = "skip"
  /\ maxEvent' = Max2(maxEvent, r.ts)
  /\ Meter("invalid")
  /\ seen' = seen \cup {r}
  /\ DrainReady(windows, maxEvent')

(* ... or to fail the node: the error leaves `run` with the windows open. *)
RefuseRecord(r) ==
  /\ Arrives(r)
  /\ r.num # "ok"
  /\ Policy(r) = "error"
  /\ pc' = "failed"
  /\ UNCHANGED <<windows, maxEvent, metered, out, seen>>

(* At least one window takes the record. *)
FoldRecord(r) ==
  /\ Arrives(r)
  /\ r.num = "ok"
  /\ TakenBy(r) # {}
  /\ maxEvent' = Max2(maxEvent, r.ts)
  /\ seen' = seen \cup {r}
  /\ DrainReady(windows \cup {[start |-> s, rec |-> r] : s \in TakenBy(r)}, maxEvent')
  /\ UNCHANGED metered

(* Faulty variant: a full window stalls event time. *)
ShedRecordStalled(r) ==
  /\ Arrives(r)
  /\ r.num = "ok"
  /\ TakenBy(r) = {}
  /\ OpenFor(r) # {}
  /\ Meter("capped")
  /\ seen' = seen \cup {r}
  /\ DrainReady(windows, maxEvent)
  /\ UNCHANGED maxEvent

(* Windows are open for it and all of them are full of other groups. *)
ShedRecord(r) ==
  /\ Arrives(r)
  /\ r.num = "ok"
  /\ TakenBy(r) = {}
  /\ OpenFor(r) # {}
  /\ maxEvent' = Max2(maxEvent, r.ts)
  /\ Meter("capped")
  /\ seen' = seen \cup {r}
  /\ DrainReady(windows, maxEvent')

(* Every window that holds it has fired. *)
LateRecord(r) ==
  /\ Arrives(r)
  /\ r.num = "ok"
  /\ OpenFor(r) = {}
  /\ Meter("late")
  /\ seen' = seen \cup {r}
  /\ DrainReady(windows, maxEvent)
  /\ UNCHANGED maxEvent

Receive(r) ==
  SkipRecord(r) \/ RefuseRecord(r) \/ FoldRecord(r) \/ ShedRecord(r) \/ LateRecord(r)

(* Faulty variant: the last flush sends only what the watermark has passed. *)
CloseReadyOnly ==
  /\ pc = "select"
  /\ closed' = TRUE
  /\ windows' = windows \ Ready(windows, maxEvent)
  /\ out' = Aggregates(Ready(windows, maxEvent))
  /\ pc' = "flush"
  /\ UNCHANGED <<maxEvent, metered, sent, inspect, timer, seen, collapsed>>

(* recv answers None: flush whatever is open and end. *)
Close ==
  /\ pc = "select"
  /\ closed' = TRUE
  /\ DrainAll("flush")
  /\ UNCHANGED <<maxEvent, metered, sent, inspect, timer, seen, collapsed>>

-----------------------------------------------------------------------------
(* The other branches of the select. *)

(* Faulty variant: the timer runs on after it is due. *)
TickOn ==
  /\ pc = "select"
  /\ timer <= IdleTimeout
  /\ timer' = timer + 1
  /\ UNCHANGED <<coreVars, pc, out, sent, inspect, closed, seen, collapsed>>

(* Wall-clock time passes while the task waits.  A timer that is due is    *)
(* served before the next tick.                                            *)
Tick ==
  /\ pc = "select"
  /\ timer < IdleTimeout
  /\ timer' = timer + 1
  /\ UNCHANGED <<coreVars, pc, out, sent, inspect, closed, seen, collapsed>>

(* Faulty variant: the idle timeout fires only what is ready anyway. *)
IdleFireReadyOnly ==
  /\ pc = "select"
  /\ IdleTimeout > 0
  /\ timer = IdleTimeout
  /\ timer' = 0
  /\ DrainReady(windows, maxEvent)
  /\ collapsed' = (collapsed \/ windows # {})
  /\ UNCHANGED <<maxEvent, metered, sent, inspect, closed, seen>>

(* Faulty variant: the idle timeout sends what is open and keeps it. *)
IdleFireKeeping ==
  /\ pc = "select"
  /\ IdleTimeout > 0
  /\ timer = IdleTimeout
  /\ timer' = 0
  /\ out' = Aggregates(windows)
  /\ pc' = IF windows = {} THEN "select" ELSE "emit"
  /\ collapsed' = (collapsed \/ windows # {})
  /\ UNCHANGED <<coreVars, sent, inspect, closed, seen>>

(* The idle timeout: collapse every open window. *)
IdleFire ==
  /\ pc = "select"
  /\ IdleTimeout > 0
  /\ timer = IdleTimeout
  /\ timer' = 0
  /\ DrainAll(IF windows = {} THEN "select" ELSE "emit")
  /\ collapsed' = (collapsed \/ windows # {})
  /\ UNCHANGED <<maxEvent, metered, sent, inspect, closed, seen>>

(* A query is answered with a snapshot.  The next turn of the loop sleeps  *)
(* for the whole idle timeout again.                                       *)
AnswerQuery ==
  /\ pc = "select"
  /\ inspect
  /\ timer' = 0
  /\ UNCHANGED <<coreVars, pc, out, sent, inspect, closed, seen, collapsed>>

(* Every handle is gone: stop polling the queue. *)
DropInspect ==
  /\ pc = "select"
  /\ inspect
  /\ inspect' = FALSE
  /\ timer' = 0
  /\ UNCHANGED <<coreVars, pc, out, sent, closed, seen, collapsed>>

-----------------------------------------------------------------------------
(* emit: hand over the fired aggregates one at a time, by ascending start  *)
(* and in any order within a window (its groups are a HashMap).            *)

Emit ==
  /\ pc \in {"emit", "flush"}
  /\ \E o \in out :
       /\ \A p \in out : o.start <= p.start
       /\ sent' = Append(sent, o)
       /\ out' = out \ {o}
       /\ pc' = IF out = {o} /\ pc = "emit" THEN "select" ELSE pc
  /\ UNCHANGED <<coreVars, inspect, timer, closed, seen, collapsed>>

(* A send fails because the downstream is gone: the task ends. *)
DownstreamGone ==
  /\ pc \in {"emit", "flush"}
  /\ out # {}
  /\ pc' = "done"
  /\ UNCHANGED <<coreVars, out, sent, inspect, timer, closed, seen, collapsed>>

FlushDone ==
  /\ pc = "flush"
  /\ out = {}
  /\ pc' = "done"
  /\ UNCHANGED <<coreVars, out, sent, inspect, timer, closed, seen, collapsed>>

Next ==
  \/ \E r \in Record : Receive(r)
  \/ Close
  \/ Tick \/ IdleFire \/ AnswerQuery \/ DropInspect
  \/ Emit \/ DownstreamGone \/ FlushDone

Spec == Init /\ [][Next]_vars

(* The task is scheduled as long as it can run, its downstream takes what  *)
(* it is sent or goes away, and the clock advances.  Nothing is assumed of *)
(* the records, the queries or the close: they come when they come.        *)
Fairness ==
  /\ WF_vars(Emit)
  /\ WF_vars(FlushDone)
  /\ WF_vars(Tick)
  /\ WF_vars(IdleFire)

FairSpec == Spec /\ Fairness

-----------------------------------------------------------------------------
(* Properties. *)

Promised == INSTANCE WindowSpec

(* Until the idle timeout first collapses open windows, the task does what *)
(* WindowSpec promises: each (window, group) is sent once, in window order,*)
(* not before the watermark or the close allows, and holds exactly the     *)
(* records that came in time.                                              *)
ImplementsWindowSpec ==
  Promised!AbsInit /\ [][~collapsed' => Promised!AbsNext]_(Promised!absVars)

(* At every await no window the watermark has passed is still open: what   *)
(* on_record takes for "already fired" has indeed been drained.            *)
AheadOfWatermark == \A f \in windows : ~Passed(f.start, Watermark(maxEvent))

(* Event time is that of the newest record received, whatever became of it *)
(* (folded, skipped, shed or late): no way of dropping one stalls it.      *)
NewestEventSeen ==
  /\ \A r \in seen : r.ts <= maxEvent
  /\ maxEvent = 0 \/ \E r \in seen : r.ts = maxEvent

(* The windows of a group that are held, fired or sent. *)
Held == {<<f.start, f.rec.group>> : f \in windows}
Fired == {<<o.start, o.group>> : o \in out}
Delivered == {<<sent[i].start, sent[i].group>> : i \in DOMAIN sent}

NoneTwice ==
  /\ Held \cap (Fired \cup Delivered) = {}
  /\ Fired \cap Delivered = {}
  /\ \A i, j \in DOMAIN sent :
       sent[i].start = sent[j].start /\ sent[i].group = sent[j].group => i = j

(* A window fires once, as long as no idle timeout collapses it early: what *)
(* has been sent is neither sent again nor open.                            *)
FiresOnce == ~collapsed => NoneTwice

(* A record counts in one aggregate of a window at most.  The idle timeout *)
(* fires windows the watermark has not passed, so a later record may open  *)
(* one again and a second aggregate follow: it has nothing of the first.   *)
Counts(o, f) == o.start = f.start /\ f.rec \in o.recs

Apart(o, q) == o.start = q.start => o.recs \cap q.recs = {}

CountedOnce ==
  /\ \A f \in windows, o \in out : ~Counts(o, f)
  /\ \A f \in windows, i \in DOMAIN sent : ~Counts(sent[i], f)
  /\ \A o, q \in out : o # q => Apart(o, q)
  /\ \A o \in out, i \in DOMAIN sent : Apart(o, sent[i])
  /\ \A i, j \in DOMAIN sent : i # j => Apart(sent[i], sent[j])

(* No window ever holds more groups than max_groups. *)
WithinCap == \A f \in windows : Cardinality(GroupsOf(f.start)) <= MaxGroups

(* Once the input has closed every record received is in an aggregate that *)
(* was sent or is metered as dropped, unless the downstream goes away.     *)
AllDelivered ==
  LET reached == UNION {sent[i].recs : i \in DOMAIN sent}
  IN  Cardinality(seen) =
        Cardinality(reached) + metered["invalid"] + metered["late"] + metered["capped"]
CloseDelivers == closed ~> (AllDelivered \/ (pc = "done" /\ out # {}))

(* When records and queries stop coming, every open window is collapsed.   *)
IdleFlushes == <>[]~inspect => <>[](pc = "select" => windows = {})

=============================================================================
