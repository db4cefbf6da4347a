------------------------------- MODULE NatsEdge -------------------------------
(***************************************************************************)
(* One edge of the NATS backend: the producer that publishes with retry,   *)
(* the work-queue stream, and a worker whose node pulls its partitions,    *)
(* acknowledging each record when it asks for the next one, and treats a   *)
(* quiet stream as the end of its input once a shutdown signal has come.   *)
(*                                                                         *)
(* JetStream is external: it keeps a message until it is acknowledged, has *)
(* one reader per partition, and delivers a message again when its         *)
(* acknowledgement is overdue.  A node that selects between recv and a     *)
(* timer (the OTLP exporter, a window with an idle timeout) drops the recv *)
(* in progress whenever the timer fires.                                   *)
(***************************************************************************)
EXTENDS Partition, FiniteSets

CONSTANTS
  Index,        \* the worker this module follows
  DrainIdle,    \* DRAIN_IDLE in ticks
  CallerTimer,  \* period in ticks of the timer the node selects on; 0 is none
  MaxRecords,   \* bound: records produced
  Undecodable,  \* which of them do not decode
  MaxResends,   \* bound: publishes that are stored but not confirmed
  MaxCrashes    \* bound: crashes of the worker

Records == [n : 1 .. MaxRecords, key : Keys]

ASSUME NatsEdgeAssumption ==
  /\ Index \in Indexes
  /\ DrainIdle \in Nat \ {0}
  /\ CallerTimer \in Nat
  /\ MaxRecords \in Nat
  /\ Undecodable \subseteq Records
  /\ MaxResends \in Nat
  /\ MaxCrashes \in Nat

VARIABLES
  up,        \* NATS can be reached
  stored,    \* the messages of each partition
  pending,   \* messages delivered and not acknowledged (their sequence numbers)
  nextSeq,   \* sequence number of the next message of the stream
  producer,  \* "idle" or "publishing"
  current,   \* the record being published, and its partition
  cursor,    \* the producer's round-robin cursor
  produced,  \* how many records the producer has begun to send
  pc,        \* the worker: see TypeOK
  bound,     \* the consumer holds its message streams
  last,      \* the message handed to the node and not acknowledged
  draining,  \* the shutdown flag
  sees,      \* what this turn of recv read of the flag
  idle,      \* ticks this recv has waited under its timeout
  timer,     \* ticks since the node's own timer fired
  crashes,   \* crashes of the worker so far
  accepted,  \* history: the records `send` has returned Ok for
  handled,   \* history: the records the node has handled
  disturbed  \* history: messages the client held were dropped

streamVars == <<stored, pending, nextSeq>>
producerVars == <<producer, current, cursor, produced, accepted>>
recvVars == <<pc, bound, last, sees, idle, timer>>
vars == <<up, streamVars, producerVars, recvVars, draining, crashes, disturbed, handled>>

Message == [seq : 1 .. MaxRecords + MaxResends, rec : Records]

TypeOK ==
  /\ up \in BOOLEAN
  /\ stored \in [Parts -> SUBSET Message]
  /\ pending \subseteq 1 .. MaxRecords + MaxResends
  /\ nextSeq \in 1 .. MaxRecords + MaxResends + 1
  /\ producer \in {"idle", "publishing"}
  /\ current \subseteq [rec : Records, part : Parts] /\ Cardinality(current) <= 1
  /\ cursor \in 0 .. CursorRange - 1
  /\ produced \in 0 .. MaxRecords
  /\ pc \in {"connecting", "got", "node", "binding", "sleeping", "acking", "waiting", "closed"}
  /\ bound \in BOOLEAN
  /\ last \subseteq Message /\ Cardinality(last) <= 1
  /\ draining \in BOOLEAN /\ sees \in BOOLEAN
  /\ idle \in 0 .. DrainIdle
  /\ timer \in 0 .. CallerTimer
  /\ crashes \in 0 .. MaxCrashes
  /\ accepted \subseteq Records
  /\ handled \subseteq Records
  /\ disturbed \in BOOLEAN

Init ==
  /\ up = TRUE
  /\ stored = [p \in Parts |-> {}]
  /\ pending = {}
  /\ nextSeq = 1
  /\ producer = "idle"
  /\ current = {}
  /\ cursor = 0
  /\ produced = 0
  /\ pc = "connecting"
  /\ bound = FALSE
  /\ last = {}
  /\ draining = FALSE
  /\ sees = FALSE
  /\ idle = 0
  /\ timer = 0
  /\ crashes = 0
  /\ accepted = {}
  /\ handled = {}
  /\ disturbed = FALSE

-----------------------------------------------------------------------------
(* NatsProducer: send routes and encodes once, then publishes until the    *)
(* server confirms.  Nothing is assumed of it: its task may stop anywhere. *)

(* Faulty variant: a keyed edge spreads its records in turn. *)
SendInTurn(key) ==
  /\ producer = "idle"
  /\ produced < MaxRecords
  /\ produced' = produced + 1
  /\ current' = {[rec |-> [n |-> produced + 1, key |-> key], part |-> produced % Partitions]}
  /\ producer' = "publishing"
  /\ UNCHANGED <<up, streamVars, cursor, accepted, recvVars, draining, crashes, disturbed,
                 handled>>

Send(key) ==
  /\ producer = "idle"
  /\ produced < MaxRecords
  /\ produced' = produced + 1
  /\ current' = {[rec |-> [n |-> produced + 1, key |-> key], part |-> Route(key, cursor)]}
  /\ cursor' = NextCursor(cursor)
  /\ producer' = "publishing"
  /\ UNCHANGED <<up, streamVars, accepted, recvVars, draining, crashes, disturbed, handled>>

(* A message after all others of its partition. *)
Store(c) ==
  /\ stored' = [stored EXCEPT ![c.part] = @ \cup {[seq |-> nextSeq, rec |-> c.rec]}]
  /\ nextSeq' = nextSeq + 1
  /\ UNCHANGED pending

PublishConfirmed ==
  /\ producer = "publishing"
  /\ up
  /\ \E c \in current : Store(c) /\ accepted' = accepted \cup {c.rec}
  /\ producer' = "idle"
  /\ current' = {}
  /\ UNCHANGED <<up, cursor, produced, recvVars, draining, crashes, disturbed, handled>>

(* Stored, but the ack is lost: after a pause the same payload is published again. *)
PublishUncertain ==
  /\ producer = "publishing"
  /\ up
  /\ nextSeq - 1 - Cardinality(accepted) < MaxResends
  /\ \E c \in current : Store(c)
  /\ UNCHANGED <<up, producerVars, recvVars, draining, crashes, disturbed, handled>>

-----------------------------------------------------------------------------
(* JetStream. *)

Outage ==
  /\ up' = ~up
  /\ UNCHANGED <<streamVars, producerVars, recvVars, draining, crashes, disturbed, handled>>

(* The ack of a delivered message is overdue: it will be delivered again. *)
AckOverdue(seq) ==
  /\ seq \in pending
  /\ pending' = pending \ {seq}
  /\ UNCHANGED <<up, stored, nextSeq, producerVars, recvVars, draining, crashes, disturbed, handled>>

(* What the stream is left with once `acked` are acknowledged. *)
Without(acked) ==
  /\ stored' = [p \in Parts |-> stored[p] \ acked]
  /\ pending' = pending \ {m.seq : m \in acked}
  /\ UNCHANGED nextSeq

(* The messages of partition p the server may deliver, and of these the oldest: *)
(* one, or none.                                                                *)
Deliverable(p) == {m \in stored[p] : m.seq \notin pending}

Oldest(p) == {m \in Deliverable(p) : \A other \in Deliverable(p) : m.seq <= other.seq}

-----------------------------------------------------------------------------
(* The worker.  Nats::connect waits until its streams exist. *)

Provision ==
  /\ pc = "connecting"
  /\ up
  /\ pc' = "node"
  /\ UNCHANGED <<up, streamVars, producerVars, bound, last, sees, idle, timer,
                 draining, crashes, disturbed, handled>>

(* A recv, or a turn of it, that is over keeps nothing of what it read. *)
LeaveTurn == sees' = FALSE /\ idle' = 0

(* Where recv stands with its streams bound: it has an ack to send or not. *)
Bound(prev) == IF prev = {} THEN "waiting" ELSE "acking"

(* A turn of recv: read the flag, then bind, or acknowledge and wait. *)
Turn ==
  /\ sees' = draining
  /\ idle' = 0
  /\ pc' = IF bound THEN Bound(last) ELSE "binding"

Recv ==
  /\ pc \in {"node", "sleeping"}
  /\ Turn
  /\ UNCHANGED <<up, streamVars, producerVars, bound, last, timer, draining, crashes, disturbed, handled>>

BindOk ==
  /\ pc = "binding"
  /\ up
  /\ bound' = TRUE
  /\ pc' = Bound(last)
  /\ UNCHANGED <<up, streamVars, producerVars, last, sees, idle, timer, draining,
                 crashes, disturbed, handled>>

(* Faulty variant: a bind that fails is retried whether draining or not. *)
BindRetries ==
  /\ pc = "binding"
  /\ ~up
  /\ pc' = "sleeping"
  /\ LeaveTurn
  /\ UNCHANGED <<up, streamVars, producerVars, bound, last, timer, draining, crashes,
                 disturbed, handled>>

(* While draining, a bind that fails is the end of the input. *)
BindFails ==
  /\ pc = "binding"
  /\ ~up
  /\ pc' = IF sees THEN "closed" ELSE "sleeping"
  /\ LeaveTurn
  /\ UNCHANGED <<up, streamVars, producerVars, bound, last, timer, draining, crashes,
                 disturbed, handled>>

(* The previous message is acknowledged; a failure is ignored. *)
Acknowledge ==
  /\ pc = "acking"
  /\ IF up THEN Without(last) ELSE UNCHANGED streamVars
  /\ last' = {}
  /\ pc' = "waiting"
  /\ UNCHANGED <<up, producerVars, bound, sees, idle, timer, draining, crashes, disturbed, handled>>

(* Faulty variant: a record is acknowledged as it is received. *)
TakeAndAcknowledge(p) ==
  /\ pc = "waiting"
  /\ up
  /\ \E m \in Oldest(p) : Without({m}) /\ last' = {m}
  /\ pc' = "got"
  /\ LeaveTurn
  /\ UNCHANGED <<up, producerVars, bound, timer, draining, crashes, disturbed, handled>>

(* The next message of one of the partitions is handed to the node ... *)
Take(p) ==
  /\ pc = "waiting"
  /\ up
  /\ \E m \in Oldest(p) :
       /\ m.rec \notin Undecodable
       /\ pending' = pending \cup {m.seq}
       /\ last' = {m}
  /\ pc' = "got"
  /\ LeaveTurn
  /\ UNCHANGED <<up, stored, nextSeq, producerVars, bound, timer, draining, crashes,
                 disturbed, handled>>

(* ... or, when it does not decode, acknowledged and skipped. *)
SkipUndecodable(p) ==
  /\ pc = "waiting"
  /\ up
  /\ \E m \in Oldest(p) : m.rec \in Undecodable /\ Without({m})
  /\ Turn
  /\ UNCHANGED <<up, producerVars, bound, last, timer, draining, crashes, disturbed, handled>>

(* The client holds messages it has pulled ahead of the node.  Dropped with *)
(* the streams, they are pending until their acks are overdue.             *)
DropPulled ==
  /\ \E ahead \in SUBSET Owned(Index) :
       pending' = pending \cup {m.seq : m \in UNION {Oldest(p) : p \in ahead}}
  /\ disturbed' = TRUE
  /\ UNCHANGED <<stored, nextSeq>>

(* Faulty variant: a failed stream is reported as the end of the input. *)
StreamFailureEnds ==
  /\ pc = "waiting"
  /\ ~up
  /\ bound' = FALSE
  /\ pc' = "closed"
  /\ LeaveTurn
  /\ DropPulled
  /\ UNCHANGED <<up, producerVars, last, timer, draining, crashes, handled>>

(* The message streams fail or end: bind all the partitions again. *)
StreamFails ==
  /\ pc = "waiting"
  /\ ~up
  /\ bound' = FALSE
  /\ pc' = "sleeping"
  /\ LeaveTurn
  /\ DropPulled
  /\ UNCHANGED <<up, producerVars, last, timer, draining, crashes, handled>>

(* The timeout around the wait, which is there if this turn saw the flag. *)
Drained ==
  /\ pc = "waiting"
  /\ sees
  /\ idle = DrainIdle
  /\ pc' = "closed"
  /\ LeaveTurn
  /\ UNCHANGED <<up, streamVars, producerVars, bound, last, timer, draining, crashes,
                 disturbed, handled>>

InRecv == pc \in {"binding", "sleeping", "acking", "waiting"}

(* The node's own timer wins its select: the recv is dropped where it is.  *)
(* It took the message out of `last` before awaiting its ack.              *)
Cancel ==
  /\ CallerTimer > 0
  /\ timer = CallerTimer
  /\ InRecv
  /\ last' = IF pc = "acking" THEN {} ELSE last
  /\ timer' = 0
  /\ pc' = "node"
  /\ LeaveTurn
  /\ UNCHANGED <<up, streamVars, producerVars, bound, draining, crashes, disturbed, handled>>

(* Time passes in recv: the timers run, and one that is due is served first. *)
Tick ==
  /\ InRecv
  /\ ~(pc = "waiting" /\ sees /\ idle = DrainIdle)
  /\ ~(CallerTimer > 0 /\ timer = CallerTimer)
  /\ idle' = IF pc = "waiting" /\ sees THEN idle + 1 ELSE idle
  /\ timer' = IF CallerTimer > 0 THEN timer + 1 ELSE timer
  /\ UNCHANGED <<up, streamVars, producerVars, pc, bound, last, sees, draining,
                 crashes, disturbed, handled>>

(* The node handles the record it received. *)
HandleRecord ==
  /\ pc = "got"
  /\ handled' = handled \cup {m.rec : m \in last}
  /\ pc' = "node"
  /\ UNCHANGED <<up, streamVars, producerVars, bound, last, sees, idle, timer,
                 draining, crashes, disturbed>>

(* begin_drain, or the first shutdown signal. *)
BeginDrain ==
  /\ pc # "connecting"
  /\ ~draining
  /\ draining' = TRUE
  /\ UNCHANGED <<up, streamVars, producerVars, recvVars, crashes, disturbed, handled>>

(* The process dies and is started again. *)
Crash ==
  /\ crashes < MaxCrashes
  /\ crashes' = crashes + 1
  /\ pc' = "connecting"
  /\ bound' = FALSE
  /\ last' = {}
  /\ draining' = FALSE
  /\ LeaveTurn
  /\ timer' = 0
  /\ DropPulled
  /\ UNCHANGED <<up, producerVars, handled>>

-----------------------------------------------------------------------------

ProducerStep == PublishConfirmed \/ (\E key \in Keys : Send(key))

Worker ==
  \/ Provision \/ Recv \/ BindOk \/ BindFails \/ Acknowledge
  \/ StreamFails \/ Drained \/ Cancel \/ HandleRecord

Receive == \E p \in Owned(Index) : Take(p) \/ SkipUndecodable(p)

Next ==
  \/ ProducerStep \/ PublishUncertain
  \/ Outage \/ \E seq \in pending : AckOverdue(seq)
  \/ Worker \/ Receive \/ Tick
  \/ BeginDrain \/ Crash

Spec == Init /\ [][Next]_vars

(* The worker's task runs when it can and its clock advances; an overdue   *)
(* message is redelivered in the end; the merged streams are polled from a *)
(* random one, so each has its turn; the node's timer does not beat the    *)
(* answer to every bind of a NATS that can be reached, or to every ack.  A *)
(* bind that fails can take seconds, and the timer may beat each of them.  *)
Fairness ==
  /\ WF_vars(Worker) /\ WF_vars(Tick)
  /\ SF_vars(BindOk) /\ SF_vars(Acknowledge)
  /\ \A p \in Owned(Index) : SF_vars(Take(p) \/ SkipUndecodable(p))
  /\ WF_vars(\E seq \in pending : AckOverdue(seq))

FairSpec == Spec /\ Fairness

-----------------------------------------------------------------------------
(* Properties. *)

(* The edge is at least once (ADR-0015): what `send` has returned Ok for   *)
(* stays in the stream until the node has handled it, through crashes,     *)
(* outages, lost acks, repeated publishes and dropped recvs.               *)
Edge == INSTANCE AtLeastOnce WITH
  accepted <- accepted,
  queued <- {m.rec : m \in UNION {stored[p] : p \in Parts}},
  handled <- handled

ImplementsAtLeastOnce == Edge!Spec

(* The records of a key are first handled in the order they were sent, as  *)
(* event time downstream relies on, unless messages the client had pulled  *)
(* were dropped by a rebind or a crash and come again later.               *)
HandledInOrder ==
  Keyed /\ ~disturbed =>
    \A r \in handled, q \in accepted :
      q.key = r.key /\ q.n < r.n => q \in handled \cup Undecodable

(* What the node has still to handle of the partitions the worker owns. *)
Owed ==
  {r \in accepted \ (handled \cup Undecodable) : Hash[r.key] % Partitions \in Owned(Index)}

(* With NATS reachable in the end, every record accepted for the worker's  *)
(* partitions is handled, unless the worker drains first.                  *)
EventuallyHandled == <>[]up => (Owed # {} ~> Owed = {} \/ draining)

(* This turn of recv has read the flag, or the next one will. *)
Aware == sees \/ pc \in {"got", "node", "sleeping"}

(* With NATS reachable for good, a drain ends once the worker is aware of  *)
(* it and nothing cuts recv short of DRAIN_IDLE; with NATS unreachable for *)
(* good, unless the node's timer goes on cutting binds short.              *)
AwareDrainCloses ==
  <>[]up \/ (<>[]~up /\ <>[][~Cancel]_vars) =>
    (draining /\ Aware ~> pc = "closed" \/ ~draining)

=============================================================================
