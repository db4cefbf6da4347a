------------------------------ MODULE Pipeline ------------------------------
(***************************************************************************)
(* The runtime: one task per node, joined by the in-process backend's      *)
(* bounded channels, one per output, and the supervisor that watches the   *)
(* tasks, drains on the first shutdown signal, aborts on the second, and   *)
(* stops the inspection server last.                                       *)
(*                                                                         *)
(* Every output has at most one consumer (`validate`), so the graph is a   *)
(* function Feeds from the outputs that are read to their readers; an      *)
(* output outside its domain is one nobody reads, which `validate` accepts *)
(* too.  What the transforms compute is left out (Window and Join model    *)
(* the stateful ones): here a transform forwards a record, drops it, or,   *)
(* if it is in Holding, keeps it until its inputs have closed, as a window *)
(* does at worst.                                                          *)
(***************************************************************************)
EXTENDS Naturals, Sequences, FiniteSets

CONSTANTS
  Sources, Transforms, Sinks,  \* the nodes
  Feeds,        \* the consumer of each output that is read
  Holding,      \* the transforms that keep records until their inputs close
  Cap,          \* capacity of a channel (1024 in the code)
  Watchable,    \* whether the inspection server runs
  MaxRecords    \* bound: records each source produces

Producers == Sources \cup Transforms
Work == Transforms \cup Sinks
Nodes == Producers \cup Sinks

ASSUME PipelineAssumption ==
  /\ IsFiniteSet(Nodes)
  /\ Sources \cap Work = {} /\ Transforms \cap Sinks = {}
  /\ DOMAIN Feeds \subseteq Producers
  /\ Feeds \in [DOMAIN Feeds -> Work]
  /\ Holding \subseteq Transforms
  /\ Cap \in Nat \ {0}
  /\ Watchable \in BOOLEAN
  /\ MaxRecords \in [Sources -> Nat]

VARIABLES
  task,       \* each node's task: "running", "done", "failed" or "aborted"
  chan,       \* the records in each output's channel
  hand,       \* the record a transform is sending, if any
  held,       \* the records a transform keeps
  sourced,    \* how many records each source has sent
  dropped,    \* history: the records transforms dropped
  delivered,  \* the records the sinks have written
  phase,      \* of `run`: "wire", "run", "drain", "stop" or "exited"
  result,     \* what `run` returns: "none" yet, "ok" or "error"
  forced,     \* a second signal has been received
  watching    \* a client has a Watch stream open

nodeVars == <<chan, hand, held, sourced, dropped, delivered>>
supVars == <<phase, result, forced, watching>>
vars == <<task, nodeVars, supVars>>

Record == UNION {[source : {s}, n : 1 .. MaxRecords[s]] : s \in Sources}

TypeOK ==
  /\ task \in [Nodes -> {"running", "done", "failed", "aborted"}]
  /\ chan \in [Producers -> Seq(Record)]
  /\ \A p \in Producers : Len(chan[p]) <= Cap
  /\ hand \in [Transforms -> SUBSET Record]
  /\ \A t \in Transforms : Cardinality(hand[t]) <= 1
  /\ held \in [Transforms -> SUBSET Record]
  /\ sourced \in [Sources -> Nat]
  /\ \A s \in Sources : sourced[s] <= MaxRecords[s]
  /\ dropped \subseteq Record
  /\ delivered \subseteq Record
  /\ phase \in {"wire", "run", "drain", "stop", "exited"}
  /\ result \in {"none", "ok", "error"}
  /\ forced \in BOOLEAN
  /\ watching \in BOOLEAN

Init ==
  /\ task = [n \in Nodes |-> "running"]
  /\ chan = [p \in Producers |-> << >>]
  /\ hand = [t \in Transforms |-> {}]
  /\ held = [t \in Transforms |-> {}]
  /\ sourced = [s \in Sources |-> 0]
  /\ dropped = {}
  /\ delivered = {}
  /\ phase = "wire"
  /\ result = "none"
  /\ forced = FALSE
  /\ watching = FALSE

-----------------------------------------------------------------------------
(* Channels.  A send waits for room and fails once the receiver is gone; a *)
(* recv answers None once the senders are gone and the channel is empty.   *)
(* While the graph is wired the backend keeps a sender of every channel    *)
(* and the receivers nobody has taken.                                     *)

Running(n) == task[n] = "running"

DownstreamGone(p) ==
  IF p \in DOMAIN Feeds THEN ~Running(Feeds[p]) ELSE phase # "wire"

(* Faulty variant: unbounded channels. *)
HasRoomAlways(p) == ~DownstreamGone(p)

HasRoom(p) == ~DownstreamGone(p) /\ Len(chan[p]) < Cap

Inputs(n) == {p \in DOMAIN Feeds : Feeds[p] = n}

(* Faulty variant: the backend keeps its own sender of every channel. *)
InputsHeldOpen(n) == FALSE

InputsClosed(n) ==
  phase # "wire" /\ \A p \in Inputs(n) : ~Running(p) /\ chan[p] = << >>

TaskEnds(n, how) == task' = [task EXCEPT ![n] = how]

-----------------------------------------------------------------------------
(* The nodes' tasks. *)

SourceSends(s) ==
  /\ Running(s)
  /\ sourced[s] < MaxRecords[s]
  /\ HasRoom(s)
  /\ chan' = [chan EXCEPT ![s] = Append(@, [source |-> s, n |-> sourced[s] + 1])]
  /\ sourced' = [sourced EXCEPT ![s] = @ + 1]
  /\ UNCHANGED <<task, hand, held, dropped, delivered, supVars>>

(* The end of the input, or a send that fails because the downstream is gone. *)
SourceEnds(s) ==
  /\ Running(s)
  /\ TaskEnds(s, "done")
  /\ UNCHANGED <<nodeVars, supVars>>

(* A task returns an error, or panics. *)
NodeFails(n) ==
  /\ Running(n)
  /\ TaskEnds(n, "failed")
  /\ UNCHANGED <<nodeVars, supVars>>

(* Take a record from an input, when there is none left to send. *)
Receives(n, p) ==
  /\ Running(n)
  /\ p \in Inputs(n)
  /\ chan[p] # << >>
  /\ chan' = [chan EXCEPT ![p] = Tail(@)]

Forwards(t, p) ==
  /\ Receives(t, p)
  /\ t \notin Holding
  /\ hand[t] = {}
  /\ hand' = [hand EXCEPT ![t] = {Head(chan[p])}]
  /\ UNCHANGED <<task, held, sourced, dropped, delivered, supVars>>

Holds(t, p) ==
  /\ Receives(t, p)
  /\ t \in Holding
  /\ hand[t] = {}
  /\ held' = [held EXCEPT ![t] = @ \cup {Head(chan[p])}]
  /\ UNCHANGED <<task, hand, sourced, dropped, delivered, supVars>>

Drops(t, p) ==
  /\ Receives(t, p)
  /\ hand[t] = {}
  /\ dropped' = dropped \cup {Head(chan[p])}
  /\ UNCHANGED <<task, hand, held, sourced, delivered, supVars>>

Sends(t) ==
  /\ Running(t)
  /\ HasRoom(t)
  /\ \E r \in hand[t] : chan' = [chan EXCEPT ![t] = Append(@, r)]
  /\ hand' = [hand EXCEPT ![t] = {}]
  /\ UNCHANGED <<task, held, sourced, dropped, delivered, supVars>>

(* The final flush, one record at a time. *)
Flushes(t) ==
  /\ Running(t)
  /\ InputsClosed(t)
  /\ hand[t] = {}
  /\ \E r \in held[t] :
       /\ hand' = [hand EXCEPT ![t] = {r}]
       /\ held' = [held EXCEPT ![t] = @ \ {r}]
  /\ UNCHANGED <<task, chan, sourced, dropped, delivered, supVars>>

(* Faulty variant: a transform ends with its inputs, without the final flush. *)
TransformEndsUnflushed(t) ==
  /\ Running(t)
  /\ \/ InputsClosed(t) /\ hand[t] = {}
     \/ DownstreamGone(t) /\ hand[t] # {}
  /\ TaskEnds(t, "done")
  /\ UNCHANGED <<nodeVars, supVars>>

(* Flushed after its inputs closed, or its send failed. *)
TransformEnds(t) ==
  /\ Running(t)
  /\ \/ InputsClosed(t) /\ hand[t] = {} /\ held[t] = {}
     \/ DownstreamGone(t) /\ hand[t] # {}
  /\ TaskEnds(t, "done")
  /\ UNCHANGED <<nodeVars, supVars>>

Writes(k, p) ==
  /\ Receives(k, p)
  /\ k \in Sinks
  /\ delivered' = delivered \cup {Head(chan[p])}
  /\ UNCHANGED <<task, hand, held, sourced, dropped, supVars>>

SinkEnds(k) ==
  /\ Running(k)
  /\ InputsClosed(k)
  /\ TaskEnds(k, "done")
  /\ UNCHANGED <<nodeVars, supVars>>

-----------------------------------------------------------------------------
(* The end of the wiring, the supervisor (supervise_and_drain), and the    *)
(* end of `run`.                                                           *)

(* Every task has been spawned: the backend is dropped, and with it its    *)
(* ends of the channels.                                                   *)
Wired ==
  /\ phase = "wire"
  /\ phase' = "run"
  /\ UNCHANGED <<task, nodeVars, result, forced, watching>>

AllEnded(nodes) == \A n \in nodes : ~Running(n)

Failed(nodes) == \E n \in nodes : task[n] = "failed"

Abort(nodes) ==
  task' = [n \in Nodes |-> IF n \in nodes /\ Running(n) THEN "aborted" ELSE task[n]]

(* Faulty variant: a failure is looked at when every task has ended. *)
SuperviseFailsLate ==
  /\ phase = "run"
  /\ AllEnded(Nodes) /\ Failed(Nodes)
  /\ phase' = "stop"
  /\ result' = "error"
  /\ UNCHANGED <<task, nodeVars, forced, watching>>

(* supervise: a task has failed ... *)
SuperviseFails ==
  /\ phase = "run"
  /\ Failed(Nodes)
  /\ phase' = "stop"
  /\ result' = "error"
  /\ UNCHANGED <<task, nodeVars, forced, watching>>

(* ... or all of them have completed. *)
SuperviseEnds ==
  /\ phase = "run"
  /\ AllEnded(Nodes) /\ ~Failed(Nodes)
  /\ phase' = "stop"
  /\ result' = "ok"
  /\ UNCHANGED <<task, nodeVars, forced, watching>>

(* The first signal: stop the sources and let the graph drain. *)
Signal ==
  /\ phase = "run"
  /\ phase' = "drain"
  /\ Abort(Sources)
  /\ UNCHANGED <<nodeVars, result, forced, watching>>

(* drain: every transform and sink has completed ... *)
DrainEnds ==
  /\ phase = "drain"
  /\ AllEnded(Work) /\ ~Failed(Work)
  /\ phase' = "stop"
  /\ result' = "ok"
  /\ UNCHANGED <<task, nodeVars, forced, watching>>

(* Faulty variant: a task that fails while draining is taken for cancelled. *)
DrainSwallows ==
  /\ phase = "drain"
  /\ Failed(Work)
  /\ phase' = "stop"
  /\ result' = "ok"
  /\ UNCHANGED <<task, nodeVars, forced, watching>>

(* ... or one of them has failed. *)
DrainFails ==
  /\ phase = "drain"
  /\ Failed(Work)
  /\ phase' = "stop"
  /\ result' = "error"
  /\ UNCHANGED <<task, nodeVars, forced, watching>>

(* The second signal: abort what is left. *)
SecondSignal ==
  /\ phase = "drain"
  /\ forced' = TRUE
  /\ phase' = "stop"
  /\ result' = "ok"
  /\ Abort(Work)
  /\ UNCHANGED <<nodeVars, watching>>

(* The inspection server shuts down once no request is in flight; then     *)
(* `run` returns, and the task sets it drops abort what still runs.        *)
Exit ==
  /\ phase = "stop"
  /\ ~watching
  /\ phase' = "exited"
  /\ Abort(Nodes)
  /\ UNCHANGED <<nodeVars, result, forced, watching>>

(* A client opens or closes a Watch stream.  The stream has no other end:  *)
(* the registry keeps a sender of every node's events.                     *)
OpenWatch ==
  /\ Watchable
  /\ ~watching
  /\ phase \in {"run", "drain"}
  /\ watching' = TRUE
  /\ UNCHANGED <<task, nodeVars, phase, result, forced>>

CloseWatch ==
  /\ watching
  /\ watching' = FALSE
  /\ UNCHANGED <<task, nodeVars, phase, result, forced>>

-----------------------------------------------------------------------------

SourceStep(s) == SourceSends(s) \/ SourceEnds(s)

TransformStep(t) ==
  \/ \E p \in Inputs(t) : Forwards(t, p) \/ Holds(t, p) \/ Drops(t, p)
  \/ Sends(t) \/ Flushes(t) \/ TransformEnds(t)

SinkStep(k) == SinkEnds(k) \/ \E p \in Inputs(k) : Writes(k, p)

Supervisor == Wired \/ SuperviseFails \/ SuperviseEnds \/ DrainEnds \/ DrainFails \/ Exit

Next ==
  \/ phase # "exited" /\ \/ \E s \in Sources : SourceStep(s)
                         \/ \E t \in Transforms : TransformStep(t)
                         \/ \E k \in Sinks : SinkStep(k)
                         \/ \E n \in Nodes : NodeFails(n)
  \/ Supervisor \/ Signal \/ SecondSignal
  \/ OpenWatch \/ CloseWatch

Spec == Init /\ [][Next]_vars

(* Every task and the supervisor are scheduled as long as they can run: a  *)
(* sink that writes to standard output does not block for ever.  Sources,  *)
(* signals and watchers do what they like.                                 *)
Fairness ==
  /\ \A t \in Transforms : WF_vars(TransformStep(t))
  /\ \A k \in Sinks : WF_vars(SinkStep(k))
  /\ WF_vars(Supervisor)

FairSpec == Spec /\ Fairness

-----------------------------------------------------------------------------
(* Properties. *)

Sourced == {r \in Record : r.n <= sourced[r.source]}

(* The nodes from which no path leads to an output nobody reads. *)
ReadOn == UNION {P \in SUBSET DOMAIN Feeds : \A p \in P : Feeds[p] \in P \cup Sinks}

(* A run that ends well, on its own or after one signal, has lost nothing  *)
(* that was on its way to a sink: every record of a source in ReadOn was   *)
(* written by a sink or dropped on purpose.                                *)
DrainDelivers ==
  phase = "exited" /\ result = "ok" /\ ~forced =>
    \A r \in Sourced : r.source \in ReadOn => r \in delivered \cup dropped

(* A transform or a sink that fails fails the run, unless it was forced.   *)
WorkErrorSurfaces == phase = "exited" /\ Failed(Work) /\ ~forced => result = "error"

(* A shutdown signal ends the run, whatever the nodes hold, once no client *)
(* keeps a Watch stream open.                                              *)
SignalEndsRun == <>[]~watching => (phase = "drain" ~> phase = "exited")

(* So does the failure of any node, even while sources never end.          *)
FailureEndsRun == <>[]~watching => (Failed(Nodes) ~> phase = "exited")

(* A Watch stream ends when the nodes it watches have exited (the comment  *)
(* on its Closed arm).  It does not: see OpenWatch.                        *)
WatchEndsWithNodes == AllEnded(Nodes) ~> ~watching

=============================================================================
