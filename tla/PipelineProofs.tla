--------------------------- MODULE PipelineProofs ---------------------------
(***************************************************************************)
(* What Pipeline guarantees for every graph in which each output has at    *)
(* most one consumer, every capacity of the channels and every number of   *)
(* records.  That the graph has no cycle is not needed, nor that every     *)
(* output is read: what is said of records is said of the sources in       *)
(* ReadOn.                                                                 *)
(***************************************************************************)
EXTENDS Pipeline, FiniteSetTheorems, TLAPS

-----------------------------------------------------------------------------
(* Graph and records. *)

(* The parts of the graph are made of its nodes. *)
LEMMA GraphType ==
  /\ Sources \subseteq Nodes /\ Transforms \subseteq Nodes /\ Sinks \subseteq Nodes
  /\ Work \subseteq Nodes /\ Producers \subseteq Nodes
  /\ DOMAIN Feeds \subseteq Producers
  /\ \A p \in DOMAIN Feeds : Feeds[p] \in Work
BY PipelineAssumption DEF Nodes, Work, Producers

(* What follows a node from which every path leads to a sink is a sink or  *)
(* such a node.                                                            *)
LEMMA ReadOnGoesOn ==
  ASSUME NEW p \in ReadOn
  PROVE  p \in DOMAIN Feeds /\ Feeds[p] \in ReadOn \cup Sinks
<1>1. PICK P \in SUBSET DOMAIN Feeds : p \in P /\ \A q \in P : Feeds[q] \in P \cup Sinks
  BY DEF ReadOn
<1>2. P \subseteq ReadOn
  BY <1>1 DEF ReadOn
<1>. QED
  BY <1>1, <1>2

(* What a source makes within its bound is a record. *)
LEMMA RecordIs ==
  ASSUME NEW s \in Sources, NEW n \in 1 .. MaxRecords[s]
  PROVE  [source |-> s, n |-> n] \in Record
BY DEF Record

(* A record is its source and its number. *)
LEMMA RecordHas ==
  ASSUME NEW r \in Record
  PROVE  r.source \in Sources /\ r.n \in 1 .. MaxRecords[r.source] /\ r = [source |-> r.source, n |-> r.n]
BY DEF Record

(* A set of no or one element. *)
LEMMA AtMostOne ==
  /\ Cardinality({}) <= 1
  /\ \A r : Cardinality({r}) <= 1
BY FS_EmptySet, FS_Singleton

-----------------------------------------------------------------------------
(* Type correctness. *)

(* A step of a source keeps the types. *)
LEMMA SourceType ==
  ASSUME TypeOK, NEW s \in Sources, SourceStep(s)
  PROVE  TypeOK'
<1>1. CASE SourceSends(s)
  <2>1. /\ sourced[s] \in Nat /\ MaxRecords[s] \in Nat /\ sourced[s] < MaxRecords[s]
        /\ sourced \in [Sources -> Nat]
    BY <1>1, PipelineAssumption DEF SourceSends, TypeOK
  <2>2. [source |-> s, n |-> sourced[s] + 1] \in Record
    <3>1. sourced[s] + 1 \in 1 .. MaxRecords[s]
      BY <2>1
    <3>. QED
      BY <3>1, RecordIs
  <2>3. /\ chan' \in [Producers -> Seq(Record)]
        /\ \A p \in Producers : Len(chan'[p]) <= Cap
    <3>1. s \in Producers /\ chan \in [Producers -> Seq(Record)] /\ chan[s] \in Seq(Record)
      BY DEF Producers, TypeOK
    <3>2. chan' = [chan EXCEPT ![s] = Append(chan[s], [source |-> s, n |-> sourced[s] + 1])]
      BY <1>1 DEF SourceSends
    <3>3. Len(chan[s]) < Cap /\ Cap \in Nat
      BY <1>1, PipelineAssumption DEF SourceSends, HasRoom
    <3>4. ASSUME NEW p \in Producers
          PROVE  chan'[p] \in Seq(Record) /\ Len(chan'[p]) <= Cap
      <4>1. CASE p = s
        BY <2>2, <3>1, <3>2, <3>3, <4>1
      <4>2. CASE p # s
        BY <3>1, <3>2, <4>2 DEF TypeOK
      <4>. QED
        BY <4>1, <4>2
    <3>. QED
      BY <3>1, <3>2, <3>4
  <2>4. sourced' \in [Sources -> Nat] /\ \A x \in Sources : sourced'[x] <= MaxRecords[x]
    BY <1>1, <2>1 DEF SourceSends, TypeOK
  <2>. QED
    BY <1>1, <2>3, <2>4 DEF SourceSends, supVars, TypeOK
<1>2. CASE SourceEnds(s)
  BY <1>2 DEF SourceEnds, TaskEnds, nodeVars, supVars, TypeOK
<1>. QED
  BY <1>1, <1>2 DEF SourceStep

(* What a task takes off an input is a record, and the input stays within  *)
(* its capacity.                                                           *)
LEMMA ReceivesType ==
  ASSUME TypeOK, NEW n, NEW p, Receives(n, p)
  PROVE  /\ p \in Producers /\ Running(n) /\ Feeds[p] = n
         /\ p \in DOMAIN Feeds /\ Head(chan[p]) \in Record
         /\ chan' \in [Producers -> Seq(Record)]
         /\ \A q \in Producers : Len(chan'[q]) <= Cap
<1>1. p \in Producers /\ Running(n) /\ Feeds[p] = n /\ chan[p] # << >>
      /\ chan' = [chan EXCEPT ![p] = Tail(chan[p])]
  BY GraphType DEF Receives, Inputs
<1>2. chan[p] \in Seq(Record) /\ chan \in [Producers -> Seq(Record)]
  BY <1>1 DEF TypeOK
<1>3. /\ Head(chan[p]) \in Record /\ Tail(chan[p]) \in Seq(Record)
      /\ Len(Tail(chan[p])) = Len(chan[p]) - 1 /\ Len(chan[p]) \in Nat
  BY <1>1, <1>2
<1>4. ASSUME NEW q \in Producers
      PROVE  Len(chan'[q]) <= Cap
  <2>1. CASE q = p
    <3>1. Len(chan'[q]) = Len(chan[p]) - 1
      BY <1>1, <1>2, <1>3, <2>1
    <3>2. Len(chan[p]) <= Cap /\ Cap \in Nat
      BY <1>1, PipelineAssumption DEF TypeOK
    <3>. QED
      BY <1>3, <3>1, <3>2
  <2>2. CASE q # p
    BY <1>1, <1>2, <2>2 DEF TypeOK
  <2>. QED
    BY <2>1, <2>2
<1>. QED
  BY <1>1, <1>2, <1>3, <1>4 DEF Receives, Inputs

(* A send of a transform keeps the types. *)
LEMMA SendsType ==
  ASSUME TypeOK, NEW t \in Transforms, Sends(t)
  PROVE  TypeOK'
<1>1. PICK r \in hand[t] : chan' = [chan EXCEPT ![t] = Append(chan[t], r)]
  BY DEF Sends
<1>2. r \in Record /\ t \in Producers /\ Len(chan[t]) < Cap /\ Cap \in Nat
      /\ chan[t] \in Seq(Record) /\ chan \in [Producers -> Seq(Record)]
  BY PipelineAssumption DEF Sends, HasRoom, Producers, TypeOK
<1>3. ASSUME NEW q \in Producers
      PROVE  chan'[q] \in Seq(Record) /\ Len(chan'[q]) <= Cap
  <2>1. CASE q = t
    BY <1>1, <1>2, <2>1
  <2>2. CASE q # t
    BY <1>1, <1>2, <2>2 DEF TypeOK
  <2>. QED
    BY <2>1, <2>2
<1>4. chan' \in [Producers -> Seq(Record)]
  BY <1>1, <1>2, <1>3
<1>5. hand' \in [Transforms -> SUBSET Record] /\ \A x \in Transforms : Cardinality(hand'[x]) <= 1
  BY AtMostOne DEF Sends, TypeOK
<1>. QED
  BY <1>3, <1>4, <1>5 DEF Sends, supVars, TypeOK

(* A step of a transform keeps the types. *)
LEMMA TransformType ==
  ASSUME TypeOK, NEW t \in Transforms, TransformStep(t)
  PROVE  TypeOK'
<1>1. ASSUME NEW p \in Inputs(t), Forwards(t, p)
      PROVE  TypeOK'
  <2>1. Head(chan[p]) \in Record /\ hand' = [hand EXCEPT ![t] = {Head(chan[p])}]
    BY <1>1, ReceivesType DEF Forwards
  <2>2. hand' \in [Transforms -> SUBSET Record] /\ \A x \in Transforms : Cardinality(hand'[x]) <= 1
    BY <2>1, AtMostOne DEF TypeOK
  <2>. QED
    BY <1>1, <2>2, ReceivesType DEF Forwards, supVars, TypeOK
<1>2. ASSUME NEW p \in Inputs(t), Holds(t, p)
      PROVE  TypeOK'
  <2>1. Head(chan[p]) \in Record /\ held' = [held EXCEPT ![t] = @ \cup {Head(chan[p])}]
    BY <1>2, ReceivesType DEF Holds
  <2>2. held' \in [Transforms -> SUBSET Record]
    BY <2>1 DEF TypeOK
  <2>. QED
    BY <1>2, <2>2, ReceivesType DEF Holds, supVars, TypeOK
<1>3. ASSUME NEW p \in Inputs(t), Drops(t, p)
      PROVE  TypeOK'
  <2>1. dropped' \subseteq Record
    BY <1>3, ReceivesType DEF Drops, TypeOK
  <2>. QED
    BY <1>3, <2>1, ReceivesType DEF Drops, supVars, TypeOK
<1>4. CASE Sends(t)
  BY <1>4, SendsType
<1>5. CASE Flushes(t)
  <2>1. PICK r \in held[t] : /\ hand' = [hand EXCEPT ![t] = {r}]
                             /\ held' = [held EXCEPT ![t] = @ \ {r}]
    BY <1>5 DEF Flushes
  <2>2. r \in Record
    BY DEF TypeOK
  <2>3. hand' \in [Transforms -> SUBSET Record] /\ \A x \in Transforms : Cardinality(hand'[x]) <= 1
    BY <2>1, <2>2, AtMostOne DEF TypeOK
  <2>4. held' \in [Transforms -> SUBSET Record]
    BY <2>1 DEF TypeOK
  <2>. QED
    BY <1>5, <2>3, <2>4 DEF Flushes, supVars, TypeOK
<1>6. CASE TransformEnds(t)
  BY <1>6, GraphType DEF TransformEnds, TaskEnds, nodeVars, supVars, TypeOK
<1>. QED
  BY <1>1, <1>2, <1>3, <1>4, <1>5, <1>6 DEF TransformStep

(* A step of a sink keeps the types. *)
LEMMA SinkType ==
  ASSUME TypeOK, NEW k \in Sinks, SinkStep(k)
  PROVE  TypeOK'
<1>1. ASSUME NEW p \in Inputs(k), Writes(k, p)
      PROVE  TypeOK'
  <2>1. delivered' \subseteq Record
    BY <1>1, ReceivesType DEF Writes, TypeOK
  <2>. QED
    BY <1>1, <2>1, ReceivesType DEF Writes, supVars, TypeOK
<1>2. CASE SinkEnds(k)
  BY <1>2 DEF SinkEnds, TaskEnds, nodeVars, supVars, TypeOK
<1>. QED
  BY <1>1, <1>2 DEF SinkStep

(* An abort leaves each task in one of its states. *)
LEMMA AbortType ==
  ASSUME TypeOK, NEW nodes, Abort(nodes)
  PROVE  task' \in [Nodes -> {"running", "done", "failed", "aborted"}]
BY DEF Abort, TypeOK

(* Every step keeps the types. *)
LEMMA StepType ==
  ASSUME TypeOK, [Next]_vars
  PROVE  TypeOK'
<1>1. ASSUME NEW n \in Nodes, NodeFails(n)
      PROVE  TypeOK'
  BY <1>1 DEF NodeFails, TaskEnds, nodeVars, supVars, TypeOK
<1>2. CASE Supervisor
  <2>6. CASE Wired
    BY <2>6 DEF Wired, nodeVars, TypeOK
  <2>1. CASE SuperviseFails
    BY <2>1 DEF SuperviseFails, nodeVars, TypeOK
  <2>2. CASE SuperviseEnds
    BY <2>2 DEF SuperviseEnds, nodeVars, TypeOK
  <2>3. CASE DrainEnds
    BY <2>3 DEF DrainEnds, nodeVars, TypeOK
  <2>4. CASE DrainFails
    BY <2>4 DEF DrainFails, nodeVars, TypeOK
  <2>5. CASE Exit
    BY <2>5, AbortType DEF Exit, nodeVars, TypeOK
  <2>. QED
    BY <1>2, <2>1, <2>2, <2>3, <2>4, <2>5, <2>6 DEF Supervisor
<1>3. CASE Signal
  BY <1>3, AbortType DEF Signal, nodeVars, TypeOK
<1>4. CASE SecondSignal
  BY <1>4, AbortType DEF SecondSignal, nodeVars, TypeOK
<1>5. CASE OpenWatch \/ CloseWatch
  BY <1>5 DEF OpenWatch, CloseWatch, nodeVars, TypeOK
<1>6. CASE UNCHANGED vars
  BY <1>6 DEF vars, nodeVars, supVars, TypeOK
<1>. QED
  BY <1>1, <1>2, <1>3, <1>4, <1>5, <1>6, SourceType, TransformType, SinkType DEF Next

(* The initial state is well typed. *)
LEMMA InitType == Init => TypeOK
<1>. SUFFICES ASSUME Init PROVE TypeOK
  OBVIOUS
<1>1. /\ chan \in [Producers -> Seq(Record)]
      /\ \A p \in Producers : Len(chan[p]) <= Cap
  BY PipelineAssumption DEF Init
<1>2. /\ hand \in [Transforms -> SUBSET Record] /\ held \in [Transforms -> SUBSET Record]
      /\ \A t \in Transforms : Cardinality(hand[t]) <= 1
  BY AtMostOne DEF Init
<1>3. sourced \in [Sources -> Nat] /\ \A s \in Sources : sourced[s] <= MaxRecords[s]
  BY PipelineAssumption DEF Init
<1>4. task \in [Nodes -> {"running", "done", "failed", "aborted"}]
  BY DEF Init
<1>. QED
  BY <1>1, <1>2, <1>3, <1>4 DEF Init, TypeOK

(* Every state of the runtime is well typed; no channel exceeds its        *)
(* capacity and no transform has two records in hand.                      *)
THEOREM TypeCorrect == Spec => []TypeOK
BY InitType, StepType, PTL DEF Spec

-----------------------------------------------------------------------------
(* The inductive invariant.                                                *)

(* Where a record can be between the source that sent it and a sink. *)
Chan(p) == {chan[p][k] : k \in DOMAIN chan[p]}

Queued == UNION {Chan(p) : p \in Producers}

Kept == UNION {hand[t] \cup held[t] : t \in Transforms}

InFlight == Queued \cup Kept

Conserved == Sourced = delivered \cup dropped \cup InFlight

HandIsOne == \A t \in Transforms : \A r \in hand[t] : hand[t] = {r}

(* The records of a source in ReadOn are where the way leads to a sink. *)
OnTheWay ==
  /\ \A p \in Producers : \A r \in Chan(p) : r.source \in ReadOn => p \in ReadOn
  /\ \A t \in Transforms : \A r \in hand[t] \cup held[t] : r.source \in ReadOn => t \in ReadOn

(* The transforms and sinks on such a way. *)
Served == (ReadOn \cap Transforms) \cup Sinks

(* As long as no transform or sink has failed or been aborted, one of these *)
(* that has ended left nothing behind, and its inputs had ended before it: *)
(* a send of theirs can only fail because a task further down failed.      *)
EndsEmpty ==
  (\A n \in Work : task[n] \in {"running", "done"}) =>
    \A n \in Served : task[n] = "done" =>
      /\ InputsClosed(n)
      /\ n \in Transforms => hand[n] = {} /\ held[n] = {}

(* Only a second signal, or the end of the run, aborts a transform or sink. *)
AbortedLate == \A n \in Work : task[n] = "aborted" => forced \/ phase = "exited"

ResultLate ==
  /\ phase \in {"wire", "run", "drain"} => result = "none"
  /\ phase \in {"stop", "exited"} => result \in {"ok", "error"}

(* A run that ends well without being forced ends after its work has. *)
EndsWell ==
  phase \in {"stop", "exited"} /\ result = "ok" /\ ~forced =>
    \A n \in Work : task[n] = "done"

IInv ==
  /\ TypeOK
  /\ Conserved
  /\ HandIsOne
  /\ OnTheWay
  /\ EndsEmpty
  /\ AbortedLate
  /\ ResultLate
  /\ EndsWell

-----------------------------------------------------------------------------
(* Nothing is lost on the way. *)

(* A record in flight is in a channel, in a hand or held by a transform. *)
LEMMA InFlightIs ==
  \A r : r \in InFlight <=> \/ \E p \in Producers : r \in Chan(p)
                            \/ \E t \in Transforms : r \in hand[t] \cup held[t]
<1>1. \A r : r \in Queued <=> \E p \in Producers : r \in Chan(p)
  BY DEF Queued
<1>2. \A r : r \in Kept <=> \E t \in Transforms : r \in hand[t] \cup held[t]
  BY DEF Kept
<1>3. \A r : r \in InFlight <=> r \in Queued \/ r \in Kept
  BY DEF InFlight
<1>. QED
  BY <1>1, <1>2, <1>3

(* The same of the next state. *)
LEMMA InFlightNext ==
  \A r : r \in InFlight' <=> \/ \E p \in Producers : r \in Chan(p)'
                             \/ \E t \in Transforms : r \in hand'[t] \cup held'[t]
<1>1. \A r : r \in Queued' <=> \E p \in Producers : r \in Chan(p)'
  BY DEF Queued
<1>2. \A r : r \in Kept' <=> \E t \in Transforms : r \in hand'[t] \cup held'[t]
  BY DEF Kept
<1>3. \A r : r \in InFlight' <=> r \in Queued' \/ r \in Kept'
  BY DEF InFlight
<1>. QED
  BY <1>1, <1>2, <1>3

(* Receiving takes the head off one channel, and leaves the others alone. *)
LEMMA ReceivesMoves ==
  ASSUME TypeOK, NEW n, NEW p, Receives(n, p)
  PROVE  /\ p \in Producers /\ Running(n)
         /\ Chan(p) = Chan(p)' \cup {Head(chan[p])}
         /\ \A q \in Producers : q # p => Chan(q)' = Chan(q)
         /\ \A q \in Producers : chan[q] = << >> => chan'[q] = << >>
<1>1. p \in Producers /\ Running(n) /\ chan[p] # << >> /\ chan' = [chan EXCEPT ![p] = Tail(chan[p])]
  BY GraphType DEF Receives, Inputs
<1>2. chan[p] \in Seq(Record) /\ chan \in [Producers -> Seq(Record)]
  BY <1>1 DEF TypeOK
<1>. DEFINE m == Len(chan[p])
<1>3. /\ chan'[p] = Tail(chan[p]) /\ m \in Nat \ {0}
      /\ DOMAIN chan[p] = 1 .. m /\ DOMAIN chan'[p] = 1 .. (m - 1)
      /\ Head(chan[p]) = chan[p][1]
      /\ \A k \in 1 .. (m - 1) : chan'[p][k] = chan[p][k + 1]
  BY <1>1, <1>2
<1>. HIDE DEF m
<1>4. ASSUME NEW r \in Chan(p)
      PROVE  r \in Chan(p)' \cup {Head(chan[p])}
  <2>1. PICK k \in 1 .. m : r = chan[p][k]
    BY <1>3 DEF Chan
  <2>2. CASE k = 1
    BY <1>3, <2>1, <2>2
  <2>3. CASE k # 1
    <3>1. k - 1 \in 1 .. (m - 1) /\ r = chan'[p][k - 1]
      BY <1>3, <2>1, <2>3
    <3>. QED
      BY <1>3, <3>1 DEF Chan
  <2>. QED
    BY <2>2, <2>3
<1>5. ASSUME NEW r \in Chan(p)'
      PROVE  r \in Chan(p)
  <2>1. PICK k \in 1 .. (m - 1) : r = chan'[p][k]
    BY <1>3 DEF Chan
  <2>2. k + 1 \in 1 .. m /\ r = chan[p][k + 1]
    BY <1>3, <2>1
  <2>. QED
    BY <1>3, <2>2 DEF Chan
<1>6. Head(chan[p]) \in Chan(p)
  BY <1>3 DEF Chan
<1>7. \A q \in Producers : q # p => chan'[q] = chan[q]
  BY <1>1, <1>2
<1>8. \A q \in Producers : q # p => Chan(q)' = Chan(q)
  BY <1>7 DEF Chan
<1>. QED
  BY <1>1, <1>4, <1>5, <1>6, <1>7, <1>8

(* Appending to a channel adds to it and to no other. *)
LEMMA AppendMoves ==
  ASSUME TypeOK, NEW p \in Producers, NEW r \in Record,
         chan' = [chan EXCEPT ![p] = Append(chan[p], r)]
  PROVE  /\ Chan(p)' = Chan(p) \cup {r}
         /\ \A q \in Producers : q # p => Chan(q)' = Chan(q) /\ chan'[q] = chan[q]
<1>1. chan[p] \in Seq(Record) /\ chan \in [Producers -> Seq(Record)]
  BY DEF TypeOK
<1>2. /\ Len(chan[p]) \in Nat
      /\ DOMAIN chan[p] = 1 .. Len(chan[p]) /\ DOMAIN chan'[p] = 1 .. (Len(chan[p]) + 1)
      /\ chan'[p][Len(chan[p]) + 1] = r
      /\ \A k \in 1 .. Len(chan[p]) : chan'[p][k] = chan[p][k]
  BY <1>1
<1>3. /\ Chan(p)' = {chan'[p][k] : k \in 1 .. (Len(chan[p]) + 1)}
      /\ Chan(p) = {chan[p][k] : k \in 1 .. Len(chan[p])}
  BY <1>2 DEF Chan
<1>4. Chan(p)' = Chan(p) \cup {r}
  BY <1>2, <1>3
<1>5. \A q \in Producers : q # p => chan'[q] = chan[q]
  BY <1>1
<1>. QED
  BY <1>4, <1>5 DEF Chan

(* The records in flight are the same when no channel, hand or hold is touched. *)
LEMMA InFlightStays ==
  ASSUME chan' = chan, hand' = hand, held' = held
  PROVE  InFlight' = InFlight
<1>1. \A p : Chan(p)' = Chan(p)
  BY DEF Chan
<1>. QED
  BY <1>1, InFlightIs, InFlightNext

(* What a source sends is in flight. *)
LEMMA SourceConserves ==
  ASSUME TypeOK, Conserved, NEW s \in Sources, SourceSends(s)
  PROVE  Conserved'
<1>. DEFINE new == [source |-> s, n |-> sourced[s] + 1]
<1>1. /\ sourced[s] \in Nat /\ sourced \in [Sources -> Nat]
      /\ sourced' = [sourced EXCEPT ![s] = sourced[s] + 1]
      /\ chan' = [chan EXCEPT ![s] = Append(chan[s], new)]
      /\ hand' = hand /\ held' = held /\ delivered' = delivered /\ dropped' = dropped
      /\ s \in Producers
      /\ sourced[s] < MaxRecords[s] /\ MaxRecords[s] \in Nat
  BY PipelineAssumption DEF SourceSends, TypeOK, Producers
<1>2. sourced[s] + 1 \in 1 .. MaxRecords[s]
  BY <1>1
<1>3. new \in Record /\ new.source = s /\ new.n = sourced[s] + 1
  BY <1>2, RecordIs
<1>4. Sourced' = Sourced \cup {new}
  <2>1. ASSUME NEW r \in Record
        PROVE  r.n <= sourced'[r.source] <=> r.n <= sourced[r.source] \/ r = new
    <3>1. r.source \in Sources /\ r.n \in 1 .. MaxRecords[r.source] /\ r = [source |-> r.source, n |-> r.n]
          /\ MaxRecords[r.source] \in Nat
      BY RecordHas, PipelineAssumption
    <3>2. CASE r.source # s
      BY <1>1, <1>3, <3>1, <3>2
    <3>3. CASE r.source = s
      BY <1>1, <1>3, <3>1, <3>3
    <3>. QED
      BY <3>2, <3>3
  <2>. HIDE DEF new
  <2>. QED
    BY <1>3, <2>1 DEF Sourced
<1>. HIDE DEF new
<1>5. /\ Chan(s)' = Chan(s) \cup {new}
      /\ \A q \in Producers : q # s => Chan(q)' = Chan(q)
  BY <1>1, <1>3, AppendMoves
<1>6. InFlight' = InFlight \cup {new}
  BY <1>1, <1>5, InFlightIs, InFlightNext
<1>. QED
  BY <1>1, <1>4, <1>6 DEF Conserved

(* A record that moves from a channel to the task that reads it is still in flight. *)
LEMMA MoveKeeps ==
  ASSUME NEW p \in Producers, NEW t \in Transforms, NEW r,
         Chan(p) = Chan(p)' \cup {r},
         \A q \in Producers : q # p => Chan(q)' = Chan(q),
         hand'[t] \cup held'[t] = hand[t] \cup held[t] \cup {r},
         \A x \in Transforms : x # t => hand'[x] \cup held'[x] = hand[x] \cup held[x]
  PROVE  InFlight' = InFlight
<1>1. ASSUME NEW x \in InFlight
      PROVE  x \in InFlight'
  BY InFlightIs, InFlightNext
<1>2. ASSUME NEW x \in InFlight'
      PROVE  x \in InFlight
  BY InFlightIs, InFlightNext
<1>. QED
  BY <1>1, <1>2

(* A transform moves a record or drops it, and loses none. *)
LEMMA TransformConserves ==
  ASSUME TypeOK, Conserved, HandIsOne, NEW t \in Transforms, TransformStep(t)
  PROVE  Conserved' /\ HandIsOne'
<1>. /\ hand \in [Transforms -> SUBSET Record] /\ held \in [Transforms -> SUBSET Record]
     /\ t \in Producers
  BY DEF TypeOK, Producers
<1>1. ASSUME NEW p \in Inputs(t), Forwards(t, p)
      PROVE  Conserved' /\ HandIsOne'
  <2>1. /\ Receives(t, p) /\ hand[t] = {} /\ hand' = [hand EXCEPT ![t] = {Head(chan[p])}]
        /\ held' = held /\ sourced' = sourced /\ dropped' = dropped /\ delivered' = delivered
    BY <1>1 DEF Forwards
  <2>2. /\ p \in Producers /\ Chan(p) = Chan(p)' \cup {Head(chan[p])}
        /\ \A q \in Producers : q # p => Chan(q)' = Chan(q)
    BY <2>1, ReceivesMoves
  <2>3. /\ hand'[t] \cup held'[t] = hand[t] \cup held[t] \cup {Head(chan[p])}
        /\ \A x \in Transforms : x # t => hand'[x] \cup held'[x] = hand[x] \cup held[x]
    BY <2>1
  <2>4. InFlight' = InFlight
    BY <2>2, <2>3, MoveKeeps
  <2>. QED
    BY <2>1, <2>4 DEF Conserved, Sourced, HandIsOne
<1>2. ASSUME NEW p \in Inputs(t), Holds(t, p)
      PROVE  Conserved' /\ HandIsOne'
  <2>1. /\ Receives(t, p) /\ held' = [held EXCEPT ![t] = held[t] \cup {Head(chan[p])}]
        /\ hand' = hand /\ sourced' = sourced /\ dropped' = dropped /\ delivered' = delivered
    BY <1>2 DEF Holds
  <2>2. /\ p \in Producers /\ Chan(p) = Chan(p)' \cup {Head(chan[p])}
        /\ \A q \in Producers : q # p => Chan(q)' = Chan(q)
    BY <2>1, ReceivesMoves
  <2>3. /\ hand'[t] \cup held'[t] = hand[t] \cup held[t] \cup {Head(chan[p])}
        /\ \A x \in Transforms : x # t => hand'[x] \cup held'[x] = hand[x] \cup held[x]
    BY <2>1
  <2>4. InFlight' = InFlight
    BY <2>2, <2>3, MoveKeeps
  <2>. QED
    BY <2>1, <2>4 DEF Conserved, Sourced, HandIsOne
<1>3. ASSUME NEW p \in Inputs(t), Drops(t, p)
      PROVE  Conserved' /\ HandIsOne'
  <2>1. /\ Receives(t, p) /\ dropped' = dropped \cup {Head(chan[p])}
        /\ hand' = hand /\ held' = held /\ sourced' = sourced /\ delivered' = delivered
    BY <1>3 DEF Drops
  <2>2. InFlight = InFlight' \cup {Head(chan[p])}
    BY <2>1, ReceivesMoves, InFlightIs, InFlightNext
  <2>. QED
    BY <2>1, <2>2 DEF Conserved, Sourced, HandIsOne
<1>4. CASE Sends(t)
  <2>1. PICK r \in hand[t] : chan' = [chan EXCEPT ![t] = Append(chan[t], r)]
    BY <1>4 DEF Sends
  <2>2. /\ hand' = [hand EXCEPT ![t] = {}]
        /\ held' = held /\ sourced' = sourced /\ dropped' = dropped /\ delivered' = delivered
    BY <1>4 DEF Sends
  <2>3. r \in Record /\ hand[t] = {r}
    BY DEF HandIsOne
  <2>4. /\ Chan(t)' = Chan(t) \cup {r}
        /\ \A q \in Producers : q # t => Chan(q)' = Chan(q)
    BY <2>1, <2>3, AppendMoves
  <2>5. /\ hand[t] \cup held[t] = (hand'[t] \cup held'[t]) \cup {r}
        /\ \A x \in Transforms : x # t => hand'[x] \cup held'[x] = hand[x] \cup held[x]
    BY <2>2, <2>3
  <2>6. InFlight' = InFlight
    <3>1. ASSUME NEW x \in InFlight
          PROVE  x \in InFlight'
      BY <2>4, <2>5, InFlightIs, InFlightNext
    <3>2. ASSUME NEW x \in InFlight'
          PROVE  x \in InFlight
      BY <2>4, <2>5, InFlightIs, InFlightNext
    <3>. QED
      BY <3>1, <3>2
  <2>. QED
    BY <2>2, <2>6 DEF Conserved, Sourced, HandIsOne
<1>5. CASE Flushes(t)
  <2>1. PICK r \in held[t] : /\ hand' = [hand EXCEPT ![t] = {r}]
                             /\ held' = [held EXCEPT ![t] = held[t] \ {r}]
    BY <1>5 DEF Flushes
  <2>2. /\ chan' = chan /\ hand[t] = {}
        /\ sourced' = sourced /\ dropped' = dropped /\ delivered' = delivered
    BY <1>5 DEF Flushes
  <2>3. \A q : Chan(q)' = Chan(q)
    BY <2>2 DEF Chan
  <2>4. InFlight' = InFlight
    BY <2>1, <2>2, <2>3, InFlightIs, InFlightNext
  <2>. QED
    BY <2>1, <2>2, <2>4 DEF Conserved, Sourced, HandIsOne
<1>6. CASE TransformEnds(t)
  BY <1>6, InFlightStays DEF TransformEnds, nodeVars, Conserved, Sourced, HandIsOne
<1>. QED
  BY <1>1, <1>2, <1>3, <1>4, <1>5, <1>6 DEF TransformStep

(* What a sink takes from its channel it writes. *)
LEMMA SinkConserves ==
  ASSUME TypeOK, Conserved, NEW k \in Sinks, NEW p, Writes(k, p)
  PROVE  Conserved'
<1>1. /\ Receives(k, p) /\ delivered' = delivered \cup {Head(chan[p])}
      /\ hand' = hand /\ held' = held /\ sourced' = sourced /\ dropped' = dropped
  BY DEF Writes
<1>2. InFlight = InFlight' \cup {Head(chan[p])}
  BY <1>1, ReceivesMoves, InFlightIs, InFlightNext
<1>. QED
  BY <1>1, <1>2 DEF Conserved, Sourced

(* Every step keeps each record made in a place. *)
LEMMA StepConserves ==
  ASSUME TypeOK, Conserved, HandIsOne, [Next]_vars
  PROVE  Conserved' /\ HandIsOne'
<1>1. ASSUME UNCHANGED nodeVars
      PROVE  Conserved' /\ HandIsOne'
  BY <1>1, InFlightStays DEF nodeVars, Conserved, Sourced, HandIsOne
<1>2. ASSUME NEW s \in Sources, SourceStep(s)
      PROVE  Conserved' /\ HandIsOne'
  <2>1. CASE SourceSends(s)
    BY <2>1, SourceConserves DEF SourceSends, HandIsOne
  <2>2. CASE SourceEnds(s)
    BY <1>1, <2>2 DEF SourceEnds
  <2>. QED
    BY <1>2, <2>1, <2>2 DEF SourceStep
<1>3. ASSUME NEW k \in Sinks, SinkStep(k)
      PROVE  Conserved' /\ HandIsOne'
  <2>1. ASSUME NEW p \in Inputs(k), Writes(k, p)
        PROVE  Conserved' /\ HandIsOne'
    BY <2>1, SinkConserves DEF Writes, HandIsOne
  <2>2. CASE SinkEnds(k)
    BY <1>1, <2>2 DEF SinkEnds
  <2>. QED
    BY <1>3, <2>1, <2>2 DEF SinkStep
<1>4. ASSUME \E n \in Nodes : NodeFails(n)
      PROVE  Conserved' /\ HandIsOne'
  BY <1>1, <1>4 DEF NodeFails
<1>5. CASE Supervisor \/ Signal \/ SecondSignal \/ OpenWatch \/ CloseWatch
  BY <1>1, <1>5 DEF Supervisor, Wired, SuperviseFails, SuperviseEnds, DrainEnds, DrainFails, Exit,
                    Signal, SecondSignal, OpenWatch, CloseWatch
<1>6. CASE UNCHANGED vars
  BY <1>1, <1>6 DEF vars
<1>. QED
  BY <1>2, <1>3, <1>4, <1>5, <1>6, TransformConserves DEF Next

-----------------------------------------------------------------------------
(* A record stays on its way to a sink. *)

(* Receiving takes a record of a source in ReadOn to a node on the way. *)
LEMMA ReceivesOnTheWay ==
  ASSUME TypeOK, OnTheWay, NEW t \in Transforms, NEW p \in Inputs(t), Receives(t, p),
         Head(chan[p]).source \in ReadOn
  PROVE  t \in ReadOn
<1>1. p \in Producers /\ Head(chan[p]) \in Chan(p) /\ Feeds[p] = t
  BY ReceivesMoves, ReceivesType
<1>2. p \in ReadOn
  BY <1>1 DEF OnTheWay
<1>3. Feeds[p] \in ReadOn \cup Sinks /\ t \notin Sinks
  BY <1>2, ReadOnGoesOn, PipelineAssumption
<1>. QED
  BY <1>1, <1>3

(* A step of a transform keeps each record on its way. *)
LEMMA TransformOnTheWay ==
  ASSUME TypeOK, HandIsOne, OnTheWay, NEW t \in Transforms, TransformStep(t)
  PROVE  OnTheWay'
<1>. /\ hand \in [Transforms -> SUBSET Record] /\ held \in [Transforms -> SUBSET Record]
     /\ t \in Producers
  BY DEF TypeOK, Producers
<1>1. ASSUME NEW p \in Inputs(t), Forwards(t, p) \/ Holds(t, p) \/ Drops(t, p)
      PROVE  OnTheWay'
  <2>1. Receives(t, p)
    BY <1>1 DEF Forwards, Holds, Drops
  <2>2. \A q \in Producers : Chan(q)' \subseteq Chan(q)
    BY <2>1, ReceivesMoves
  <2>3. \A y \in Transforms :
          \A r \in hand'[y] \cup held'[y] :
            r \in hand[y] \cup held[y] \/ (y = t /\ r = Head(chan[p]))
    <3>1. CASE Forwards(t, p)
      BY <3>1 DEF Forwards
    <3>2. CASE Holds(t, p)
      BY <3>2 DEF Holds
    <3>3. CASE Drops(t, p)
      BY <3>3 DEF Drops
    <3>. QED
      BY <1>1, <3>1, <3>2, <3>3
  <2>4. Head(chan[p]).source \in ReadOn => t \in ReadOn
    BY <2>1, ReceivesOnTheWay
  <2>. QED
    BY <2>2, <2>3, <2>4 DEF OnTheWay
<1>2. CASE Sends(t)
  <2>1. PICK r \in hand[t] : chan' = [chan EXCEPT ![t] = Append(chan[t], r)]
    BY <1>2 DEF Sends
  <2>2. hand' = [hand EXCEPT ![t] = {}] /\ held' = held /\ r \in Record
    BY <1>2 DEF Sends
  <2>3. \A q \in Producers : \A x \in Chan(q)' : x \in Chan(q) \/ (q = t /\ x = r)
    <3>1. Chan(t)' = Chan(t) \cup {r} /\ \A q \in Producers : q # t => Chan(q)' = Chan(q)
      BY <2>1, <2>2, AppendMoves
    <3>. QED
      BY <3>1
  <2>4. \A y \in Transforms : hand'[y] \cup held'[y] \subseteq hand[y] \cup held[y]
    BY <2>2
  <2>. QED
    BY <2>3, <2>4 DEF OnTheWay
<1>3. CASE Flushes(t)
  <2>1. PICK r \in held[t] : /\ hand' = [hand EXCEPT ![t] = {r}]
                             /\ held' = [held EXCEPT ![t] = held[t] \ {r}]
    BY <1>3 DEF Flushes
  <2>2. \A q : Chan(q)' = Chan(q)
    BY <1>3 DEF Flushes, Chan
  <2>3. \A y \in Transforms : hand'[y] \cup held'[y] \subseteq hand[y] \cup held[y]
    BY <2>1
  <2>. QED
    BY <2>2, <2>3 DEF OnTheWay
<1>4. CASE TransformEnds(t)
  BY <1>4 DEF TransformEnds, nodeVars, OnTheWay, Chan
<1>. QED
  BY <1>1, <1>2, <1>3, <1>4 DEF TransformStep

(* Every step keeps each record on its way. *)
LEMMA StepOnTheWay ==
  ASSUME TypeOK, HandIsOne, OnTheWay, [Next]_vars
  PROVE  OnTheWay'
<1>1. ASSUME UNCHANGED nodeVars
      PROVE  OnTheWay'
  BY <1>1 DEF nodeVars, OnTheWay, Chan
<1>2. ASSUME NEW s \in Sources, SourceStep(s)
      PROVE  OnTheWay'
  <2>1. CASE SourceSends(s)
    <3>. DEFINE new == [source |-> s, n |-> sourced[s] + 1]
    <3>1. /\ sourced[s] \in Nat /\ MaxRecords[s] \in Nat /\ sourced[s] < MaxRecords[s]
          /\ chan' = [chan EXCEPT ![s] = Append(chan[s], new)]
          /\ hand' = hand /\ held' = held /\ s \in Producers
      BY <2>1, PipelineAssumption DEF SourceSends, TypeOK, Producers
    <3>2. sourced[s] + 1 \in 1 .. MaxRecords[s]
      BY <3>1
    <3>3. new \in Record /\ new.source = s
      BY <3>2, RecordIs
    <3>. HIDE DEF new
    <3>4. \A q \in Producers : \A x \in Chan(q)' : x \in Chan(q) \/ (q = s /\ x = new)
      <4>1. Chan(s)' = Chan(s) \cup {new} /\ \A q \in Producers : q # s => Chan(q)' = Chan(q)
        BY <3>1, <3>3, AppendMoves
      <4>. QED
        BY <4>1
    <3>. QED
      BY <3>1, <3>3, <3>4 DEF OnTheWay
  <2>2. CASE SourceEnds(s)
    BY <1>1, <2>2 DEF SourceEnds
  <2>. QED
    BY <1>2, <2>1, <2>2 DEF SourceStep
<1>3. ASSUME NEW k \in Sinks, SinkStep(k)
      PROVE  OnTheWay'
  <2>1. ASSUME NEW p \in Inputs(k), Writes(k, p)
        PROVE  OnTheWay'
    <3>1. Receives(k, p) /\ hand' = hand /\ held' = held
      BY <2>1 DEF Writes
    <3>2. \A q \in Producers : Chan(q)' \subseteq Chan(q)
      BY <3>1, ReceivesMoves
    <3>. QED
      BY <3>1, <3>2 DEF OnTheWay
  <2>2. CASE SinkEnds(k)
    BY <1>1, <2>2 DEF SinkEnds
  <2>. QED
    BY <1>3, <2>1, <2>2 DEF SinkStep
<1>4. ASSUME \E n \in Nodes : NodeFails(n)
      PROVE  OnTheWay'
  BY <1>1, <1>4 DEF NodeFails
<1>5. CASE Supervisor \/ Signal \/ SecondSignal \/ OpenWatch \/ CloseWatch
  BY <1>1, <1>5 DEF Supervisor, Wired, SuperviseFails, SuperviseEnds, DrainEnds, DrainFails,
                    Exit, Signal, SecondSignal, OpenWatch, CloseWatch
<1>6. CASE UNCHANGED vars
  BY <1>1, <1>6 DEF vars
<1>. QED
  BY <1>2, <1>3, <1>4, <1>5, <1>6, TransformOnTheWay DEF Next

-----------------------------------------------------------------------------
(* A task that ends well ends last and empty. *)

(* Once the graph is wired it stays so. *)
LEMMA StaysWired ==
  ASSUME [Next]_vars, phase # "wire"
  PROVE  phase' # "wire"
<1>1. CASE \E s \in Sources : SourceStep(s)
  BY <1>1 DEF SourceStep, SourceSends, SourceEnds, supVars
<1>2. CASE \E t \in Transforms : TransformStep(t)
  BY <1>2 DEF TransformStep, Forwards, Holds, Drops, Sends, Flushes, TransformEnds, supVars
<1>3. CASE \E k \in Sinks : SinkStep(k)
  BY <1>3 DEF SinkStep, Writes, SinkEnds, supVars
<1>4. CASE \E n \in Nodes : NodeFails(n)
  BY <1>4 DEF NodeFails, supVars
<1>5. CASE Supervisor \/ Signal \/ SecondSignal
  BY <1>5 DEF Supervisor, Wired, SuperviseFails, SuperviseEnds, DrainEnds, DrainFails, Exit,
              Signal, SecondSignal
<1>6. CASE OpenWatch \/ CloseWatch \/ UNCHANGED vars
  BY <1>6 DEF OpenWatch, CloseWatch, vars, supVars
<1>. QED
  BY <1>1, <1>2, <1>3, <1>4, <1>5, <1>6 DEF Next

(* A step keeps that ended nodes leave nothing behind, if it touches only what *)
(* running nodes have and if a node that ends in it has nothing left.          *)
LEMMA EndsEmptyKeeps ==
  ASSUME EndsEmpty, TypeOK, phase # "wire" => phase' # "wire",
         \A n \in Nodes : ~Running(n) => task'[n] = task[n],
         \A p \in Producers : ~Running(p) /\ chan[p] = << >> => chan'[p] = << >>,
         \A t \in Transforms : ~Running(t) => hand'[t] = hand[t] /\ held'[t] = held[t],
         ASSUME NEW n \in Served, Running(n), task'[n] = "done",
                \A m \in Work : task[m] \in {"running", "done"}
         PROVE  /\ InputsClosed(n)
                /\ n \in Transforms => hand'[n] = {} /\ held'[n] = {}
  PROVE  EndsEmpty'
<1>. SUFFICES ASSUME \A m \in Work : task'[m] \in {"running", "done"},
                     NEW n \in Served, task'[n] = "done"
              PROVE  InputsClosed(n)' /\ (n \in Transforms => hand'[n] = {} /\ held'[n] = {})
  BY DEF EndsEmpty
<1>. n \in Nodes
  BY DEF Served, Nodes, Producers
<1>1. \A m \in Work : task[m] \in {"running", "done"}
  BY GraphType DEF Running
<1>2. InputsClosed(n) /\ (n \in Transforms => hand'[n] = {} /\ held'[n] = {})
  <2>1. CASE Running(n)
    BY <1>1, <2>1
  <2>2. CASE ~Running(n)
    <3>1. task[n] = "done"
      BY <2>2
    <3>2. InputsClosed(n) /\ (n \in Transforms => hand[n] = {} /\ held[n] = {})
      BY <1>1, <3>1 DEF EndsEmpty
    <3>. QED
      BY <2>2, <3>2
  <2>. QED
    BY <2>1, <2>2
<1>3. InputsClosed(n)'
  BY <1>2, GraphType DEF InputsClosed, Inputs, Running
<1>. QED
  BY <1>2, <1>3

(* A step in which no task ends. *)
LEMMA EndsEmptyGoesOn ==
  ASSUME EndsEmpty, TypeOK, task' = task, phase # "wire" => phase' # "wire",
         \A p \in Producers : ~Running(p) /\ chan[p] = << >> => chan'[p] = << >>,
         \A t \in Transforms : ~Running(t) => hand'[t] = hand[t] /\ held'[t] = held[t]
  PROVE  EndsEmpty'
<1>1. ASSUME NEW n \in Served, Running(n)
      PROVE  task'[n] # "done"
  BY <1>1 DEF Running
<1>. QED
  BY <1>1, EndsEmptyKeeps

(* A step of the supervisor, or the failure of a task. *)
LEMMA EndsEmptyAborts ==
  ASSUME EndsEmpty, TypeOK, UNCHANGED nodeVars, phase # "wire" => phase' # "wire",
         \A n \in Nodes : task'[n] # task[n] => Running(n) /\ task'[n] \in {"failed", "aborted"}
  PROVE  EndsEmpty'
<1>1. ASSUME NEW n \in Served, Running(n)
      PROVE  task'[n] # "done"
  BY <1>1 DEF Running, Served, Nodes, Producers
<1>2. chan' = chan /\ hand' = hand /\ held' = held
  BY DEF nodeVars
<1>. QED
  BY <1>1, <1>2, EndsEmptyKeeps

(* A transform ends with nothing in its hand and nothing held. *)
LEMMA TransformEndsEmpty ==
  ASSUME EndsEmpty, TypeOK, NEW t \in Transforms, TransformStep(t),
         phase # "wire" => phase' # "wire"
  PROVE  EndsEmpty'
<1>. t \in Producers /\ t \in Work /\ t \in Nodes
  BY DEF Producers, Work, Nodes
<1>1. ASSUME NEW p \in Inputs(t), Forwards(t, p) \/ Holds(t, p) \/ Drops(t, p)
      PROVE  EndsEmpty'
  <2>1. Receives(t, p) /\ task' = task
    BY <1>1 DEF Forwards, Holds, Drops
  <2>2. \A x \in Transforms : ~Running(x) => hand'[x] = hand[x] /\ held'[x] = held[x]
    <3>1. Running(t)
      BY <2>1 DEF Receives
    <3>. QED
      BY <1>1, <3>1 DEF Forwards, Holds, Drops, TypeOK
  <2>. QED
    BY <2>1, <2>2, ReceivesMoves, EndsEmptyGoesOn
<1>2. CASE Sends(t)
  <2>1. /\ Running(t) /\ task' = task /\ held' = held
        /\ hand' = [hand EXCEPT ![t] = {}]
        /\ \E r : chan' = [chan EXCEPT ![t] = Append(chan[t], r)]
    BY <1>2 DEF Sends
  <2>2. \A p \in Producers : ~Running(p) => chan'[p] = chan[p]
    BY <2>1 DEF TypeOK
  <2>3. \A x \in Transforms : ~Running(x) => hand'[x] = hand[x] /\ held'[x] = held[x]
    BY <2>1 DEF TypeOK
  <2>. QED
    BY <2>1, <2>2, <2>3, EndsEmptyGoesOn
<1>3. CASE Flushes(t)
  <2>1. \A x \in Transforms : ~Running(x) => hand'[x] = hand[x] /\ held'[x] = held[x]
    BY <1>3 DEF Flushes, TypeOK
  <2>. QED
    BY <1>3, <2>1, EndsEmptyGoesOn DEF Flushes
<1>4. CASE TransformEnds(t)
  <2>1. /\ Running(t) /\ task' = [task EXCEPT ![t] = "done"]
        /\ chan' = chan /\ hand' = hand /\ held' = held
        /\ \/ InputsClosed(t) /\ hand[t] = {} /\ held[t] = {}
           \/ DownstreamGone(t) /\ hand[t] # {}
    BY <1>4 DEF TransformEnds, TaskEnds, nodeVars
  <2>2. ASSUME NEW n \in Served, Running(n), task'[n] = "done",
               \A m \in Work : task[m] \in {"running", "done"}
        PROVE  /\ InputsClosed(n)
               /\ n \in Transforms => hand'[n] = {} /\ held'[n] = {}
    <3>1. n = t
      BY <2>1, <2>2 DEF Running, TypeOK, Served, Nodes, Producers
    <3>2. t \in DOMAIN Feeds /\ Feeds[t] \in ReadOn \cup Sinks
      BY <2>2, <3>1, ReadOnGoesOn, PipelineAssumption DEF Served
    <3>3. ~DownstreamGone(t)
      <4>. SUFFICES ASSUME ~Running(Feeds[t])
                    PROVE  FALSE
        BY <3>2 DEF DownstreamGone
      <4>1. Feeds[t] \in Work /\ task[Feeds[t]] = "done"
        BY <2>2, <3>2, GraphType DEF Running
      <4>2. InputsClosed(Feeds[t])
        <5>1. Feeds[t] \in Served
          BY <3>2, <4>1 DEF Served, Work
        <5>. QED
          BY <2>2, <4>1, <5>1 DEF EndsEmpty
      <4>. QED
        BY <2>1, <3>2, <4>2 DEF InputsClosed, Inputs
    <3>. QED
      BY <2>1, <3>1, <3>3
  <2>3. \A n \in Nodes : ~Running(n) => task'[n] = task[n]
    BY <2>1 DEF TypeOK
  <2>. QED
    BY <2>1, <2>2, <2>3, EndsEmptyKeeps
<1>. QED
  BY <1>1, <1>2, <1>3, <1>4 DEF TransformStep

(* Every step keeps that ended nodes leave nothing behind. *)
LEMMA StepEndsEmpty ==
  ASSUME EndsEmpty, TypeOK, [Next]_vars
  PROVE  EndsEmpty'
<1>. phase # "wire" => phase' # "wire"
  BY StaysWired
<1>1. ASSUME NEW s \in Sources, SourceStep(s)
      PROVE  EndsEmpty'
  <2>. s \in Producers /\ s \in Nodes /\ s \notin Work
    BY PipelineAssumption DEF Producers, Nodes
  <2>1. CASE SourceSends(s)
    <3>1. /\ Running(s) /\ task' = task /\ hand' = hand /\ held' = held
          /\ \A p \in Producers : p # s => chan'[p] = chan[p]
      BY <2>1 DEF SourceSends, TypeOK
    <3>. QED
      BY <3>1, EndsEmptyGoesOn
  <2>2. CASE SourceEnds(s)
    <3>1. /\ Running(s) /\ task' = [task EXCEPT ![s] = "done"]
          /\ chan' = chan /\ hand' = hand /\ held' = held
      BY <2>2 DEF SourceEnds, TaskEnds, nodeVars
    <3>2. ASSUME NEW n \in Served, Running(n)
          PROVE  task'[n] # "done"
      BY <3>1, <3>2 DEF Running, TypeOK, Served, Work, Nodes, Producers
    <3>3. \A n \in Nodes : ~Running(n) => task'[n] = task[n]
      BY <3>1 DEF TypeOK
    <3>. QED
      BY <3>1, <3>2, <3>3, EndsEmptyKeeps
  <2>. QED
    BY <1>1, <2>1, <2>2 DEF SourceStep
<1>2. ASSUME NEW k \in Sinks, SinkStep(k)
      PROVE  EndsEmpty'
  <2>1. ASSUME NEW p \in Inputs(k), Writes(k, p)
        PROVE  EndsEmpty'
    <3>1. Receives(k, p) /\ task' = task /\ hand' = hand /\ held' = held
      BY <2>1 DEF Writes
    <3>. QED
      BY <3>1, ReceivesMoves, EndsEmptyGoesOn
  <2>2. CASE SinkEnds(k)
    <3>1. /\ Running(k) /\ InputsClosed(k) /\ task' = [task EXCEPT ![k] = "done"]
          /\ chan' = chan /\ hand' = hand /\ held' = held
      BY <2>2 DEF SinkEnds, TaskEnds, nodeVars
    <3>2. ASSUME NEW n \in Served, Running(n), task'[n] = "done"
          PROVE  InputsClosed(n) /\ n \notin Transforms
      <4>1. n = k
        BY <3>1, <3>2 DEF Running, TypeOK, Served, Nodes, Producers
      <4>. QED
        BY <3>1, <4>1, PipelineAssumption
    <3>3. \A n \in Nodes : ~Running(n) => task'[n] = task[n]
      BY <3>1 DEF TypeOK
    <3>. QED
      BY <3>1, <3>2, <3>3, EndsEmptyKeeps
  <2>. QED
    BY <1>2, <2>1, <2>2 DEF SinkStep
<1>3. ASSUME NEW n \in Nodes, NodeFails(n)
      PROVE  EndsEmpty'
  <2>1. \A m \in Nodes : task'[m] # task[m] => Running(m) /\ task'[m] \in {"failed", "aborted"}
    BY <1>3 DEF NodeFails, TaskEnds, TypeOK
  <2>. QED
    BY <1>3, <2>1, EndsEmptyAborts DEF NodeFails
<1>4. CASE Supervisor \/ Signal \/ SecondSignal
  <2>1. UNCHANGED nodeVars /\ (task' = task \/ \E nodes : Abort(nodes))
    BY <1>4 DEF Supervisor, Wired, SuperviseFails, SuperviseEnds, DrainEnds, DrainFails,
                Exit, Signal, SecondSignal
  <2>2. \A m \in Nodes : task'[m] # task[m] => Running(m) /\ task'[m] \in {"failed", "aborted"}
    BY <2>1 DEF Abort
  <2>. QED
    BY <2>1, <2>2, EndsEmptyAborts
<1>5. CASE OpenWatch \/ CloseWatch \/ UNCHANGED vars
  <2>1. task' = task /\ UNCHANGED nodeVars
    BY <1>5 DEF OpenWatch, CloseWatch, vars
  <2>. QED
    BY <2>1, EndsEmptyAborts
<1>. QED
  BY <1>1, <1>2, <1>3, <1>4, <1>5, TransformEndsEmpty DEF Next

-----------------------------------------------------------------------------
(* How the supervisor ends a run. *)

(* What a step of a task changes: neither the supervisor's state nor a     *)
(* task that has ended, and it aborts none.                                *)
LEMMA NodeStepTask ==
  ASSUME TypeOK,
         \/ \E s \in Sources : SourceStep(s)
         \/ \E t \in Transforms : TransformStep(t)
         \/ \E k \in Sinks : SinkStep(k)
         \/ \E n \in Nodes : NodeFails(n)
  PROVE  /\ phase' = phase /\ result' = result /\ forced' = forced
         /\ \A n \in Nodes : task'[n] # task[n] => Running(n) /\ task'[n] \in {"done", "failed"}
<1>. DEFINE Steady == phase' = phase /\ result' = result /\ forced' = forced
            Moves == \A n \in Nodes : task'[n] # task[n] => Running(n) /\ task'[n] \in {"done", "failed"}
<1>1. ASSUME NEW n, NEW how \in {"done", "failed"}, Running(n), TaskEnds(n, how)
      PROVE  Moves
  BY <1>1 DEF TaskEnds, TypeOK
<1>2. task' = task => Moves
  OBVIOUS
<1>. HIDE DEF Moves
<1>3. ASSUME NEW s \in Sources, SourceStep(s)
      PROVE  Steady /\ Moves
  <2>1. CASE SourceSends(s)
    BY <1>2, <2>1 DEF SourceSends, supVars
  <2>2. CASE SourceEnds(s)
    BY <1>1, <2>2 DEF SourceEnds, supVars
  <2>. QED
    BY <1>3, <2>1, <2>2 DEF SourceStep
<1>4. ASSUME NEW t \in Transforms, TransformStep(t)
      PROVE  Steady /\ Moves
  <2>1. CASE TransformEnds(t)
    BY <1>1, <2>1 DEF TransformEnds, supVars
  <2>2. CASE Sends(t) \/ Flushes(t)
    BY <1>2, <2>2 DEF Sends, Flushes, supVars
  <2>3. ASSUME NEW p, Forwards(t, p) \/ Holds(t, p) \/ Drops(t, p)
        PROVE  Steady /\ Moves
    BY <1>2, <2>3 DEF Forwards, Holds, Drops, supVars
  <2>. QED
    BY <1>4, <2>1, <2>2, <2>3 DEF TransformStep
<1>5. ASSUME NEW k \in Sinks, SinkStep(k)
      PROVE  Steady /\ Moves
  <2>1. CASE SinkEnds(k)
    BY <1>1, <2>1 DEF SinkEnds, supVars
  <2>2. ASSUME NEW p, Writes(k, p)
        PROVE  Steady /\ Moves
    BY <1>2, <2>2 DEF Writes, supVars
  <2>. QED
    BY <1>5, <2>1, <2>2 DEF SinkStep
<1>6. ASSUME NEW n \in Nodes, NodeFails(n)
      PROVE  Steady /\ Moves
  BY <1>1, <1>6 DEF NodeFails, supVars
<1>. QED
  BY <1>3, <1>4, <1>5, <1>6 DEF Moves

(* Every step keeps what the phase of the run says of its tasks. *)
LEMMA StepSupervised ==
  ASSUME TypeOK, AbortedLate, ResultLate, EndsWell, [Next]_vars
  PROVE  AbortedLate' /\ ResultLate' /\ EndsWell'
<1>. USE GraphType
<1>1. ASSUME \/ \E s \in Sources : SourceStep(s)
             \/ \E t \in Transforms : TransformStep(t)
             \/ \E k \in Sinks : SinkStep(k)
             \/ \E n \in Nodes : NodeFails(n)
      PROVE  AbortedLate' /\ ResultLate' /\ EndsWell'
  <2>1. /\ phase' = phase /\ result' = result /\ forced' = forced
        /\ \A n \in Nodes : task'[n] # task[n] => Running(n) /\ task'[n] \in {"done", "failed"}
    BY <1>1, NodeStepTask
  <2>. QED
    BY <2>1 DEF AbortedLate, ResultLate, EndsWell, Running
<1>8. CASE Wired
  BY <1>8 DEF Wired, AbortedLate, ResultLate, EndsWell
<1>2. CASE SuperviseFails \/ DrainFails
  BY <1>2 DEF SuperviseFails, DrainFails, AbortedLate, ResultLate, EndsWell
<1>3. CASE SuperviseEnds \/ DrainEnds
  <2>1. /\ task' = task /\ forced' = forced /\ phase \in {"run", "drain"} /\ phase' = "stop"
        /\ result' = "ok" /\ AllEnded(Work) /\ ~Failed(Work)
    BY <1>3 DEF SuperviseEnds, DrainEnds, AllEnded, Failed
  <2>2. ASSUME ~forced, NEW n \in Work
        PROVE  task[n] = "done"
    <3>1. task[n] \in {"running", "done", "failed", "aborted"}
      BY DEF TypeOK
    <3>. QED
      BY <2>1, <2>2, <3>1 DEF AllEnded, Failed, Running, AbortedLate
  <2>. QED
    BY <2>1, <2>2 DEF AbortedLate, ResultLate, EndsWell
<1>4. CASE Exit
  <2>1. /\ phase = "stop" /\ phase' = "exited" /\ result' = result /\ forced' = forced
        /\ task' = [n \in Nodes |-> IF n \in Nodes /\ Running(n) THEN "aborted" ELSE task[n]]
    BY <1>4 DEF Exit, Abort
  <2>. QED
    BY <2>1 DEF AbortedLate, ResultLate, EndsWell, Running
<1>5. CASE Signal
  <2>1. /\ phase = "run" /\ phase' = "drain" /\ result' = result /\ forced' = forced
        /\ task' = [n \in Nodes |-> IF n \in Sources /\ Running(n) THEN "aborted" ELSE task[n]]
    BY <1>5 DEF Signal, Abort
  <2>2. \A n \in Work : task'[n] = task[n]
    BY <2>1, PipelineAssumption
  <2>. QED
    BY <2>1, <2>2 DEF AbortedLate, ResultLate, EndsWell
<1>6. CASE SecondSignal
  BY <1>6 DEF SecondSignal, AbortedLate, ResultLate, EndsWell
<1>7. CASE OpenWatch \/ CloseWatch \/ UNCHANGED vars
  BY <1>7 DEF OpenWatch, CloseWatch, vars, supVars, AbortedLate, ResultLate, EndsWell
<1>. QED
  BY <1>1, <1>2, <1>3, <1>4, <1>5, <1>6, <1>7, <1>8 DEF Next, Supervisor

(* The inductive invariant holds at the start. *)
LEMMA InitInductive == Init => IInv
<1>. SUFFICES ASSUME Init PROVE IInv
  OBVIOUS
<1>1. Sourced = {}
  <2>1. ASSUME NEW r \in Record
        PROVE  ~(r.n <= sourced[r.source])
    <3>1. r.source \in Sources /\ r.n \in 1 .. MaxRecords[r.source] /\ MaxRecords[r.source] \in Nat
      BY RecordHas, PipelineAssumption
    <3>2. sourced[r.source] = 0
      BY <3>1 DEF Init
    <3>. QED
      BY <3>1, <3>2
  <2>. QED
    BY <2>1 DEF Sourced
<1>2. InFlight = {}
  <2>1. \A p \in Producers : Chan(p) = {}
    BY DEF Init, Chan
  <2>2. \A t \in Transforms : hand[t] \cup held[t] = {}
    BY DEF Init
  <2>. QED
    BY <2>1, <2>2, InFlightIs
<1>3. Conserved
  BY <1>1, <1>2 DEF Init, Conserved
<1>4. HandIsOne /\ OnTheWay
  BY DEF Init, HandIsOne, OnTheWay, Chan
<1>5. EndsEmpty
  BY DEF Init, EndsEmpty, Served, Nodes, Producers
<1>6. AbortedLate /\ ResultLate /\ EndsWell
  BY GraphType DEF Init, AbortedLate, ResultLate, EndsWell
<1>. QED
  BY <1>3, <1>4, <1>5, <1>6, InitType DEF IInv

(* The inductive invariant holds in every state. *)
LEMMA Inductive == Spec => []IInv
<1>1. IInv /\ [Next]_vars => IInv'
  BY StepType, StepConserves, StepOnTheWay, StepEndsEmpty, StepSupervised DEF IInv
<1>. QED
  BY <1>1, InitInductive, PTL DEF Spec

-----------------------------------------------------------------------------
(* A run that ends well, on its own or after one signal, has lost nothing  *)
(* that was on its way to a sink: every record of a source in ReadOn was   *)
(* written by a sink or dropped on purpose.                                *)
THEOREM NothingLost == Spec => []DrainDelivers
<1>1. ASSUME IInv, phase = "exited", result = "ok", ~forced,
             NEW r \in Sourced, r.source \in ReadOn
      PROVE  r \in delivered \cup dropped
  <2>1. \A n \in Work : task[n] = "done"
    BY <1>1 DEF IInv, EndsWell
  <2>2. ASSUME NEW n \in Served
        PROVE  /\ \A p \in Inputs(n) : chan[p] = << >>
               /\ n \in Transforms => hand[n] = {} /\ held[n] = {}
    <3>1. n \in Work
      BY DEF Served, Work
    <3>. QED
      BY <1>1, <2>1, <3>1 DEF IInv, EndsEmpty, InputsClosed
  <2>3. ASSUME NEW p \in Producers, r \in Chan(p)
        PROVE  FALSE
    <3>1. p \in ReadOn
      BY <1>1, <2>3 DEF IInv, OnTheWay
    <3>2. p \in DOMAIN Feeds /\ Feeds[p] \in ReadOn \cup Sinks /\ Feeds[p] \in Work
      BY <3>1, ReadOnGoesOn, GraphType
    <3>3. Feeds[p] \in Served
      BY <3>2 DEF Served, Work
    <3>4. chan[p] = << >>
      BY <2>2, <3>2, <3>3 DEF Inputs
    <3>. QED
      BY <2>3, <3>4 DEF Chan
  <2>4. ASSUME NEW t \in Transforms, r \in hand[t] \cup held[t]
        PROVE  FALSE
    <3>1. t \in Served
      BY <1>1, <2>4 DEF IInv, OnTheWay, Served
    <3>. QED
      BY <2>2, <2>4, <3>1
  <2>5. r \notin InFlight
    BY <2>3, <2>4, InFlightIs
  <2>. QED
    BY <1>1, <2>5 DEF IInv, Conserved
<1>2. IInv => DrainDelivers
  BY <1>1 DEF DrainDelivers
<1>. QED
  BY <1>2, Inductive, PTL

(* A transform or a sink that fails fails the run, unless a second signal  *)
(* forced it to end.                                                       *)
THEOREM FailureSurfaces == Spec => []WorkErrorSurfaces
<1>1. IInv => WorkErrorSurfaces
  BY DEF IInv, ResultLate, EndsWell, WorkErrorSurfaces, Failed
<1>. QED
  BY <1>1, Inductive, PTL

=============================================================================
