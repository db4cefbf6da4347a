--------------------------- MODULE NatsEdgeProofs ---------------------------
(***************************************************************************)
(* The durable edge loses nothing, for any number of partitions, workers,  *)
(* records, crashes and repeated publishes: NatsEdge implements            *)
(* AtLeastOnce, and AtLeastOnce keeps what it accepted.                    *)
(***************************************************************************)
EXTENDS NatsEdge, FiniteSetTheorems, TLAPS

Queue == UNION {stored[p] : p \in Parts}

Queued == {m.rec : m \in Queue}

(* What the steps of the edge and its worker keep of the shape of the data. *)
Shape ==
  /\ stored \in [Parts -> SUBSET [seq : Nat, rec : Records]]
  /\ nextSeq \in Nat
  /\ current \subseteq [rec : Records, part : Parts]
  /\ cursor \in Nat
  /\ produced \in Nat
  /\ last \subseteq [seq : Nat, rec : Records]

(* Until the node has handled it, the record it was handed is in the       *)
(* stream; a message that is still to be acknowledged has been handled.    *)
HandedOver ==
  /\ pc = "got" => last \subseteq Queue
  /\ pc # "got" => \A m \in last : m.rec \in handled

IInv == Shape /\ HandedOver

(* A record goes to a partition of the stream. *)
LEMMA RouteIsAPartition ==
  ASSUME NEW key \in Keys, NEW c \in Nat
  PROVE  Route(key, c) \in Parts /\ NextCursor(c) \in Nat
<1>1. Partitions \in Nat /\ Partitions > 0 /\ CursorRange \in Nat /\ CursorRange > 0
  BY PartitionAssumption DEF ValidConfig
<1>2. \A n \in Nat : n % Partitions \in Parts
  BY <1>1 DEF Parts
<1>3. Hash[key] \in Nat
  BY PartitionAssumption
<1>4. (c + 1) % CursorRange \in Nat
  BY <1>1
<1> QED BY <1>2, <1>3, <1>4 DEF Route, NextCursor

(* Nats::connect gives every partition to one worker, and to each worker at *)
(* least one: what a worker does not bind, exactly one other does.         *)
THEOREM PartitionsAreShared ==
  /\ \A part \in Parts : \E i \in Indexes : \A j \in Indexes : part \in Owned(j) <=> j = i
  /\ \A i \in Indexes : Owned(i) # {}
<1>1. Partitions \in Nat /\ Workers \in Nat /\ Workers > 0 /\ Workers <= Partitions
  BY PartitionAssumption DEF ValidConfig
<1>2. ASSUME NEW part \in Parts PROVE part % Workers \in Indexes
  BY <1>1 DEF Parts, Indexes
<1>3. ASSUME NEW i \in Indexes PROVE i \in Owned(i)
  BY <1>1 DEF Parts, Indexes, Owned
<1> QED BY <1>2, <1>3 DEF Owned

(* Every step is the producer's, leaves the queue alone, or settles records. *)
LEMMA Invariant == Spec => []IInv
<1>1. Init => IInv
  BY DEF Init, IInv, Shape, HandedOver
<1>2. IInv /\ [Next]_vars => IInv'
  <2> SUFFICES ASSUME IInv, [Next]_vars PROVE IInv'
    OBVIOUS
  <2> USE DEF IInv, Shape, HandedOver, Queue
  <2>1. ASSUME NEW key \in Keys, Send(key) PROVE IInv'
    <3>1. [n |-> produced + 1, key |-> key] \in Records
      BY <2>1, NatsEdgeAssumption DEF Send, Records
    <3>2. Route(key, cursor) \in Parts /\ NextCursor(cursor) \in Nat
      BY RouteIsAPartition
    <3> QED BY <2>1, <3>1, <3>2 DEF Send, streamVars, recvVars
  <2>2. ASSUME PublishConfirmed \/ PublishUncertain PROVE IInv'
    <3>1. PICK c \in current : Store(c)
      BY <2>2 DEF PublishConfirmed, PublishUncertain
    <3>2. stored' \in [Parts -> SUBSET [seq : Nat, rec : Records]]
      BY <3>1 DEF Store
    <3>3. \A p \in Parts : stored[p] \subseteq stored'[p]
      BY <3>1 DEF Store
    <3> QED BY <2>2, <3>1, <3>2, <3>3 DEF PublishConfirmed, PublishUncertain, Store, recvVars, producerVars
  <2>3. ASSUME Acknowledge PROVE IInv'
    BY <2>3 DEF Acknowledge, Without, streamVars, producerVars
  <2>4. ASSUME NEW p \in Owned(Index), Take(p) PROVE IInv'
    <3>1. PICK m \in Oldest(p) : last' = {m}
      BY <2>4 DEF Take
    <3>2. p \in Parts /\ m \in stored[p]
      BY DEF Owned, Oldest, Deliverable
    <3> QED BY <2>4, <3>1, <3>2 DEF Take, producerVars
  <2>5. ASSUME NEW p \in Owned(Index), SkipUndecodable(p) PROVE IInv'
    BY <2>5 DEF SkipUndecodable, Without, Turn, Bound, producerVars
  <2>6. ASSUME HandleRecord PROVE IInv'
    BY <2>6 DEF HandleRecord, streamVars, producerVars
  <2>7. ASSUME \/ Provision \/ Recv \/ BindOk \/ BindFails \/ StreamFails \/ Drained \/ Cancel
               \/ Tick \/ BeginDrain \/ Crash \/ Outage
               \/ \E seq \in pending : AckOverdue(seq)
        PROVE  IInv'
    <3>1. UNCHANGED <<stored, nextSeq, current, cursor, produced, handled>>
      BY <2>7 DEF Provision, Recv, BindOk, BindFails, StreamFails, Drained, Cancel, Tick,
         BeginDrain, Crash, Outage, AckOverdue, DropPulled, streamVars, producerVars
    <3>2. \/ last' = {}
          \/ last' = last /\ pc' = pc
          \/ last' = last /\ pc # "got" /\ pc' # "got"
      BY <2>7 DEF Provision, Recv, BindOk, BindFails, StreamFails, Drained, Cancel, Tick,
         BeginDrain, Crash, Outage, AckOverdue, Turn, Bound, InRecv, recvVars
    <3> QED BY <3>1, <3>2
  <2>8. CASE UNCHANGED vars
    BY <2>8 DEF vars, streamVars, producerVars, recvVars
  <2> QED BY <2>1, <2>2, <2>3, <2>4, <2>5, <2>6, <2>7, <2>8
       DEF Next, ProducerStep, Worker, Receive
<1> QED BY <1>1, <1>2, PTL DEF Spec

-----------------------------------------------------------------------------
(* Every step of the edge is one of AtLeastOnce: a publish stores, and what *)
(* leaves the queue was handled or cannot be decoded.                      *)
THEOREM EdgeIsAtLeastOnce == Spec => ImplementsAtLeastOnce
<1> USE DEF Queued, Queue
<1>1. Init => Edge!Init
  BY DEF Init, Edge!Init
<1>2. IInv /\ [Next]_vars => [Edge!Next]_(Edge!vars)
  <2> SUFFICES ASSUME IInv, [Next]_vars PROVE Edge!Next \/ UNCHANGED Edge!vars
    OBVIOUS
  <2> USE DEF IInv, Shape, HandedOver
  <2>1. ASSUME NEW key \in Keys, Send(key) PROVE UNCHANGED Edge!vars
    BY <2>1 DEF Send, streamVars, Edge!vars
  <2>2. ASSUME PublishConfirmed \/ PublishUncertain PROVE Edge!Next
    <3>1. PICK c \in current : Store(c) /\ accepted' \in {accepted, accepted \cup {c.rec}}
      BY <2>2 DEF PublishConfirmed, PublishUncertain, producerVars
    <3>2. Queued' = Queued \cup {c.rec}
      <4> HIDE DEF Queue, IInv
      <4>1. c.part \in Parts /\ c.rec \in Records
        BY <3>1 DEF IInv
      <4> DEFINE new == [seq |-> nextSeq, rec |-> c.rec]
      <4>2. Queue' = Queue \cup {new} /\ new.rec = c.rec
        BY <3>1, <4>1 DEF Store, Queue, IInv
      <4> HIDE DEF new
      <4> QED BY <4>2, Zenon
    <3>3. handled' = handled
      BY <2>2 DEF PublishConfirmed, PublishUncertain
    <3>4. Edge!Store(c.rec)
      BY <3>1, <3>2, <3>3 DEF Edge!Store
    <3> QED BY <3>1, <3>4 DEF Edge!Next
  <2>3. ASSUME Acknowledge PROVE Edge!Next
    <3>1. \A m \in last : m.rec \in handled
      BY <2>3 DEF Acknowledge
    <3>2. Queue' \subseteq Queue /\ Queue \ Queue' \subseteq last
      BY <2>3 DEF Acknowledge, Without, streamVars
    <3>3. UNCHANGED <<accepted, handled>>
      BY <2>3 DEF Acknowledge, producerVars
    <3> QED BY <3>1, <3>2, <3>3 DEF Edge!Next, Edge!Consume
  <2>4. ASSUME NEW p \in Owned(Index), SkipUndecodable(p) PROVE Edge!Next
    <3>1. PICK m \in Oldest(p) : m.rec \in Undecodable /\ Without({m})
      BY <2>4 DEF SkipUndecodable
    <3>2. Queue' \subseteq Queue /\ Queue \ Queue' \subseteq {m}
      BY <3>1 DEF Without
    <3>3. UNCHANGED <<accepted, handled>>
      BY <2>4 DEF SkipUndecodable, producerVars
    <3> QED BY <3>1, <3>2, <3>3 DEF Edge!Next, Edge!Consume
  <2>5. ASSUME HandleRecord PROVE Edge!Next
    <3>1. handled' = handled \cup {m.rec : m \in last} /\ last \subseteq Queue
      BY <2>5 DEF HandleRecord
    <3>2. UNCHANGED <<accepted, stored>>
      BY <2>5 DEF HandleRecord, producerVars, streamVars
    <3> QED BY <3>1, <3>2 DEF Edge!Next, Edge!Consume
  <2>6. ASSUME NEW p \in Owned(Index), Take(p) PROVE UNCHANGED Edge!vars
    BY <2>6 DEF Take, producerVars, Edge!vars
  <2>7. ASSUME \/ Provision \/ Recv \/ BindOk \/ BindFails \/ StreamFails \/ Drained \/ Cancel
               \/ Tick \/ BeginDrain \/ Crash \/ Outage
               \/ \E seq \in pending : AckOverdue(seq)
        PROVE  UNCHANGED Edge!vars
    BY <2>7 DEF Provision, Recv, BindOk, BindFails, StreamFails, Drained, Cancel, Tick,
       BeginDrain, Crash, Outage, AckOverdue, DropPulled, streamVars, producerVars, Edge!vars
  <2>8. CASE UNCHANGED vars
    BY <2>8 DEF vars, streamVars, producerVars, Edge!vars
  <2> QED BY <2>1, <2>2, <2>3, <2>4, <2>5, <2>6, <2>7, <2>8
       DEF Next, ProducerStep, Worker, Receive
<1> QED BY <1>1, <1>2, Invariant, PTL DEF Spec, ImplementsAtLeastOnce, Edge!Spec

(* What `send` returned Ok for is in the stream, handled, or undecodable:   *)
(* the invariant of AtLeastOnce, and through the refinement of the edge.    *)
THEOREM NothingAcceptedIsLost == Spec => []Edge!Lossless
<1>1. Edge!Init => Edge!Lossless
  BY DEF Edge!Init, Edge!Lossless
<1>2. Edge!Lossless /\ [Edge!Next]_(Edge!vars) => Edge!Lossless'
  BY DEF Edge!Lossless, Edge!Next, Edge!vars, Edge!Store, Edge!Consume
<1> QED BY <1>1, <1>2, EdgeIsAtLeastOnce, PTL DEF ImplementsAtLeastOnce, Edge!Spec

-----------------------------------------------------------------------------
(* The counts of the producer: the records accepted are those it has sent, *)
(* but for the one it is publishing, and what the stream numbered beyond   *)
(* them was published again.                                               *)
Counted ==
  /\ \A m \in Queue : m.seq < nextSeq
  /\ pending \subseteq 1 .. nextSeq - 1
  /\ \A c \in current : c.rec.n = produced
  /\ \A r \in accepted : r.n <= produced
  /\ producer = "publishing" => produced > 0 /\ \A r \in accepted : r.n < produced
  /\ IsFiniteSet(accepted)
  /\ Cardinality(accepted) = IF producer = "publishing" THEN produced - 1 ELSE produced
  /\ nextSeq - 1 <= MaxResends + Cardinality(accepted)

(* A message stored takes the next number of the stream, which is left. *)
LEMMA RoomInTheStream ==
  ASSUME TypeOK, Counted, PublishConfirmed \/ PublishUncertain
  PROVE  /\ nextSeq \in 1 .. MaxRecords + MaxResends
         /\ \E c \in current : c \in [rec : Records, part : Parts] /\ Store(c)
<1>1. MaxRecords \in Nat /\ MaxResends \in Nat /\ produced \in 0 .. MaxRecords
      /\ nextSeq \in Nat /\ nextSeq > 0
  BY NatsEdgeAssumption DEF TypeOK
<1> DEFINE a == Cardinality(accepted)
<1>2. a = produced - 1 /\ produced > 0 /\ nextSeq - 1 <= MaxResends + a
  BY DEF PublishConfirmed, PublishUncertain, Counted
<1>3. \E c \in current : c \in [rec : Records, part : Parts] /\ Store(c)
  BY DEF PublishConfirmed, PublishUncertain, TypeOK
<1> HIDE DEF a
<1> QED BY <1>1, <1>2, <1>3

(* The shape of the state, within the bounds of the instance. *)
LEMMA TypeInvariant == Spec => [](TypeOK /\ Counted)
<1> USE NatsEdgeAssumption
<1>1. Init => TypeOK /\ Counted
  <2> SUFFICES ASSUME Init PROVE TypeOK /\ Counted
    OBVIOUS
  <2>1. CursorRange \in Nat \ {0}
    BY PartitionAssumption
  <2>2. Cardinality({}) = 0 /\ IsFiniteSet({})
    BY FS_EmptySet
  <2>3. /\ 1 \in 1 .. MaxRecords + MaxResends + 1
        /\ 0 \in 0 .. MaxRecords /\ 0 \in 0 .. DrainIdle /\ 0 \in 0 .. CallerTimer
        /\ 0 \in 0 .. MaxCrashes /\ 0 \in 0 .. CursorRange - 1
    BY <2>1
  <2>4. stored \in [Parts -> SUBSET Message]
    BY DEF Init
  <2>5. TypeOK
    <3>1. Cardinality(current) <= 1 /\ Cardinality(last) <= 1
      BY <2>2 DEF Init
    <3>2. /\ pending \subseteq 1 .. MaxRecords + MaxResends /\ last \subseteq Message
          /\ current \subseteq [rec : Records, part : Parts]
          /\ accepted \subseteq Records /\ handled \subseteq Records
      BY DEF Init
    <3> QED BY <2>3, <2>4, <3>1, <3>2, Zenon DEF Init, TypeOK
  <2>6. Counted
    BY <2>2 DEF Init, Counted, Queue
  <2> QED BY <2>5, <2>6
<1>2. TypeOK /\ Counted /\ [Next]_vars => (TypeOK /\ Counted)'
  <2> SUFFICES ASSUME TypeOK, Counted, [Next]_vars PROVE (TypeOK /\ Counted)'
    OBVIOUS
  <2>1. ASSUME NEW key \in Keys, Send(key) PROVE (TypeOK /\ Counted)'
    <3> DEFINE rec == [n |-> produced + 1, key |-> key]
               new == [rec |-> rec, part |-> Route(key, cursor)]
    <3>1. rec \in Records /\ produced' = produced + 1 /\ produced' \in 0 .. MaxRecords
      BY <2>1 DEF Send, Records, TypeOK
    <3>2. Route(key, cursor) \in Parts /\ cursor' \in 0 .. CursorRange - 1
      <4>1. cursor \in Nat /\ cursor \in 0 .. CursorRange - 1 /\ CursorRange \in Nat /\ CursorRange > 0
        BY PartitionAssumption DEF TypeOK
      <4>2. (cursor + 1) % CursorRange \in 0 .. CursorRange - 1
        BY <4>1
      <4> QED BY <2>1, <4>1, <4>2, RouteIsAPartition DEF Send, NextCursor
    <3>3. current' = {new} /\ Cardinality({new}) = 1
      BY <2>1, FS_Singleton DEF Send
    <3>4. TypeOK'
      <4>1. UNCHANGED <<up, streamVars, accepted, recvVars, draining, crashes, disturbed, handled>>
            /\ producer' = "publishing"
        BY <2>1 DEF Send
      <4>2. current' \subseteq [rec : Records, part : Parts] /\ Cardinality(current') <= 1
        BY <3>1, <3>2, <3>3
      <4> QED BY <3>1, <3>2, <4>1, <4>2 DEF TypeOK, streamVars, recvVars
    <3>5. Counted'
      <4>1. producer = "idle" /\ producer' = "publishing" /\ UNCHANGED <<streamVars, accepted>>
        BY <2>1 DEF Send
      <4>2. \A r \in accepted : r.n <= produced /\ r.n \in Nat
        BY DEF Counted, TypeOK, Records
      <4>3. produced \in Nat
        BY DEF TypeOK
      <4>4. \A c \in current' : c.rec.n = produced'
        BY <3>1, <3>3
      <4>5. (produced + 1) - 1 = produced
        BY <4>3
      <4> QED BY <3>1, <4>1, <4>2, <4>3, <4>4, <4>5 DEF Counted, streamVars, Queue
    <3> QED BY <3>4, <3>5
  <2>2. ASSUME PublishConfirmed \/ PublishUncertain PROVE (TypeOK /\ Counted)'
    <3>1. PICK c \in current : c \in [rec : Records, part : Parts] /\ Store(c)
                 /\ (PublishConfirmed => accepted' = accepted \cup {c.rec})
      <4>1. PublishConfirmed => \E c \in current : Store(c) /\ accepted' = accepted \cup {c.rec}
        BY DEF PublishConfirmed
      <4>2. ~PublishConfirmed => \E c \in current : Store(c)
        BY <2>2 DEF PublishUncertain
      <4> QED BY <4>1, <4>2 DEF TypeOK
    <3>2. nextSeq \in 1 .. MaxRecords + MaxResends
      BY <2>2, RoomInTheStream
    <3>3. [seq |-> nextSeq, rec |-> c.rec] \in Message
      BY <3>1, <3>2 DEF Message
    <3>4. stored' \in [Parts -> SUBSET Message] /\ nextSeq' = nextSeq + 1 /\ pending' = pending
      BY <3>1, <3>3 DEF Store, TypeOK
    <3>5. UNCHANGED <<up, cursor, produced, recvVars, draining, crashes, disturbed, handled>>
      BY <2>2 DEF PublishConfirmed, PublishUncertain, producerVars
    <3>6. c.rec.n = produced /\ c.rec \in Records /\ produced \in Nat /\ produced > 0
          /\ producer = "publishing" /\ c.rec \notin accepted
      <4>1. c.rec.n = produced /\ c.rec \in Records /\ produced \in Nat /\ producer = "publishing"
        BY <2>2, <3>1 DEF Counted, TypeOK, PublishConfirmed, PublishUncertain
      <4>2. produced > 0 /\ \A r \in accepted : r.n < produced
        BY <4>1 DEF Counted
      <4> QED BY <4>1, <4>2
    <3>9. \A m \in Queue' : m.seq < nextSeq'
      <4> DEFINE new == [seq |-> nextSeq, rec |-> c.rec]
      <4>1. \A m \in Queue' : m \in Queue \/ m = new
        BY <3>1 DEF Store, Queue, TypeOK
      <4>2. \A m \in Queue : m.seq < nextSeq /\ m.seq \in Nat
        BY DEF Counted, Queue, TypeOK, Message
      <4>3. new.seq = nextSeq
        OBVIOUS
      <4> HIDE DEF new
      <4> QED BY <3>2, <3>4, <4>1, <4>2, <4>3
    <3>7. CASE PublishConfirmed
      <4>1. producer' = "idle" /\ current' = {} /\ accepted' = accepted \cup {c.rec}
        BY <3>1, <3>7 DEF PublishConfirmed
      <4>2. IsFiniteSet(accepted') /\ Cardinality(accepted') = Cardinality(accepted) + 1
        <5>1. IsFiniteSet(accepted)
          BY DEF Counted
        <5> QED BY <3>6, <4>1, <5>1, FS_AddElement
      <4>3. Cardinality(accepted) = produced - 1 /\ nextSeq - 1 <= MaxResends + Cardinality(accepted)
        BY <3>6 DEF Counted
      <4>4. Cardinality({}) = 0
        BY FS_EmptySet
      <4>5. TypeOK'
        BY <3>1, <3>2, <3>4, <3>5, <4>1, <4>4 DEF TypeOK, recvVars
      <4>6. Counted'
        <5>1. pending' \subseteq 1 .. nextSeq' - 1
          BY <3>2, <3>4 DEF Counted
        <5>2. \A r \in accepted' : r.n <= produced'
          BY <3>5, <3>6, <4>1 DEF Counted
        <5>3. /\ Cardinality(accepted') = produced'
              /\ nextSeq' - 1 <= MaxResends + Cardinality(accepted')
          BY <3>2, <3>4, <3>5, <3>6, <4>2, <4>3
        <5> QED BY <3>9, <4>1, <4>2, <5>1, <5>2, <5>3 DEF Counted
      <4> QED BY <4>5, <4>6
    <3>8. CASE ~PublishConfirmed
      <4>1. UNCHANGED producerVars /\ nextSeq - 1 - Cardinality(accepted) < MaxResends
        BY <2>2, <3>8 DEF PublishUncertain
      <4>2. TypeOK'
        BY <3>1, <3>2, <3>4, <3>5, <4>1 DEF TypeOK, recvVars, producerVars
      <4>3. Counted'
        <5>1. pending' \subseteq 1 .. nextSeq' - 1
          BY <3>2, <3>4 DEF Counted
        <5>2. Cardinality(accepted) = produced - 1
          BY <3>6 DEF Counted
        <5>3. nextSeq' - 1 <= MaxResends + Cardinality(accepted)
          BY <3>2, <3>4, <3>6, <4>1, <5>2
        <5> QED BY <3>9, <4>1, <5>1, <5>3 DEF Counted, producerVars
      <4> QED BY <4>2, <4>3
    <3> QED BY <3>7, <3>8
  <2>3. ASSUME /\ UNCHANGED <<nextSeq, producerVars>>
               /\ \A p \in Parts : stored'[p] \subseteq stored[p]
               /\ pending' \subseteq pending \cup {m.seq : m \in Queue}
        PROVE  Counted'
    <3>1. \A m \in Queue : m.seq \in Nat \ {0} /\ m.seq < nextSeq
      BY DEF Counted, Queue, TypeOK, Message
    <3>2. nextSeq \in Nat
      BY DEF TypeOK
    <3>3. {m.seq : m \in Queue} \subseteq 1 .. nextSeq - 1
      BY <3>1, <3>2
    <3>4. Queue' \subseteq Queue
      BY <2>3 DEF Queue
    <3> QED BY <2>3, <3>1, <3>3, <3>4 DEF Counted, producerVars
  <2>4. \A m \in Queue : m \in Message /\ m.seq \in 1 .. MaxRecords + MaxResends /\ m.rec \in Records
    BY DEF Queue, TypeOK, Message
  <2>5. Cardinality({}) = 0 /\ \A x : Cardinality({x}) = 1
    BY FS_EmptySet, FS_Singleton
  <2>6. ASSUME Acknowledge PROVE (TypeOK /\ Counted)'
    <3>1. stored' \in [Parts -> SUBSET Message] /\ \A p \in Parts : stored'[p] \subseteq stored[p]
      BY <2>6 DEF Acknowledge, Without, streamVars, TypeOK
    <3>2. nextSeq' = nextSeq /\ pending' \subseteq pending
      BY <2>6 DEF Acknowledge, Without, streamVars
    <3>3. Counted'
      BY <2>3, <2>6, <3>1, <3>2 DEF Acknowledge
    <3> QED BY <2>5, <2>6, <3>1, <3>2, <3>3 DEF Acknowledge, TypeOK, producerVars
  <2>7. ASSUME NEW p \in Owned(Index), Take(p) PROVE (TypeOK /\ Counted)'
    <3>1. PICK m \in Oldest(p) : pending' = pending \cup {m.seq} /\ last' = {m}
      BY <2>7 DEF Take
    <3>2. m \in Queue
      BY DEF Oldest, Deliverable, Owned, Queue
    <3>3. Counted'
      BY <2>3, <2>7, <3>1, <3>2 DEF Take
    <3>4. pending' \subseteq 1 .. MaxRecords + MaxResends /\ last' \subseteq Message
      BY <2>4, <3>1, <3>2 DEF TypeOK
    <3>5. Cardinality(last') <= 1
      BY <2>5, <3>1
    <3>6. 0 \in 0 .. DrainIdle
      OBVIOUS
    <3> QED BY <2>7, <3>3, <3>4, <3>5, <3>6 DEF Take, LeaveTurn, TypeOK, producerVars
  <2>8. ASSUME NEW p \in Owned(Index), SkipUndecodable(p) PROVE (TypeOK /\ Counted)'
    <3>1. PICK m \in Oldest(p) : Without({m})
      BY <2>8 DEF SkipUndecodable
    <3>2. stored' \in [Parts -> SUBSET Message] /\ \A q \in Parts : stored'[q] \subseteq stored[q]
      BY <3>1 DEF Without, TypeOK
    <3>3. nextSeq' = nextSeq /\ pending' \subseteq pending
      BY <3>1 DEF Without
    <3>4. Counted'
      BY <2>3, <2>8, <3>2, <3>3 DEF SkipUndecodable
    <3> QED BY <2>8, <3>2, <3>3, <3>4 DEF SkipUndecodable, Turn, Bound, TypeOK, producerVars
  <2>9. ASSUME StreamFails \/ Crash PROVE (TypeOK /\ Counted)'
    <3>1. PICK ahead \in SUBSET Owned(Index) :
            pending' = pending \cup {m.seq : m \in UNION {Oldest(p) : p \in ahead}}
      BY <2>9 DEF StreamFails, Crash, DropPulled
    <3>2. UNION {Oldest(p) : p \in ahead} \subseteq Queue
      BY DEF Oldest, Deliverable, Owned, Queue
    <3>3. pending' \subseteq pending \cup {m.seq : m \in Queue}
      BY <3>1, <3>2
    <3>4. stored' = stored /\ nextSeq' = nextSeq /\ disturbed' = TRUE /\ UNCHANGED producerVars
      BY <2>9 DEF StreamFails, Crash, DropPulled
    <3>5. Counted'
      BY <2>3, <3>3, <3>4
    <3>6. pending' \subseteq 1 .. MaxRecords + MaxResends
      BY <2>4, <3>3 DEF TypeOK
    <3>7. last' \subseteq Message /\ Cardinality(last') <= 1
      <4>1. last' \in {{}, last}
        BY <2>9 DEF StreamFails, Crash
      <4>2. Cardinality({}) <= 1 /\ Cardinality(last) <= 1
        BY <2>5 DEF TypeOK
      <4> QED BY <4>1, <4>2 DEF TypeOK
    <3>8. /\ 0 \in 0 .. DrainIdle /\ 0 \in 0 .. CallerTimer
          /\ crashes' \in 0 .. MaxCrashes
      BY <2>9 DEF StreamFails, Crash, TypeOK
    <3>9. idle' = 0 /\ timer' \in {0, timer} /\ pc' \in {"sleeping", "connecting"} /\ bound' = FALSE
          /\ sees' = FALSE /\ draining' \in {FALSE, draining} /\ UNCHANGED <<up, handled>>
      BY <2>9 DEF StreamFails, Crash, LeaveTurn
    <3> QED BY <3>4, <3>5, <3>6, <3>7, <3>8, <3>9 DEF TypeOK, producerVars
  <2>10. ASSUME HandleRecord PROVE (TypeOK /\ Counted)'
    <3>1. Counted'
      BY <2>3, <2>10 DEF HandleRecord, streamVars
    <3>2. handled' \subseteq Records
      BY <2>10 DEF HandleRecord, TypeOK, Message
    <3> QED BY <2>10, <3>1, <3>2 DEF HandleRecord, TypeOK, streamVars, producerVars
  <2>11. ASSUME \/ Provision \/ Recv \/ BindOk \/ BindFails \/ Drained \/ Cancel \/ Tick
                \/ BeginDrain \/ Outage \/ \E seq \in pending : AckOverdue(seq)
         PROVE  (TypeOK /\ Counted)'
    <3>1. /\ UNCHANGED <<stored, nextSeq, producerVars, handled, disturbed, crashes>>
          /\ pending' \subseteq pending
      BY <2>11 DEF Provision, Recv, BindOk, BindFails, Drained, Cancel, Tick, BeginDrain, Outage,
         AckOverdue, streamVars
    <3>2. Counted'
      BY <2>3, <3>1
    <3>3. /\ up' \in BOOLEAN /\ bound' \in BOOLEAN /\ draining' \in BOOLEAN /\ sees' \in BOOLEAN
          /\ pc' \in {"connecting", "got", "node", "binding", "sleeping", "acking", "waiting", "closed"}
          /\ last' \in {{}, last}
      BY <2>11 DEF Provision, Recv, BindOk, BindFails, Drained, Cancel, Tick, BeginDrain, Outage,
         AckOverdue, Turn, Bound, LeaveTurn, recvVars, TypeOK
    <3>4. idle' \in 0 .. DrainIdle /\ timer' \in 0 .. CallerTimer
      <4>1. CASE Tick
        BY <4>1 DEF Tick, TypeOK
      <4>2. CASE ~Tick
        BY <2>11, <4>2 DEF Provision, Recv, BindOk, BindFails, Drained, Cancel, BeginDrain, Outage,
           AckOverdue, Turn, LeaveTurn, recvVars, TypeOK
      <4> QED BY <4>1, <4>2
    <3>5. last' \subseteq Message /\ Cardinality(last') <= 1
      <4>1. Cardinality({}) <= 1 /\ Cardinality(last) <= 1
        BY <2>5 DEF TypeOK
      <4> QED BY <3>3, <4>1 DEF TypeOK
    <3>6. pending' \subseteq 1 .. MaxRecords + MaxResends
      BY <3>1 DEF TypeOK
    <3> QED BY <3>1, <3>2, <3>3, <3>4, <3>5, <3>6 DEF TypeOK, producerVars
  <2>12. CASE UNCHANGED vars
    <3>1. Counted'
      BY <2>3, <2>12 DEF vars, streamVars
    <3> QED BY <2>12, <3>1 DEF vars, streamVars, producerVars, recvVars, TypeOK
  <2> QED BY <2>1, <2>2, <2>6, <2>7, <2>8, <2>9, <2>10, <2>11, <2>12
       DEF Next, ProducerStep, Worker, Receive
<1> QED BY <1>1, <1>2, PTL DEF Spec

(* The state of the edge is well formed, the sequence numbers within what the *)
(* records and the bounded repetitions of a publish can use.                 *)
THEOREM TypeCorrect == Spec => []TypeOK
  BY TypeInvariant, PTL

-----------------------------------------------------------------------------
(* The stream numbers the records in the order they were sent: a record is *)
(* routed and published, as often as that takes, before the next one is.   *)
SentInOrder ==
  /\ \A m \in Queue : m.rec.n <= produced
  /\ \A m, o \in Queue : /\ m.seq = o.seq => m = o
                         /\ m.seq <= o.seq => m.rec.n <= o.rec.n

(* The records of a key are all in one partition. *)
ByKey ==
  Keyed => /\ \A c \in current : c.part = Hash[c.rec.key] % Partitions
           /\ \A p \in Parts : \A m \in stored[p] : p = Hash[m.rec.key] % Partitions

(* As long as nothing the client held was dropped, what was delivered went  *)
(* to the node, and what the node was handed is next in the order of its   *)
(* key.                                                                    *)
TakenInOrder ==
  /\ \A r \in handled : r.n <= produced
  /\ ~disturbed =>
       /\ \A m \in Queue : m.seq \in pending => m.rec \in handled \/ (pc = "got" /\ m \in last)
       /\ Keyed /\ pc = "got" =>
            \A m \in last, q \in accepted :
              q.key = m.rec.key /\ q.n < m.rec.n => q \in handled \cup Undecodable

OrderInv == SentInOrder /\ ByKey /\ TakenInOrder /\ HandledInOrder

(* Steps that store nothing keep the order of the stream and its partitions. *)
LEMMA OrderKept ==
  ASSUME TypeOK, SentInOrder, ByKey, \A p \in Parts : stored'[p] \subseteq stored[p],
         current' = current, produced' = produced
  PROVE  SentInOrder' /\ ByKey' /\ Queue' \subseteq Queue
<1>1. Queue' \subseteq Queue
  BY DEF Queue
<1> QED BY <1>1 DEF SentInOrder, ByKey

(* The oldest message that may be delivered is the next of its key: an earlier *)
(* record of the key that is still queued would be in the same partition, and  *)
(* may be delivered too.                                                       *)
LEMMA OldestIsNext ==
  ASSUME TypeOK, Edge!Lossless, SentInOrder, ByKey, TakenInOrder, ~disturbed, Keyed, pc = "waiting",
         NEW p \in Parts, NEW m \in Oldest(p), NEW q \in accepted,
         q.key = m.rec.key, q.n < m.rec.n
  PROVE  q \in handled \cup Undecodable
<1> SUFFICES ASSUME q \notin handled, q \notin Undecodable PROVE FALSE
  OBVIOUS
<1>1. PICK s \in Parts : \E o \in stored[s] : o.rec = q
  BY DEF Edge!Lossless
<1> PICK o \in stored[s] : o.rec = q
  BY <1>1
<1>2. m \in stored[p]
  BY DEF Oldest, Deliverable
<1>3. s = p
  BY <1>2 DEF ByKey
<1>4. m \in Queue /\ o \in Queue
  BY <1>2 DEF Queue
<1>5. o \in Deliverable(p)
  BY <1>3, <1>4 DEF Deliverable, TakenInOrder
<1>6. m.seq <= o.seq
  BY <1>5 DEF Oldest
<1>7. m.rec.n <= q.n
  BY <1>4, <1>6 DEF SentInOrder
<1>8. m.rec.n \in Nat /\ q.n \in Nat
  BY <1>2 DEF TypeOK, Message, Records
<1> QED BY <1>7, <1>8

(* Every step keeps the order: a publish adds a record that is later than all *)
(* others, and a Take hands over the next of its key.                        *)
LEMMA OrderInvariant == Spec => []OrderInv
<1>1. Init => OrderInv
  BY DEF Init, OrderInv, SentInOrder, ByKey, TakenInOrder, HandledInOrder, Queue
<1>2. /\ TypeOK /\ Counted /\ IInv /\ Edge!Lossless /\ OrderInv /\ [Next]_vars
      /\ TypeOK' /\ Counted'
      => OrderInv'
  <2> SUFFICES ASSUME TypeOK, Counted, IInv, Edge!Lossless, OrderInv, [Next]_vars, TypeOK', Counted'
               PROVE  OrderInv'
    OBVIOUS
  <2> USE DEF OrderInv
  <2>0. produced \in Nat /\ (\A r \in Records : r.n \in Nat) /\ nextSeq \in Nat
        /\ (\A r \in handled \cup accepted : r.n \in Nat)
        /\ (\A m \in Queue : m.seq \in Nat /\ m.rec.n \in Nat)
    BY DEF TypeOK, Records, Queue, Message
  <2>1. ASSUME NEW key \in Keys, Send(key) PROVE OrderInv'
    <3>1. /\ produced' = produced + 1
          /\ UNCHANGED <<stored, pending, accepted, handled, disturbed, pc, last>>
      BY <2>1 DEF Send, streamVars, recvVars
    <3>2. SentInOrder'
      BY <2>0, <3>1 DEF SentInOrder, Queue
    <3>3. ByKey'
      BY <2>1, <3>1 DEF Send, ByKey, Route
    <3>4. TakenInOrder'
      BY <2>0, <3>1 DEF TakenInOrder, Queue
    <3>5. HandledInOrder'
      BY <3>1 DEF HandledInOrder
    <3> QED BY <3>2, <3>3, <3>4, <3>5
  <2>2. ASSUME PublishConfirmed \/ PublishUncertain PROVE OrderInv'
    <3>1. PICK c \in current : Store(c) /\ accepted' \in {accepted, accepted \cup {c.rec}}
      BY <2>2 DEF PublishConfirmed, PublishUncertain, producerVars
    <3> DEFINE new == [seq |-> nextSeq, rec |-> c.rec]
    <3>2. /\ UNCHANGED <<produced, handled, disturbed, pc, last, pending>>
          /\ current' \subseteq current
      BY <2>2, <3>1 DEF PublishConfirmed, PublishUncertain, Store, producerVars, recvVars
    <3>3. /\ new.seq = nextSeq /\ new.rec = c.rec /\ c.rec.n = produced
          /\ c.part \in Parts /\ stored' = [stored EXCEPT ![c.part] = @ \cup {new}]
      BY <3>1 DEF Counted, Store, TypeOK
    <3> HIDE DEF new
    <3>4. \A p \in Parts : stored'[p] = IF p = c.part THEN stored[p] \cup {new} ELSE stored[p]
      BY <3>3 DEF TypeOK
    <3>5. Queue' = Queue \cup {new}
      BY <3>3, <3>4 DEF Queue
    <3>6. \A m \in Queue : m.seq < nextSeq
      BY DEF Counted
    <3>7. SentInOrder'
      BY <2>0, <3>2, <3>3, <3>5, <3>6 DEF SentInOrder
    <3>8. ByKey'
      BY <3>2, <3>3, <3>4 DEF ByKey
    <3>9. TakenInOrder'
      <4>1. nextSeq \notin pending
        BY <2>0 DEF Counted
      <4>2. pc = "got" => \A m \in last : m.rec.n <= produced /\ m.rec.n \in Nat
        BY <2>0 DEF IInv, HandedOver, SentInOrder
      <4>3. \A m \in Queue' : m.seq \in pending' => m \in Queue
        BY <3>2, <3>3, <3>5, <4>1
      <4>4. \A q \in accepted' : q \in accepted \/ q.n = produced
        BY <3>1, <3>3
      <4> QED BY <2>0, <3>2, <4>2, <4>3, <4>4 DEF TakenInOrder
    <3>10. HandledInOrder'
      <4>1. \A q \in accepted' : q \in accepted \/ q.n = produced
        BY <3>1, <3>3
      <4>2. \A r \in handled : r.n <= produced /\ r.n \in Nat
        BY <2>0 DEF TakenInOrder
      <4> QED BY <2>0, <3>2, <4>1, <4>2 DEF HandledInOrder
    <3> QED BY <3>7, <3>8, <3>9, <3>10
  <2>3. ASSUME NEW p \in Owned(Index), Take(p) PROVE OrderInv'
    <3>1. PICK m \in Oldest(p) : pending' = pending \cup {m.seq} /\ last' = {m}
      BY <2>3 DEF Take
    <3>2. p \in Parts /\ m \in Queue
      BY DEF Oldest, Deliverable, Owned, Queue
    <3>3. /\ UNCHANGED <<stored, current, produced, accepted, handled, disturbed>>
          /\ pc = "waiting" /\ pc' = "got"
      BY <2>3 DEF Take, producerVars
    <3>4. SentInOrder' /\ ByKey' /\ Queue' \subseteq Queue
      BY <3>3, OrderKept
    <3>5. TakenInOrder'
      <4>1. ~disturbed => \A o \in Queue : o.seq \in pending' => o.rec \in handled \/ o = m
        BY <3>1, <3>2, <3>3 DEF TakenInOrder, SentInOrder
      <4>2. ~disturbed /\ Keyed => \A q \in accepted :
              q.key = m.rec.key /\ q.n < m.rec.n => q \in handled \cup Undecodable
        BY <3>2, <3>3, OldestIsNext
      <4> QED BY <3>1, <3>3, <3>4, <4>1, <4>2 DEF TakenInOrder
    <3>6. HandledInOrder'
      BY <3>3 DEF HandledInOrder
    <3> QED BY <3>4, <3>5, <3>6
  <2>4. ASSUME HandleRecord PROVE OrderInv'
    <3>1. /\ UNCHANGED <<stored, pending, current, produced, accepted, disturbed>>
          /\ pc = "got" /\ pc' = "node" /\ last' = last /\ handled' = handled \cup {m.rec : m \in last}
      BY <2>4 DEF HandleRecord, streamVars, producerVars
    <3>2. SentInOrder' /\ ByKey' /\ Queue' \subseteq Queue
      BY <3>1, OrderKept
    <3>3. TakenInOrder'
      <4>1. \A m \in last : m.rec.n <= produced
        BY <3>1 DEF IInv, HandedOver, SentInOrder
      <4>2. \A r \in handled' : r.n <= produced'
        BY <3>1, <4>1 DEF TakenInOrder
      <4>3. ~disturbed' => \A m \in Queue' : m.seq \in pending' => m.rec \in handled'
        BY <3>1, <3>2 DEF TakenInOrder
      <4> QED BY <3>1, <4>2, <4>3 DEF TakenInOrder
    <3>4. HandledInOrder'
      BY <3>1 DEF HandledInOrder, TakenInOrder
    <3> QED BY <3>2, <3>3, <3>4
  <2>5. ASSUME \/ Provision \/ Recv \/ BindOk \/ BindFails \/ Acknowledge \/ StreamFails \/ Drained
               \/ Cancel \/ Tick \/ BeginDrain \/ Crash \/ Outage
               \/ (\E p \in Owned(Index) : SkipUndecodable(p))
               \/ \E seq \in pending : AckOverdue(seq)
        PROVE  OrderInv'
    <3>1. UNCHANGED <<current, produced, accepted, handled>>
      BY <2>5 DEF Provision, Recv, BindOk, BindFails, Acknowledge, StreamFails, Drained, Cancel, Tick,
         BeginDrain, Crash, Outage, SkipUndecodable, AckOverdue, producerVars
    <3>2. \A p \in Parts : stored'[p] \subseteq stored[p]
      BY <2>5 DEF Provision, Recv, BindOk, BindFails, Acknowledge, StreamFails, Drained, Cancel, Tick,
         BeginDrain, Crash, Outage, SkipUndecodable, AckOverdue, DropPulled, Without, streamVars
    <3>3. SentInOrder' /\ ByKey' /\ Queue' \subseteq Queue
      BY <3>1, <3>2, OrderKept
    <3>4. disturbed' \/ (disturbed' = disturbed /\ pending' \subseteq pending)
      <4>1. CASE StreamFails \/ Crash
        BY <4>1 DEF StreamFails, Crash, DropPulled
      <4>2. CASE Acknowledge \/ \E p \in Owned(Index) : SkipUndecodable(p)
        BY <4>2 DEF Acknowledge, SkipUndecodable, Without, streamVars
      <4>3. CASE \/ Provision \/ Recv \/ BindOk \/ BindFails \/ Drained \/ Cancel \/ Tick
                 \/ BeginDrain \/ Outage \/ \E seq \in pending : AckOverdue(seq)
        BY <4>3 DEF Provision, Recv, BindOk, BindFails, Drained, Cancel, Tick, BeginDrain, Outage,
           AckOverdue, streamVars
      <4> QED BY <2>5, <4>1, <4>2, <4>3
    <3>5. \/ disturbed'
          \/ pc' # "got" /\ pc # "got"
          \/ pc' = pc /\ last' = last
      BY <2>5 DEF Provision, Recv, BindOk, BindFails, Acknowledge, StreamFails, Drained, Cancel, Tick,
         BeginDrain, Crash, Outage, SkipUndecodable, AckOverdue, DropPulled, Turn, Bound, InRecv,
         recvVars
    <3>6. TakenInOrder'
      BY <3>1, <3>3, <3>4, <3>5 DEF TakenInOrder
    <3>7. HandledInOrder'
      BY <3>1, <3>4 DEF HandledInOrder
    <3> QED BY <3>3, <3>6, <3>7
  <2>6. CASE UNCHANGED vars
    BY <2>6 DEF vars, streamVars, producerVars, recvVars, SentInOrder, ByKey, TakenInOrder,
       HandledInOrder, Queue
  <2> QED BY <2>1, <2>2, <2>3, <2>4, <2>5, <2>6 DEF Next, ProducerStep, Worker, Receive
<1> QED BY <1>1, <1>2, TypeInvariant, Invariant, NothingAcceptedIsLost, PTL DEF Spec

(* The records of a key are first handled in the order they were sent: the *)
(* stream keeps that order within the one partition of the key, and what   *)
(* was delivered of it is handled before the next message is taken.        *)
THEOREM OrderOfAKey == Spec => []HandledInOrder
  BY OrderInvariant, PTL DEF OrderInv

=============================================================================
