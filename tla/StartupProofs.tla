--------------------------- MODULE StartupProofs ---------------------------
(***************************************************************************)
(* A pipeline from its file to its first record, for every set of          *)
(* pipelines: what the checks of validate establish, how the expressions   *)
(* that passed decide the turn of a map node, and the wasm nodes.          *)
(***************************************************************************)
EXTENDS Startup, ExprProofs, SequenceTheorems, TLAPS

(* Every check but the last ends with the phase it names, and an error with "done". *)
Running == phase # "done" => verdict = NoError

After(phases) == phase \in phases /\ verdict = NoError

DistinctIds == IsInjective([i \in DOMAIN Nodes |-> Nodes[i].id])

(* The sets of outputs a walk along the edges from the sources stays in. *)
Closed(C) == SourceIds \subseteq C /\ \A n \in C : Consumers(n) \subseteq C

WithinClosed == \A C : Closed(C) => seen \subseteq C

(* What the checks behind the current phase have established. *)
GraphInv ==
  /\ p \in Pipelines
  /\ phase \in Phases
  /\ Running
  /\ stack \subseteq seen
  /\ After(Phases \ {"ids"}) => DistinctIds
  /\ After({"reach", "joins", "ends", "wire", "done"}) => WithinClosed
  /\ After({"joins", "ends", "wire", "done"}) => \A t \in Transforms : t.id \in seen

(* What each phase of validation has established of the graph. *)
LEMMA GraphInvariant == Spec => []GraphInv
<1> USE DEF GraphInv, Running, After, Phases, NoError
<1>1. Init => GraphInv
  BY DEF Init
<1>2. GraphInv /\ [Next]_vars => GraphInv'
  <2> SUFFICES ASSUME GraphInv, [Next]_vars PROVE GraphInv'
    OBVIOUS
  <2>1. CASE CheckIds
    <3>1. UNCHANGED <<p, seen, stack>>
      BY <2>1 DEF CheckIds
    <3>2. CASE DistinctIds
      BY <2>1, <3>1, <3>2 DEF CheckIds, Conclude, DistinctIds, Nodes
    <3>3. CASE ~DistinctIds
      BY <2>1, <3>1, <3>3 DEF CheckIds, Conclude, DistinctIds, Nodes
    <3> QED BY <3>2, <3>3
  <2> DEFINE Same == /\ Transforms' = Transforms
                     /\ DistinctIds' = DistinctIds
                     /\ (seen' = seen => WithinClosed' = WithinClosed)
  <2>0. p' = p => Same
    BY DEF Transforms, DistinctIds, Nodes, WithinClosed, Closed, SourceIds, Consumers
  <2> HIDE DEF Same
  <2>2. CASE CheckIntervals \/ CheckValues \/ CheckJoins \/ CheckSinks
    <3>1. UNCHANGED <<p, seen, stack>> /\ Same
      BY <2>2, <2>0 DEF CheckIntervals, CheckValues, CheckJoins, CheckSinks
    <3>2. \/ phase' = "done" /\ verdict' # NoError
          \/ verdict' = NoError /\ <<phase, phase'>> \in
               {<<"intervals", "values">>, <<"values", "values">>, <<"values", "edges">>,
                <<"joins", "joins">>, <<"joins", "ends">>, <<"ends", "wire">>}
      BY <2>2 DEF CheckIntervals, CheckValues, CheckJoins, CheckSinks, Conclude, Advance
    <3> QED BY <3>1, <3>2 DEF Same
  <2>3. CASE CheckEdges
    <3>1. p' = p /\ Same
      BY <2>3, <2>0 DEF CheckEdges
    <3>2. \/ phase' = "done" /\ verdict' # NoError
          \/ verdict' = NoError /\ phase = "edges" /\ phase' = "edges"
          \/ verdict' = NoError /\ phase = "edges" /\ phase' = "reach" /\ seen' = SourceIds
      BY <2>3 DEF CheckEdges, Conclude, Advance
    <3>3. seen' = SourceIds => WithinClosed'
      BY <3>1 DEF WithinClosed, Closed, SourceIds
    <3>4. UNCHANGED <<seen, stack>> \/ seen' = stack'
      BY <2>3 DEF CheckEdges
    <3> QED BY <3>1, <3>2, <3>3, <3>4 DEF Same
  <2>4. CASE Follow
    <3>1. p' = p /\ phase = "reach" /\ phase' = "reach" /\ verdict' = verdict /\ Same
      BY <2>4, <2>0 DEF Follow
    <3>2. WithinClosed'
      <4>1. PICK n \in stack : seen' = seen \cup Consumers(n)
        BY <2>4 DEF Follow
      <4> SUFFICES ASSUME NEW C, Closed(C) PROVE seen' \subseteq C
        BY <3>1 DEF WithinClosed, Closed, SourceIds, Consumers, Transforms
      <4>2. seen \subseteq C
        BY <3>1 DEF WithinClosed
      <4> QED BY <4>1, <4>2 DEF Closed
    <3>3. stack' \subseteq seen'
      BY <2>4 DEF Follow
    <3> QED BY <3>1, <3>2, <3>3 DEF Same
  <2>5. CASE CheckReachable
    <3>1. UNCHANGED <<p, seen, stack>> /\ Same
      BY <2>5, <2>0 DEF CheckReachable
    <3>2. \/ phase' = "done" /\ verdict' # NoError
          \/ /\ verdict' = NoError /\ phase = "reach" /\ phase' = "joins"
             /\ \A t \in Transforms : t.id \in seen
      BY <2>5 DEF CheckReachable, Conclude
    <3> QED BY <3>1, <3>2 DEF Same
  <2>6. CASE Wire
    <3>1. UNCHANGED <<p, seen, stack>> /\ Same
      BY <2>6, <2>0 DEF Wire
    <3> QED BY <2>6, <3>1 DEF Wire, Same
  <2>7. CASE UNCHANGED vars
    <3>1. UNCHANGED <<p, seen, stack>> /\ Same
      BY <2>7, <2>0 DEF vars
    <3> QED BY <2>7, <3>1 DEF vars, Same
  <2> QED BY <2>1, <2>2, <2>3, <2>4, <2>5, <2>6, <2>7 DEF Next
<1> QED BY <1>1, <1>2, PTL DEF Spec

-----------------------------------------------------------------------------
(* Where the elements of the first two of three sequences are when they are joined. *)
LEMMA JoinedSequences ==
  ASSUME NEW X, NEW A \in Seq(X), NEW B \in Seq(X), NEW C \in Seq(X),
         NEW N, N = A \o B \o C
  PROVE  /\ Len(A) \in Nat
         /\ \A i \in DOMAIN A : i \in DOMAIN N /\ i <= Len(A) /\ N[i] = A[i]
         /\ \A i \in DOMAIN B : i > 0 /\ Len(A) + i \in DOMAIN N /\ N[Len(A) + i] = B[i]
<1> DEFINE AB == A \o B
<1>1. /\ AB \in Seq(X)
      /\ Len(AB) = Len(A) + Len(B)
      /\ \A i \in 1 .. Len(A) + Len(B) : AB[i] = IF i <= Len(A) THEN A[i] ELSE B[i - Len(A)]
  BY ConcatProperties
<1>2. N = AB \o C
  OBVIOUS
<1> HIDE DEF AB
<1>3. /\ N \in Seq(X)
      /\ Len(N) = Len(AB) + Len(C)
      /\ \A i \in 1 .. Len(AB) + Len(C) : N[i] = IF i <= Len(AB) THEN AB[i] ELSE C[i - Len(AB)]
  <2>1. AB \in Seq(X)
    BY <1>1
  <2>2. /\ AB \o C \in Seq(X)
        /\ Len(AB \o C) = Len(AB) + Len(C)
        /\ \A i \in 1 .. Len(AB) + Len(C) :
             (AB \o C)[i] = IF i <= Len(AB) THEN AB[i] ELSE C[i - Len(AB)]
    BY <2>1, ConcatProperties
  <2> QED BY <1>2, <2>2
<1>4. /\ Len(A) \in Nat /\ DOMAIN A = 1 .. Len(A)
      /\ Len(B) \in Nat /\ DOMAIN B = 1 .. Len(B)
      /\ Len(C) \in Nat /\ DOMAIN N = 1 .. Len(N)
  BY <1>3, LenProperties
<1>5. ASSUME NEW a \in Nat, NEW b \in Nat, NEW c \in Nat, a = Len(A), b = Len(B), c = Len(C)
      PROVE  /\ \A i \in 1 .. a : i \in 1 .. a + b + c /\ N[i] = A[i]
             /\ \A i \in 1 .. b : i > 0 /\ a + i \in 1 .. a + b + c /\ N[a + i] = B[i]
  <2>1. \A i \in 1 .. a + b : AB[i] = IF i <= a THEN A[i] ELSE B[i - a]
    BY <1>1, <1>5
  <2>2. \A i \in 1 .. a + b : N[i] = AB[i]
    BY <1>1, <1>3, <1>5
  <2>3. \A i \in 1 .. a : i \in 1 .. a + b /\ i <= a
    OBVIOUS
  <2>4. \A i \in 1 .. b : a + i \in 1 .. a + b /\ ~(a + i <= a) /\ (a + i) - a = i
    OBVIOUS
  <2>5. \A i \in 1 .. a + b : i \in 1 .. a + b + c
    OBVIOUS
  <2>6. \A i \in 1 .. b : i > 0
    OBVIOUS
  <2> HIDE <1>5
  <2> QED BY <2>1, <2>2, <2>3, <2>4, <2>5, <2>6, Zenon
<1>6. DOMAIN N = 1 .. Len(A) + Len(B) + Len(C) /\ \A i \in 1 .. Len(A) : i <= Len(A)
  BY <1>1, <1>3, <1>4
<1>7. /\ \A i \in 1 .. Len(A) : i \in 1 .. Len(A) + Len(B) + Len(C) /\ N[i] = A[i]
      /\ \A i \in 1 .. Len(B) : /\ i > 0
                               /\ Len(A) + i \in 1 .. Len(A) + Len(B) + Len(C)
                               /\ N[Len(A) + i] = B[i]
  BY <1>4, <1>5, Zenon
<1> QED BY <1>4, <1>6, <1>7

(* Ids that are distinct tell the nodes apart. *)
LEMMA DistinctNodes ==
  ASSUME p \in Pipelines, DistinctIds
  PROVE  /\ \A t, u \in Transforms : t.id = u.id => t = u
         /\ \A t \in Transforms : t.id \notin SourceIds
<1> DEFINE Any == Source \cup Transform \cup Sink
           s == Len(p.sources)
<1>1. p.sources \in Seq(Source) /\ p.transforms \in Seq(Transform) /\ p.sinks \in Seq(Sink)
  BY ValidateAssumption DEF Pipeline
<1>2. p.sources \in Seq(Any) /\ p.transforms \in Seq(Any) /\ p.sinks \in Seq(Any)
  BY <1>1, SeqMonotonic
<1> HIDE DEF Any
<1>3. /\ s \in Nat
      /\ \A i \in DOMAIN p.sources : i \in DOMAIN Nodes /\ i <= s /\ Nodes[i] = p.sources[i]
      /\ \A i \in DOMAIN p.transforms :
           i > 0 /\ s + i \in DOMAIN Nodes /\ Nodes[s + i] = p.transforms[i]
  <2>1. Nodes = p.sources \o p.transforms \o p.sinks
    BY DEF Nodes
  <2>2. \A X : \A A, B, C \in Seq(X) : Nodes = A \o B \o C =>
          /\ Len(A) \in Nat
          /\ \A i \in DOMAIN A : i \in DOMAIN Nodes /\ i <= Len(A) /\ Nodes[i] = A[i]
          /\ \A i \in DOMAIN B : i > 0 /\ Len(A) + i \in DOMAIN Nodes /\ Nodes[Len(A) + i] = B[i]
    BY JoinedSequences
  <2> QED BY <1>2, <2>1, <2>2
<1>4. DOMAIN p.sources \subseteq Nat /\ DOMAIN p.transforms \subseteq Nat
  BY <1>1, LenProperties
<1> HIDE DEF s
<1>5. \A i, j \in DOMAIN Nodes : Nodes[i].id = Nodes[j].id => i = j
  BY DEF DistinctIds, IsInjective
<1>6. ASSUME NEW x \in Transforms, NEW y \in Transforms, x.id = y.id PROVE x = y
  <2>1. PICK i \in DOMAIN p.transforms : x = p.transforms[i]
    BY DEF Transforms, Range
  <2>2. PICK j \in DOMAIN p.transforms : y = p.transforms[j]
    BY DEF Transforms, Range
  <2>3. s + i = s + j
    BY <1>3, <1>5, <1>6, <2>1, <2>2
  <2> QED BY <1>3, <2>1, <2>2, <2>3
<1>7. ASSUME NEW x \in Transforms, x.id \in SourceIds PROVE FALSE
  <2>1. PICK i \in DOMAIN p.transforms : x = p.transforms[i]
    BY DEF Transforms, Range
  <2>2. PICK j \in DOMAIN p.sources : x.id = p.sources[j].id
    BY <1>7 DEF SourceIds, Range
  <2>3. s + i = j
    BY <1>3, <1>5, <2>1, <2>2
  <2> QED BY <1>3, <1>4, <2>3
<1> QED BY <1>6, <1>7

(* Only a join closes a cycle.  Where transforms that are no joins fed one  *)
(* another in a circle, each by its one input, the other outputs would be   *)
(* closed under the edges, and the walk would not have reached the circle.  *)
THEOREM CyclesNeedAJoin == Spec => []OnlyJoinsCloseCycles
<1>1. GraphInv => OnlyJoinsCloseCycles
  <2> SUFFICES ASSUME GraphInv, Accepted, NEW S \in SUBSET Transforms, S # {},
                      \A t \in S : \E u \in S : u.id \in Range(t.inputs),
                      \A t \in S : t.kind # "join"
               PROVE  FALSE
    BY DEF OnlyJoinsCloseCycles
  <2>1. DistinctIds /\ WithinClosed /\ p \in Pipelines /\ \A t \in Transforms : t.id \in seen
    BY DEF GraphInv, Accepted, After, Phases
  <2> DEFINE C == Outputs \ {t.id : t \in S}
  <2>2. SourceIds \subseteq C
    BY <2>1, DistinctNodes DEF Outputs
  <2>3. ASSUME NEW n \in C, NEW t \in Transforms, n \in Range(t.inputs), t \in S PROVE FALSE
    <3>1. PICK u \in S : u.id \in Range(t.inputs)
      BY <2>3
    <3>2. Len(t.inputs) = 1 /\ t.inputs \in Seq(STRING)
      <4>1. PICK i \in DOMAIN p.transforms : t = p.transforms[i]
        BY DEF Transforms, Range
      <4>2. p.transforms \in Seq(Transform)
        BY <2>1, ValidateAssumption DEF Pipeline
      <4>3. t \in Transform
        BY <4>1, <4>2, LenProperties, ElementOfSeq
      <4> QED BY <2>1, <2>3, <4>1, <4>3, ValidateAssumption DEF Transform
    <3>3. \A x, y \in Range(t.inputs) : x = y
      BY <3>2, LenProperties DEF Range
    <3>4. n = u.id
      BY <2>3, <3>1, <3>3
    <3> QED BY <3>4
  <2>4. \A n \in C : Consumers(n) \subseteq C
    <3> SUFFICES ASSUME NEW n \in C, NEW t \in Transforms, n \in Range(t.inputs) PROVE t.id \in C
      BY DEF Consumers
    <3>1. t \notin S
      BY <2>3
    <3>2. \A u \in S : u.id # t.id
      BY <2>1, <3>1, DistinctNodes
    <3> QED BY <3>2 DEF Outputs
  <2>5. seen \subseteq C
    BY <2>1, <2>2, <2>4 DEF WithinClosed, Closed
  <2> QED BY <2>1, <2>5
<1> QED BY <1>1, GraphInvariant, PTL

-----------------------------------------------------------------------------
(* The readers are a sequence of nodes with lists of inputs, the transforms first. *)
LEMMA ReadersAreASequence ==
  ASSUME p \in Pipelines
  PROVE  /\ Len(Readers) \in Nat /\ DOMAIN Readers = 1 .. Len(Readers)
         /\ \A i \in DOMAIN Readers : Readers[i].inputs \in Seq(STRING)
         /\ \A i \in DOMAIN p.transforms : i \in DOMAIN Readers /\ Readers[i] = p.transforms[i]
         /\ DOMAIN p.transforms = 1 .. Len(p.transforms) /\ Len(p.transforms) \in Nat
<1> DEFINE feeds == [i \in DOMAIN p.sinks |-> [inputs |-> <<p.sinks[i].input>>]]
           Any == Transform \cup {[inputs |-> <<x>>] : x \in STRING}
<1>1. p.transforms \in Seq(Transform) /\ p.sinks \in Seq(Sink)
  BY ValidateAssumption DEF Pipeline
<1>2. feeds \in Seq(Any)
  <2>1. DOMAIN p.sinks = 1 .. Len(p.sinks) /\ Len(p.sinks) \in Nat
    BY <1>1, LenProperties
  <2>2. \A i \in 1 .. Len(p.sinks) : p.sinks[i].input \in STRING
    <3>1. \A x \in Sink : x.input \in STRING
      BY DEF Sink
    <3>2. \A i \in 1 .. Len(p.sinks) : p.sinks[i] \in Sink
      BY <1>1, ElementOfSeq
    <3> QED BY <3>1, <3>2
  <2>3. feeds \in [1 .. Len(p.sinks) -> Any]
    BY <2>1, <2>2
  <2>4. \A n \in Nat : \A s \in [1 .. n -> Any] : s \in Seq(Any)
    <3> HIDE DEF Any
    <3> QED BY SeqDef
  <2> QED BY <2>1, <2>3, <2>4
<1>3. p.transforms \in Seq(Any)
  BY <1>1, SeqMonotonic
<1>4. Readers = p.transforms \o feeds
  BY DEF Readers
<1> HIDE DEF feeds, Any
<1>5. /\ Readers \in Seq(Any)
      /\ Len(Readers) = Len(p.transforms) + Len(feeds)
      /\ \A i \in 1 .. Len(p.transforms) + Len(feeds) :
           Readers[i] = IF i <= Len(p.transforms) THEN p.transforms[i]
                        ELSE feeds[i - Len(p.transforms)]
  BY <1>2, <1>3, <1>4, ConcatProperties, Zenon
<1>6. /\ Len(Readers) \in Nat /\ DOMAIN Readers = 1 .. Len(Readers)
      /\ Len(p.transforms) \in Nat /\ DOMAIN p.transforms = 1 .. Len(p.transforms)
      /\ Len(feeds) \in Nat
  BY <1>2, <1>3, <1>5, LenProperties
<1>7. \A i \in DOMAIN Readers : Readers[i] \in Any
  BY <1>5, <1>6, ElementOfSeq
<1>8. \A x \in Any : x.inputs \in Seq(STRING)
  <2>1. \A x \in Transform : x.inputs \in Seq(STRING)
    BY DEF Transform
  <2>2. ASSUME NEW x \in STRING PROVE [inputs |-> <<x>>].inputs \in Seq(STRING)
    <3>1. <<x>> = Append(<< >>, x)
      OBVIOUS
    <3>2. << >> \in Seq(STRING)
      BY EmptySeq
    <3>3. Append(<< >>, x) \in Seq(STRING)
      BY <3>2, AppendProperties
    <3> QED BY <3>1, <3>3
  <2> QED BY <2>1, <2>2 DEF Any
<1> QED BY <1>5, <1>6, <1>7, <1>8

(* The inputs of the first k readers are outputs, and all are different. *)
EdgesChecked(k) ==
  \A i \in DOMAIN Readers : i <= k =>
    \A a \in DOMAIN Readers[i].inputs :
      /\ Readers[i].inputs[a] \in Outputs \cap consumed
      /\ \A j \in DOMAIN Readers : j <= k =>
           \A b \in DOMAIN Readers[j].inputs :
             Readers[i].inputs[a] = Readers[j].inputs[b] => i = j /\ a = b

JoinsChecked(k) ==
  \A i \in DOMAIN p.transforms :
    i <= k /\ p.transforms[i].kind = "join" => JoinError(p.transforms[i]) = NoError

(* What the edges and joins that have been checked so far satisfy. *)
WiringInv ==
  /\ at \in Nat
  /\ phase = "edges" => at > 0 /\ EdgesChecked(at - 1)
  /\ After({"reach", "joins", "ends", "wire", "done"}) => EdgesChecked(Len(Readers))
  /\ phase = "joins" => at > 0 /\ JoinsChecked(at - 1)
  /\ After({"ends", "wire", "done"}) => JoinsChecked(Len(p.transforms))
  /\ After({"done"}) => chans = Channels

(* Inputs without an error are outputs not yet consumed, each named once. *)
LEMMA EdgeAccepted ==
  ASSUME NEW inputs, EdgeError(inputs) = NoError
  PROVE  \A i \in DOMAIN inputs :
           /\ inputs[i] \in Outputs /\ inputs[i] \notin consumed
           /\ \A j \in 1 .. i - 1 : inputs[j] # inputs[i]
<1>1. Refused(inputs) = {}
  BY DEF EdgeError, NoError
<1> QED BY <1>1 DEF Refused

(* What the checks of the edges have established of the wiring. *)
LEMMA WiringInvariant == Spec => []WiringInv
<1> USE DEF After, NoError
<1>1. Init => WiringInv
  BY DEF Init, WiringInv
<1>2. GraphInv /\ GraphInv' /\ WiringInv /\ [Next]_vars => WiringInv'
  <2> SUFFICES ASSUME GraphInv, WiringInv, [Next]_vars PROVE WiringInv'
    OBVIOUS
  <2> USE DEF WiringInv
  <2>1. p \in Pipelines /\ (phase # "done" => verdict = NoError)
    BY DEF GraphInv, Running
  <2>2. p' = p => /\ Readers' = Readers /\ Outputs' = Outputs /\ Channels' = Channels
                  /\ \A t : JoinError(t)' = JoinError(t)
    <3>1. p' = p => Readers' = Readers /\ Outputs' = Outputs
      BY DEF Readers, Outputs, Transforms, SourceIds
    <3>2. p' = p => Windows' = Windows
      BY DEF Windows, Transforms
    <3>3. p' = p => Channels' = Channels
      <4>1. p' = p => \A o : KeySpec(o)' = KeySpec(o)
        BY <3>2 DEF KeySpec
      <4> SUFFICES ASSUME p' = p PROVE Channels' = Channels
        OBVIOUS
      <4>2. Readers' = Readers /\ Outputs' = Outputs /\ \A o : KeySpec(o)' = KeySpec(o)
        BY <3>1, <4>1
      <4> DEFINE reading(o) == UNION {{<<i, n>> : n \in {n \in DOMAIN Readers[i].inputs :
                                            Readers[i].inputs[n] = o}} : i \in DOMAIN Readers}
      <4>3. \A o : reading(o)' = reading(o)
        BY <4>2
      <4>4. /\ Channels = [o \in Outputs |-> [key |-> KeySpec(o), readers |-> reading(o)]]
            /\ Channels' = [o \in Outputs' |-> [key |-> KeySpec(o)', readers |-> reading(o)']]
        BY DEF Channels
      <4> HIDE DEF reading
      <4> QED BY <4>2, <4>3, <4>4
    <3>4. p' = p => \A t : JoinError(t)' = JoinError(t)
      BY <3>2 DEF JoinError, InputWindows
    <3> QED BY <3>1, <3>3, <3>4
  <2>3. p' = p => /\ \A k : JoinsChecked(k)' <=> JoinsChecked(k)
                  /\ consumed' = consumed => \A k : EdgesChecked(k)' <=> EdgesChecked(k)
    BY <2>2 DEF JoinsChecked, EdgesChecked
  <2>4. EdgesChecked(0) /\ JoinsChecked(0)
    BY <2>1, ReadersAreASequence DEF EdgesChecked, JoinsChecked
  <2>5. CASE CheckIds \/ CheckIntervals \/ CheckValues \/ Follow \/ CheckReachable \/ CheckSinks
    <3>1. p' = p /\ consumed' = consumed /\ chans' = chans
      BY <2>5 DEF CheckIds, CheckIntervals, CheckValues, Follow, CheckReachable, CheckSinks
    <3>2. \/ phase' = "done" /\ verdict' # NoError /\ at' \in Nat
          \/ phase' \in {"intervals", "values"} /\ at' \in Nat
          \/ phase' = "edges" /\ at' = 1
          \/ phase = "reach" /\ phase' \in {"reach"} /\ at' \in Nat /\ verdict' = verdict
          \/ phase = "reach" /\ phase' = "joins" /\ at' = 1
          \/ phase = "ends" /\ phase' = "wire" /\ at' = 1
      BY <2>5 DEF CheckIds, CheckIntervals, CheckValues, Follow, CheckReachable, CheckSinks,
         Conclude, Advance
    <3> QED BY <2>1, <2>2, <2>3, <2>4, <3>1, <3>2
  <2>6. CASE CheckEdges
    <3>1. p' = p /\ phase = "edges" /\ chans' = chans
      BY <2>6 DEF CheckEdges
    <3>2. CASE at > Len(Readers)
      <4>1. consumed' = consumed /\ phase' = "reach" /\ at' = 1
        BY <2>6, <3>2 DEF CheckEdges, Conclude
      <4>2. EdgesChecked(Len(Readers))
        <5>1. \A i \in DOMAIN Readers : i <= at - 1
          BY <2>1, <3>1, <3>2, ReadersAreASequence
        <5>2. EdgesChecked(at - 1)
          BY <3>1
        <5> QED BY <5>1, <5>2 DEF EdgesChecked
      <4> QED BY <2>2, <2>3, <3>1, <4>1, <4>2
    <3>3. CASE ~(at > Len(Readers)) /\ EdgeError(Readers[at].inputs) # NoError
      BY <2>6, <3>3 DEF CheckEdges, Advance
    <3>4. CASE ~(at > Len(Readers)) /\ EdgeError(Readers[at].inputs) = NoError
      <4>1. /\ phase' = "edges" /\ at' = at + 1
            /\ consumed' = consumed \cup Range(Readers[at].inputs)
        BY <2>6, <3>1, <3>4 DEF CheckEdges, Advance
      <4>2. \A i \in DOMAIN Readers[at].inputs :
              /\ Readers[at].inputs[i] \in Outputs /\ Readers[at].inputs[i] \notin consumed
              /\ \A j \in 1 .. i - 1 : Readers[at].inputs[j] # Readers[at].inputs[i]
        BY <3>4, EdgeAccepted
      <4> DEFINE in(i) == Readers[i].inputs
      <4>3. /\ at \in DOMAIN Readers
            /\ \A a, b \in DOMAIN in(at) : a # b => in(at)[a] # in(at)[b]
        <5>1. at \in DOMAIN Readers /\ in(at) \in Seq(STRING)
          BY <2>1, <3>1, <3>4, ReadersAreASequence
        <5>2. DOMAIN in(at) = 1 .. Len(in(at)) /\ Len(in(at)) \in Nat
          BY <5>1, LenProperties
        <5>3. \A a, b \in DOMAIN in(at) : a < b => in(at)[a] # in(at)[b]
          BY <4>2, <5>2
        <5>4. \A a, b \in DOMAIN in(at) : a # b => a < b \/ b < a
          BY <5>2
        <5> QED BY <5>1, <5>3, <5>4
      <4>4. ASSUME NEW i \in DOMAIN Readers, i <= at, NEW a \in DOMAIN in(i)
            PROVE  /\ in(i)[a] \in Outputs \cap consumed'
                   /\ i # at => in(i)[a] \in consumed
        <5>1. i = at \/ i <= at - 1
          BY <2>1, <3>1, <4>3, <4>4, ReadersAreASequence
        <5>2. CASE i = at
          BY <4>1, <4>2, <4>4, <5>2 DEF Range
        <5>3. CASE i <= at - 1
          BY <3>1, <4>1, <4>4, <5>3 DEF EdgesChecked
        <5> QED BY <5>1, <5>2, <5>3
      <4>5. ASSUME NEW i \in DOMAIN Readers, i <= at, NEW a \in DOMAIN in(i),
                   NEW j \in DOMAIN Readers, j <= at, NEW b \in DOMAIN in(j),
                   in(i)[a] = in(j)[b]
            PROVE  i = j /\ a = b
        <5>1. i = at <=> j = at
          BY <4>2, <4>4, <4>5
        <5>2. CASE i = at
          BY <4>3, <4>5, <5>1, <5>2
        <5>3. CASE i # at
          <6>1. i <= at - 1 /\ j <= at - 1
            BY <2>1, <4>5, <5>1, <5>3, ReadersAreASequence
          <6> QED BY <3>1, <4>5, <6>1 DEF EdgesChecked
        <5> QED BY <5>2, <5>3
      <4>6. EdgesChecked(at - 1)'
        <5>1. at' - 1 = at
          BY <4>1
        <5> QED BY <2>2, <3>1, <4>4, <4>5, <5>1 DEF EdgesChecked
      <4> QED BY <3>1, <4>1, <4>6
    <3> QED BY <3>2, <3>3, <3>4
  <2>7. CASE CheckJoins
    <3>1. p' = p /\ consumed' = consumed /\ chans' = chans /\ phase = "joins"
      BY <2>7 DEF CheckJoins
    <3>2. CASE at > Len(p.transforms)
      <4>1. phase' = "ends" /\ at' = 1
        BY <2>7, <3>2 DEF CheckJoins, Conclude
      <4>2. JoinsChecked(Len(p.transforms))
        BY <2>1, <3>1, <3>2, ReadersAreASequence DEF JoinsChecked
      <4> QED BY <2>1, <2>2, <2>3, <3>1, <4>1, <4>2
    <3>3. CASE ~(at > Len(p.transforms))
      <4>1. \/ phase' = "done" /\ verdict' # NoError /\ at' = at + 1
            \/ /\ phase' = "joins" /\ verdict' = NoError /\ at' = at + 1
               /\ p.transforms[at].kind = "join" => JoinError(p.transforms[at]) = NoError
        BY <2>7, <3>1, <3>3 DEF CheckJoins, Advance
      <4>2. (p.transforms[at].kind = "join" => JoinError(p.transforms[at]) = NoError)
              => JoinsChecked(at)
        BY <2>1, <3>1, ReadersAreASequence DEF JoinsChecked
      <4> QED BY <2>1, <2>2, <2>3, <3>1, <4>1, <4>2
    <3> QED BY <3>2, <3>3
  <2>8. CASE Wire
    BY <2>1, <2>2, <2>3, <2>8 DEF Wire
  <2>9. CASE UNCHANGED vars
    BY <2>2, <2>3, <2>9 DEF vars
  <2> QED BY <2>5, <2>6, <2>7, <2>8, <2>9 DEF Next
<1> QED BY <1>1, <1>2, GraphInvariant, PTL DEF Spec

(* Every input reads an output, and no output has two readers: the receiver *)
(* of a channel is there when it is taken, and taken once.                 *)
THEOREM EveryReceiverIsTakenOnce == Spec => []ReceiverTakenOnce
<1>1. GraphInv /\ WiringInv => ReceiverTakenOnce
  <2> SUFFICES ASSUME GraphInv, WiringInv, Wired PROVE ReceiverTakenOnce
    BY DEF ReceiverTakenOnce
  <2>1. p \in Pipelines /\ EdgesChecked(Len(Readers)) /\ chans = Channels
    BY DEF GraphInv, WiringInv, After, Wired
  <2>2. \A i \in DOMAIN Readers : i <= Len(Readers)
    BY <2>1, ReadersAreASequence
  <2>3. DOMAIN chans = Outputs
    BY <2>1 DEF Channels
  <2>4. \A i \in DOMAIN Readers : Range(Readers[i].inputs) \subseteq DOMAIN chans
    BY <2>1, <2>2, <2>3 DEF EdgesChecked, Range
  <2>5. ASSUME NEW o \in DOMAIN chans, NEW x \in chans[o].readers, NEW y \in chans[o].readers
        PROVE  x = y
    <3> DEFINE ReadBy(i, n) == i \in DOMAIN Readers /\ n \in DOMAIN Readers[i].inputs
                              /\ Readers[i].inputs[n] = o
    <3>1. chans[o].readers = UNION {{<<i, n>> : n \in {n \in DOMAIN Readers[i].inputs :
                                      Readers[i].inputs[n] = o}} : i \in DOMAIN Readers}
      BY <2>1, <2>3 DEF Channels
    <3>2. \A z \in chans[o].readers : \E i, n : ReadBy(i, n) /\ z = <<i, n>>
      BY <3>1
    <3>3. PICK i, n : ReadBy(i, n) /\ x = <<i, n>>
      BY <3>2
    <3>4. PICK j, m : ReadBy(j, m) /\ y = <<j, m>>
      BY <3>2
    <3>5. i = j /\ n = m
      BY <2>1, <2>2, <3>3, <3>4 DEF EdgesChecked
    <3> QED BY <3>3, <3>4, <3>5
  <2> QED BY <2>4, <2>5 DEF ReceiverTakenOnce
<1> QED BY <1>1, GraphInvariant, WiringInvariant, PTL

(* An edge is keyed by its one reader, so by what its window groups by; the *)
(* inputs of a join are windows that group by one list.                    *)
THEOREM KeysMeet == Spec => []CoPartitioned
<1>1. GraphInv /\ WiringInv => CoPartitioned
  <2> SUFFICES ASSUME GraphInv, WiringInv, Wired PROVE CoPartitioned
    BY DEF CoPartitioned
  <2>1. /\ p \in Pipelines /\ DistinctIds
        /\ EdgesChecked(Len(Readers)) /\ JoinsChecked(Len(p.transforms)) /\ chans = Channels
    BY DEF GraphInv, WiringInv, After, Wired, Phases
  <2>2. ASSUME NEW k \in DOMAIN p.transforms, NEW i \in DOMAIN p.transforms[k].inputs
        PROVE  /\ p.transforms[k].inputs[i] \in Outputs
               /\ {n \in DOMAIN p.transforms :
                     p.transforms[k].inputs[i] \in Range(p.transforms[n].inputs)} = {k}
    <3>1. /\ \A n \in DOMAIN p.transforms :
                n \in DOMAIN Readers /\ Readers[n] = p.transforms[n] /\ n <= Len(Readers)
      BY <2>1, ReadersAreASequence
    <3> QED BY <2>1, <2>2, <3>1 DEF EdgesChecked, Range
  <2>3. ASSUME NEW k \in DOMAIN p.transforms, NEW i \in DOMAIN p.transforms[k].inputs
        PROVE  LET t == p.transforms[k]
                   o == t.inputs[i]
                   own == {w \in Windows : w.id = o}
               IN  chans[o].key =
                     CASE t.kind = "window" -> t.groupBy
                       [] t.kind = "join" /\ own # {} -> (CHOOSE w \in own : TRUE).groupBy
                       [] OTHER -> None
    <3> DEFINE o == p.transforms[k].inputs[i]
               fed == {n \in DOMAIN p.transforms : o \in Range(p.transforms[n].inputs)}
    <3>1. chans[o].key = KeySpec(o)
      BY <2>1, <2>2 DEF Channels
    <3>2. fed = {k}
      BY <2>2
    <3>3. k <= k
      BY <2>1, ReadersAreASequence
    <3>4. (CHOOSE n \in fed : \A j \in fed : n <= j) = k
      BY <3>2, <3>3
    <3> QED BY <3>1, <3>2, <3>4 DEF KeySpec
  <2>4. ASSUME NEW k \in DOMAIN p.transforms, p.transforms[k].kind = "join",
               NEW i \in DOMAIN p.transforms[k].inputs
        PROVE  \E w \in InputWindows(p.transforms[k]) :
                 w.id = p.transforms[k].inputs[i] /\ chans[p.transforms[k].inputs[i]].key = w.groupBy
    <3> DEFINE t == p.transforms[k]
               own == {w \in Windows : w.id = t.inputs[i]}
    <3>1. JoinError(t) = NoError
      BY <2>1, <2>4, ReadersAreASequence DEF JoinsChecked
    <3>2. PICK w \in Windows : w.id = t.inputs[i]
      BY <3>1 DEF JoinError, NoError
    <3>3. own = {w}
      BY <2>1, <3>2, DistinctNodes DEF Windows
    <3>4. chans[t.inputs[i]].key = w.groupBy
      BY <2>3, <2>4, <3>3
    <3>5. w \in InputWindows(t)
      BY <3>2 DEF InputWindows, Range
    <3> QED BY <3>2, <3>4, <3>5
  <2>5. ASSUME NEW k \in DOMAIN p.transforms, p.transforms[k].kind = "join",
               NEW i \in DOMAIN p.transforms[k].inputs, NEW j \in DOMAIN p.transforms[k].inputs
        PROVE  /\ chans[p.transforms[k].inputs[i]].key # None
               /\ chans[p.transforms[k].inputs[i]].key = chans[p.transforms[k].inputs[j]].key
    <3> DEFINE t == p.transforms[k]
    <3>1. \A v, w \in InputWindows(t) : v.groupBy = w.groupBy
      BY <2>1, <2>5, ReadersAreASequence DEF JoinsChecked, JoinError, NoError
    <3>2. \A w \in InputWindows(t) : w.groupBy # None
      BY <2>1, ValidateAssumption DEF InputWindows, Windows, Transforms, Range
    <3>3. PICK v \in InputWindows(t) : chans[t.inputs[i]].key = v.groupBy
      BY <2>4, <2>5
    <3>4. PICK w \in InputWindows(t) : chans[t.inputs[j]].key = w.groupBy
      BY <2>4, <2>5
    <3> QED BY <3>1, <3>2, <3>3, <3>4
  <2>6. ASSUME NEW k \in DOMAIN p.transforms, p.transforms[k].kind = "window",
               NEW i \in DOMAIN p.transforms[k].inputs
        PROVE  chans[p.transforms[k].inputs[i]].key = p.transforms[k].groupBy
    BY <2>3, <2>6
  <2> QED BY <2>5, <2>6 DEF CoPartitioned, Transforms, Range
<1> QED BY <1>1, GraphInvariant, WiringInvariant, PTL

-----------------------------------------------------------------------------
(* The attributes and expressions of the first k transforms pass. *)
ValuesChecked(k) ==
  \A i \in DOMAIN p.transforms : i <= k => ValueError(p.transforms[i]) = NoError

(* What the values that have been checked so far satisfy. *)
ValuesInv ==
  /\ at \in Nat
  /\ phase = "values" => at > 0 /\ ValuesChecked(at - 1)
  /\ After({"edges", "reach", "joins", "ends", "wire", "done"}) => ValuesChecked(Len(p.transforms))

(* An accepted pipeline has been through the check of every transform's values. *)
LEMMA ValuesInvariant == Spec => []ValuesInv
<1> USE DEF After, NoError
<1>1. Init => ValuesInv
  BY DEF Init, ValuesInv
<1>2. GraphInv /\ GraphInv' /\ ValuesInv /\ [Next]_vars => ValuesInv'
  <2> SUFFICES ASSUME GraphInv, ValuesInv, [Next]_vars PROVE ValuesInv'
    OBVIOUS
  <2> USE DEF ValuesInv
  <2>1. p \in Pipelines /\ (phase # "done" => verdict = NoError)
    BY DEF GraphInv, Running
  <2>2. DOMAIN p.transforms = 1 .. Len(p.transforms) /\ Len(p.transforms) \in Nat
    BY <2>1, ReadersAreASequence
  <2>3. p' = p => \A k : ValuesChecked(k)' <=> ValuesChecked(k)
    BY DEF ValuesChecked
  <2>4. ValuesChecked(0)
    BY <2>2 DEF ValuesChecked
  <2>5. CASE \/ CheckIds \/ CheckIntervals \/ CheckEdges \/ Follow \/ CheckReachable \/ CheckJoins
             \/ CheckSinks \/ Wire
    <3>1. p' = p
      BY <2>5 DEF CheckIds, CheckIntervals, CheckEdges, Follow, CheckReachable, CheckJoins,
         CheckSinks, Wire
    <3>2. /\ at' \in Nat
          /\ \/ phase' = "done" /\ verdict' # NoError
             \/ phase' = "intervals"
             \/ phase' = "values" /\ at' = 1
             \/ /\ phase \in {"edges", "reach", "joins", "ends", "wire"} /\ verdict' = NoError
                /\ phase' \in {"edges", "reach", "joins", "ends", "wire", "done"}
      BY <2>1, <2>5 DEF CheckIds, CheckIntervals, CheckEdges, Follow, CheckReachable, CheckJoins,
         CheckSinks, Wire, Conclude, Advance
    <3> QED BY <2>1, <2>3, <2>4, <3>1, <3>2
  <2>6. CASE CheckValues
    <3>1. p' = p /\ phase = "values"
      BY <2>6 DEF CheckValues
    <3>2. CASE at > Len(p.transforms)
      <4>1. phase' = "edges" /\ at' = 1
        BY <2>6, <3>2 DEF CheckValues, Conclude
      <4>2. ValuesChecked(Len(p.transforms))
        BY <2>2, <3>1, <3>2 DEF ValuesChecked
      <4> QED BY <2>1, <2>3, <3>1, <4>1, <4>2
    <3>3. CASE ~(at > Len(p.transforms))
      <4>1. \/ phase' = "done" /\ verdict' # NoError /\ at' = at + 1
            \/ /\ phase' = "values" /\ verdict' = NoError /\ at' = at + 1
               /\ ValueError(p.transforms[at]) = NoError
        BY <2>6, <3>1, <3>3 DEF CheckValues, Advance
      <4>2. ValueError(p.transforms[at]) = NoError => ValuesChecked(at)
        BY <2>2, <3>1 DEF ValuesChecked
      <4> QED BY <2>1, <2>3, <3>1, <4>1, <4>2
    <3> QED BY <3>2, <3>3
  <2>7. CASE UNCHANGED vars
    BY <2>3, <2>7 DEF vars
  <2> QED BY <2>5, <2>6, <2>7 DEF Next
<1> QED BY <1>1, <1>2, GraphInvariant, PTL DEF Spec

(* The window that starts at the last multiple of the slide holds the timestamp. *)
LEMMA SlidesCover ==
  ASSUME NEW size \in Nat, NEW slide \in Nat, 0 < slide, slide <= size, NEW ts \in Nat
  PROVE  \E k \in 0 .. ts : k * slide <= ts /\ ts < k * slide + size
<1> DEFINE k == ts \div slide
           r == ts % slide
<1>1. k \in Nat /\ r \in 0 .. slide - 1 /\ ts = k * slide + r
  OBVIOUS
<1> HIDE DEF k, r
<1>2. k * slide \in Nat /\ k <= k * slide
  <2>1. slide - 1 \in Nat
    OBVIOUS
  <2>2. k * (slide - 1) \in Nat
    BY <1>1, <2>1
  <2>3. k * slide = k * (slide - 1) + k
    BY <1>1
  <2> QED BY <1>1, <2>2, <2>3
<1>3. ASSUME NEW s \in Nat, s = k * slide PROVE k \in 0 .. ts /\ s <= ts /\ ts < s + size
  BY <1>1, <1>2, <1>3
<1> QED BY <1>2, <1>3

(* EveryInstantHasAWindow looks at two sizes of time; this is all of it. *)
EveryTimestampHasAWindow ==
  Accepted => \A w \in Windows :
    LET size == Seconds[w.size]
        slide == IF w.slide = None THEN size ELSE Seconds[w.slide]
    IN  size # 0 => \A ts \in Nat : \E k \in 0 .. ts : k * slide <= ts /\ ts < k * slide + size

(* Every timestamp lies in a window of each node that passed: a slide that *)
(* passed the check is neither zero nor longer than the size.              *)
THEOREM InstantsAreCovered == Spec => [](EveryInstantHasAWindow /\ EveryTimestampHasAWindow)
<1>1. GraphInv /\ ValuesInv => EveryTimestampHasAWindow
  <2> SUFFICES ASSUME GraphInv, ValuesInv, Accepted, NEW w \in Windows,
                      NEW size, size = Seconds[w.size],
                      NEW slide, slide = IF w.slide = None THEN size ELSE Seconds[w.slide],
                      size # 0, NEW ts \in Nat
               PROVE  \E k \in 0 .. ts : k * slide <= ts /\ ts < k * slide + size
    BY DEF EveryTimestampHasAWindow
  <2>1. p \in Pipelines /\ ValuesChecked(Len(p.transforms))
    BY DEF GraphInv, ValuesInv, After, Accepted
  <2>2. PICK i \in DOMAIN p.transforms : w = p.transforms[i]
    BY DEF Windows, Transforms, Range
  <2>3. w.kind = "window"
    BY DEF Windows
  <2>4. WindowError(w) = NoError
    <3>1. i <= Len(p.transforms)
      BY <2>1, <2>2, ReadersAreASequence
    <3>2. ValueError(w) = NoError
      BY <2>1, <2>2, <3>1 DEF ValuesChecked
    <3> QED BY <2>3, <3>2 DEF ValueError
  <2>5. w.size # None
    BY <2>1, <2>2, <2>3, ValidateAssumption
  <2>6. /\ {w.size, w.lateness, w.idle, w.slide} \ {None} \subseteq DOMAIN Seconds
        /\ w.slide # None => Seconds[w.slide] # 0 /\ ~(Seconds[w.slide] > Seconds[w.size])
    BY <2>4 DEF WindowError, NoError
  <2>7. size \in Nat
    BY <2>5, <2>6, ValidateAssumption
  <2>8. w.slide # None => Seconds[w.slide] \in Nat
    BY <2>6, ValidateAssumption
  <2>9. slide \in Nat /\ 0 < slide /\ slide <= size
    BY <2>6, <2>7, <2>8
  <2>10. \A a, b, c \in Nat : 0 < b /\ b <= a => \E k \in 0 .. c : k * b <= c /\ c < k * b + a
    BY SlidesCover
  <2> QED BY <2>7, <2>9, <2>10, Zenon
<1>2. EveryTimestampHasAWindow => EveryInstantHasAWindow
  <2>1. \A n : 0 .. n \subseteq Nat
    OBVIOUS
  <2> QED BY <2>1, Zenon DEF EveryTimestampHasAWindow, EveryInstantHasAWindow
<1> QED BY <1>1, <1>2, GraphInvariant, ValuesInvariant, PTL

-----------------------------------------------------------------------------
(* The wasm nodes, for any number of them, any budget and any sequence of  *)
(* starts: a record is cut off for its own time only, and as long as a     *)
(* guest runs so does the ticker that can stop it.                         *)

WasmSpec == WasmInit /\ [][WasmNext]_wasmVars

(* What is left of the budget of a record, and what it ran, is the budget. *)
BudgetSpent == \A n \in WasmNodes : wpc[n] = "calling" => ran[n] + left[n] >= Budget

(* A node holds the engine until it ends, and the ticker runs while the    *)
(* engine is held.                                                         *)
EngineHeld ==
  /\ \A n \in WasmNodes : wpc[n] \notin Ended \cup {"off"} => n \in handles
  /\ handles # {} => ticker = "running"

WInv == WasmTypeOK /\ BudgetSpent /\ EngineHeld

(* The places of a node. *)
Places == Guest \cup Awaiting \cup Ended \cup {"off", "emptying", "writing", "decoding"}

(* What a node's own step does: it moves, and its deadline, its handle and  *)
(* its counters follow.                                                    *)
LEMMA NodeSteps ==
  ASSUME WInv, NEW n \in WasmNodes,
         Host(n) \/ Instantiated(n) \/ Return(n) \/ Trap(n) \/ Free(n)
  PROVE  /\ \E place \in Places :
              /\ wpc' = [wpc EXCEPT ![n] = place]
              /\ \/ place \notin Ended \cup {"off"} /\ wpc[n] \notin Ended \cup {"off"} /\ handles' = handles
                 \/ place \in Ended /\ handles' = handles \ {n}
              /\ place = "calling" => Arm(n)
         /\ Arm(n) \/ UNCHANGED <<left, ran>>
         /\ bytes' \in [WasmNodes -> {"none", "partial", "whole"}]
         /\ cache' \in {"none", "partial", "whole"}
         /\ calls' \in [WasmNodes -> 0 .. MaxCalls]
         /\ UNCHANGED <<allowed, ticker, begun>>
<1> USE DEF WInv, WasmTypeOK, Goto, Leave, Places, Guest, Awaiting, Ended
<1>1. CASE Load(n)
  BY <1>1 DEF Load
<1>2. CASE Fetch(n)
  BY <1>2 DEF Fetch
<1>3. CASE EmptyFile(n) \/ WriteFile(n)
  BY <1>3 DEF EmptyFile, WriteFile
<1>4. CASE Compile(n)
  BY <1>4 DEF Compile
<1>5. CASE Instantiated(n) \/ Send(n) \/ Return(n) \/ Free(n) \/ Aborted(n)
  BY <1>5 DEF Instantiated, Send, Return, Free, Aborted
<1>6. CASE Receive(n)
  <2>1. calls' \in [WasmNodes -> 0 .. MaxCalls]
    <3>1. calls \in [WasmNodes -> 0 .. MaxCalls] /\ MaxCalls \in Nat
      BY WasmAssumption
    <3> QED BY <1>6, <3>1 DEF Receive
  <2> QED BY <1>6, <2>1 DEF Receive
<1>7. CASE Trap(n) \/ Decode(n)
  BY <1>7 DEF Trap, Decode, Refuse
<1>8. CASE Interrupt(n)
  BY <1>8 DEF Interrupt, Refuse
<1> QED BY <1>1, <1>2, <1>3, <1>4, <1>5, <1>6, <1>7, <1>8 DEF Host

(* The inductive invariant holds in every state. *)
LEMMA Invariant == WasmSpec => []WInv
<1>1. WasmInit => WInv
  <2> SUFFICES ASSUME WasmInit PROVE WInv
    OBVIOUS
  <2>1. 0 \in 0 .. Budget /\ 0 \in 0 .. MaxCalls /\ 0 \in 0 .. MaxStarts
    BY WasmAssumption
  <2>2. WasmTypeOK
    BY <2>1 DEF WasmInit, WasmTypeOK
  <2>3. BudgetSpent /\ EngineHeld
    BY DEF WasmInit, BudgetSpent, EngineHeld
  <2> QED BY <2>2, <2>3 DEF WInv
<1>2. WInv /\ [WasmNext]_wasmVars => WInv'
  <2> SUFFICES ASSUME WInv, [WasmNext]_wasmVars PROVE WInv'
    OBVIOUS
  <2>1. Budget \in Nat /\ Budget > 0 /\ MaxStarts \in Nat /\ MaxCalls \in Nat
    BY WasmAssumption
  <2>2. CASE Boot
    <3>1. begun' \in 0 .. MaxStarts
      BY <2>1, <2>2 DEF Boot, WInv, WasmTypeOK
    <3>2. wpc' = [n \in WasmNodes |-> "loading"]
      BY <2>2 DEF Boot
    <3>3. WasmTypeOK'
      BY <2>2, <3>1, <3>2 DEF Boot, WInv, WasmTypeOK, Awaiting
    <3>4. BudgetSpent' /\ EngineHeld'
      BY <2>2, <3>2 DEF Boot, BudgetSpent, EngineHeld
    <3> QED BY <3>3, <3>4 DEF WInv
  <2>3. CASE RunReturns
    BY <2>3, WasmAssumption DEF RunReturns, WInv, WasmTypeOK, BudgetSpent, EngineHeld
  <2>4. CASE Exit
    <3>1. 0 \in 0 .. Budget /\ 0 \in 0 .. MaxCalls
      BY <2>1
    <3>2. WasmTypeOK'
      BY <2>4, <3>1 DEF Exit, WInv, WasmTypeOK
    <3>3. BudgetSpent' /\ EngineHeld'
      BY <2>4 DEF Exit, BudgetSpent, EngineHeld
    <3> QED BY <3>2, <3>3 DEF WInv
  <2>5. CASE Tick
    <3>1. /\ ticker = "running" /\ UNCHANGED <<wpc, bytes, cache, handles, calls, begun, allowed>>
          /\ ticker' = IF handles = {} THEN "stopped" ELSE "running"
      BY <2>5 DEF Tick
    <3>2. ASSUME NEW n \in WasmNodes
          PROVE  /\ left'[n] \in 0 .. Budget /\ ran'[n] \in 0 .. Budget
                 /\ wpc[n] = "calling" => ran'[n] + left'[n] >= Budget
      <4>1. left[n] \in 0 .. Budget /\ ran[n] \in 0 .. Budget
            /\ (wpc[n] = "calling" => ran[n] + left[n] >= Budget)
        BY DEF WInv, WasmTypeOK, BudgetSpent
      <4>2. /\ left'[n] = IF wpc[n] \in Guest /\ left[n] > 0 THEN left[n] - 1 ELSE left[n]
            /\ ran'[n] = IF wpc[n] \in Guest /\ ran[n] < Budget THEN ran[n] + 1 ELSE ran[n]
        BY <2>5 DEF Tick
      <4>3. wpc[n] = "calling" => wpc[n] \in Guest
        BY DEF Guest
      <4> QED BY <2>1, <4>1, <4>2, <4>3
    <3>3. left' \in [WasmNodes -> 0 .. Budget] /\ ran' \in [WasmNodes -> 0 .. Budget]
      <4>1. left' = [n \in WasmNodes |-> left'[n]] /\ ran' = [n \in WasmNodes |-> ran'[n]]
        BY <2>5 DEF Tick
      <4> QED BY <3>2, <4>1
    <3> QED BY <3>1, <3>2, <3>3 DEF WInv, WasmTypeOK, BudgetSpent, EngineHeld
  <2>6. ASSUME NEW n \in WasmNodes, Host(n) \/ Instantiated(n) \/ Return(n) \/ Trap(n) \/ Free(n)
        PROVE  WInv'
    <3>1. PICK place \in Places :
            /\ wpc' = [wpc EXCEPT ![n] = place]
            /\ \/ place \notin Ended \cup {"off"} /\ wpc[n] \notin Ended \cup {"off"} /\ handles' = handles
               \/ place \in Ended /\ handles' = handles \ {n}
            /\ place = "calling" => Arm(n)
      BY <2>6, NodeSteps
    <3>2. /\ Arm(n) \/ UNCHANGED <<left, ran>>
          /\ bytes' \in [WasmNodes -> {"none", "partial", "whole"}]
          /\ cache' \in {"none", "partial", "whole"}
          /\ calls' \in [WasmNodes -> 0 .. MaxCalls]
          /\ UNCHANGED <<allowed, ticker, begun>>
      BY <2>6, NodeSteps
    <3>3. /\ wpc \in [WasmNodes -> Places] /\ handles \subseteq WasmNodes \cup {"run"}
          /\ left \in [WasmNodes -> 0 .. Budget] /\ ran \in [WasmNodes -> 0 .. Budget]
      BY DEF WInv, WasmTypeOK, Places
    <3>4. left' \in [WasmNodes -> 0 .. Budget] /\ ran' \in [WasmNodes -> 0 .. Budget]
      BY <2>1, <3>2, <3>3 DEF Arm
    <3>5. wpc' \in [WasmNodes -> Places] /\ handles' \subseteq WasmNodes \cup {"run"}
      BY <3>1, <3>3
    <3>6. WasmTypeOK'
      BY <3>2, <3>4, <3>5 DEF WInv, WasmTypeOK, Places
    <3>7. BudgetSpent'
      <4> SUFFICES ASSUME NEW m \in WasmNodes, wpc'[m] = "calling"
                   PROVE  ran'[m] + left'[m] >= Budget
        BY DEF BudgetSpent
      <4>1. CASE m = n
        <5>1. Arm(n)
          BY <3>1, <3>3, <4>1
        <5>2. ran'[m] = 0 /\ left'[m] = Budget
          BY <3>3, <4>1, <5>1 DEF Arm
        <5> QED BY <2>1, <5>2
      <4>2. CASE m # n
        <5>1. wpc[m] = "calling" /\ ran'[m] = ran[m] /\ left'[m] = left[m]
          BY <3>1, <3>2, <3>3, <4>2 DEF Arm
        <5> QED BY <5>1 DEF WInv, BudgetSpent
      <4> QED BY <4>1, <4>2
    <3>8. EngineHeld'
      <4>1. handles' # {} => ticker' = "running"
        BY <3>1, <3>2 DEF WInv, EngineHeld
      <4>2. ASSUME NEW m \in WasmNodes, wpc'[m] \notin Ended \cup {"off"} PROVE m \in handles'
        <5>1. CASE m = n
          BY <3>1, <3>3, <4>2, <5>1 DEF WInv, EngineHeld
        <5>2. CASE m # n
          BY <3>1, <3>3, <4>2, <5>2 DEF WInv, EngineHeld
        <5> QED BY <5>1, <5>2
      <4> QED BY <4>1, <4>2 DEF EngineHeld
    <3> QED BY <3>6, <3>7, <3>8 DEF WInv
  <2>7. CASE UNCHANGED wasmVars
    BY <2>7 DEF wasmVars, WInv, WasmTypeOK, BudgetSpent, EngineHeld
  <2> QED BY <2>2, <2>3, <2>4, <2>5, <2>6, <2>7 DEF WasmNext
<1> QED BY <1>1, <1>2, PTL DEF WasmSpec

(* A record is interrupted only when it has run for the budget itself: the  *)
(* deadline is armed for each record, whatever ran in the instance before. *)
THEOREM CutOffForOwnTime == WasmSpec => CutOffForItsOwn
<1>1. WInv /\ [WasmNext]_wasmVars =>
        [\A n \in WasmNodes : wpc[n] = "calling" /\ Interrupt(n) => ran[n] >= Budget]_wasmVars
  <2> SUFFICES ASSUME WInv, NEW n \in WasmNodes, wpc[n] = "calling", Interrupt(n)
               PROVE  ran[n] >= Budget
    OBVIOUS
  <2>1. left[n] = 0 /\ ran[n] \in 0 .. Budget /\ ran[n] + left[n] >= Budget /\ Budget \in Nat
    BY WasmAssumption DEF Interrupt, WInv, WasmTypeOK, BudgetSpent
  <2> QED BY <2>1
<1> QED BY <1>1, Invariant, PTL DEF WasmSpec, CutOffForItsOwn

(* The ticker's thread is there as long as a guest runs, in a task that the *)
(* end of the run has aborted as well: without it nothing would stop one.  *)
THEOREM TickerOutlivesGuests ==
  WasmSpec => [](\A n \in WasmNodes : wpc[n] \in Guest => ticker = "running")
<1>1. WInv => \A n \in WasmNodes : wpc[n] \in Guest => ticker = "running"
  BY DEF WInv, EngineHeld, Guest, Ended
<1> QED BY <1>1, Invariant, PTL

-----------------------------------------------------------------------------
(* From the file to the first record. *)

(* The composition takes the steps of its parts, or leaves them alone. *)
LEMMA StartupParts == StartupSpec => Spec /\ WasmSpec
<1>1. StartupInit => Init /\ WasmInit
  BY DEF StartupInit
<1>2. [StartupNext]_<<vars, nodeVars, wasmVars>> => [Next]_vars /\ [WasmNext]_wasmVars
  BY DEF StartupNext, Validating, MapRecord, FilterRecord, WasmStep
<1> QED BY <1>1, <1>2, PTL DEF StartupSpec, Spec, WasmSpec

(* What the parts promise holds in the composition: the checks of validate *)
(* with the parser of the program, and the wasm nodes behind them.         *)
THEOREM PartsKeepTheirPromises ==
  StartupSpec =>
    /\ []OnlyJoinsCloseCycles
    /\ []EveryInstantHasAWindow
    /\ []ReceiverTakenOnce
    /\ []CoPartitioned
    /\ CutOffForItsOwn
BY StartupParts, CyclesNeedAJoin, InstantsAreCovered, EveryReceiverIsTakenOnce, KeysMeet,
   CutOffForOwnTime, PTL

(* An error about an expression is about one that does not parse. *)
Blamed ==
  verdict = "BadExpression" =>
    \E i \in DOMAIN p.transforms : p.transforms[i].value # None /\ ~Parses(p.transforms[i].value)

(* Validation blames expressions for nothing else. *)
LEMMA BlamedInvariant == Spec => []Blamed
<1>1. Init => Blamed
  BY DEF Init, Blamed, NoError
<1>2. GraphInv /\ ValuesInv /\ Blamed /\ [Next]_vars => Blamed'
  <2> SUFFICES ASSUME GraphInv, ValuesInv, Blamed, [Next]_vars, verdict' = "BadExpression"
               PROVE  \E i \in DOMAIN p'.transforms :
                        p'.transforms[i].value # None /\ ~Parses(p'.transforms[i].value)
    BY DEF Blamed
  <2>1. p' = p
    BY DEF vars, Next, CheckIds, CheckIntervals, CheckValues, CheckEdges, Follow, CheckReachable,
       CheckJoins, CheckSinks, Wire
  <2>2. CASE verdict' = verdict
    BY <2>1, <2>2 DEF Blamed
  <2>3. CASE CheckValues
    <3>1. CASE at > Len(p.transforms)
      BY <2>3, <3>1 DEF CheckValues, Conclude, NoError
    <3>2. CASE ~(at > Len(p.transforms))
      <4> DEFINE t == p.transforms[at]
      <4>1. ValueError(t) = "BadExpression"
        BY <2>3, <3>2 DEF CheckValues, Advance
      <4>2. at \in DOMAIN p.transforms
        <5>1. p \in Pipelines /\ at \in Nat /\ at > 0
          BY <2>3 DEF GraphInv, ValuesInv, CheckValues
        <5>2. DOMAIN p.transforms = 1 .. Len(p.transforms) /\ Len(p.transforms) \in Nat
          BY <5>1, ReadersAreASequence
        <5> QED BY <3>2, <5>1, <5>2
      <4>3. t.kind = "map" => t.value # None
        BY <4>2, ValidateAssumption DEF GraphInv
      <4> HIDE DEF t
      <4>4. WindowError(t) # "BadExpression"
        BY DEF WindowError, NoError
      <4>5. t.value # None /\ ~Parses(t.value)
        BY <4>1, <4>3, <4>4 DEF ValueError, NoError
      <4> QED BY <2>1, <4>2, <4>5 DEF t
    <3> QED BY <3>1, <3>2
  <2>4. CASE CheckIds \/ CheckIntervals \/ CheckReachable \/ CheckSinks
    BY <2>4 DEF CheckIds, CheckIntervals, CheckReachable, CheckSinks, Conclude, NoError
  <2>5. CASE CheckEdges
    <3>1. \A inputs : EdgeError(inputs) # "BadExpression"
      BY DEF EdgeError, NoError
    <3> QED BY <2>5, <3>1 DEF CheckEdges, Conclude, Advance, NoError
  <2>6. CASE CheckJoins
    <3>1. \A t : JoinError(t) # "BadExpression"
      BY DEF JoinError, NoError
    <3> QED BY <2>6, <3>1 DEF CheckJoins, Conclude, Advance, NoError
  <2>7. CASE Follow \/ Wire \/ UNCHANGED vars
    BY <2>2, <2>7 DEF Follow, Wire, vars
  <2> QED BY <2>3, <2>4, <2>5, <2>6, <2>7 DEF Next
<1> QED BY <1>1, <1>2, GraphInvariant, ValuesInvariant, PTL DEF Spec

(* An expression is a sequence of lexemes and blanks, or absent. *)
LEMMA ValuesAreTexts ==
  ASSUME p \in Pipelines, NEW i \in DOMAIN p.transforms
  PROVE  /\ p.transforms[i].value \in Seq(STRING) \cup {None}
         /\ p.transforms[i].kind = "map" => p.transforms[i].value # None
<1>1. p \in Pipeline
  BY ValidateAssumption
<1>2. p.transforms \in Seq(Transform)
  BY <1>1 DEF Pipeline
<1>3. p.transforms[i] \in Transform
  BY <1>2
<1>4. p.transforms[i].value \in Seq(STRING) \cup {None}
  BY <1>3 DEF Transform
<1>5. p.transforms[i].kind = "map" => p.transforms[i].value # None
  BY ValidateAssumption
<1> QED BY <1>4, <1>5

(* The expression of every map behind the check of the values parses. *)
LEMMA MapsParse ==
  ASSUME GraphInv, ValuesInv, NEW t \in Transforms, t.kind = "map",
         phase = "edges" \/ Wired
  PROVE  t.value \in Seq(STRING) /\ Parse(t.value).ok
<1>1. p \in Pipelines /\ ValuesChecked(Len(p.transforms))
  BY DEF GraphInv, Running, ValuesInv, After, Wired, NoError
<1>2. PICK i \in DOMAIN p.transforms : t = p.transforms[i]
  BY DEF Transforms, Range
<1>3. t.value \in Seq(STRING) /\ t.value # None
  BY <1>1, <1>2, ValuesAreTexts
<1>4. ValueError(t) = NoError
  <2>1. i <= Len(p.transforms)
    BY <1>1, <1>2, ReadersAreASequence
  <2> QED BY <1>1, <1>2, <2>1 DEF ValuesChecked
<1>5. Parses(t.value)
  BY <1>4 DEF ValueError, NoError
<1>6. Parses(t.value) = Parsing(t.value)
  BY <1>1, <1>2, <1>3, ParsesAssumption
<1> QED BY <1>3, <1>5, <1>6 DEF Parsing

(* The expressions that pass are those the documented grammar has a        *)
(* meaning for, and what is parsed of them is that meaning.                *)
THEOREM ExpressionsFollowTheGrammar == StartupSpec => []ParsesTheGrammar
<1>1. GraphInv /\ ValuesInv /\ Blamed => ParsesTheGrammar
  <2> SUFFICES ASSUME GraphInv, ValuesInv, Blamed PROVE ParsesTheGrammar
    OBVIOUS
  <2>1. ASSUME phase = "edges", NEW t \in Maps
        PROVE  Parse(t.value).ok /\ Meanings(t.value) = {Parse(t.value).tree}
    <3>1. t \in Transforms /\ t.kind = "map"
      BY <2>1 DEF Maps
    <3>2. t.value \in Seq(STRING) /\ Parse(t.value).ok
      BY <2>1, <3>1, MapsParse
    <3> QED BY <3>2, ParserReadsTheGrammar
  <2>2. ASSUME verdict = "BadExpression"
        PROVE  \E t \in Transforms : t.value # None /\ Meanings(t.value) = {}
    <3>1. PICK i \in DOMAIN p.transforms : /\ p.transforms[i].value # None
                                           /\ ~Parses(p.transforms[i].value)
      BY <2>2 DEF Blamed
    <3> DEFINE t == p.transforms[i]
    <3>2. p \in Pipelines
      BY DEF GraphInv
    <3>3. t \in Transforms
      BY DEF Transforms, Range
    <3>4. t.value \in Seq(STRING) /\ t.value # None
      BY <3>1, <3>2, ValuesAreTexts
    <3>5. Parses(t.value) = Parsing(t.value)
      BY <3>2, <3>4, ParsesAssumption
    <3>6. ~Parse(t.value).ok
      BY <3>1, <3>5 DEF Parsing
    <3>7. Meanings(t.value) = {}
      BY <3>4, <3>6, ParserReadsTheGrammar
    <3> QED BY <3>3, <3>4, <3>7
  <2> QED BY <2>1, <2>2 DEF ParsesTheGrammar
<1> QED BY <1>1, StartupParts, GraphInvariant, ValuesInvariant, BlamedInvariant, PTL

(* The turn of a map node takes the policy of the first faulty operand. *)
LEMMA MapTurn ==
  ASSUME GraphInv, ValuesInv, MapRecord
  PROVE  FirstOperandDecides'
<1>1. PICK t \in Transforms, finite \in BOOLEAN :
        /\ t.kind = "map" /\ node' = t
        /\ LET fault == Eval(Parse(t.value).tree, rec') IN
           CASE fault = NoFault /\ finite -> Sent
             [] fault = NoFault /\ ~finite -> ByPolicy(onInvalid')
             [] fault = "missing" -> ByPolicy(onMissing')
             [] fault = "invalid" -> ByPolicy(onInvalid')
  BY DEF MapRecord
<1> DEFINE text == t.value
           fault == Eval(Parse(text).tree, rec')
           faulty == {i \in DOMAIN text : text[i] \in Fields /\ rec'[text[i]] # "number"}
           first == CHOOSE i \in faulty : \A j \in faulty : i <= j
           policy == IF rec'[text[first]] = "missing" THEN onMissing' ELSE onInvalid'
<1>2. rec' \in Records /\ Wired
  BY DEF MapRecord, Records
<1>3. text \in Seq(STRING) /\ Parse(text).ok
  BY <1>1, <1>2, MapsParse
<1>4. ASSUME faulty # {} PROVE outcome' = IF policy = "skip" THEN "dropped" ELSE "failed"
  <2>1. DOMAIN text = 1 .. Len(text) /\ Len(text) \in Nat
    BY <1>3
  <2>2. first \in faulty /\ \A j \in faulty : first <= j
    <3>1. faulty \in SUBSET Nat
      BY <2>1
    <3> HIDE DEF faulty
    <3>2. \E i \in faulty : \A j \in faulty : i <= j
      BY <1>4, <3>1, LeastNat
    <3> QED BY <3>2
  <2> HIDE DEF first
  <2>3. first \in 1 .. Len(text) /\ text[first] \in Fields /\ rec'[text[first]] # "number"
    BY <2>1, <2>2
  <2>4. FirstFaulty(text, rec', 1, Len(text), first)
    <3>1. ASSUME NEW j \in 1 .. first - 1, Faulty(rec', text[j]) PROVE FALSE
      <4>1. j \in 1 .. Len(text) /\ ~(first <= j)
        BY <2>1, <2>3
      <4>2. j \in faulty
        BY <2>1, <3>1, <4>1 DEF Faulty
      <4> QED BY <2>2, <4>1, <4>2
    <3> QED BY <2>3, <3>1 DEF FirstFaulty, Faulty
  <2> HIDE DEF text
  <2>5. fault = FieldFault(rec', text[first])
    BY <1>2, <1>3, <2>4, FirstFaultDecides
  <2>6. rec'[text[first]] \in {"missing", "text"}
    BY <1>2, <2>3 DEF Records
  <2>7. CASE rec'[text[first]] = "missing"
    <3>1. fault = "missing" /\ policy = onMissing'
      BY <2>5, <2>7 DEF FieldFault
    <3>2. ByPolicy(onMissing')
      BY <1>1, <3>1 DEF NoFault, text
    <3> HIDE DEF policy
    <3> QED BY <3>1, <3>2 DEF ByPolicy
  <2>8. CASE rec'[text[first]] = "text"
    <3>1. fault = "invalid" /\ policy = onInvalid'
      BY <2>5, <2>8 DEF FieldFault
    <3>2. ByPolicy(onInvalid')
      BY <1>1, <3>1 DEF NoFault, text
    <3> HIDE DEF policy
    <3> QED BY <3>1, <3>2 DEF ByPolicy
  <2> QED BY <2>6, <2>7, <2>8
<1> QED BY <1>1, <1>4 DEF FirstOperandDecides

(* A map node never sends a record with an operand that is no number, and  *)
(* the operand that comes first in the text decides which of its policies  *)
(* says what becomes of it.                                                *)
THEOREM FirstFaultyOperandDecides == StartupSpec => []FirstOperandDecides
<1>1. StartupInit => FirstOperandDecides
  BY DEF StartupInit, FirstOperandDecides
<1>2. /\ GraphInv /\ ValuesInv /\ FirstOperandDecides
      /\ [StartupNext]_<<vars, nodeVars, wasmVars>>
      => FirstOperandDecides'
  <2> SUFFICES ASSUME GraphInv, ValuesInv, FirstOperandDecides,
                      [StartupNext]_<<vars, nodeVars, wasmVars>>
               PROVE  FirstOperandDecides'
    OBVIOUS
  <2>1. CASE MapRecord
    BY <2>1, MapTurn
  <2>2. CASE FilterRecord
    BY <2>2 DEF FilterRecord, FirstOperandDecides
  <2>3. CASE UNCHANGED nodeVars
    <3>1. UNCHANGED <<node, rec, onMissing, onInvalid, outcome>>
      BY <2>3 DEF nodeVars
    <3> QED BY <3>1 DEF FirstOperandDecides
  <2> QED BY <2>1, <2>2, <2>3 DEF StartupNext, Validating, WasmStep
<1> QED BY <1>1, <1>2, StartupParts, GraphInvariant, ValuesInvariant, PTL DEF StartupSpec

=============================================================================
