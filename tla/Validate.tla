------------------------------- MODULE Validate -------------------------------
(***************************************************************************)
(* From a pipeline to its channels: the checks of runtime::validate in     *)
(* their order, each ending at its first error, then the wiring at the     *)
(* start of runtime::run.                                                  *)
(***************************************************************************)
EXTENDS Naturals, Sequences, Functions

CONSTANTS
  Pipelines,   \* the pipelines given to the program
  None,        \* an absent option
  Seconds,     \* the durations that parse, and what they are
  Parses(_)    \* whether a text parses as an expression

(* The node types of the IR; a field a kind does not have is None. *)
Source == [id : STRING, kind : {"generator", "stdin", "otlp"}, interval : STRING \cup {None}]

Transform == [id : STRING, kind : {"filter", "window", "map", "join", "wasm"},
              inputs : Seq(STRING), groupBy : Seq(STRING), size : STRING \cup {None},
              slide : STRING \cup {None}, lateness : STRING \cup {None},
              idle : STRING \cup {None}, maxGroups : Nat \cup {None},
              value : Seq(STRING) \cup {None}]

Sink == [id : STRING, kind : {"stdout", "otlp"}, input : STRING]

Pipeline == [sources : Seq(Source), transforms : Seq(Transform), sinks : Seq(Sink)]

ASSUME ValidateAssumption ==
  /\ Seconds \in [DOMAIN Seconds -> Nat]
  /\ \A p \in Pipelines : /\ p \in Pipeline
                          /\ \A i \in DOMAIN p.transforms :
                               /\ p.transforms[i].kind # "join" => Len(p.transforms[i].inputs) = 1
                               /\ p.transforms[i].groupBy # None
                               /\ p.transforms[i].kind = "window" => p.transforms[i].size # None
                               /\ p.transforms[i].kind = "map" => p.transforms[i].value # None

VARIABLES
  p,        \* the pipeline
  phase,    \* the check that is due
  at,       \* the node it is due for
  verdict,  \* the error it ended in
  consumed, \* the outputs that have a consumer
  seen,     \* check_reachable: the nodes reached
  stack,    \* ... and of these, those still to be followed
  chans     \* the channel of each output: its key, and who reads it

vars == <<p, phase, at, verdict, consumed, seen, stack, chans>>

Transforms == Range(p.transforms)

Windows == {t \in Transforms : t.kind = "window"}

(* node_ids *)
Nodes == p.sources \o p.transforms \o p.sinks

SourceIds == {s.id : s \in Range(p.sources)}

Outputs == SourceIds \cup {t.id : t \in Transforms}

(* The nodes that read, in the order of validate and of run. *)
Readers == p.transforms \o [i \in DOMAIN p.sinks |-> [inputs |-> <<p.sinks[i].input>>]]

NoError == "none"

Phases == {"ids", "intervals", "values", "edges", "reach", "joins", "ends", "wire", "done"}

TypeOK ==
  /\ p \in Pipelines
  /\ phase \in Phases
  /\ at \in Nat \ {0}
  /\ verdict \in {NoError, "DuplicateId", "BadDuration", "InvalidWindow", "BadExpression",
                  "UnknownInput", "MultipleConsumers", "Unreachable", "InvalidJoin"}
  /\ consumed \subseteq Outputs
  /\ seen \subseteq Outputs
  /\ stack \subseteq seen

Init ==
  /\ p \in Pipelines
  /\ phase = "ids"
  /\ at = 1
  /\ verdict = NoError
  /\ consumed = {}
  /\ seen = {}
  /\ stack = {}
  /\ chans = <<>>

(* The check ends with an error, or goes on to the next phase. *)
Conclude(error, next) ==
  /\ verdict' = error
  /\ phase' = IF error = NoError THEN next ELSE "done"
  /\ at' = 1

(* The check of the node at `at` ends with an error, or goes on to the node after it. *)
Advance(error) ==
  /\ verdict' = error
  /\ phase' = IF error = NoError THEN phase ELSE "done"
  /\ at' = at + 1

-----------------------------------------------------------------------------
CheckIds ==
  /\ phase = "ids"
  /\ Conclude(IF IsInjective([i \in DOMAIN Nodes |-> Nodes[i].id]) THEN NoError ELSE "DuplicateId",
              "intervals")
  /\ UNCHANGED <<p, consumed, seen, stack, chans>>

CheckIntervals ==
  /\ phase = "intervals"
  /\ Conclude(IF \A s \in Range(p.sources) : s.kind = "generator" => s.interval \in DOMAIN Seconds
              THEN NoError ELSE "BadDuration",
              "values")
  /\ UNCHANGED <<p, consumed, seen, stack, chans>>

(* Faulty variant: a slide longer than the size is let through. *)
WindowErrorZeroOnly(t) ==
  CASE t.maxGroups = 0 -> "InvalidWindow"
    [] t.maxGroups # 0 /\ ~({t.size, t.lateness, t.idle, t.slide} \ {None} \subseteq DOMAIN Seconds)
         -> "BadDuration"
    [] OTHER -> IF t.slide # None /\ Seconds[t.slide] = 0 THEN "InvalidWindow" ELSE NoError

(* What is wrong with the attributes of a window, in the order they are looked at. *)
WindowError(t) ==
  CASE t.maxGroups = 0 -> "InvalidWindow"
    [] t.maxGroups # 0 /\ ~({t.size, t.lateness, t.idle, t.slide} \ {None} \subseteq DOMAIN Seconds)
         -> "BadDuration"
    [] OTHER -> IF t.slide # None /\ (Seconds[t.slide] = 0 \/ Seconds[t.slide] > Seconds[t.size])
                THEN "InvalidWindow" ELSE NoError

ValueError(t) ==
  CASE t.kind = "window" -> WindowError(t)
    [] t.kind = "map" -> IF Parses(t.value) THEN NoError ELSE "BadExpression"
    [] t.kind = "join" -> IF t.value = None \/ Parses(t.value) THEN NoError ELSE "BadExpression"
    [] OTHER -> NoError

CheckValues ==
  /\ phase = "values"
  /\ IF at > Len(p.transforms) THEN Conclude(NoError, "edges")
     ELSE Advance(ValueError(p.transforms[at]))
  /\ UNCHANGED <<p, consumed, seen, stack, chans>>

-----------------------------------------------------------------------------
(* Faulty variant: an input listed twice by one node is let through. *)
RefusedElsewhere(inputs) ==
  {i \in DOMAIN inputs : inputs[i] \notin Outputs \/ inputs[i] \in consumed}

(* check_edge over the inputs of one node: the first that is refused. *)
Refused(inputs) ==
  {i \in DOMAIN inputs : \/ inputs[i] \notin Outputs
                         \/ inputs[i] \in consumed
                         \/ \E j \in 1 .. i - 1 : inputs[j] = inputs[i]}

EdgeError(inputs) ==
  LET first == CHOOSE i \in Refused(inputs) : \A j \in Refused(inputs) : i <= j
  IN  CASE Refused(inputs) = {} -> NoError
        [] Refused(inputs) # {} -> IF inputs[first] \in Outputs THEN "MultipleConsumers"
                                   ELSE "UnknownInput"

CheckEdges ==
  /\ phase = "edges"
  /\ IF at > Len(Readers)
     THEN /\ Conclude(NoError, "reach")
          /\ seen' = SourceIds
          /\ stack' = SourceIds
          /\ UNCHANGED consumed
     ELSE /\ Advance(EdgeError(Readers[at].inputs))
          /\ consumed' = IF EdgeError(Readers[at].inputs) = NoError
                         THEN consumed \cup Range(Readers[at].inputs) ELSE consumed
          /\ UNCHANGED <<seen, stack>>
  /\ UNCHANGED <<p, chans>>

Consumers(n) == {t.id : t \in {t \in Transforms : n \in Range(t.inputs)}}

(* check_reachable: one turn of its loop.  The sources come out of a set, so in any order. *)
Follow ==
  /\ phase = "reach"
  /\ \E n \in stack : stack' = (stack \ {n}) \cup (Consumers(n) \ seen)
                      /\ seen' = seen \cup Consumers(n)
  /\ UNCHANGED <<p, phase, at, verdict, consumed, chans>>

CheckReachable ==
  /\ phase = "reach"
  /\ stack = {}
  /\ Conclude(IF \A t \in Transforms : t.id \in seen THEN NoError ELSE "Unreachable", "joins")
  /\ UNCHANGED <<p, consumed, seen, stack, chans>>

-----------------------------------------------------------------------------
(* The windows among the inputs of a join; that they agree is by their text. *)
InputWindows(t) == {w \in Windows : w.id \in Range(t.inputs)}

(* Faulty variant: only the sizes have to agree. *)
JoinErrorBySize(t) ==
  IF /\ t.maxGroups # 0
     /\ \A i \in DOMAIN t.inputs : \E w \in Windows : w.id = t.inputs[i]
     /\ \A v, w \in InputWindows(t) : v.size = w.size
  THEN NoError ELSE "InvalidJoin"

JoinError(t) ==
  IF /\ t.maxGroups # 0
     /\ \A i \in DOMAIN t.inputs : \E w \in Windows : w.id = t.inputs[i]
     /\ \A v, w \in InputWindows(t) : v.groupBy = w.groupBy /\ v.size = w.size
  THEN NoError ELSE "InvalidJoin"

CheckJoins ==
  /\ phase = "joins"
  /\ IF at > Len(p.transforms) THEN Conclude(NoError, "ends")
     ELSE Advance(IF p.transforms[at].kind = "join" THEN JoinError(p.transforms[at]) ELSE NoError)
  /\ UNCHANGED <<p, consumed, seen, stack, chans>>

(* A join without a value must not feed a sink. *)
CheckSinks ==
  /\ phase = "ends"
  /\ Conclude(IF \E s \in Range(p.sinks), t \in Transforms :
                   s.input = t.id /\ t.kind = "join" /\ t.value = None
              THEN "InvalidJoin" ELSE NoError,
              "wire")
  /\ UNCHANGED <<p, consumed, seen, stack, chans>>

-----------------------------------------------------------------------------
(* The key of an edge: the group_by of the node it feeds. *)
KeySpec(output) ==
  LET fed == {i \in DOMAIN p.transforms : output \in Range(p.transforms[i].inputs)}
      first == CHOOSE i \in fed : \A j \in fed : i <= j
      own == {w \in Windows : w.id = output}
  IN  CASE fed = {} -> None
        [] fed # {} ->
             CASE p.transforms[first].kind = "window" -> p.transforms[first].groupBy
               [] p.transforms[first].kind = "join" /\ own # {} -> (CHOOSE w \in own : TRUE).groupBy
               [] OTHER -> None

(* The handles run makes: one producer of each output, and a consumer for each input. *)
Channels ==
  [o \in Outputs |->
     [key |-> KeySpec(o),
      readers |-> UNION {{<<i, n>> : n \in {n \in DOMAIN Readers[i].inputs :
                                               Readers[i].inputs[n] = o}} : i \in DOMAIN Readers}]]

Wire ==
  /\ phase = "wire"
  /\ chans' = Channels
  /\ phase' = "done"
  /\ UNCHANGED <<p, at, verdict, consumed, seen, stack>>

Next ==
  \/ CheckIds \/ CheckIntervals \/ CheckValues \/ CheckEdges \/ Follow \/ CheckReachable
  \/ CheckJoins \/ CheckSinks \/ Wire

Spec == Init /\ [][Next]_vars

-----------------------------------------------------------------------------
Accepted == phase \in {"wire", "done"} /\ verdict = NoError

Wired == phase = "done" /\ verdict = NoError

(* "Every transform is reachable from a source (no cycles/orphans)": of    *)
(* transforms that passed, none feed one another in a circle.  It is not   *)
(* so: check_reachable looks for a path from a source, not for a cycle,    *)
(* and a join may read a source's window and what comes of its own output. *)
NoCycles ==
  Accepted => \A S \in SUBSET Transforms \ {{}} :
                \E t \in S : \A u \in S : u.id \notin Range(t.inputs)

(* What is so: transforms that feed one another in a circle are refused    *)
(* unless one of them is a join.                                           *)
OnlyJoinsCloseCycles ==
  Accepted => \A S \in SUBSET Transforms :
                /\ S # {}
                /\ \A t \in S : \E u \in S : u.id \in Range(t.inputs)
                => \E t \in S : t.kind = "join"

(* No record falls between the windows of a node that passed: every        *)
(* timestamp lies in a window that starts at a multiple of the slide (of   *)
(* the size, when no slide is given).  A size of zero passes, too, and     *)
(* leaves no window at all: it is not part of the claim.                   *)
EveryInstantHasAWindow ==
  Accepted => \A w \in Windows :
    LET size == Seconds[w.size]
        slide == IF w.slide = None THEN size ELSE Seconds[w.slide]
    IN  size # 0 => \A ts \in 0 .. 2 * size : \E k \in 0 .. ts : k * slide <= ts /\ ts < k * slide + size

(* InProcess::consumer panics on a second reader, "unreachable in a        *)
(* validated pipeline"; and no node reads a channel nothing writes.        *)
ReceiverTakenOnce ==
  Wired => /\ \A i \in DOMAIN Readers : Range(Readers[i].inputs) \subseteq DOMAIN chans
           /\ \A o \in DOMAIN chans : \A x, y \in chans[o].readers : x = y

(* The records of one key meet in one worker: the edge into a window is    *)
(* keyed by what it groups by, and the edges into a join by one and the    *)
(* same list of fields.                                                    *)
CoPartitioned ==
  Wired => \A t \in Transforms : \A i, j \in DOMAIN t.inputs :
             /\ t.kind = "window" => chans[t.inputs[i]].key = t.groupBy
             /\ t.kind = "join" => /\ chans[t.inputs[i]].key # None
                                   /\ chans[t.inputs[i]].key = chans[t.inputs[j]].key

=============================================================================
