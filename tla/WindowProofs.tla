---------------------------- MODULE WindowProofs ----------------------------
(***************************************************************************)
(* What Window guarantees for every size, slide, lateness, cap and set of  *)
(* groups, and for any number of records.                                  *)
(***************************************************************************)
EXTENDS Window, WindowOutput, FiniteSetTheorems, TLAPS

-----------------------------------------------------------------------------
(* Event time. *)

(* Window starts are times, and the newest window holds the timestamp.     *)
LEMMA NewestHolds ==
  ASSUME NEW t \in Nat
  PROVE  NewestStart(t) \in Nat /\ NewestStart(t) <= t /\ t < NewestStart(t) + Size
<1>1. /\ t \div Slide \in Nat
      /\ t % Slide \in 0 .. (Slide - 1)
      /\ t = Slide * (t \div Slide) + (t % Slide)
  BY TimeAssumption
<1>2. PICK q \in Nat, m \in 0 .. (Slide - 1) : q = t \div Slide /\ t = Slide * q + m
  BY <1>1
<1>3. q * Slide \in Nat /\ q * Slide = Slide * q
  BY <1>2, TimeAssumption
<1>4. NewestStart(t) = q * Slide
  BY <1>2 DEF NewestStart
<1>. QED
  BY <1>2, <1>3, <1>4, TimeAssumption

(* Window starts are natural numbers. *)
LEMMA StartsAreTimes ==
  ASSUME NEW t \in Nat
  PROVE  WindowStarts(t) \subseteq Nat
<1>1. ASSUME NEW k \in 0 .. (t \div Slide)
      PROVE  k * Slide \in Nat
  BY <1>1, TimeAssumption
<1>. QED
  BY <1>1, NewestHolds DEF WindowStarts

(* Multiplication by a fixed natural number is monotone. *)
LEMMA TimesMonotone ==
  ASSUME NEW c \in Nat, NEW m \in Nat, NEW n \in Nat, m <= n
  PROVE  m * c \in Nat /\ n * c \in Nat /\ m * c <= n * c
<1>1. PICK d \in Nat : n = m + d
  BY SMT
<1>2. n * c = m * c + d * c /\ m * c \in Nat /\ n * c \in Nat /\ d * c \in Nat
  BY <1>1
<1>. QED
  BY <1>2

(* A record falls in the slide-aligned windows [s, s + Size) that hold its *)
(* timestamp, and in no other: the walk back from the newest start skips   *)
(* none and goes no window too far.                                        *)
THEOREM StartsAreTheWindowsHoldingIt ==
  ASSUME NEW t \in Nat
  PROVE  WindowStarts(t) = {s \in {k * Slide : k \in Nat} : s <= t /\ t < s + Size}
<1>. DEFINE q == t \div Slide
<1>1. q \in Nat /\ q * Slide \in Nat /\ q * Slide <= t /\ t < q * Slide + Size
  BY NewestHolds, TimeAssumption DEF NewestStart
<1>2. t < (q + 1) * Slide
  <2>1. t % Slide \in 0 .. (Slide - 1) /\ t = Slide * q + (t % Slide)
    BY TimeAssumption
  <2>2. (q + 1) * Slide = q * Slide + Slide /\ q * Slide = Slide * q
    BY <1>1, TimeAssumption
  <2>. QED
    BY <1>1, <2>1, <2>2, TimeAssumption
<1>. HIDE DEF q
<1>3. ASSUME NEW k \in Nat
      PROVE  k * Slide <= t <=> k <= q
  <2>1. CASE k <= q
    BY <1>1, <2>1, TimesMonotone, TimeAssumption
  <2>2. CASE q + 1 <= k
    <3>1. (q + 1) * Slide \in Nat /\ k * Slide \in Nat /\ (q + 1) * Slide <= k * Slide
      BY <1>1, <2>2, TimesMonotone, TimeAssumption
    <3>. QED
      BY <1>1, <1>2, <2>2, <3>1
  <2>. QED
    BY <1>1, <2>1, <2>2
<1>4. WindowStarts(t) = {q * Slide} \cup {s \in {k * Slide : k \in 0 .. q} : s + Size > t}
  BY DEF WindowStarts, NewestStart, q
<1>5. {k * Slide : k \in 0 .. q} = {s \in {k * Slide : k \in Nat} : s <= t}
  <2>1. ASSUME NEW k \in 0 .. q
        PROVE  k \in Nat /\ k * Slide <= t
    BY <1>1, <1>3
  <2>2. ASSUME NEW k \in Nat, k * Slide <= t
        PROVE  k \in 0 .. q
    BY <1>1, <1>3, <2>2
  <2>. QED
    BY <2>1, <2>2
<1>6. \A s \in {k * Slide : k \in Nat} : s \in Nat
  BY TimeAssumption
<1>. QED
  BY <1>1, <1>4, <1>5, <1>6, TimeAssumption

-----------------------------------------------------------------------------
(* Type correctness. *)

(* The aggregates of folds are well typed. *)
LEMMA AggregatesType ==
  ASSUME NEW folds, folds \subseteq Fold
  PROVE  Aggregates(folds) \subseteq Aggregate
<1>1. \A f \in folds : f.start \in Time /\ f.rec \in Record /\ f.rec.group \in Groups
  BY DEF Fold, Record
<1>2. \A f \in folds :
        RecordsOf(folds, f.start, f.rec.group) \in SUBSET Record
  BY <1>1 DEF RecordsOf
<1>. QED
  BY <1>1, <1>2 DEF Aggregates, Aggregate

(* What drain_ready leaves behind is well typed. *)
LEMMA DrainReadyType ==
  ASSUME NEW folds, folds \subseteq Fold, NEW newest, DrainReady(folds, newest)
  PROVE  /\ windows' \subseteq Fold
         /\ out' \subseteq Aggregate
         /\ pc' \in {"select", "emit"}
<1>1. Ready(folds, newest) \subseteq folds
  BY DEF Ready
<1>. QED
  BY <1>1, AggregatesType DEF DrainReady

(* The fields of a record, and the windows that take it. *)
LEMMA RecordType ==
  ASSUME NEW r \in Record
  PROVE  r.ts \in Nat /\ r.group \in Groups /\ TakenBy(r) \subseteq Time
<1>1. r.ts \in Nat
  BY WindowAssumption DEF Record
<1>2. WindowStarts(r.ts) \subseteq Nat
  BY <1>1, StartsAreTimes
<1>. QED
  BY <1>1, <1>2 DEF Record, TakenBy, OpenFor, Time

(* Counting a drop keeps the counters natural numbers. *)
LEMMA MeterType ==
  ASSUME metered \in [DropReason -> Nat], NEW d \in DropReason, Meter(d)
  PROVE  metered' \in [DropReason -> Nat]
BY DEF Meter

(* Receiving a record keeps the types. *)
LEMMA ReceiveType ==
  ASSUME TypeOK, NEW r \in Record, Receive(r)
  PROVE  TypeOK'
<1>. USE DEF TypeOK
<1>1. /\ r.ts \in Nat
      /\ TakenBy(r) \subseteq Time
      /\ Max2(maxEvent, r.ts) \in Time
      /\ seen \cup {r} \subseteq Record
  BY RecordType DEF Max2, Time
<1>2. ASSUME Arrives(r)
      PROVE  /\ timer' \in 0 .. IdleTimeout
             /\ collapsed' = collapsed
             /\ sent' \in Seq(Aggregate)
             /\ inspect' \in BOOLEAN
             /\ closed' \in BOOLEAN
  BY <1>2, WindowAssumption DEF Arrives
<1>3. CASE SkipRecord(r)
  BY <1>1, <1>2, <1>3, DrainReadyType, MeterType DEF SkipRecord, DropReason
<1>4. CASE RefuseRecord(r)
  BY <1>1, <1>2, <1>4 DEF RefuseRecord
<1>5. CASE FoldRecord(r)
  <2>. DEFINE folds == windows \cup {[start |-> s, rec |-> r] : s \in TakenBy(r)}
  <2>1. folds \subseteq Fold
    BY <1>1 DEF Fold
  <2>2. DrainReady(folds, maxEvent')
    BY <1>5 DEF FoldRecord
  <2>3. /\ windows' \subseteq Fold
        /\ out' \subseteq Aggregate
        /\ pc' \in {"select", "emit"}
    BY <2>1, <2>2, DrainReadyType
  <2>. QED
    BY <1>1, <1>2, <1>5, <2>3 DEF FoldRecord
<1>6. CASE ShedRecord(r)
  BY <1>1, <1>2, <1>6, DrainReadyType, MeterType DEF ShedRecord, DropReason
<1>7. CASE LateRecord(r)
  BY <1>1, <1>2, <1>7, DrainReadyType, MeterType DEF LateRecord, DropReason
<1>. QED
  BY <1>3, <1>4, <1>5, <1>6, <1>7 DEF Receive

(* Every variable keeps its type. *)
THEOREM TypeCorrect == Spec => []TypeOK
<1>1. Init => TypeOK
  <2>. SUFFICES ASSUME Init PROVE TypeOK
    OBVIOUS
  <2>1. inspect \in BOOLEAN /\ closed \in BOOLEAN /\ collapsed \in BOOLEAN
    BY WindowAssumption, Zenon DEF Init
  <2>2. timer \in 0 .. IdleTimeout
    BY WindowAssumption DEF Init
  <2>3. metered \in [DropReason -> Nat] /\ sent \in Seq(Aggregate) /\ maxEvent \in Time
    BY DEF Init, Time
  <2>. QED
    BY <2>1, <2>2, <2>3 DEF Init, TypeOK
<1>2. TypeOK /\ [Next]_vars => TypeOK'
  <2>. SUFFICES ASSUME TypeOK, [Next]_vars PROVE TypeOK'
    OBVIOUS
  <2>. USE WindowAssumption DEF TypeOK
  <2>1. CASE \E r \in Record : Receive(r)
    BY <2>1, ReceiveType
  <2>2. CASE Close
    BY <2>2, AggregatesType DEF Close, DrainAll
  <2>3. CASE Tick
    BY <2>3 DEF Tick, coreVars
  <2>4. CASE IdleFire
    BY <2>4, AggregatesType DEF IdleFire, DrainAll
  <2>5. CASE AnswerQuery
    BY <2>5 DEF AnswerQuery, coreVars
  <2>6. CASE DropInspect
    <3>1. inspect' \in BOOLEAN
      BY <2>6, Zenon DEF DropInspect
    <3>. QED
      BY <2>6, <3>1 DEF DropInspect, coreVars
  <2>7. CASE Emit
    BY <2>7 DEF Emit, coreVars
  <2>8. CASE DownstreamGone
    BY <2>8 DEF DownstreamGone, coreVars
  <2>9. CASE FlushDone
    BY <2>9 DEF FlushDone, coreVars
  <2>10. CASE UNCHANGED vars
    BY <2>10 DEF vars
  <2>. QED
    BY <2>1, <2>2, <2>3, <2>4, <2>5, <2>6, <2>7, <2>8, <2>9, <2>10 DEF Next
<1>. QED
  BY <1>1, <1>2, PTL DEF Spec

-----------------------------------------------------------------------------
(* Event time never stalls, and nothing stays open behind it. *)

(* After drain_ready nothing the watermark has passed is open. *)
LEMMA DrainReadyAhead ==
  ASSUME NEW folds, NEW newest, DrainReady(folds, newest)
  PROVE  /\ \A f \in windows' : ~Passed(f.start, Watermark(newest))
         /\ windows' \subseteq folds
BY DEF DrainReady, Ready

(* A window the watermark has passed is not open at any await. *)
THEOREM NothingOpenBehindWatermark == Spec => []AheadOfWatermark
<1>1. Init => AheadOfWatermark
  BY DEF Init, AheadOfWatermark
<1>2. AheadOfWatermark /\ [Next]_vars => AheadOfWatermark'
  <2>. SUFFICES ASSUME AheadOfWatermark, [Next]_vars PROVE AheadOfWatermark'
    OBVIOUS
  <2>. USE DEF AheadOfWatermark
  <2>1. ASSUME NEW r \in Record, Receive(r)
        PROVE  AheadOfWatermark'
    <3>1. CASE SkipRecord(r)
      BY <3>1, DrainReadyAhead DEF SkipRecord
    <3>2. CASE RefuseRecord(r)
      BY <3>2 DEF RefuseRecord
    <3>3. CASE FoldRecord(r)
      BY <3>3, DrainReadyAhead DEF FoldRecord
    <3>4. CASE ShedRecord(r)
      BY <3>4, DrainReadyAhead DEF ShedRecord
    <3>5. CASE LateRecord(r)
      BY <3>5, DrainReadyAhead DEF LateRecord
    <3>. QED
      BY <2>1, <3>1, <3>2, <3>3, <3>4, <3>5 DEF Receive
  <2>2. CASE Close \/ IdleFire
    BY <2>2 DEF Close, IdleFire, DrainAll
  <2>3. CASE Tick \/ AnswerQuery \/ DropInspect
    BY <2>3 DEF Tick, AnswerQuery, DropInspect, coreVars
  <2>4. CASE Emit \/ DownstreamGone \/ FlushDone
    BY <2>4 DEF Emit, DownstreamGone, FlushDone, coreVars
  <2>5. CASE UNCHANGED vars
    BY <2>5 DEF vars
  <2>. QED
    BY <2>1, <2>2, <2>3, <2>4, <2>5 DEF Next
<1>. QED
  BY <1>1, <1>2, PTL DEF Spec

(* A record is late only when a newer event has been seen. *)
LEMMA LateIsOlder ==
  ASSUME TypeOK, NEW r \in Record, OpenFor(r) = {}
  PROVE  r.ts <= maxEvent
<1>1. r.ts \in Nat
  BY RecordType
<1>2. NewestStart(r.ts) \in Nat /\ r.ts < NewestStart(r.ts) + Size
  BY <1>1, NewestHolds
<1>3. NewestStart(r.ts) + Size <= Watermark(maxEvent)
  BY DEF OpenFor, WindowStarts, Passed
<1>. QED
  BY <1>1, <1>2, <1>3, TimeAssumption DEF TypeOK, Time, Watermark, SaturatingSub

(* maxEvent is the event time of the newest record received. *)
THEOREM EventTimeNeverStalls == Spec => []NewestEventSeen
<1>1. Init => NewestEventSeen
  BY DEF Init, NewestEventSeen
<1>2. TypeOK /\ NewestEventSeen /\ [Next]_vars => NewestEventSeen'
  <2>. SUFFICES ASSUME TypeOK, NewestEventSeen, [Next]_vars PROVE NewestEventSeen'
    OBVIOUS
  <2>. USE DEF NewestEventSeen
  <2>1. ASSUME NEW r \in Record, Receive(r)
        PROVE  NewestEventSeen'
    <3>. r.ts \in Nat /\ maxEvent \in Nat /\ \A x \in seen : x.ts \in Nat
      BY RecordType DEF TypeOK, Time
    <3>1. CASE seen' = seen \cup {r} /\ maxEvent' = Max2(maxEvent, r.ts)
      BY <3>1 DEF Max2
    <3>2. CASE RefuseRecord(r)
      BY <3>2 DEF RefuseRecord
    <3>3. CASE LateRecord(r)
      BY <3>3, LateIsOlder DEF LateRecord
    <3>. QED
      BY <2>1, <3>1, <3>2, <3>3 DEF Receive, SkipRecord, FoldRecord, ShedRecord
  <2>2. CASE ~ \E r \in Record : Receive(r)
    BY <2>2 DEF Next, vars, coreVars, Close, Tick, IdleFire, AnswerQuery, DropInspect,
                Emit, DownstreamGone, FlushDone
  <2>. QED
    BY <2>1, <2>2
<1>. QED
  BY <1>1, <1>2, TypeCorrect, PTL DEF Spec

-----------------------------------------------------------------------------
(* The cap. *)

(* Folds that are taken away leave a window within its cap. *)
LEMMA CapShrinks ==
  ASSUME TypeOK, WithinCap, windows' \subseteq windows
  PROVE  WithinCap'
<1>. SUFFICES ASSUME NEW f \in windows'
              PROVE  Cardinality(GroupsOf(f.start)') <= MaxGroups
  BY DEF WithinCap
<1>1. IsFiniteSet(GroupsOf(f.start))
  <2>1. GroupsOf(f.start) \subseteq Groups
    BY DEF GroupsOf, TypeOK, Fold, Record
  <2>. QED
    BY <2>1, WindowAssumption, FS_Subset
<1>2. GroupsOf(f.start)' \subseteq GroupsOf(f.start)
  BY DEF GroupsOf
<1>3. /\ Cardinality(GroupsOf(f.start)) \in Nat
      /\ Cardinality(GroupsOf(f.start)') \in Nat
      /\ Cardinality(GroupsOf(f.start)') <= Cardinality(GroupsOf(f.start))
  BY <1>1, <1>2, FS_Subset, FS_CardinalityType
<1>4. Cardinality(GroupsOf(f.start)) <= MaxGroups
  BY DEF WithinCap
<1>. QED
  BY <1>3, <1>4, WindowAssumption

(* The windows that take a record stay within their cap with its group. *)
LEMMA CapTakes ==
  ASSUME TypeOK, WithinCap, NEW r \in Record,
         windows' \subseteq windows \cup {[start |-> s, rec |-> r] : s \in TakenBy(r)}
  PROVE  WithinCap'
<1>. SUFFICES ASSUME NEW f \in windows'
              PROVE  Cardinality(GroupsOf(f.start)') <= MaxGroups
  BY DEF WithinCap
<1>. DEFINE G == GroupsOf(f.start)
<1>1. IsFiniteSet(G) /\ Cardinality(G) \in Nat
  <2>1. G \subseteq Groups
    BY DEF GroupsOf, TypeOK, Fold, Record
  <2>. QED
    BY <2>1, WindowAssumption, FS_Subset, FS_CardinalityType
<1>2. CASE f.start \in TakenBy(r)
  <2>1. G' \subseteq G \cup {r.group}
    BY DEF GroupsOf
  <2>2. CASE r.group \in G
    <3>1. PICK x \in windows : x.start = f.start
      BY <2>2 DEF GroupsOf
    <3>2. Cardinality(G) <= MaxGroups
      BY <3>1 DEF WithinCap
    <3>3. Cardinality(G') <= Cardinality(G) /\ Cardinality(G') \in Nat
      BY <1>1, <2>1, <2>2, FS_Subset, FS_CardinalityType
    <3>. QED
      BY <1>1, <3>2, <3>3, WindowAssumption
  <2>3. CASE r.group \notin G
    <3>1. Cardinality(G) < MaxGroups
      BY <1>2, <2>3 DEF TakenBy
    <3>2. /\ IsFiniteSet(G \cup {r.group})
          /\ Cardinality(G \cup {r.group}) = Cardinality(G) + 1
      BY <1>1, <2>3, FS_AddElement
    <3>3. /\ Cardinality(G') <= Cardinality(G \cup {r.group})
          /\ Cardinality(G') \in Nat
      BY <2>1, <3>2, FS_Subset, FS_CardinalityType
    <3>. QED
      BY <1>1, <3>1, <3>2, <3>3, WindowAssumption
  <2>. QED
    BY <2>2, <2>3
<1>3. CASE f.start \notin TakenBy(r)
  <2>1. f \in windows /\ G' \subseteq G
    BY <1>3 DEF GroupsOf
  <2>2. Cardinality(G) <= MaxGroups
    BY <2>1 DEF WithinCap
  <2>3. Cardinality(G') <= Cardinality(G) /\ Cardinality(G') \in Nat
    BY <1>1, <2>1, FS_Subset, FS_CardinalityType
  <2>. QED
    BY <1>1, <2>2, <2>3, WindowAssumption
<1>. QED
  BY <1>2, <1>3

(* No window ever holds more than max_groups groups. *)
THEOREM CapHolds == Spec => []WithinCap
<1>1. Init => WithinCap
  BY DEF Init, WithinCap
<1>2. TypeOK /\ WithinCap /\ [Next]_vars => WithinCap'
  <2>. SUFFICES ASSUME TypeOK, WithinCap, [Next]_vars PROVE WithinCap'
    OBVIOUS
  <2>1. ASSUME NEW r \in Record, FoldRecord(r)
        PROVE  WithinCap'
    BY <2>1, DrainReadyAhead, CapTakes DEF FoldRecord
  <2>2. ASSUME NEW r \in Record,
               SkipRecord(r) \/ RefuseRecord(r) \/ ShedRecord(r) \/ LateRecord(r)
        PROVE  windows' \subseteq windows
    BY <2>2, DrainReadyAhead DEF SkipRecord, RefuseRecord, ShedRecord, LateRecord
  <2>3. CASE ~ \E r \in Record : Receive(r)
    <3>1. windows' \subseteq windows
      BY <2>3 DEF Next, vars, coreVars, Close, Tick, IdleFire, AnswerQuery, DropInspect,
                  Emit, DownstreamGone, FlushDone, DrainAll
    <3>. QED
      BY <3>1, CapShrinks
  <2>. QED
    BY <2>1, <2>2, <2>3, CapShrinks DEF Receive
<1>. QED
  BY <1>1, <1>2, TypeCorrect, PTL DEF Spec

-----------------------------------------------------------------------------
(* A window fires once. *)

(* What FiresOnce rests on.  While the input is open, everything that has  *)
(* fired lies behind the watermark and everything open ahead of it; once   *)
(* it has closed nothing is open and nothing more fires.                   *)
FiredBehind ==
  /\ closed => windows = {} /\ pc \in {"flush", "done"}
  /\ ~closed => /\ \A o \in out : Passed(o.start, Watermark(maxEvent))
                /\ \A i \in DOMAIN sent : Passed(sent[i].start, Watermark(maxEvent))
  /\ pc = "select" => out = {}

(* The fired aggregates are one per window and group. *)
OneEach == \A o, p \in out : o.start = p.start /\ o.group = p.group => o = p

FiresInv == AheadOfWatermark /\ FiredBehind /\ OneEach /\ NoneTwice

(* There is one aggregate per window and group, and it has a fold. *)
LEMMA AggregatesOneEach ==
  ASSUME NEW folds
  PROVE  /\ \A o, p \in Aggregates(folds) : o.start = p.start /\ o.group = p.group => o = p
         /\ \A o \in Aggregates(folds) :
              \E f \in folds : o.start = f.start /\ o.group = f.rec.group
<1>1. \A o \in Aggregates(folds) :
        \E f \in folds : /\ o.start = f.start
                         /\ o.group = f.rec.group
                         /\ o = [start |-> o.start, group |-> o.group,
                                 recs |-> RecordsOf(folds, o.start, o.group)]
  BY DEF Aggregates
<1>. QED
  BY <1>1

(* The watermark only grows, so what it has passed stays passed. *)
LEMMA PassedStays ==
  ASSUME NEW m \in Nat, NEW n \in Nat, m <= n, NEW s \in Nat, Passed(s, Watermark(m))
  PROVE  Passed(s, Watermark(n))
BY TimeAssumption DEF Passed, Watermark, SaturatingSub

(* Receiving a record keeps the invariant: what fires was open ahead of    *)
(* the old watermark, and what had fired was behind it.                    *)
LEMMA FiresReady ==
  ASSUME TypeOK, FiresInv, pc = "select",
         NEW folds, folds \subseteq Fold,
         \A f \in folds : ~Passed(f.start, Watermark(maxEvent)),
         DrainReady(folds, maxEvent'), maxEvent' \in Nat, maxEvent <= maxEvent',
         UNCHANGED <<sent, closed>>
  PROVE  FiresInv'
<1>. DEFINE fired == Ready(folds, maxEvent')
            newMark == Watermark(maxEvent')
<1>1. ~closed /\ out = {}
  BY DEF FiresInv, FiredBehind
<1>2. /\ windows' = folds \ fired
      /\ out' = Aggregates(fired)
      /\ pc' = IF fired = {} THEN "select" ELSE "emit"
      /\ \A f \in windows' : f.start \in Nat /\ ~Passed(f.start, newMark)
      /\ \A f \in fired : f \in folds /\ f.start \in Nat /\ Passed(f.start, newMark)
  BY DEF DrainReady, Ready, Fold, Time
<1>3. \A i \in DOMAIN sent : /\ Passed(sent[i].start, Watermark(maxEvent))
                            /\ sent[i].start \in Nat
  <2>1. \A i \in DOMAIN sent : Passed(sent[i].start, Watermark(maxEvent))
    BY <1>1 DEF FiresInv, FiredBehind
  <2>2. ASSUME NEW i \in DOMAIN sent
        PROVE  sent[i].start \in Nat
    <3>1. sent \in Seq(Aggregate) /\ i \in 1 .. Len(sent)
      BY DEF TypeOK
    <3>2. sent[i] \in Aggregate
      BY <3>1
    <3>. QED
      BY <3>2 DEF Aggregate, Time
  <2>. QED
    BY <2>1, <2>2
<1>4. \A i \in DOMAIN sent : Passed(sent[i].start, newMark)
  BY <1>3, PassedStays DEF TypeOK, Time
<1>5. /\ \A o, p \in out' : o.start = p.start /\ o.group = p.group => o = p
      /\ \A o \in out' : \E f \in fired : o.start = f.start /\ o.group = f.rec.group
  BY <1>2, AggregatesOneEach
<1>6. AheadOfWatermark'
  BY <1>2 DEF AheadOfWatermark
<1>7. FiredBehind'
  <2>1. fired = {} => out' = {}
    BY <1>5
  <2>. QED
    BY <1>1, <1>2, <1>4, <1>5, <2>1 DEF FiredBehind
<1>8. OneEach'
  BY <1>5 DEF OneEach
<1>9. NoneTwice'
  <2>1. Held' \cap Fired' = {}
    BY <1>2, <1>5 DEF Held, Fired
  <2>2. Held' \cap Delivered' = {}
    BY <1>2, <1>4 DEF Held, Delivered
  <2>3. Fired' \cap Delivered' = {}
    BY <1>2, <1>3, <1>5 DEF Fired, Delivered
  <2>4. \A i, j \in DOMAIN sent' :
          sent'[i].start = sent'[j].start /\ sent'[i].group = sent'[j].group => i = j
    BY DEF FiresInv, NoneTwice
  <2>. QED
    BY <2>1, <2>2, <2>3, <2>4 DEF NoneTwice
<1>. QED
  BY <1>6, <1>7, <1>8, <1>9 DEF FiresInv

(* Receiving a record keeps what fires once. *)
LEMMA FiresReceive ==
  ASSUME TypeOK, FiresInv, NEW r \in Record, Receive(r)
  PROVE  FiresInv'
<1>1. /\ pc = "select" /\ UNCHANGED <<sent, closed>>
      /\ r.ts \in Nat /\ maxEvent \in Nat
      /\ TakenBy(r) \subseteq Time
      /\ windows \subseteq Fold
      /\ \A f \in windows : ~Passed(f.start, Watermark(maxEvent))
  BY RecordType DEF Receive, SkipRecord, RefuseRecord, FoldRecord, ShedRecord, LateRecord,
                    Arrives, TypeOK, Time, FiresInv, AheadOfWatermark
<1>2. Max2(maxEvent, r.ts) \in Nat /\ maxEvent <= Max2(maxEvent, r.ts)
  BY <1>1 DEF Max2
<1>3. CASE SkipRecord(r) \/ ShedRecord(r)
  BY <1>1, <1>2, <1>3, FiresReady DEF SkipRecord, ShedRecord
<1>4. CASE LateRecord(r)
  <2>1. DrainReady(windows, maxEvent') /\ maxEvent' = maxEvent
    BY <1>4 DEF LateRecord
  <2>. QED
    BY <1>1, <2>1, FiresReady
<1>5. CASE FoldRecord(r)
  <2>. DEFINE folds == windows \cup {[start |-> s, rec |-> r] : s \in TakenBy(r)}
  <2>1. folds \subseteq Fold
    BY <1>1 DEF Fold
  <2>2. \A f \in folds : ~Passed(f.start, Watermark(maxEvent))
    BY <1>1 DEF TakenBy, OpenFor
  <2>3. DrainReady(folds, maxEvent') /\ maxEvent' = Max2(maxEvent, r.ts)
    BY <1>5 DEF FoldRecord
  <2>. HIDE DEF folds
  <2>. QED
    BY <1>1, <1>2, <2>1, <2>2, <2>3, FiresReady
<1>6. CASE RefuseRecord(r)
  <2>1. UNCHANGED <<windows, maxEvent, out, sent, closed>> /\ pc' = "failed"
    BY <1>1, <1>6 DEF RefuseRecord
  <2>2. ~closed
    BY <1>1 DEF FiresInv, FiredBehind
  <2>. QED
    BY <2>1, <2>2 DEF FiresInv, AheadOfWatermark, FiredBehind, OneEach, NoneTwice,
                      Held, Fired, Delivered
<1>. QED
  BY <1>3, <1>4, <1>5, <1>6 DEF Receive

(* The close of the input keeps what fires once. *)
LEMMA FiresClose ==
  ASSUME TypeOK, FiresInv, Close
  PROVE  FiresInv'
<1>1. /\ pc = "select" /\ ~closed /\ out = {} /\ closed'
      /\ windows' = {} /\ out' = Aggregates(windows) /\ pc' = "flush"
      /\ UNCHANGED <<maxEvent, sent>>
  BY DEF Close, DrainAll, FiresInv, FiredBehind
<1>2. OneEach' /\ \A o \in out' : \E f \in windows : o.start = f.start /\ o.group = f.rec.group
  BY <1>1, AggregatesOneEach DEF OneEach
<1>3. AheadOfWatermark' /\ FiredBehind'
  BY <1>1 DEF AheadOfWatermark, FiredBehind
<1>4. Fired' \subseteq Held
  BY <1>2 DEF Fired, Held
<1>5. Held' = {} /\ Delivered' = Delivered
  BY <1>1 DEF Held, Delivered
<1>. QED
  BY <1>1, <1>2, <1>3, <1>4, <1>5 DEF FiresInv, NoneTwice

(* Sending an aggregate keeps what fires once. *)
LEMMA FiresEmit ==
  ASSUME TypeOK, FiresInv, Emit
  PROVE  FiresInv'
<1>1. PICK o \in out : /\ sent' = Append(sent, o)
                       /\ out' = out \ {o}
                       /\ pc' = IF out = {o} /\ pc = "emit" THEN "select" ELSE pc
  BY DEF Emit
<1>2. /\ pc \in {"emit", "flush"}
      /\ UNCHANGED <<windows, maxEvent, closed>>
  BY DEF Emit, coreVars
<1>3. /\ sent \in Seq(Aggregate) /\ o \in Aggregate
      /\ Len(sent) \in Nat
      /\ DOMAIN sent = 1 .. Len(sent)
      /\ DOMAIN sent' = 1 .. (Len(sent) + 1)
      /\ \A i \in DOMAIN sent : sent'[i] = sent[i]
      /\ sent'[Len(sent) + 1] = o
  BY <1>1 DEF TypeOK
<1>4. AheadOfWatermark' /\ OneEach'
  BY <1>1, <1>2 DEF FiresInv, AheadOfWatermark, OneEach
<1>5. FiredBehind'
  <2>1. closed => pc' \in {"flush", "done"}
    BY <1>1, <1>2 DEF FiresInv, FiredBehind
  <2>2. ~closed => \A i \in DOMAIN sent' : Passed(sent'[i].start, Watermark(maxEvent))
    BY <1>3 DEF FiresInv, FiredBehind
  <2>3. pc' = "select" => out' = {}
    BY <1>1, <1>2
  <2>. QED
    BY <1>1, <1>2, <2>1, <2>2, <2>3 DEF FiresInv, FiredBehind
<1>6. NoneTwice'
  <2>1. Delivered' = Delivered \cup {<<o.start, o.group>>}
    <3>1. Delivered' = {<<sent'[i].start, sent'[i].group>> : i \in DOMAIN sent'}
      BY DEF Delivered
    <3>2. DOMAIN sent' = DOMAIN sent \cup {Len(sent) + 1}
      BY <1>3
    <3>. QED
      BY <1>3, <3>1, <3>2 DEF Delivered
  <2>2. <<o.start, o.group>> \in Fired /\ <<o.start, o.group>> \notin Delivered
    BY DEF FiresInv, NoneTwice, Fired
  <2>3. Fired' = Fired \ {<<o.start, o.group>>}
    BY <1>1 DEF Fired, FiresInv, OneEach
  <2>4. Held' = Held
    BY <1>2 DEF Held
  <2>5. \A i, j \in DOMAIN sent' :
          sent'[i].start = sent'[j].start /\ sent'[i].group = sent'[j].group => i = j
    <3>. SUFFICES ASSUME NEW i \in DOMAIN sent', NEW j \in DOMAIN sent',
                         sent'[i].start = sent'[j].start, sent'[i].group = sent'[j].group
                  PROVE  i = j
      OBVIOUS
    <3>1. \A k \in DOMAIN sent : <<sent[k].start, sent[k].group>> # <<o.start, o.group>>
      BY <2>2 DEF Delivered
    <3>2. CASE i \in DOMAIN sent /\ j \in DOMAIN sent
      BY <1>3, <3>2 DEF FiresInv, NoneTwice
    <3>3. CASE i \notin DOMAIN sent \/ j \notin DOMAIN sent
      BY <1>3, <3>1, <3>3
    <3>. QED
      BY <3>2, <3>3
  <2>. QED
    BY <2>1, <2>2, <2>3, <2>4, <2>5 DEF FiresInv, NoneTwice
<1>. QED
  BY <1>4, <1>5, <1>6 DEF FiresInv

(* What the idle timeout has collapsed it has collapsed for good. *)
LEMMA CollapsedStays ==
  ASSUME [Next]_vars
  PROVE  collapsed => collapsed'
BY DEF Next, Receive, SkipRecord, RefuseRecord, FoldRecord, ShedRecord, LateRecord, Arrives, Close,
       Tick, IdleFire, AnswerQuery, DropInspect, Emit, DownstreamGone, FlushDone, vars

(* With no window open the idle timeout changes nothing but the timer. *)
LEMMA IdleFireOfNone ==
  ASSUME FiresInv, IdleFire, ~collapsed'
  PROVE  UNCHANGED <<windows, maxEvent, out, sent, closed, seen, pc>>
<1>1. windows = {} /\ windows' = {} /\ out' = Aggregates({}) /\ pc = "select" /\ pc' = "select"
      /\ UNCHANGED <<maxEvent, sent, closed, seen>>
  BY DEF IdleFire, DrainAll
<1>2. out = {} /\ Aggregates({}) = {}
  BY <1>1, AggregatesOneEach DEF FiresInv, FiredBehind
<1>. QED
  BY <1>1, <1>2

(* Until the idle timeout collapses some, windows fire by the watermark and *)
(* the close alone.                                                         *)
LEMMA FiresInvariant == Spec => [](~collapsed => FiresInv)
<1>1. Init => FiresInv
  BY DEF Init, FiresInv, AheadOfWatermark, FiredBehind, OneEach, NoneTwice,
         Held, Fired, Delivered
<1>2. TypeOK /\ (~collapsed => FiresInv) /\ [Next]_vars => (~collapsed => FiresInv)'
  <2>. SUFFICES ASSUME TypeOK, FiresInv, [Next]_vars, ~collapsed' PROVE FiresInv'
    BY CollapsedStays
  <2>1. CASE \E r \in Record : Receive(r)
    BY <2>1, FiresReceive
  <2>2. CASE Close
    BY <2>2, FiresClose
  <2>3. CASE Emit
    BY <2>3, FiresEmit
  <2>4. CASE \/ Tick \/ IdleFire \/ AnswerQuery \/ DropInspect \/ DownstreamGone \/ FlushDone
            \/ UNCHANGED vars
    <3>1. UNCHANGED <<windows, maxEvent, out, sent, closed>>
      BY <2>4, IdleFireOfNone
         DEF Tick, AnswerQuery, DropInspect, DownstreamGone, FlushDone, vars, coreVars
    <3>2. pc' = pc \/ pc' = "done"
      BY <2>4, IdleFireOfNone
         DEF Tick, AnswerQuery, DropInspect, DownstreamGone, FlushDone, vars, coreVars
    <3>. QED
      BY <3>1, <3>2 DEF FiresInv, AheadOfWatermark, FiredBehind, OneEach, NoneTwice,
                        Held, Fired, Delivered
  <2>. QED
    BY <2>1, <2>2, <2>3, <2>4 DEF Next
<1>. QED
  BY <1>1, <1>2, TypeCorrect, PTL DEF Spec

(* As long as the idle timeout has collapsed nothing, no (window, group) is *)
(* sent twice, and none that has been sent is open.                         *)
THEOREM WindowsFireOnce == Spec => []FiresOnce
<1>1. (~collapsed => FiresInv) => FiresOnce
  BY DEF FiresInv, FiresOnce
<1>. QED
  BY <1>1, FiresInvariant, PTL

-----------------------------------------------------------------------------
(* A record counts once, idle timeout or not. *)

(* What CountedOnce rests on: whatever is open, fired or sent is made of   *)
(* records that have arrived, and the next record is none of them.         *)
Arrived ==
  /\ \A f \in windows : f.rec \in seen
  /\ \A o \in out : o.recs \subseteq seen
  /\ \A i \in DOMAIN sent : sent[i].recs \subseteq seen

Numbered == IsFiniteSet(seen) /\ \A r \in seen : r.n <= Cardinality(seen)

CountInv == CountedOnce /\ Arrived /\ Numbered

(* An aggregate has the records of its folds, and no two share one. *)
LEMMA AggregatesCount ==
  ASSUME NEW folds, folds \subseteq Fold
  PROVE  /\ \A o \in Aggregates(folds) : \A rec \in o.recs :
              [start |-> o.start, rec |-> rec] \in folds /\ rec.group = o.group
         /\ \A o, q \in Aggregates(folds) : o # q => Apart(o, q)
<1>1. ASSUME NEW o \in Aggregates(folds), NEW rec \in o.recs
      PROVE  [start |-> o.start, rec |-> rec] \in folds /\ rec.group = o.group
  <2>1. o.recs = RecordsOf(folds, o.start, o.group)
    BY DEF Aggregates
  <2>2. PICK f \in folds : f.start = o.start /\ f.rec.group = o.group /\ f.rec = rec
    BY <2>1 DEF RecordsOf
  <2>3. f = [start |-> o.start, rec |-> rec]
    BY <2>2 DEF Fold
  <2>. QED
    BY <2>2, <2>3
<1>2. ASSUME NEW o \in Aggregates(folds), NEW q \in Aggregates(folds), o # q, ~Apart(o, q)
      PROVE  FALSE
  <2>1. PICK rec \in o.recs : rec \in q.recs
    BY <1>2 DEF Apart
  <2>2. o.start = q.start /\ o.group = q.group
    BY <1>1, <1>2, <2>1 DEF Apart
  <2>. QED
    BY <1>2, <2>2, AggregatesOneEach
<1>. QED
  BY <1>1, <1>2

(* Folds that fire leave the windows for one aggregate each. *)
LEMMA CountFires ==
  ASSUME TypeOK, CountedOnce, Arrived,
         NEW folds, folds \subseteq Fold,
         NEW fired, fired \subseteq folds,
         \A f \in folds : f \in windows \/ f.rec \notin seen,
         \A f \in folds : f.rec \in seen',
         windows' = folds \ fired, out' = Aggregates(fired), sent' = sent,
         seen \subseteq seen'
  PROVE  CountedOnce' /\ Arrived'
<1>1. /\ \A o \in out' : \A rec \in o.recs : [start |-> o.start, rec |-> rec] \in fired
      /\ \A o, q \in out' : o # q => Apart(o, q)
  BY AggregatesCount
<1>2. \A f \in folds, i \in DOMAIN sent : ~Counts(sent[i], f)
  BY DEF CountedOnce, Arrived, Counts
<1>3. \A f \in windows', o \in out' : ~Counts(o, f)
  <2>1. \A f \in folds : f = [start |-> f.start, rec |-> f.rec]
    BY DEF Fold
  <2>. QED
    BY <1>1, <2>1 DEF Counts
<1>4. \A o \in out', i \in DOMAIN sent : Apart(o, sent[i])
  <2>1. ASSUME NEW o \in out', NEW i \in DOMAIN sent, o.start = sent[i].start,
               NEW rec \in o.recs, rec \in sent[i].recs
        PROVE  FALSE
    <3>1. [start |-> o.start, rec |-> rec] \in folds
      BY <1>1
    <3>. QED
      BY <1>2, <2>1, <3>1 DEF Counts
  <2>. QED
    BY <2>1 DEF Apart
<1>5. Arrived'
  <2>1. \A o \in out' : o.recs \subseteq seen'
    <3>1. ASSUME NEW o \in out', NEW rec \in o.recs
          PROVE  rec \in seen'
      <4>1. [start |-> o.start, rec |-> rec] \in folds
        BY <1>1
      <4>. QED
        BY <4>1
    <3>. QED
      BY <3>1
  <2>. QED
    BY <2>1 DEF Arrived
<1>. QED
  BY <1>1, <1>2, <1>3, <1>4, <1>5 DEF CountedOnce

(* Receiving a record keeps what counts once. *)
LEMMA CountReceive ==
  ASSUME TypeOK, CountInv, NEW r \in Record, Receive(r)
  PROVE  CountInv'
<1>1. Cardinality(seen) \in Nat /\ IsFiniteSet(seen) /\ r.n = Cardinality(seen) + 1
  BY FS_CardinalityType DEF CountInv, Numbered, Receive, SkipRecord, RefuseRecord, FoldRecord,
                           ShedRecord, LateRecord, Arrives
<1>2. r \notin seen
  BY <1>1 DEF CountInv, Numbered
<1>3. CASE RefuseRecord(r)
  BY <1>3 DEF RefuseRecord, Arrives, CountInv, CountedOnce, Arrived, Numbered
<1>4. CASE ~RefuseRecord(r)
  <2>. DEFINE folds == windows \cup (IF FoldRecord(r)
                                     THEN {[start |-> s, rec |-> r] : s \in TakenBy(r)} ELSE {})
  <2>1. seen' = seen \cup {r} /\ sent' = sent /\ DrainReady(folds, maxEvent')
    BY <1>4 DEF Receive, SkipRecord, FoldRecord, ShedRecord, LateRecord, Arrives
  <2>2. /\ folds \subseteq Fold
        /\ \A f \in folds : f \in windows \/ f.rec = r
    BY RecordType DEF Fold, TypeOK
  <2>3. \A f \in folds : f.rec \in seen' /\ (f \in windows \/ f.rec \notin seen)
    BY <1>2, <2>1, <2>2 DEF CountInv, Arrived
  <2>. HIDE DEF folds
  <2>4. /\ Ready(folds, maxEvent') \subseteq folds
        /\ windows' = folds \ Ready(folds, maxEvent')
        /\ out' = Aggregates(Ready(folds, maxEvent'))
    BY <2>1 DEF DrainReady, Ready
  <2>5. CountedOnce' /\ Arrived'
    BY <2>1, <2>2, <2>3, <2>4, CountFires DEF CountInv
  <2>6. Numbered'
    <3>1. IsFiniteSet(seen') /\ Cardinality(seen') = Cardinality(seen) + 1
      BY <1>1, <1>2, <2>1, FS_AddElement
    <3>2. \A x \in seen : x.n \in Nat
      BY DEF TypeOK, Record
    <3>. QED
      BY <1>1, <2>1, <3>1, <3>2 DEF CountInv, Numbered
  <2>. QED
    BY <2>5, <2>6 DEF CountInv
<1>. QED
  BY <1>3, <1>4

(* Sending an aggregate keeps what counts once. *)
LEMMA CountEmit ==
  ASSUME TypeOK, CountInv, Emit
  PROVE  CountInv'
<1>1. PICK o \in out : sent' = Append(sent, o) /\ out' = out \ {o}
  BY DEF Emit
<1>2. UNCHANGED <<windows, seen>>
  BY DEF Emit, coreVars
<1>3. /\ DOMAIN sent = 1 .. Len(sent) /\ Len(sent) \in Nat
      /\ DOMAIN sent' = 1 .. (Len(sent) + 1)
      /\ \A i \in DOMAIN sent : sent'[i] = sent[i]
      /\ sent'[Len(sent) + 1] = o
  BY <1>1 DEF TypeOK
<1>4. /\ \A f \in windows : ~Counts(o, f)
      /\ \A q \in out' : Apart(q, o)
      /\ \A i \in DOMAIN sent : Apart(o, sent[i]) /\ Apart(sent[i], o)
      /\ o.recs \subseteq seen
  BY <1>1 DEF CountInv, CountedOnce, Arrived, Apart
<1>5. \A i \in DOMAIN sent' : \/ i \in DOMAIN sent /\ sent'[i] = sent[i]
                              \/ i = Len(sent) + 1 /\ sent'[i] = o
  BY <1>3
<1>6. \A i, j \in DOMAIN sent' : i # j => Apart(sent'[i], sent'[j])
  BY <1>4, <1>5 DEF CountInv, CountedOnce
<1>7. CountedOnce'
  BY <1>1, <1>2, <1>4, <1>5, <1>6 DEF CountInv, CountedOnce
<1>8. Arrived' /\ Numbered'
  BY <1>1, <1>2, <1>4, <1>5 DEF CountInv, Arrived, Numbered
<1>. QED
  BY <1>7, <1>8 DEF CountInv

(* Every step keeps the records of the folds, the fired and the sent apart. *)
LEMMA CountInvariant == Spec => []CountInv
<1>1. Init => CountInv
  BY FS_EmptySet DEF Init, CountInv, CountedOnce, Arrived, Numbered
<1>2. TypeOK /\ CountInv /\ [Next]_vars => CountInv'
  <2>. SUFFICES ASSUME TypeOK, CountInv, [Next]_vars PROVE CountInv'
    OBVIOUS
  <2>1. CASE \E r \in Record : Receive(r)
    BY <2>1, CountReceive
  <2>2. CASE Close \/ IdleFire
    <3>1. /\ windows' = windows \ windows /\ out' = Aggregates(windows)
          /\ UNCHANGED <<sent, seen>>
      BY <2>2 DEF Close, IdleFire, DrainAll
    <3>2. windows \subseteq Fold /\ \A f \in windows : f.rec \in seen'
      BY <3>1 DEF TypeOK, CountInv, Arrived
    <3>3. CountedOnce' /\ Arrived'
      BY <3>1, <3>2, CountFires DEF CountInv
    <3>. QED
      BY <3>1, <3>3 DEF CountInv, Numbered
  <2>3. CASE Emit
    BY <2>3, CountEmit
  <2>4. CASE \/ Tick \/ AnswerQuery \/ DropInspect \/ DownstreamGone \/ FlushDone
            \/ UNCHANGED vars
    <3>1. UNCHANGED <<windows, out, sent, seen>>
      BY <2>4 DEF Tick, AnswerQuery, DropInspect, DownstreamGone, FlushDone, vars, coreVars
    <3>. QED
      BY <3>1 DEF CountInv, CountedOnce, Arrived, Numbered
  <2>. QED
    BY <2>1, <2>2, <2>3, <2>4 DEF Next
<1>. QED
  BY <1>1, <1>2, TypeCorrect, PTL DEF Spec

(* A record is in one aggregate of a window at most, even of a window that *)
(* the idle timeout fires and a later record opens again.                  *)
THEOREM RecordsCountOnce == Spec => []CountedOnce
  BY CountInvariant, PTL DEF CountInv

-----------------------------------------------------------------------------
(* What WindowSpec promises, as the arrivals build it up.  These are its   *)
(* operators over any set S of records in place of the history.            *)

BeforeIn(S, r) == Watermark(Promised!NewestEvent({x \in S : x.n < r.n}))

InTimeIn(S, s, r) ==
  /\ r.num = "ok"
  /\ s \in WindowStarts(r.ts)
  /\ ~Passed(s, BeforeIn(S, r))

CandidatesIn(S, s, g) == {r \in S : r.group = g /\ InTimeIn(S, s, r)}

IsFirst(n, C) == n \in {r.n : r \in C} /\ \A r \in C : n <= r.n

FirstIn(S, s, g) == CHOOSE n \in {r.n : r \in CandidatesIn(S, s, g)} :
                      \A r \in CandidatesIn(S, s, g) : n <= r.n

(* The groups that came to the window before g did. *)
Earlier(S, s, g) ==
  {h \in Groups : CandidatesIn(S, s, h) # {} /\ FirstIn(S, s, h) < FirstIn(S, s, g)}

AdmittedIn(S, s, g) ==
  CandidatesIn(S, s, g) # {} /\ Cardinality(Earlier(S, s, g)) < MaxGroups

ContentsIn(S, s, g) == IF AdmittedIn(S, s, g) THEN CandidatesIn(S, s, g) ELSE {}

(* The operators of WindowSpec are these, of the records seen. *)
LEMMA PromisedAre ==
  /\ \A s, g : Promised!Candidates(s, g) = CandidatesIn(seen, s, g)
  /\ \A s, g : Promised!Contents(s, g) = ContentsIn(seen, s, g)
<1>1. \A s, g : Promised!Candidates(s, g) = CandidatesIn(seen, s, g)
  BY DEF Promised!Candidates, Promised!InTime, Promised!WatermarkBefore, Promised!Passed,
     Promised!Watermark, Promised!SaturatingSub, Promised!WindowStarts, Promised!NewestStart,
     CandidatesIn, InTimeIn, BeforeIn, Passed, Watermark, SaturatingSub, WindowStarts, NewestStart
<1>2. \A s, g : Promised!FirstArrival(s, g) = FirstIn(seen, s, g)
  BY <1>1, Zenon DEF Promised!FirstArrival, FirstIn
<1>3. ASSUME NEW s, NEW g PROVE Promised!Admitted(s, g) <=> AdmittedIn(seen, s, g)
  <2>1. {h \in Groups : /\ Promised!Candidates(s, h) # {}
                        /\ Promised!FirstArrival(s, h) < Promised!FirstArrival(s, g)}
          = Earlier(seen, s, g)
    BY <1>1, <1>2, Zenon DEF Earlier
  <2>2. Promised!Candidates(s, g) = CandidatesIn(seen, s, g)
    BY <1>1
  <2>3. \A S : Promised!Cardinality(S) = Cardinality(S)
    BY Zenon DEF Promised!Cardinality, Cardinality
  <2> QED BY <2>1, <2>2, <2>3, Zenon DEF Promised!Admitted, AdmittedIn
<1> QED BY <1>1, <1>3 DEF Promised!Contents, ContentsIn

(* A set of natural numbers that has one has a least one. *)
LEMMA LeastNat ==
  ASSUME NEW T \in SUBSET Nat, T # {}
  PROVE  \E x \in T : \A y \in T : x <= y
<1> DEFINE F == {1 .. n : n \in T}
<1>1. F \subseteq FiniteSubsetsOf(Nat)
  <2>1. ASSUME NEW n \in Nat PROVE IsFiniteSet(1 .. n) /\ 1 .. n \subseteq Nat
    BY FS_Interval
  <2> QED BY <2>1 DEF FiniteSubsetsOf
<1>2. F # {}
  OBVIOUS
<1>3. IsWellFoundedOn(StrictSubsetOrdering(Nat), FiniteSubsetsOf(Nat))
  BY FS_StrictSubsetOrderingWellFounded
<1> HIDE DEF F
<1>4. \E w \in F : \A y \in F : ~(<<y, w>> \in StrictSubsetOrdering(Nat))
  BY <1>1, <1>2, <1>3, WFMin, Zenon
<1>5. PICK x \in T : \A y \in F : ~(<<y, 1 .. x>> \in StrictSubsetOrdering(Nat))
  BY <1>4 DEF F
<1>6. ASSUME NEW y \in T, y < x PROVE FALSE
  <2>1. x \in 1 .. x /\ x \notin 1 .. y
    BY <1>6
  <2>2. 1 .. y \subseteq 1 .. x /\ 1 .. y # 1 .. x /\ 1 .. x \subseteq Nat /\ 1 .. y \subseteq Nat
    BY <1>6, <2>1
  <2> QED BY <1>5, <2>2 DEF F, StrictSubsetOrdering
<1> QED BY <1>6

(* Of the candidates of a group, one arrived first. *)
LEMMA FirstOf ==
  ASSUME NEW C, \A r \in C : r.n \in Nat, C # {}
  PROVE  /\ \E n : IsFirst(n, C)
         /\ \A m, n : IsFirst(m, C) /\ IsFirst(n, C) => m = n
<1> DEFINE N == {r.n : r \in C}
<1>1. N \in SUBSET Nat /\ N # {}
  OBVIOUS
<1>2. PICK n \in N : \A y \in N : n <= y
  BY <1>1, LeastNat
<1>3. IsFirst(n, C)
  BY <1>2 DEF IsFirst
<1>4. ASSUME NEW m, NEW k, IsFirst(m, C), IsFirst(k, C) PROVE m = k
  <2>1. m \in Nat /\ k \in Nat /\ m <= k /\ k <= m
    BY <1>4 DEF IsFirst
  <2> QED BY <2>1
<1> QED BY <1>3, <1>4

(* The first of the records of a group in a window is the only first one. *)
LEMMA FirstIs ==
  ASSUME NEW S, \A r \in S : r.n \in Nat, NEW s, NEW g, CandidatesIn(S, s, g) # {}
  PROVE  /\ IsFirst(FirstIn(S, s, g), CandidatesIn(S, s, g))
         /\ \A n : IsFirst(n, CandidatesIn(S, s, g)) => n = FirstIn(S, s, g)
<1> DEFINE C == CandidatesIn(S, s, g)
<1>1. \A r \in C : r.n \in Nat
  BY DEF CandidatesIn
<1>2. /\ \E n : IsFirst(n, C)
      /\ \A m, n : IsFirst(m, C) /\ IsFirst(n, C) => m = n
  BY <1>1, FirstOf
<1>3. \E n \in {r.n : r \in C} : \A r \in C : n <= r.n
  BY <1>2 DEF IsFirst
<1>4. IsFirst(FirstIn(S, s, g), C)
  BY <1>3, Zenon DEF FirstIn, IsFirst
<1> QED BY <1>2, <1>4

(* A record that arrives after all others. *)
IsNext(S, r) ==
  /\ S \subseteq Record
  /\ r \in Record
  /\ \A x \in S : x.n < r.n

(* Whether a record came in time is settled when it arrives: a later one *)
(* does not count among those before it.                                 *)
LEMMA ArrivalIsLast ==
  ASSUME NEW S, NEW r, IsNext(S, r), NEW s, NEW g
  PROVE  CandidatesIn(S \cup {r}, s, g) =
           CandidatesIn(S, s, g) \cup (IF r.group = g /\ InTimeIn(S, s, r) THEN {r} ELSE {})
<1> DEFINE T == S \cup {r}
<1>1. \A x \in T : x.n \in Nat
  BY DEF IsNext, Record
<1>2. \A x \in T : {y \in T : y.n < x.n} = {y \in S : y.n < x.n}
  BY <1>1 DEF IsNext
<1>3. \A x \in T : BeforeIn(T, x) = BeforeIn(S, x)
  BY <1>2 DEF BeforeIn
<1>4. \A x \in T : InTimeIn(T, s, x) <=> InTimeIn(S, s, x)
  BY <1>3 DEF InTimeIn
<1> QED BY <1>4 DEF CandidatesIn

(* It does not change which groups came first to a window, nor whether a *)
(* group that was there is admitted.                                     *)
LEMMA ArrivalKeepsOrder ==
  ASSUME NEW S, NEW r, IsNext(S, r), NEW s
  PROVE  /\ \A g : CandidatesIn(S, s, g) # {} =>
                     FirstIn(S \cup {r}, s, g) = FirstIn(S, s, g) /\ FirstIn(S, s, g) < r.n
         /\ \A g : CandidatesIn(S, s, g) = {} /\ CandidatesIn(S \cup {r}, s, g) # {} =>
                     FirstIn(S \cup {r}, s, g) = r.n
<1> DEFINE T == S \cup {r}
<1>1. /\ \A x \in T : x.n \in Nat
      /\ \A x \in S : x.n \in Nat
  BY DEF IsNext, Record
<1>2. ASSUME NEW g, CandidatesIn(S, s, g) # {}
      PROVE  FirstIn(T, s, g) = FirstIn(S, s, g) /\ FirstIn(S, s, g) < r.n
  <2> DEFINE C == CandidatesIn(S, s, g)
             D == CandidatesIn(T, s, g)
  <2>1. C \subseteq D /\ D \subseteq C \cup {r} /\ C \subseteq S
    <3>1. D = C \cup (IF r.group = g /\ InTimeIn(S, s, r) THEN {r} ELSE {})
      BY ArrivalIsLast
    <3>2. C \subseteq S
      BY DEF CandidatesIn
    <3> QED BY <3>1, <3>2, Zenon
  <2> HIDE DEF C, D
  <2>2. IsFirst(FirstIn(S, s, g), C)
    BY <1>1, <1>2, FirstIs DEF C
  <2>3. FirstIn(S, s, g) \in Nat /\ FirstIn(S, s, g) < r.n
    BY <1>1, <2>1, <2>2 DEF IsFirst, IsNext
  <2>4. IsFirst(FirstIn(S, s, g), D)
    <3>1. \A x \in D : FirstIn(S, s, g) <= x.n
      <4>1. FirstIn(S, s, g) <= r.n
        BY <1>1, <2>3
      <4> QED BY <2>1, <2>2, <4>1 DEF IsFirst
    <3> QED BY <2>1, <2>2, <3>1 DEF IsFirst
  <2>5. D # {}
    BY <1>2, <2>1 DEF C
  <2>6. FirstIn(S, s, g) = FirstIn(T, s, g)
    BY <1>1, <2>4, <2>5, FirstIs DEF D
  <2> QED BY <2>3, <2>6
<1>3. ASSUME NEW g, CandidatesIn(S, s, g) = {}, CandidatesIn(T, s, g) # {}
      PROVE  FirstIn(T, s, g) = r.n
  <2>1. CandidatesIn(T, s, g) = {r}
    <3>1. CandidatesIn(T, s, g)
            = CandidatesIn(S, s, g) \cup (IF r.group = g /\ InTimeIn(S, s, r) THEN {r} ELSE {})
      BY ArrivalIsLast
    <3> HIDE DEF T
    <3> QED BY <1>3, <3>1
  <2>2. IsFirst(FirstIn(T, s, g), CandidatesIn(T, s, g))
    BY <1>1, <1>3, FirstIs
  <2>3. IsFirst(FirstIn(T, s, g), {r})
    BY <2>1, <2>2
  <2> QED BY <2>3 DEF IsFirst
<1> QED BY <1>2, <1>3

(* An arrival changes the admission of no group a window has met; a group *)
(* it has not met is admitted if fewer than MaxGroups were met before it. *)
LEMMA ArrivalKeepsAdmission ==
  ASSUME NEW S, NEW r, IsNext(S, r), NEW s, NEW g
  PROVE  /\ CandidatesIn(S, s, g) # {} =>
              (AdmittedIn(S \cup {r}, s, g) <=> AdmittedIn(S, s, g))
         /\ CandidatesIn(S, s, g) = {} /\ CandidatesIn(S \cup {r}, s, g) # {} =>
              (AdmittedIn(S \cup {r}, s, g) <=>
                 Cardinality({h \in Groups : CandidatesIn(S, s, h) # {}}) < MaxGroups)
<1> DEFINE T == S \cup {r}
<1>1. \A h : CandidatesIn(S, s, h) \subseteq CandidatesIn(T, s, h)
  BY ArrivalIsLast
<1>2. r.n \in Nat /\ \A h : CandidatesIn(S, s, h) # {} => FirstIn(S, s, h) \in Nat
  <2>1. r.n \in Nat /\ \A x \in S : x.n \in Nat
    BY DEF IsNext, Record
  <2>2. ASSUME NEW h, CandidatesIn(S, s, h) # {} PROVE FirstIn(S, s, h) \in Nat
    <3>1. IsFirst(FirstIn(S, s, h), CandidatesIn(S, s, h))
      BY <2>1, <2>2, FirstIs
    <3>2. CandidatesIn(S, s, h) \subseteq S
      BY DEF CandidatesIn
    <3> QED BY <2>1, <3>1, <3>2 DEF IsFirst
  <2> QED BY <2>1, <2>2
<1>3. \A h : CandidatesIn(S, s, h) # {} =>
               FirstIn(T, s, h) = FirstIn(S, s, h) /\ FirstIn(S, s, h) < r.n
  BY ArrivalKeepsOrder
<1>4. \A h : CandidatesIn(S, s, h) = {} /\ CandidatesIn(T, s, h) # {} => FirstIn(T, s, h) = r.n
  BY ArrivalKeepsOrder
<1> HIDE DEF T
<1>5. CASE CandidatesIn(S, s, g) # {}
  <2>1. CandidatesIn(T, s, g) # {}
    BY <1>1, <1>5
  <2>2. Earlier(T, s, g) = Earlier(S, s, g)
    BY <1>1, <1>2, <1>3, <1>4, <1>5 DEF Earlier
  <2>3. AdmittedIn(T, s, g) <=> AdmittedIn(S, s, g)
    BY <1>5, <2>1, <2>2 DEF AdmittedIn
  <2> QED BY <1>5, <2>3 DEF T
<1>6. CASE CandidatesIn(S, s, g) = {} /\ CandidatesIn(T, s, g) # {}
  <2>1. FirstIn(T, s, g) = r.n
    BY <1>4, <1>6
  <2>2. Earlier(T, s, g) = {h \in Groups : CandidatesIn(S, s, h) # {}}
    BY <1>1, <1>2, <1>3, <1>4, <2>1 DEF Earlier
  <2>3. AdmittedIn(T, s, g) <=> Cardinality({h \in Groups : CandidatesIn(S, s, h) # {}}) < MaxGroups
    BY <1>6, <2>2 DEF AdmittedIn
  <2> QED BY <1>6, <2>3 DEF T
<1> QED BY <1>5, <1>6 DEF T

-----------------------------------------------------------------------------
(* Without an idle timeout Window does what WindowSpec promises. *)

Mark == Watermark(maxEvent)

GroupsIn(folds, s) == {f.rec.group : f \in {x \in folds : x.start = s}}

(* The groups that have come to a window in time. *)
Came(S, s) == {h \in Groups : CandidatesIn(S, s, h) # {}}

(* Some folds hold, of the window at s, what the records of S make it hold. *)
Holds(folds, S, s) == \A g \in Groups : RecordsOf(folds, s, g) = ContentsIn(S, s, g)

(* A window that has turned a group away is full. *)
Capped(folds, S, s) ==
  Came(S, s) \subseteq GroupsIn(folds, s) \/ ~(Cardinality(GroupsIn(folds, s)) < MaxGroups)

(* The open windows and what was fired are what the history makes them, and *)
(* nothing that is complete is missing.                                    *)
OpenHolds == ~closed => \A s \in Nat : ~Passed(s, Mark) => Holds(windows, seen, s)

OpenCapped == ~closed => \A s \in Nat : ~Passed(s, Mark) => Capped(windows, seen, s)

FiredHolds == \A o \in out : o.recs = ContentsIn(seen, o.start, o.group) /\ o.recs # {}

NoneOwed ==
  \A s \in Nat, g \in Groups :
    (closed \/ Passed(s, Mark)) /\ ContentsIn(seen, s, g) # {} => <<s, g>> \in Fired \cup Delivered

PromiseInv == OpenHolds /\ OpenCapped /\ FiredHolds /\ NoneOwed

(* What on_record adds to the open windows. *)
Added(r) == IF r.num = "ok" THEN {[start |-> s, rec |-> r] : s \in TakenBy(r)} ELSE {}

(* The groups of a window are those it holds records of. *)
LEMMA GroupsHeld ==
  ASSUME NEW folds, folds \subseteq Fold, NEW s
  PROVE  /\ GroupsIn(folds, s) = {g \in Groups : RecordsOf(folds, s, g) # {}}
         /\ IsFiniteSet(GroupsIn(folds, s))
<1>1. \A f \in folds : f.rec.group \in Groups
  BY DEF Fold, Record
<1>2. GroupsIn(folds, s) = {g \in Groups : RecordsOf(folds, s, g) # {}}
  BY <1>1 DEF GroupsIn, RecordsOf
<1>3. GroupsIn(folds, s) \subseteq Groups
  BY <1>2
<1> QED BY <1>2, <1>3, WindowAssumption, FS_Subset

(* The newest event of the history is the one the window keeps. *)
LEMMA NewestIsMax ==
  ASSUME TypeOK, NewestEventSeen
  PROVE  Promised!NewestEvent(seen) = maxEvent
<1> DEFINE times == {x.ts : x \in seen} \cup {0}
<1>1. times \subseteq Nat /\ maxEvent \in Nat
  BY DEF TypeOK, Record, Time
<1>2. maxEvent \in times /\ \A t \in times : t <= maxEvent
  BY <1>1 DEF NewestEventSeen
<1>3. Promised!NewestEvent(seen) = CHOOSE m \in times : \A t \in times : t <= m
  BY DEF Promised!NewestEvent
<1> HIDE DEF times
<1>4. \A m \in times : (\A t \in times : t <= m) => m = maxEvent
  BY <1>1, <1>2
<1> QED BY <1>2, <1>3, <1>4

(* A window is open for the record that arrives exactly when WindowSpec says *)
(* the record is in time.                                                   *)
LEMMA OpenIsInTime ==
  ASSUME TypeOK, NewestEventSeen, NEW r \in Record, IsNext(seen, r), r.num = "ok"
  PROVE  \A s : InTimeIn(seen, s, r) <=> s \in OpenFor(r)
<1>1. {x \in seen : x.n < r.n} = seen
  BY DEF IsNext
<1>2. Promised!NewestEvent(seen) = maxEvent
  BY NewestIsMax
<1>3. BeforeIn(seen, r) = Watermark(maxEvent)
  BY <1>1, <1>2, Zenon DEF BeforeIn
<1> QED BY <1>3 DEF InTimeIn, OpenFor

(* A record changes only the window it is folded into, and its own group there. *)
LEMMA AddedRecords ==
  ASSUME NEW r
  PROVE  /\ \A s, g : RecordsOf(windows \cup Added(r), s, g) =
              RecordsOf(windows, s, g) \cup
                (IF r.num = "ok" /\ s \in TakenBy(r) /\ g = r.group THEN {r} ELSE {})
         /\ \A s : GroupsIn(windows \cup Added(r), s) =
              GroupsIn(windows, s) \cup
                (IF r.num = "ok" /\ s \in TakenBy(r) THEN {r.group} ELSE {})
<1>1. \A f \in Added(r) : f.rec = r /\ f.start \in TakenBy(r) /\ r.num = "ok"
  BY DEF Added
<1>2. r.num = "ok" => \A s \in TakenBy(r) : \E f \in Added(r) : f.start = s /\ f.rec = r
  <2> SUFFICES ASSUME r.num = "ok", NEW s \in TakenBy(r)
               PROVE  \E f \in Added(r) : f.start = s /\ f.rec = r
    OBVIOUS
  <2> DEFINE f == [start |-> s, rec |-> r]
  <2>1. f \in Added(r) /\ f.start = s /\ f.rec = r
    BY DEF Added
  <2> QED BY <2>1
<1>3. ASSUME NEW s, NEW g
      PROVE  RecordsOf(windows \cup Added(r), s, g) = RecordsOf(windows, s, g) \cup
                (IF r.num = "ok" /\ s \in TakenBy(r) /\ g = r.group THEN {r} ELSE {})
  BY <1>1, <1>2 DEF RecordsOf
<1>4. ASSUME NEW s
      PROVE  GroupsIn(windows \cup Added(r), s) = GroupsIn(windows, s) \cup
                (IF r.num = "ok" /\ s \in TakenBy(r) THEN {r.group} ELSE {})
  BY <1>1, <1>2 DEF GroupsIn
<1> QED BY <1>3, <1>4

(* An open window takes the record exactly when WindowSpec admits its group. *)
LEMMA TakenAsPromised ==
  ASSUME TypeOK, NewestEventSeen, PromiseInv, ~closed,
         NEW r \in Record, IsNext(seen, r), NEW s \in Nat, ~Passed(s, Mark)
  PROVE  /\ Holds(windows \cup Added(r), seen \cup {r}, s)
         /\ Capped(windows \cup Added(r), seen \cup {r}, s)
<1> DEFINE T == seen \cup {r}
           folds == windows \cup Added(r)
           G == GroupsIn(windows, s)
           fresh == r.num = "ok" /\ s \in OpenFor(r)
           taken == r.num = "ok" /\ s \in TakenBy(r)
<1>1. r.group \in Groups /\ windows \subseteq Fold
  BY DEF Record, TypeOK
<1>2. Holds(windows, seen, s) /\ Capped(windows, seen, s)
  BY DEF PromiseInv, OpenHolds, OpenCapped
<1>3. \A g : CandidatesIn(T, s, g) = CandidatesIn(seen, s, g) \cup
               (IF r.group = g /\ fresh THEN {r} ELSE {})
  <2>1. InTimeIn(seen, s, r) <=> fresh
    BY OpenIsInTime DEF InTimeIn
  <2> QED BY <2>1, ArrivalIsLast
<1>4. G = {g \in Groups : RecordsOf(windows, s, g) # {}} /\ IsFiniteSet(G)
  BY <1>1, GroupsHeld
<1>5. taken <=> fresh /\ (r.group \in G \/ Cardinality(G) < MaxGroups)
  BY DEF TakenBy, GroupsOf, GroupsIn
<1>6. /\ \A g : RecordsOf(folds, s, g) = RecordsOf(windows, s, g) \cup
               (IF taken /\ g = r.group THEN {r} ELSE {})
      /\ GroupsIn(folds, s) = G \cup (IF taken THEN {r.group} ELSE {})
  BY AddedRecords
<1>7. /\ \A g : CandidatesIn(seen, s, g) # {} => (AdmittedIn(T, s, g) <=> AdmittedIn(seen, s, g))
      /\ \A g : CandidatesIn(seen, s, g) = {} /\ CandidatesIn(T, s, g) # {} =>
                  (AdmittedIn(T, s, g) <=> Cardinality(Came(seen, s)) < MaxGroups)
  BY ArrivalKeepsAdmission DEF Came
<1>8. \A g \in Groups : g \in G => CandidatesIn(seen, s, g) # {} /\ AdmittedIn(seen, s, g)
  BY <1>2, <1>4 DEF Holds, ContentsIn
<1>9. \A g \in Groups : AdmittedIn(seen, s, g) => g \in G /\ CandidatesIn(seen, s, g) # {}
  BY <1>2, <1>4 DEF Holds, ContentsIn, AdmittedIn
<1>10. G \subseteq Came(seen, s) /\ IsFiniteSet(Came(seen, s))
  <2>1. Came(seen, s) \subseteq Groups
    BY DEF Came
  <2>2. IsFiniteSet(Came(seen, s))
    BY <2>1, WindowAssumption, FS_Subset
  <2> QED BY <1>4, <1>8, <2>2 DEF Came
<1>11. MaxGroups \in Nat /\ Cardinality(G) \in Nat /\ Cardinality(Came(seen, s)) \in Nat
       /\ Cardinality(G) <= Cardinality(Came(seen, s))
  BY <1>4, <1>10, WindowAssumption, FS_CardinalityType, FS_Subset
<1>12. Cardinality(Came(seen, s)) < MaxGroups <=> Cardinality(G) < MaxGroups
  <2>1. CASE Came(seen, s) \subseteq G
    <3>1. Came(seen, s) = G
      BY <1>10, <2>1
    <3> QED BY <3>1
  <2>2. CASE ~(Cardinality(G) < MaxGroups)
    BY <1>11, <2>2
  <2> QED BY <1>2, <2>1, <2>2 DEF Capped
<1> HIDE DEF T, folds, G, fresh, taken
<1>13. ASSUME NEW g \in Groups PROVE RecordsOf(folds, s, g) = ContentsIn(T, s, g)
  <2>0. RecordsOf(windows, s, g) = ContentsIn(seen, s, g)
    BY <1>2 DEF Holds
  <2>1. CASE ~(g = r.group /\ fresh)
    <3>1. CandidatesIn(T, s, g) = CandidatesIn(seen, s, g)
      BY <1>3, <2>1
    <3>2. AdmittedIn(T, s, g) <=> AdmittedIn(seen, s, g)
      BY <1>7, <3>1 DEF AdmittedIn
    <3>3. RecordsOf(folds, s, g) = RecordsOf(windows, s, g)
      BY <1>5, <1>6, <2>1
    <3> QED BY <2>0, <3>1, <3>2, <3>3 DEF ContentsIn
  <2>2. CASE g = r.group /\ fresh
    <3>1. CandidatesIn(T, s, g) = CandidatesIn(seen, s, g) \cup {r}
      BY <1>3, <2>2
    <3>2. AdmittedIn(T, s, g) <=> taken
      <4>1. CASE CandidatesIn(seen, s, g) # {}
        <5>1. AdmittedIn(T, s, g) <=> g \in G
          BY <1>7, <1>8, <1>9, <4>1
        <5>2. g \notin G => g \in Came(seen, s)
          BY <4>1 DEF Came
        <5>3. g \notin G => ~(Cardinality(G) < MaxGroups)
          BY <1>2, <5>2 DEF Capped, G
        <5> QED BY <1>5, <2>2, <5>1, <5>3
      <4>2. CASE CandidatesIn(seen, s, g) = {}
        <5>1. g \notin G
          BY <1>8, <4>2
        <5>2. AdmittedIn(T, s, g) <=> Cardinality(Came(seen, s)) < MaxGroups
          BY <1>7, <3>1, <4>2
        <5> QED BY <1>5, <1>12, <2>2, <5>1, <5>2
      <4> QED BY <4>1, <4>2
    <3>3. CASE taken
      <4>1. ContentsIn(seen, s, g) = CandidatesIn(seen, s, g)
        BY <1>7, <3>2, <3>3 DEF ContentsIn
      <4>2. RecordsOf(folds, s, g) = RecordsOf(windows, s, g) \cup {r}
        BY <1>6, <2>2, <3>3
      <4> QED BY <2>0, <3>1, <3>2, <3>3, <4>1, <4>2 DEF ContentsIn
    <3>4. CASE ~taken
      <4>1. ContentsIn(seen, s, g) = {}
        BY <1>7, <3>2, <3>4 DEF ContentsIn
      <4>2. RecordsOf(folds, s, g) = RecordsOf(windows, s, g)
        BY <1>6, <3>4
      <4> QED BY <2>0, <3>2, <3>4, <4>1, <4>2 DEF ContentsIn
    <3> QED BY <3>3, <3>4
  <2> QED BY <2>1, <2>2
<1>14. Capped(folds, T, s)
  <2>1. Came(T, s) \subseteq Came(seen, s) \cup (IF fresh THEN {r.group} ELSE {})
    BY <1>3 DEF Came
  <2>2. CASE ~(Cardinality(G) < MaxGroups)
    <3>1. IsFiniteSet(GroupsIn(folds, s)) /\ G \subseteq GroupsIn(folds, s)
      <4>1. CASE taken
        BY <1>4, <1>6, <4>1, FS_AddElement
      <4>2. CASE ~taken
        BY <1>4, <1>6, <4>2
      <4> QED BY <4>1, <4>2
    <3>2. Cardinality(G) <= Cardinality(GroupsIn(folds, s)) /\ Cardinality(GroupsIn(folds, s)) \in Nat
      BY <3>1, FS_Subset, FS_CardinalityType
    <3> QED BY <1>11, <2>2, <3>2 DEF Capped
  <2>3. CASE Came(seen, s) \subseteq G /\ Cardinality(G) < MaxGroups
    <3>1. fresh <=> taken
      BY <1>5, <2>3
    <3> QED BY <1>6, <2>1, <2>3, <3>1 DEF Capped
  <2> QED BY <1>2, <2>2, <2>3 DEF Capped, G
<1> QED BY <1>13, <1>14 DEF Holds, T, folds

(* What the Ready folds are fired as is what WindowSpec makes of their windows. *)
LEMMA FiredAsHeld ==
  ASSUME NEW folds, NEW fired, fired \subseteq folds, folds \subseteq Fold, NEW S,
         \A f \in fired, x \in folds : x.start = f.start => x \in fired,
         \A f \in fired : Holds(folds, S, f.start)
  PROVE  /\ \A o \in Aggregates(fired) : o.recs = ContentsIn(S, o.start, o.group) /\ o.recs # {}
         /\ \A f \in fired : \E o \in Aggregates(fired) :
              o.start = f.start /\ o.group = f.rec.group
<1>1. ASSUME NEW f \in fired
      PROVE  /\ RecordsOf(fired, f.start, f.rec.group) = ContentsIn(S, f.start, f.rec.group)
             /\ f.rec \in RecordsOf(fired, f.start, f.rec.group)
  <2>1. f.rec.group \in Groups
    BY DEF Fold, Record
  <2>2. RecordsOf(fired, f.start, f.rec.group) = RecordsOf(folds, f.start, f.rec.group)
    BY <1>1 DEF RecordsOf
  <2>3. RecordsOf(folds, f.start, f.rec.group) = ContentsIn(S, f.start, f.rec.group)
    BY <2>1 DEF Holds
  <2>4. f.rec \in RecordsOf(fired, f.start, f.rec.group)
    BY DEF RecordsOf
  <2> QED BY <2>2, <2>3, <2>4
<1>2. ASSUME NEW o \in Aggregates(fired)
      PROVE  o.recs = ContentsIn(S, o.start, o.group) /\ o.recs # {}
  <2>1. PICK f \in fired : o = [start |-> f.start, group |-> f.rec.group,
                                recs |-> RecordsOf(fired, f.start, f.rec.group)]
    BY DEF Aggregates
  <2>2. o.start = f.start /\ o.group = f.rec.group /\ o.recs = RecordsOf(fired, f.start, f.rec.group)
    BY <2>1
  <2> QED BY <1>1, <2>2
<1>3. ASSUME NEW f \in fired
      PROVE  \E o \in Aggregates(fired) : o.start = f.start /\ o.group = f.rec.group
  <2> DEFINE o == [start |-> f.start, group |-> f.rec.group,
                   recs |-> RecordsOf(fired, f.start, f.rec.group)]
  <2>1. o \in Aggregates(fired) /\ o.start = f.start /\ o.group = f.rec.group
    BY DEF Aggregates
  <2> QED BY <2>1
<1> QED BY <1>2, <1>3

(* A window that holds records of a group has a fold of it. *)
LEMMA HeldHasFold ==
  ASSUME NEW folds, NEW S, NEW s, Holds(folds, S, s), NEW g \in Groups, ContentsIn(S, s, g) # {}
  PROVE  \E f \in folds : f.start = s /\ f.rec.group = g
<1>1. RecordsOf(folds, s, g) # {}
  BY DEF Holds
<1> QED BY <1>1 DEF RecordsOf

(* Receiving a record does on the open windows what WindowSpec makes of one *)
(* more record in its history.                                              *)
LEMMA PromiseReceive ==
  ASSUME TypeOK, NewestEventSeen, CountInv, FiresInv, PromiseInv,
         NEW r \in Record, Receive(r), ~RefuseRecord(r)
  PROVE  PromiseInv'
<1> DEFINE folds == windows \cup Added(r)
           fired == Ready(folds, maxEvent')
<1>1. pc = "select" /\ ~closed /\ closed' = closed /\ sent' = sent /\ out = {}
      /\ seen' = seen \cup {r} /\ r.n = Cardinality(seen) + 1
  <2>1. pc = "select" /\ closed' = closed /\ sent' = sent /\ seen' = seen \cup {r}
        /\ r.n = Cardinality(seen) + 1
    BY DEF Receive, SkipRecord, FoldRecord, ShedRecord, LateRecord, Arrives
  <2> QED BY <2>1 DEF FiresInv, FiredBehind
<1>2. IsNext(seen, r)
  <2>1. Cardinality(seen) \in Nat /\ \A x \in seen : x.n <= Cardinality(seen)
    BY FS_CardinalityType DEF CountInv, Numbered
  <2>2. \A x \in seen : x.n \in Nat
    BY DEF TypeOK, Record
  <2> QED BY <1>1, <2>1, <2>2 DEF IsNext, TypeOK
<1>3. DrainReady(folds, maxEvent') /\ maxEvent' \in {maxEvent, Max2(maxEvent, r.ts)}
  <2>1. FoldRecord(r) => Added(r) = {[start |-> s, rec |-> r] : s \in TakenBy(r)}
    BY DEF FoldRecord, Added
  <2>2. SkipRecord(r) \/ ShedRecord(r) \/ LateRecord(r) => Added(r) = {}
    BY DEF SkipRecord, ShedRecord, LateRecord, Added, TakenBy
  <2> QED BY <2>1, <2>2 DEF Receive, SkipRecord, FoldRecord, ShedRecord, LateRecord
<1>4. /\ maxEvent \in Nat /\ maxEvent' \in Nat /\ maxEvent <= maxEvent'
      /\ \A s \in Nat : Passed(s, Mark) => Passed(s, Mark')
  <2>1. maxEvent \in Nat /\ r.ts \in Nat
    BY RecordType DEF TypeOK, Time
  <2>2. maxEvent' \in Nat /\ maxEvent <= maxEvent'
    BY <1>3, <2>1 DEF Max2
  <2> QED BY <2>1, <2>2, PassedStays DEF Mark
<1>5. folds \subseteq Fold /\ \A f \in folds : f.start \in Nat /\ ~Passed(f.start, Mark)
  <2>1. TakenBy(r) \subseteq Nat /\ \A s \in TakenBy(r) : ~Passed(s, Mark)
    BY RecordType DEF TakenBy, OpenFor, Mark, Time
  <2>2. windows \subseteq Fold /\ \A f \in windows : ~Passed(f.start, Mark)
    BY DEF FiresInv, AheadOfWatermark, Mark, TypeOK
  <2>3. Added(r) \subseteq Fold /\ \A f \in Added(r) : ~Passed(f.start, Mark)
    BY <2>1 DEF Added, Fold, Time
  <2> QED BY <2>2, <2>3 DEF Fold, Time
<1>6. \A s \in Nat : ~Passed(s, Mark) => Holds(folds, seen', s) /\ Capped(folds, seen', s)
  BY <1>1, <1>2, TakenAsPromised
<1> HIDE DEF folds
<1>7. windows' = folds \ fired /\ out' = Aggregates(fired) /\ fired \subseteq folds
      /\ \A f \in folds : f \in fired <=> Passed(f.start, Mark')
  BY <1>3 DEF DrainReady, Ready, Mark
<1> HIDE DEF fired
<1>8. ASSUME NEW s \in Nat, ~Passed(s, Mark')
      PROVE  Holds(windows', seen', s) /\ Capped(windows', seen', s)
  <2>1. \A f : f.start = s => (f \in windows' <=> f \in folds)
    BY <1>7, <1>8
  <2>2. \A g : RecordsOf(windows', s, g) = RecordsOf(folds, s, g)
    BY <2>1 DEF RecordsOf
  <2>3. GroupsIn(windows', s) = GroupsIn(folds, s)
    BY <2>1 DEF GroupsIn
  <2>4. Holds(folds, seen', s) /\ Capped(folds, seen', s)
    BY <1>4, <1>6, <1>8
  <2> QED BY <2>2, <2>3, <2>4 DEF Holds, Capped
<1>9. /\ \A o \in out' : o.recs = ContentsIn(seen', o.start, o.group) /\ o.recs # {}
      /\ \A f \in fired : \E o \in out' : o.start = f.start /\ o.group = f.rec.group
  <2>1. \A f \in fired : Holds(folds, seen', f.start)
    BY <1>5, <1>6, <1>7
  <2>2. \A f \in fired, x \in folds : x.start = f.start => x \in fired
    BY <1>7
  <2> QED BY <1>5, <1>7, <2>1, <2>2, FiredAsHeld
<1>10. ASSUME NEW s \in Nat, NEW g \in Groups, Passed(s, Mark'), ContentsIn(seen', s, g) # {}
       PROVE  <<s, g>> \in Fired' \cup Delivered'
  <2>1. CASE Passed(s, Mark)
    <3>1. \A h : CandidatesIn(seen', s, h) = CandidatesIn(seen, s, h)
      <4>1. ~InTimeIn(seen, s, r)
        BY <1>2, <2>1, OpenIsInTime DEF InTimeIn, OpenFor, Mark
      <4>2. \A h : CandidatesIn(seen \cup {r}, s, h) = CandidatesIn(seen, s, h) \cup
                     (IF r.group = h /\ InTimeIn(seen, s, r) THEN {r} ELSE {})
        BY <1>2, ArrivalIsLast
      <4> QED BY <1>1, <4>1, <4>2
    <3>2. CandidatesIn(seen, s, g) # {} =>
            (AdmittedIn(seen', s, g) <=> AdmittedIn(seen, s, g))
      BY <1>1, <1>2, ArrivalKeepsAdmission
    <3>3. ContentsIn(seen, s, g) # {}
      BY <1>10, <3>1, <3>2 DEF ContentsIn, AdmittedIn
    <3>4. <<s, g>> \in Fired \cup Delivered
      BY <2>1, <3>3 DEF PromiseInv, NoneOwed
    <3> QED BY <1>1, <3>4 DEF Fired, Delivered
  <2>2. CASE ~Passed(s, Mark)
    <3>1. Holds(folds, seen', s)
      BY <1>6, <2>2
    <3>2. PICK f \in folds : f.start = s /\ f.rec.group = g
      BY <1>10, <3>1, HeldHasFold
    <3>3. PICK o \in out' : o.start = s /\ o.group = g
      BY <1>7, <1>9, <1>10, <3>2
    <3> QED BY <3>3 DEF Fired
  <2> QED BY <2>1, <2>2
<1>11. ~closed'
  BY <1>1
<1>12. OpenHolds' /\ OpenCapped'
  BY <1>8 DEF OpenHolds, OpenCapped, Holds, Capped, Mark
<1>13. FiredHolds'
  BY <1>9 DEF FiredHolds
<1>14. NoneOwed'
  BY <1>10, <1>11 DEF NoneOwed
<1> QED BY <1>12, <1>13, <1>14 DEF PromiseInv

(* When the input closes, every open window is fired as it is. *)
LEMMA PromiseClose ==
  ASSUME TypeOK, FiresInv, PromiseInv, Close
  PROVE  PromiseInv'
<1>1. /\ ~closed /\ out = {} /\ closed' /\ windows' = {} /\ out' = Aggregates(windows)
      /\ UNCHANGED <<maxEvent, sent, seen>>
  BY DEF Close, DrainAll, FiresInv, FiredBehind
<1>2. windows \subseteq Fold /\ \A f \in windows : f.start \in Nat /\ ~Passed(f.start, Mark)
  BY DEF TypeOK, Fold, Time, FiresInv, AheadOfWatermark, Mark
<1>3. \A s \in Nat : ~Passed(s, Mark) => Holds(windows, seen, s)
  BY <1>1 DEF PromiseInv, OpenHolds
<1>4. /\ \A o \in out' : o.recs = ContentsIn(seen, o.start, o.group) /\ o.recs # {}
      /\ \A f \in windows : \E o \in out' : o.start = f.start /\ o.group = f.rec.group
  <2>1. \A f \in windows : Holds(windows, seen, f.start)
    BY <1>2, <1>3
  <2> QED BY <1>1, <1>2, <2>1, FiredAsHeld
<1>5. ASSUME NEW s \in Nat, NEW g \in Groups, ContentsIn(seen, s, g) # {}
      PROVE  <<s, g>> \in Fired' \cup Delivered'
  <2>1. CASE Passed(s, Mark)
    <3>1. <<s, g>> \in Fired \cup Delivered
      BY <1>5, <2>1 DEF PromiseInv, NoneOwed
    <3> QED BY <1>1, <3>1 DEF Fired, Delivered
  <2>2. CASE ~Passed(s, Mark)
    <3>1. PICK f \in windows : f.start = s /\ f.rec.group = g
      BY <1>3, <1>5, <2>2, HeldHasFold
    <3>2. PICK o \in out' : o.start = s /\ o.group = g
      BY <1>4, <3>1
    <3> QED BY <3>2 DEF Fired
  <2> QED BY <2>1, <2>2
<1>6. OpenHolds' /\ OpenCapped'
  BY <1>1 DEF OpenHolds, OpenCapped
<1>7. FiredHolds'
  BY <1>1, <1>4 DEF FiredHolds
<1>8. NoneOwed'
  BY <1>1, <1>5 DEF NoneOwed
<1> QED BY <1>6, <1>7, <1>8 DEF PromiseInv

(* What has been sent: one more than before. *)
LEMMA SentGrows ==
  ASSUME TypeOK, NEW o \in out, sent' = Append(sent, o)
  PROVE  Delivered' = Delivered \cup {<<o.start, o.group>>}
<1>1. /\ DOMAIN sent' = DOMAIN sent \cup {Len(sent) + 1}
      /\ \A i \in DOMAIN sent : sent'[i] = sent[i]
      /\ sent'[Len(sent) + 1] = o
  BY DEF TypeOK
<1> QED BY <1>1 DEF Delivered

(* Sending an aggregate keeps what the window promises. *)
LEMMA PromiseEmit ==
  ASSUME TypeOK, PromiseInv, Emit
  PROVE  PromiseInv'
<1>1. PICK o \in out : sent' = Append(sent, o) /\ out' = out \ {o}
  BY DEF Emit
<1>2. UNCHANGED <<windows, maxEvent, closed, seen>>
  BY DEF Emit, coreVars
<1>3. Delivered' = Delivered \cup {<<o.start, o.group>>}
  BY <1>1, SentGrows
<1>4. Fired \cup Delivered \subseteq Fired' \cup Delivered'
  <2>1. Fired \subseteq Fired' \cup {<<o.start, o.group>>}
    BY <1>1 DEF Fired
  <2> QED BY <1>3, <2>1
<1>5. NoneOwed'
  BY <1>2, <1>4 DEF PromiseInv, NoneOwed, Mark
<1>6. FiredHolds'
  BY <1>1, <1>2 DEF PromiseInv, FiredHolds
<1>7. OpenHolds' /\ OpenCapped'
  BY <1>2 DEF PromiseInv, OpenHolds, OpenCapped, Holds, Capped, Mark
<1> QED BY <1>5, <1>6, <1>7 DEF PromiseInv

(* Before the first record nothing is owed. *)
LEMMA PromiseInit ==
  ASSUME Init
  PROVE  PromiseInv
<1>1. \A s, g : CandidatesIn({}, s, g) = {} /\ ContentsIn({}, s, g) = {}
  BY DEF CandidatesIn, ContentsIn
<1>2. seen = {} /\ windows = {} /\ out = {}
  BY DEF Init
<1>3. \A s, g : RecordsOf({}, s, g) = {}
  BY DEF RecordsOf
<1>4. \A s : Holds({}, {}, s) /\ Capped({}, {}, s)
  BY <1>1, <1>3 DEF Holds, Capped, Came
<1> QED BY <1>1, <1>2, <1>4 DEF PromiseInv, OpenHolds, OpenCapped, FiredHolds, NoneOwed

(* What the refinement rests on, next to what is proved above. *)
LEMMA PromiseInvariant ==
  Spec => [](TypeOK /\ NewestEventSeen /\ CountInv /\ (~collapsed => FiresInv /\ PromiseInv))
<1>1. TypeOK /\ NewestEventSeen /\ CountInv /\ (~collapsed => FiresInv) /\ (~collapsed => PromiseInv)
      /\ [Next]_vars => (~collapsed => PromiseInv)'
  <2> SUFFICES ASSUME TypeOK, NewestEventSeen, CountInv, FiresInv, PromiseInv, [Next]_vars, ~collapsed'
               PROVE  PromiseInv'
    BY CollapsedStays
  <2>1. ASSUME NEW r \in Record, Receive(r), ~RefuseRecord(r) PROVE PromiseInv'
    BY <2>1, PromiseReceive
  <2>2. CASE Close
    BY <2>2, PromiseClose
  <2>3. CASE Emit
    BY <2>3, PromiseEmit
  <2>4. CASE \/ \E r \in Record : RefuseRecord(r)
             \/ Tick \/ IdleFire \/ AnswerQuery \/ DropInspect \/ DownstreamGone \/ FlushDone
             \/ UNCHANGED vars
    <3>1. UNCHANGED <<windows, maxEvent, out, sent, closed, seen>>
      BY <2>4, IdleFireOfNone DEF RefuseRecord, Arrives, Tick, AnswerQuery, DropInspect, DownstreamGone, FlushDone,
         vars, coreVars
    <3> QED BY <3>1 DEF PromiseInv, OpenHolds, OpenCapped, FiredHolds, NoneOwed, Holds, Capped,
            Mark, Fired, Delivered
  <2> QED BY <2>1, <2>2, <2>3, <2>4 DEF Next
<1> QED BY <1>1, PromiseInit, FiresInvariant, CountInvariant, TypeCorrect, EventTimeNeverStalls, PTL
        DEF Spec

(* What has fired is due, and nothing due has an earlier start than all of it. *)
LEMMA FiredIsDue ==
  ASSUME TypeOK, NewestEventSeen, FiresInv, PromiseInv, NEW o \in out
  PROVE  /\ [start |-> o.start, group |-> o.group] \in Promised!Due
         /\ o.recs = Promised!Contents(o.start, o.group)
         /\ \A d \in Promised!Due : \E q \in out : q.start = d.start
<1>1. \A s, g : Promised!Contents(s, g) = ContentsIn(seen, s, g)
  BY PromisedAre
<1>2. Promised!NewestEvent(seen) = maxEvent
  BY NewestIsMax
<1>3. \A s : Promised!Passed(s, Promised!Watermark(Promised!NewestEvent(seen))) <=> Passed(s, Mark)
  <2>1. Promised!Watermark(maxEvent) = Mark
    BY DEF Promised!Watermark, Promised!SaturatingSub, Watermark, SaturatingSub, Mark
  <2> QED BY <1>2, <2>1 DEF Promised!Passed, Passed
<1>4. Promised!Starts = UNION {WindowStarts(x.ts) : x \in seen}
  BY DEF Promised!Starts, Promised!WindowStarts, Promised!NewestStart, WindowStarts, NewestStart
<1>5. Promised!Starts \subseteq Nat
  <2>1. \A x \in seen : WindowStarts(x.ts) \subseteq Nat
    BY RecordType, StartsAreTimes DEF TypeOK
  <2> QED BY <1>4, <2>1
<1>6. \A d : d \in Promised!Due <=>
        /\ d \in [start : Promised!Starts, group : Groups]
        /\ closed \/ Passed(d.start, Mark)
        /\ ContentsIn(seen, d.start, d.group) # {}
        /\ \A i \in DOMAIN sent : sent[i].start # d.start \/ sent[i].group # d.group
  BY <1>1, <1>3 DEF Promised!Due
<1>7. o.recs = ContentsIn(seen, o.start, o.group) /\ o.recs # {} /\ o.group \in Groups
  BY DEF PromiseInv, FiredHolds, TypeOK, Aggregate
<1>8. o.start \in Promised!Starts
  <2>1. PICK x \in seen : InTimeIn(seen, o.start, x)
    BY <1>7 DEF ContentsIn, CandidatesIn
  <2> QED BY <1>4, <2>1 DEF InTimeIn
<1>9. \A i \in DOMAIN sent : sent[i].start # o.start \/ sent[i].group # o.group
  <2>1. <<o.start, o.group>> \notin Delivered
    BY DEF FiresInv, NoneTwice, Fired
  <2> QED BY <2>1 DEF Delivered
<1>10. closed \/ Passed(o.start, Mark)
  BY DEF FiresInv, FiredBehind, Mark
<1>11. [start |-> o.start, group |-> o.group] \in Promised!Due
  BY <1>6, <1>7, <1>8, <1>9, <1>10
<1>12. ASSUME NEW d \in Promised!Due PROVE \E q \in out : q.start = d.start
  <2>1. d.start \in Nat /\ d.group \in Groups /\ <<d.start, d.group>> \notin Delivered
    BY <1>5, <1>6, <1>12 DEF Delivered
  <2>2. <<d.start, d.group>> \in Fired
    BY <1>6, <1>12, <2>1 DEF PromiseInv, NoneOwed
  <2> QED BY <2>2 DEF Fired
<1> QED BY <1>1, <1>7, <1>11, <1>12

(* Until its idle timeout first collapses open windows, and for ever if it *)
(* has none, the transform implements WindowSpec, whatever the             *)
(* sizes, the lateness, the cap and the input: an aggregate is sent once, in *)
(* window order, not before it is complete, and is made of exactly the       *)
(* records the arrival order admits.                                        *)
THEOREM WindowsAreAsPromised == Spec => ImplementsWindowSpec
<1>1. Init => Promised!AbsInit
  BY DEF Init, Promised!AbsInit
<1>2. /\ TypeOK /\ NewestEventSeen /\ CountInv /\ (~collapsed => FiresInv /\ PromiseInv)
      /\ [Next]_vars
      => [~collapsed' => Promised!AbsNext]_(Promised!absVars)
  <2> SUFFICES ASSUME TypeOK, NewestEventSeen, CountInv, FiresInv, PromiseInv, [Next]_vars, ~collapsed'
               PROVE  Promised!AbsNext \/ UNCHANGED Promised!absVars
    BY CollapsedStays
  <2>1. ASSUME NEW r \in Record, Receive(r), ~RefuseRecord(r) PROVE Promised!AbsReceive
    <3>1. pc = "select" /\ UNCHANGED <<sent, closed>> /\ seen' = seen \cup {r}
          /\ r.n = Cardinality(seen) + 1
      BY <2>1 DEF Receive, SkipRecord, FoldRecord, ShedRecord, LateRecord, Arrives
    <3>2. ~closed
      BY <3>1 DEF FiresInv, FiredBehind
    <3>3. Promised!Cardinality(seen) = Cardinality(seen)
      BY Zenon DEF Promised!Cardinality, Cardinality
    <3>4. r \in Promised!Record
      BY DEF Promised!Record, Record
    <3> QED BY <3>1, <3>2, <3>3, <3>4 DEF Promised!AbsReceive
  <2>2. CASE Close
    <3>1. ~closed /\ closed' = TRUE /\ UNCHANGED <<sent, seen>>
      BY <2>2 DEF Close, FiresInv, FiredBehind
    <3> QED BY <3>1 DEF Promised!AbsNext, Promised!AbsClose
  <2>3. CASE Emit
    <3>1. PICK o \in out : sent' = Append(sent, o) /\ \A p \in out : o.start <= p.start
      BY <2>3 DEF Emit
    <3>2. UNCHANGED <<seen, closed>>
      BY <2>3 DEF Emit
    <3> DEFINE d == [start |-> o.start, group |-> o.group]
    <3>3. d \in Promised!Due /\ o.recs = Promised!Contents(o.start, o.group)
          /\ \A e \in Promised!Due : o.start <= e.start
      <4>1. \A e \in Promised!Due : \E q \in out : q.start = e.start
        BY FiredIsDue
      <4>2. d \in Promised!Due /\ o.recs = Promised!Contents(o.start, o.group)
        BY FiredIsDue
      <4> QED BY <3>1, <4>1, <4>2
    <3>4. o = [start |-> d.start, group |-> d.group, recs |-> Promised!Contents(d.start, d.group)]
      BY <3>3 DEF TypeOK, Aggregate
    <3>5. d.start = o.start
      OBVIOUS
    <3> HIDE DEF d
    <3> QED BY <3>1, <3>2, <3>3, <3>4, <3>5, Zenon DEF Promised!AbsNext, Promised!AbsSend
  <2>4. CASE \/ \E r \in Record : RefuseRecord(r)
             \/ Tick \/ IdleFire \/ AnswerQuery \/ DropInspect \/ DownstreamGone \/ FlushDone
             \/ UNCHANGED vars
    BY <2>4 DEF RefuseRecord, Arrives, Tick, IdleFire, AnswerQuery, DropInspect, DownstreamGone,
       FlushDone, vars, Promised!absVars
  <2> QED BY <2>1, <2>2, <2>3, <2>4 DEF Next, Promised!AbsNext
<1> QED BY <1>1, <1>2, PromiseInvariant, PTL DEF Spec, ImplementsWindowSpec

-----------------------------------------------------------------------------
(* The order downstream sees. *)

(* Aggregates leave by ascending start of their windows, across all the    *)
(* times the transform fires and the last flush.                           *)
SentAscending ==
  \A i, j \in DOMAIN sent : i <= j => sent[i].start <= sent[j].start

(* What is still to be handed over comes after what has been sent. *)
OutAfterSent == \A i \in DOMAIN sent, o \in out : sent[i].start <= o.start

(* What the watermark has passed starts before what it has not. *)
LEMMA PassedIsEarlier ==
  ASSUME NEW s \in Nat, NEW t \in Nat, NEW m \in Nat,
         Passed(s, Watermark(m)), ~Passed(t, Watermark(m))
  PROVE  s <= t
BY TimeAssumption DEF Passed, Watermark, SaturatingSub

(* Until the idle timeout collapses some, windows leave in order: what      *)
(* fires together is sorted by emit, and what fires later was ahead of the  *)
(* watermark that everything sent before had met.                           *)
THEOREM WindowsLeaveInOrder == Spec => [](~collapsed => SentAscending)
<1> DEFINE Order == SentAscending /\ OutAfterSent
<1>1. Init => Order
  BY DEF Init, SentAscending, OutAfterSent
<1>2. /\ TypeOK /\ TypeOK' /\ (~collapsed => FiresInv) /\ (~collapsed => Order)
      /\ [Next]_vars
      => (~collapsed => Order)'
  <2> SUFFICES ASSUME TypeOK, TypeOK', FiresInv, Order, [Next]_vars, ~collapsed' PROVE Order'
    BY CollapsedStays
  <2>1. ASSUME sent' = sent,
               \A o \in out' : o \in out \/ (/\ ~closed
                                            /\ ~Passed(o.start, Watermark(maxEvent)))
        PROVE  Order'
    <3>1. ASSUME NEW i \in DOMAIN sent, NEW o \in out' PROVE sent[i].start <= o.start
      <4>1. CASE o \in out
        BY <4>1 DEF OutAfterSent
      <4>2. CASE ~closed /\ ~Passed(o.start, Watermark(maxEvent))
        <5>1. Passed(sent[i].start, Watermark(maxEvent))
          BY <4>2 DEF FiresInv, FiredBehind
        <5>2. sent[i] \in Aggregate /\ o \in Aggregate
          BY DEF TypeOK
        <5>3. sent[i].start \in Nat /\ o.start \in Nat /\ maxEvent \in Nat
          BY <5>2 DEF Aggregate, Time, TypeOK
        <5> QED BY <4>2, <5>1, <5>3, PassedIsEarlier
      <4> QED BY <2>1, <4>1, <4>2
    <3> QED BY <2>1, <3>1 DEF SentAscending, OutAfterSent
  <2>2. ASSUME NEW r \in Record, Receive(r) PROVE Order'
    <3>1. CASE RefuseRecord(r)
      <4>1. sent' = sent /\ out' = out
        BY <3>1 DEF RefuseRecord, Arrives
      <4> QED BY <2>1, <4>1
    <3>2. CASE ~RefuseRecord(r)
      <4> DEFINE folds == windows \cup Added(r)
      <4>1. sent' = sent /\ ~closed
        BY <2>2 DEF Receive, SkipRecord, RefuseRecord, FoldRecord, ShedRecord, LateRecord, Arrives,
           FiresInv, FiredBehind
      <4>2. DrainReady(folds, maxEvent')
        <5>1. FoldRecord(r) => Added(r) = {[start |-> s, rec |-> r] : s \in TakenBy(r)}
          BY DEF FoldRecord, Added
        <5>2. SkipRecord(r) \/ ShedRecord(r) \/ LateRecord(r) => Added(r) = {}
          BY DEF SkipRecord, ShedRecord, LateRecord, Added, TakenBy
        <5> QED BY <2>2, <3>2, <5>1, <5>2
              DEF Receive, SkipRecord, FoldRecord, ShedRecord, LateRecord
      <4>3. \A f \in folds : ~Passed(f.start, Watermark(maxEvent))
        BY DEF FiresInv, AheadOfWatermark, Added, TakenBy, OpenFor
      <4>4. \A o \in out' : \E f \in folds : o.start = f.start
        BY <4>2, AggregatesOneEach DEF DrainReady, Ready
      <4> QED BY <2>1, <4>1, <4>3, <4>4
    <3> QED BY <3>1, <3>2
  <2>3. CASE Close
    <3>1. sent' = sent /\ ~closed /\ out' = Aggregates(windows)
      BY <2>3 DEF Close, DrainAll, FiresInv, FiredBehind
    <3>2. \A o \in out' : \E f \in windows : o.start = f.start
      BY <3>1, AggregatesOneEach
    <3> QED BY <2>1, <3>1, <3>2 DEF FiresInv, AheadOfWatermark
  <2>4. CASE Emit
    <3>1. PICK o \in out : /\ sent' = Append(sent, o) /\ out' = out \ {o}
                           /\ \A p \in out : o.start <= p.start
      BY <2>4 DEF Emit
    <3>2. /\ sent \in Seq(Aggregate) /\ Len(sent) \in Nat
          /\ DOMAIN sent = 1 .. Len(sent) /\ DOMAIN sent' = 1 .. Len(sent) + 1
          /\ \A i \in DOMAIN sent : sent'[i] = sent[i]
          /\ sent'[Len(sent) + 1] = o
      BY <3>1 DEF TypeOK
    <3>3. \A i \in DOMAIN sent : sent[i].start <= o.start
      BY DEF OutAfterSent
    <3>4. o.start \in Nat
      BY DEF TypeOK, Aggregate, Time
    <3>5. SentAscending'
      <4>1. \A i, j \in DOMAIN sent' : i <= j =>
              \/ i \in DOMAIN sent /\ j \in DOMAIN sent
              \/ i \in DOMAIN sent /\ j = Len(sent) + 1
              \/ i = Len(sent) + 1 /\ j = Len(sent) + 1
        BY <3>2
      <4> QED BY <3>2, <3>3, <3>4, <4>1 DEF SentAscending
    <3>6. OutAfterSent'
      <4>1. \A i \in DOMAIN sent' : i \in DOMAIN sent \/ i = Len(sent) + 1
        BY <3>2
      <4> QED BY <3>1, <3>2, <4>1 DEF OutAfterSent
    <3> QED BY <3>5, <3>6
  <2>5. CASE \/ Tick \/ IdleFire \/ AnswerQuery \/ DropInspect \/ DownstreamGone \/ FlushDone
             \/ UNCHANGED vars
    <3>1. sent' = sent /\ out' = out
      BY <2>5, IdleFireOfNone DEF Tick, AnswerQuery, DropInspect, DownstreamGone, FlushDone, vars
    <3> QED BY <2>1, <3>1
  <2> QED BY <2>2, <2>3, <2>4, <2>5 DEF Next
<1>3. Order => SentAscending
  OBVIOUS
<1> HIDE DEF Order
<1> QED BY <1>1, <1>2, <1>3, FiresInvariant, TypeCorrect, PTL DEF Spec

(* What a join knows of an aggregate: its labels and the end of its window. *)
BucketFor(o) == [end |-> o.start + Size, key |-> o.group]

(* Until its idle timeout first collapses open windows, a node sends one   *)
(* aggregate at a time, and each may follow those before it as a join      *)
(* takes for granted of an orderly input.                                  *)
FeedsAJoin ==
  [][~collapsed =>
       \E o \in Aggregate :
         /\ sent' = Append(sent, o)
         /\ MayFollow({BucketFor(sent[i]) : i \in DOMAIN sent}, BucketFor(o))]_sent

(* What a join assumes of its orderly inputs holds of every window until   *)
(* it first collapses, which one without an idle timeout never does: no    *)
(* (window, group) comes a second time, which would fill a slot again or   *)
(* reopen a bucket that has left, and no window comes after a later one,   *)
(* which the join would have evicted.                                      *)
THEOREM WindowsFeedAJoin == Spec => FeedsAJoin
<1>1. /\ TypeOK /\ TypeOK' /\ FiresOnce' /\ (~collapsed => SentAscending)' /\ [Next]_vars
      => [~collapsed =>
            \E o \in Aggregate :
              /\ sent' = Append(sent, o)
              /\ MayFollow({BucketFor(sent[i]) : i \in DOMAIN sent}, BucketFor(o))]_sent
  <2> SUFFICES ASSUME TypeOK, TypeOK', FiresOnce', (~collapsed => SentAscending)', Next,
                      sent' # sent, ~collapsed
               PROVE  \E o \in Aggregate :
                        /\ sent' = Append(sent, o)
                        /\ MayFollow({BucketFor(sent[i]) : i \in DOMAIN sent}, BucketFor(o))
    BY DEF vars
  <2>1. Emit
    BY DEF Next, Receive, SkipRecord, RefuseRecord, FoldRecord, ShedRecord, LateRecord, Arrives,
       Close, IdleFire, Tick, AnswerQuery, DropInspect, DownstreamGone, FlushDone
  <2>2. PICK o \in Aggregate : sent' = Append(sent, o)
    BY <2>1 DEF Emit, TypeOK
  <2>3. /\ sent \in Seq(Aggregate) /\ Len(sent) \in Nat
        /\ DOMAIN sent = 1 .. Len(sent) /\ DOMAIN sent' = 1 .. Len(sent) + 1
        /\ \A i \in DOMAIN sent : sent'[i] = sent[i]
        /\ sent'[Len(sent) + 1] = o
    BY <2>2 DEF TypeOK
  <2>. ~collapsed'
    BY <2>1, Zenon DEF Emit
  <2>. NoneTwice' /\ SentAscending'
    BY Zenon DEF FiresOnce
  <2>4. ASSUME NEW i \in DOMAIN sent
        PROVE  BucketFor(sent[i]).end <= BucketFor(o).end /\ BucketFor(sent[i]) # BucketFor(o)
    <3>1. i \in DOMAIN sent' /\ Len(sent) + 1 \in DOMAIN sent' /\ i <= Len(sent) + 1 /\ i # Len(sent) + 1
      BY <2>3
    <3>2. sent[i].start <= o.start
      BY <2>3, <3>1 DEF SentAscending
    <3>3. sent[i].start # o.start \/ sent[i].group # o.group
      BY <2>3, <3>1 DEF NoneTwice
    <3>4. sent[i].start \in Nat /\ o.start \in Nat /\ Size \in Nat
      <4>1. sent[i] \in Aggregate /\ o \in Aggregate
        BY <2>3
      <4> QED BY <4>1, TimeAssumption DEF Aggregate, Time
    <3>5. \A a, b, c \in Nat : (a <= b => a + c <= b + c) /\ (a + c = b + c => a = b)
      OBVIOUS
    <3>6. sent[i].start + Size <= o.start + Size
      BY <3>2, <3>4, <3>5
    <3>7. BucketFor(sent[i]).end = sent[i].start + Size /\ BucketFor(o).end = o.start + Size
          /\ BucketFor(sent[i]).key = sent[i].group /\ BucketFor(o).key = o.group
      BY DEF BucketFor
    <3> QED BY <3>3, <3>4, <3>5, <3>6, <3>7
  <2>5. MayFollow({BucketFor(sent[i]) : i \in DOMAIN sent}, BucketFor(o))
    BY <2>4 DEF MayFollow
  <2> QED BY <2>2, <2>5
<1> QED BY <1>1, TypeCorrect, WindowsFireOnce, WindowsLeaveInOrder, PTL DEF Spec, FeedsAJoin

=============================================================================
