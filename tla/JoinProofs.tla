----------------------------- MODULE JoinProofs -----------------------------
(***************************************************************************)
(* What Join guarantees for every number of inputs and keys, every cap and *)
(* every number of windows.                                                *)
(***************************************************************************)
EXTENDS Join, FiniteSetTheorems, TLAPS

-----------------------------------------------------------------------------
(* Slots and buckets. *)

(* The bucket of a slot is a bucket. *)
LEMMA BucketType ==
  ASSUME NEW s \in Slot
  PROVE  BucketOf(s) \in Bucket
BY DEF Slot, Bucket, BucketOf

(* A slot is determined by its input and its bucket. *)
LEMMA SlotIsPair ==
  ASSUME NEW s \in Slot, NEW t \in Slot, s.input = t.input, BucketOf(s) = BucketOf(t)
  PROVE  s = t
BY DEF Slot, BucketOf

(* There are finitely many buckets, and slots of them. *)
LEMMA FiniteData == IsFiniteSet(Bucket) /\ IsFiniteSet(Slot)
<1>1. IsFiniteSet(Ends) /\ IsFiniteSet(Keys) /\ IsFiniteSet(Inputs)
  BY FS_Interval, JoinAssumption DEF Ends
<1>2. IsFiniteSet(Ends \X Keys)
  BY <1>1, FS_Product
<1>3. IsFiniteSet(Bucket)
  <2>. DEFINE f == [b \in Bucket |-> <<b.end, b.key>>]
  <2>1. f \in Injection(Bucket, Ends \X Keys)
    BY DEF Bucket, Injection, IsInjective
  <2>. QED
    BY <1>2, <2>1, FS_Injection
<1>4. IsFiniteSet(Inputs \X Bucket)
  BY <1>1, <1>3, FS_Product
<1>5. IsFiniteSet(Slot)
  <2>. DEFINE f == [s \in Slot |-> <<s.input, BucketOf(s)>>]
  <2>1. \A s \in Slot : f[s] \in Inputs \X Bucket
    BY BucketType DEF Slot
  <2>2. \A s, t \in Slot : f[s] = f[t] => s = t
    BY SlotIsPair
  <2>3. f \in Injection(Slot, Inputs \X Bucket)
    BY <2>1, <2>2 DEF Injection, IsInjective
  <2>. QED
    BY <1>4, <2>3, FS_Injection
<1>. QED
  BY <1>3, <1>5

(* The open buckets of a set of slots are finitely many. *)
LEMMA OpenType ==
  ASSUME NEW slots, slots \subseteq Slot
  PROVE  /\ Open(slots) \subseteq Bucket
         /\ \A B \in SUBSET Open(slots) : IsFiniteSet(B) /\ Cardinality(B) \in Nat
<1>1. Open(slots) \subseteq Bucket
  BY BucketType DEF Open
<1>2. \A B \in SUBSET Open(slots) : IsFiniteSet(B)
  BY <1>1, FiniteData, FS_Subset
<1>. QED
  BY <1>1, <1>2, FS_CardinalityType

-----------------------------------------------------------------------------
(* Type correctness. *)

(* Evicting what is stale leaves slots of those there were. *)
LEMMA EvictType ==
  ASSUME evicted \subseteq Slot,
         NEW slots, slots \subseteq Slot,
         NEW ends,
         NEW counts \in [DropReason -> Nat],
         Evict(slots, ends, counts)
  PROVE  /\ buckets' \subseteq slots
         /\ metered' \in [DropReason -> Nat]
         /\ evicted' \subseteq Slot
<1>. DEFINE stale == {b \in Open(slots) : b.end <= Least(ends)}
            gone == {s \in slots : BucketOf(s) \in stale}
<1>1. stale \in SUBSET Open(slots) /\ Cardinality(stale) \in Nat /\ gone \subseteq slots
  BY OpenType
<1>2. /\ buckets' = slots \ gone
      /\ metered' = [counts EXCEPT !["incomplete"] = @ + Cardinality(stale)]
      /\ evicted' = evicted \cup gone
  BY DEF Evict
<1>. HIDE DEF stale, gone
<1>3. metered' \in [DropReason -> Nat]
  BY <1>1, <1>2 DEF DropReason
<1>. QED
  BY <1>1, <1>2, <1>3

(* Taking a record from the merged channel keeps the types. *)
LEMMA TakeType ==
  ASSUME TypeOK, NEW s \in Slot, Take(s)
  PROVE  /\ merged' \in Seq(Slot) /\ Len(merged') <= MergedCap
         /\ maxEnd' \in [Inputs -> 0 .. MaxEnd]
         /\ replaced' \in Nat
         /\ UNCHANGED <<fed, live, sent>>
<1>1. merged # << >> /\ merged \in Seq(Slot) /\ Len(merged) <= MergedCap /\ merged' = Tail(merged)
  BY DEF Take, TypeOK
<1>2. merged' \in Seq(Slot) /\ Len(merged') = Len(merged) - 1 /\ Len(merged) \in Nat
  BY <1>1
<1>3. s.end \in 0 .. MaxEnd /\ s.input \in Inputs
  BY JoinAssumption DEF Slot, Ends
<1>4. maxEnd' \in [Inputs -> 0 .. MaxEnd]
  BY <1>3 DEF Take, TypeOK
<1>5. replaced' \in Nat
  BY DEF Take, TypeOK
<1>. QED
  BY <1>1, <1>2, <1>4, <1>5, JoinAssumption DEF Take

(* A forwarder putting a record on the merged channel keeps the types. *)
LEMMA ForwardType ==
  ASSUME TypeOK, NEW i \in Inputs, NEW b \in Bucket, Forward(i, b)
  PROVE  TypeOK'
<1>1. SlotAt(i, b) \in Slot
  BY DEF Slot, Bucket, SlotAt
<1>2. /\ merged' \in Seq(Slot)
      /\ Len(merged') <= MergedCap
  BY <1>1, JoinAssumption DEF Forward, TypeOK
<1>3. fed' \in [Slot -> Nat]
  BY <1>1 DEF Forward, TypeOK
<1>. QED
  BY <1>2, <1>3 DEF Forward, TypeOK

(* Every step keeps the types. *)
LEMMA StepType ==
  ASSUME TypeOK, [Next]_vars
  PROVE  TypeOK'
<1>1. ASSUME NEW i \in Inputs, ForwarderEnds(i)
      PROVE  TypeOK'
  BY <1>1 DEF ForwarderEnds, TypeOK
<1>2. ASSUME NEW i \in Inputs, NEW b \in Bucket, Forward(i, b)
      PROVE  TypeOK'
  BY <1>2, ForwardType
<1>3. ASSUME NEW s \in Slot, TakeRefused(s)
      PROVE  TypeOK'
  <2>1. [metered EXCEPT !["capped"] = @ + 1] \in [DropReason -> Nat]
    BY DEF TypeOK, DropReason
  <2>2. /\ buckets' \subseteq Slot
        /\ metered' \in [DropReason -> Nat]
        /\ evicted' \subseteq Slot
    BY <1>3, <2>1, EvictType DEF TakeRefused, TypeOK
  <2>3. pc' = pc /\ sending' = sending /\ Take(s)
    BY <1>3 DEF TakeRefused
  <2>. QED
    BY <2>2, <2>3, TakeType DEF TypeOK
<1>4. ASSUME NEW s \in Slot, TakeFill(s)
      PROVE  TypeOK'
  <2>1. buckets \cup {s} \subseteq Slot
    BY DEF TypeOK
  <2>2. /\ buckets' \subseteq Slot
        /\ metered' \in [DropReason -> Nat]
        /\ evicted' \subseteq Slot
    BY <1>4, <2>1, EvictType DEF TakeFill, TypeOK
  <2>3. pc' = pc /\ sending' = sending /\ Take(s)
    BY <1>4 DEF TakeFill
  <2>. QED
    BY <2>2, <2>3, TakeType DEF TypeOK
<1>5. ASSUME NEW s \in Slot, TakeComplete(s)
      PROVE  TypeOK'
  <2>1. /\ buckets' \subseteq Slot
        /\ sending' \subseteq Bucket
        /\ pc' = "send"
        /\ metered' = metered /\ evicted' = evicted
        /\ Take(s)
    BY <1>5, BucketType DEF TakeComplete, WithoutBucket, TypeOK
  <2>. QED
    BY <2>1, TakeType DEF TypeOK
<1>6. ASSUME NEW s \in Slot, TakeInvalid(s)
      PROVE  TypeOK'
  <2>1. /\ [metered EXCEPT !["invalid"] = @ + 1] \in [DropReason -> Nat]
        /\ WithoutBucket(BucketOf(s)) \subseteq Slot
    BY DEF TypeOK, DropReason, WithoutBucket
  <2>2. /\ buckets' \subseteq Slot
        /\ metered' \in [DropReason -> Nat]
        /\ evicted' \subseteq Slot
    BY <1>6, <2>1, EvictType DEF TakeInvalid, TypeOK
  <2>3. pc' = pc /\ sending' = sending /\ Take(s)
    BY <1>6 DEF TakeInvalid
  <2>. QED
    BY <2>2, <2>3, TakeType DEF TypeOK
<1>7. CASE SendDone
  <2>1. /\ buckets' \subseteq Slot
        /\ metered' \in [DropReason -> Nat]
        /\ evicted' \subseteq Slot
    BY <1>7, EvictType DEF SendDone, TypeOK
  <2>2. PICK b \in sending : sent' = [sent EXCEPT ![b] = @ + 1]
    BY <1>7 DEF SendDone
  <2>3. sent' \in [Bucket -> Nat]
    BY <2>2 DEF TypeOK
  <2>. QED
    BY <1>7, <2>1, <2>3 DEF SendDone, TypeOK
<1>8. CASE SendFails
  BY <1>8 DEF SendFails, TypeOK
<1>9. CASE JoinEnds
  BY <1>9 DEF JoinEnds, TypeOK
<1>10. CASE UNCHANGED vars
  BY <1>10 DEF vars, TypeOK
<1>. QED
  BY <1>1, <1>2, <1>3, <1>4, <1>5, <1>6, <1>7, <1>8, <1>9, <1>10 DEF Next

(* The initial state is well typed. *)
LEMMA InitType == Init => TypeOK
BY JoinAssumption DEF Init, TypeOK, DropReason

(* Every state of the join is well typed. *)
THEOREM TypeCorrect == Spec => []TypeOK
BY InitType, StepType, PTL DEF Spec

-----------------------------------------------------------------------------
(* The inductive invariant: what the newest ends of the inputs say of the  *)
(* buckets.  A bucket leaves, complete or evicted, when every input has    *)
(* reached its window, and from then on what reopens it is evicted before  *)
(* the next record is taken: with two inputs or more it never completes    *)
(* again.                                                                  *)

(* All the ends are at x's window or past it; x is a slot or a bucket. *)
Behind(x, ends) == \A i \in Inputs : x.end <= ends[i]

SendingOne ==
  /\ pc = "select" => sending = {}
  /\ pc = "send" => \E b \in Bucket : sending = {b}

OpenIncomplete == \A b \in Bucket : FilledBy(buckets, b) # Inputs

WaitingFed == \A k \in DOMAIN merged : fed[merged[k]] > 0

EndsFed == \A i \in Inputs : maxEnd[i] = 0 \/ \E b \in FedBy(i) : b.end = maxEnd[i]

OpenReached == \A s \in buckets : s.end <= maxEnd[s.input]

LeftBehind == \A b \in Bucket : sent[b] # 0 \/ b \in sending => Behind(b, maxEnd)

EvictedBehind == \A s \in evicted : Behind(s, maxEnd)

OpenAhead == pc = "select" => \A s \in buckets : ~Behind(s, maxEnd)

IInv ==
  /\ TypeOK
  /\ SendingOne
  /\ OpenIncomplete
  /\ WaitingFed
  /\ EndsFed
  /\ OpenReached
  /\ LeftBehind
  /\ EvictedBehind
  /\ OpenAhead
  /\ SentOnce

(* A slot and its (input, bucket) determine each other. *)
LEMMA SlotAtBucket ==
  /\ \A s \in Slot : SlotAt(s.input, BucketOf(s)) = s /\ BucketOf(s).end = s.end
  /\ \A i \in Inputs, b \in Bucket :
        /\ SlotAt(i, b) \in Slot
        /\ SlotAt(i, b).input = i
        /\ SlotAt(i, b).end = b.end
        /\ BucketOf(SlotAt(i, b)) = b
BY DEF Slot, Bucket, SlotAt, BucketOf

(* A set of natural numbers that has one has a least one. *)
LEMMA LeastNat ==
  ASSUME NEW T \in SUBSET Nat, T # {}
  PROVE  \E x \in T : \A y \in T : x <= y
<1> DEFINE F == {1 .. n : n \in T}
<1>1. F \subseteq FiniteSubsetsOf(Nat)
  <2>1. ASSUME NEW n \in Nat PROVE IsFiniteSet(1 .. n) /\ 1 .. n \subseteq Nat
    BY FS_Interval
  <2> QED BY <2>1 DEF FiniteSubsetsOf
<1>2. F # {}
  OBVIOUS
<1>3. IsWellFoundedOn(StrictSubsetOrdering(Nat), FiniteSubsetsOf(Nat))
  BY FS_StrictSubsetOrderingWellFounded
<1> HIDE DEF F
<1>4. \E w \in F : \A y \in F : ~(<<y, w>> \in StrictSubsetOrdering(Nat))
  BY <1>1, <1>2, <1>3, WFMin, Zenon
<1>5. PICK x \in T : \A y \in F : ~(<<y, 1 .. x>> \in StrictSubsetOrdering(Nat))
  BY <1>4 DEF F
<1>6. ASSUME NEW y \in T, y < x PROVE FALSE
  <2>1. x \in 1 .. x /\ x \notin 1 .. y
    BY <1>6
  <2>2. 1 .. y \subseteq 1 .. x /\ 1 .. y # 1 .. x /\ 1 .. x \subseteq Nat /\ 1 .. y \subseteq Nat
    BY <1>6, <2>1
  <2> QED BY <1>5, <2>2 DEF F, StrictSubsetOrdering
<1> QED BY <1>6

(* A window is at the join watermark or before it when every input has     *)
(* reached it.                                                             *)
LEMMA BehindIsLeast ==
  ASSUME NEW ends \in [Inputs -> 0 .. MaxEnd], NEW x, x.end \in Nat
  PROVE  x.end <= Least(ends) <=> Behind(x, ends)
<1>. DEFINE T == {ends[j] : j \in Inputs}
<1>1. T \in SUBSET Nat /\ T # {}
  BY JoinAssumption
<1>2. \E m \in T : \A n \in T : m <= n
  <2>. HIDE DEF T
  <2>. QED
    BY <1>1, LeastNat
<1>3. \E m \in T : \A j \in Inputs : m <= ends[j]
  BY <1>2
<1>4. Least(ends) \in T /\ \A j \in Inputs : Least(ends) <= ends[j]
  BY <1>3 DEF Least
<1>5. Least(ends) \in Nat /\ \A j \in Inputs : ends[j] \in Nat
  BY <1>1, <1>4
<1>6. \A l, m, n \in Nat : l <= m /\ m <= n => l <= n
  OBVIOUS
<1>7. x.end <= Least(ends) => Behind(x, ends)
  BY <1>4, <1>5, <1>6 DEF Behind
<1>8. Behind(x, ends) => x.end <= Least(ends)
  BY <1>4 DEF Behind
<1>. QED
  BY <1>7, <1>8

(* An eviction removes the slots that are behind and keeps the others. *)
LEMMA EvictSplits ==
  ASSUME NEW slots, slots \subseteq Slot, NEW ends \in [Inputs -> 0 .. MaxEnd], NEW counts,
         Evict(slots, ends, counts)
  PROVE  /\ buckets' = {s \in slots : ~Behind(s, ends)}
         /\ evicted' = evicted \cup {s \in slots : Behind(s, ends)}
<1>. DEFINE stale == {b \in Open(slots) : b.end <= Least(ends)}
            gone == {s \in slots : BucketOf(s) \in stale}
<1>1. buckets' = slots \ gone /\ evicted' = evicted \cup gone /\ gone \subseteq slots
  BY DEF Evict
<1>2. ASSUME NEW s \in slots
      PROVE  s \in gone <=> Behind(s, ends)
  <2>1. BucketOf(s) \in Open(slots) /\ BucketOf(s).end = s.end /\ s.end \in Nat
    BY SlotAtBucket DEF Open, Slot, Ends
  <2>2. s \in gone <=> s.end <= Least(ends)
    BY <2>1
  <2>. HIDE DEF gone
  <2>. QED
    BY <2>1, <2>2, BehindIsLeast
<1>. HIDE DEF gone
<1>. QED
  BY <1>1, <1>2

(* What is behind stays behind as the ends advance. *)
LEMMA BehindStays ==
  ASSUME NEW f \in [Inputs -> 0 .. MaxEnd], NEW g \in [Inputs -> 0 .. MaxEnd],
         \A i \in Inputs : f[i] <= g[i],
         NEW x, x.end \in Nat, Behind(x, f)
  PROVE  Behind(x, g)
<1>1. \A l, m, n \in Nat : l <= m /\ m <= n => l <= n
  OBVIOUS
<1>2. \A i \in Inputs : f[i] \in Nat /\ g[i] \in Nat /\ x.end <= f[i]
  BY DEF Behind
<1>. QED
  BY <1>1, <1>2 DEF Behind

(* Taking a record moves the newest window end of its input forward only,  *)
(* to that of the record.                                                  *)
LEMMA TakeAdvances ==
  ASSUME TypeOK, WaitingFed, EndsFed, NEW s \in Slot, Take(s)
  PROVE  /\ \A i \in Inputs : maxEnd[i] <= maxEnd'[i]
         /\ s.end <= maxEnd'[s.input]
         /\ EndsFed' /\ WaitingFed'
<1>1. /\ merged \in Seq(Slot) /\ merged # << >> /\ s = Head(merged) /\ merged' = Tail(merged)
      /\ maxEnd' = [maxEnd EXCEPT ![s.input] = IF @ >= s.end THEN @ ELSE s.end]
      /\ maxEnd \in [Inputs -> 0 .. MaxEnd] /\ fed' = fed
      /\ s.input \in Inputs /\ s.end \in Nat
  BY DEF Take, TypeOK, Slot, Ends
<1>2. /\ 1 \in DOMAIN merged /\ s = merged[1]
      /\ \A k \in DOMAIN merged' : k + 1 \in DOMAIN merged /\ merged'[k] = merged[k + 1]
  BY <1>1
<1>3. WaitingFed'
  BY <1>1, <1>2 DEF WaitingFed
<1>4. BucketOf(s) \in FedBy(s.input) /\ BucketOf(s).end = s.end
  BY <1>2, SlotAtBucket, BucketType DEF WaitingFed, FedBy
<1>5. ASSUME NEW i \in Inputs
      PROVE  /\ maxEnd[i] <= maxEnd'[i]
             /\ i = s.input => s.end <= maxEnd'[i]
             /\ maxEnd'[i] # maxEnd[i] => i = s.input /\ maxEnd'[i] = s.end
  <2>1. maxEnd[i] \in Nat
    BY <1>1
  <2>2. maxEnd'[i] = IF i = s.input /\ ~(maxEnd[i] >= s.end) THEN s.end ELSE maxEnd[i]
    BY <1>1
  <2>3. \A m, n \in Nat : m <= m /\ (m >= n => n <= m) /\ (~(m >= n) => m <= n)
    OBVIOUS
  <2>. QED
    BY <1>1, <2>1, <2>2, <2>3, Zenon
<1>6. EndsFed'
  <2>1. \A i \in Inputs : FedBy(i)' = FedBy(i)
    BY <1>1 DEF FedBy
  <2>. QED
    BY <1>4, <1>5, <2>1 DEF EndsFed
<1>. QED
  BY <1>1, <1>3, <1>5, <1>6

(* Forwarding adds one record to what its input has fed. *)
LEMMA ForwardFeeds ==
  ASSUME TypeOK, WaitingFed, EndsFed, NEW i \in Inputs, NEW b \in Bucket, Forward(i, b)
  PROVE  /\ \A s \in Slot : fed'[s] = IF s = SlotAt(i, b) THEN fed[s] + 1 ELSE fed[s]
         /\ merged' = Append(merged, SlotAt(i, b)) /\ SlotAt(i, b) \in Slot
         /\ maxEnd' = maxEnd
         /\ WaitingFed' /\ EndsFed'
<1>. DEFINE new == SlotAt(i, b)
<1>1. /\ new \in Slot /\ fed \in [Slot -> Nat] /\ fed' = [fed EXCEPT ![new] = @ + 1]
      /\ merged \in Seq(Slot) /\ merged' = Append(merged, new) /\ maxEnd' = maxEnd
  BY SlotAtBucket DEF Forward, TypeOK
<1>. HIDE DEF new
<1>2. \A s \in Slot : fed[s] \in Nat /\ fed'[s] = IF s = new THEN fed[s] + 1 ELSE fed[s]
  BY <1>1
<1>3. \A n \in Nat : n + 1 > 0 /\ (n > 0 => n + 1 > 0)
  OBVIOUS
<1>4. \A s \in Slot : fed[s] > 0 => fed'[s] > 0
  BY <1>2, <1>3
<1>5. WaitingFed'
  <2>1. \A k \in DOMAIN merged' : \/ merged'[k] = new
                                  \/ k \in DOMAIN merged /\ merged'[k] = merged[k] /\ merged[k] \in Slot
    BY <1>1
  <2>. QED
    BY <1>1, <1>2, <1>3, <1>4, <2>1 DEF WaitingFed
<1>6. \A j \in Inputs : FedBy(j) \subseteq FedBy(j)'
  BY <1>4, SlotAtBucket DEF FedBy, SlotAt
<1>7. EndsFed'
  BY <1>1, <1>6 DEF EndsFed
<1>. QED
  BY <1>1, <1>2, <1>5, <1>7 DEF new

-----------------------------------------------------------------------------
(* Preservation. *)

(* Filling a slot of a bucket that still waits leaves no bucket complete. *)
LEMMA FillIsIncomplete ==
  ASSUME OpenIncomplete, NEW s \in Slot, ~Completes(s)
  PROVE  \A b \in Bucket : FilledBy(buckets \cup {s}, b) # Inputs
<1>1. ASSUME NEW b \in Bucket, b # BucketOf(s)
      PROVE  FilledBy(buckets \cup {s}, b) = FilledBy(buckets, b)
  BY <1>1 DEF FilledBy
<1>. QED
  BY <1>1 DEF Completes, OpenIncomplete

(* Removing a bucket leaves no bucket complete. *)
LEMMA WithoutIsIncomplete ==
  ASSUME OpenIncomplete, NEW c \in Bucket
  PROVE  \A b \in Bucket : FilledBy(WithoutBucket(c), b) # Inputs
<1>1. ASSUME NEW b \in Bucket, b # c
      PROVE  FilledBy(WithoutBucket(c), b) = FilledBy(buckets, b)
  BY <1>1 DEF FilledBy, WithoutBucket
<1>2. FilledBy(WithoutBucket(c), c) = {}
  BY DEF FilledBy, WithoutBucket
<1>. QED
  BY <1>1, <1>2, JoinAssumption DEF OpenIncomplete

(* A turn that ends in an eviction leaves open buckets that are incomplete  *)
(* and ahead of some input, and has evicted only what is behind.           *)
LEMMA TurnKeeps ==
  ASSUME IInv, maxEnd' \in [Inputs -> 0 .. MaxEnd],
         \A i \in Inputs : maxEnd[i] <= maxEnd'[i],
         NEW slots, slots \subseteq Slot,
         \A s \in slots : s.end <= maxEnd'[s.input],
         \A b \in Bucket : FilledBy(slots, b) # Inputs,
         NEW counts, Evict(slots, maxEnd', counts)
  PROVE  OpenIncomplete' /\ OpenReached' /\ EvictedBehind' /\ OpenAhead'
<1>1. /\ buckets' = {s \in slots : ~Behind(s, maxEnd')}
      /\ evicted' = evicted \cup {s \in slots : Behind(s, maxEnd')}
  BY EvictSplits
<1>2. OpenIncomplete'
  <2>1. \A b \in Bucket : FilledBy(buckets', b) \subseteq FilledBy(slots, b)
    BY <1>1 DEF FilledBy
  <2>2. \A b \in Bucket : FilledBy(slots, b) \subseteq Inputs
    BY DEF FilledBy, Slot
  <2>. QED
    BY <2>1, <2>2 DEF OpenIncomplete
<1>3. OpenReached'
  BY <1>1 DEF OpenReached
<1>4. OpenAhead'
  BY <1>1 DEF OpenAhead, Behind
<1>5. EvictedBehind'
  <2>1. ASSUME NEW s \in evicted
        PROVE  Behind(s, maxEnd')
    <3>1. maxEnd \in [Inputs -> 0 .. MaxEnd] /\ s.end \in Nat /\ Behind(s, maxEnd)
      BY DEF IInv, TypeOK, EvictedBehind, Slot, Ends
    <3>. QED
      BY <3>1, BehindStays
  <2>. QED
    BY <1>1, <2>1 DEF EvictedBehind, Behind
<1>. QED
  BY <1>2, <1>3, <1>4, <1>5

(* What has left stays behind. *)
LEMMA LeftStays ==
  ASSUME IInv, maxEnd' \in [Inputs -> 0 .. MaxEnd],
         \A i \in Inputs : maxEnd[i] <= maxEnd'[i],
         NEW b \in Bucket, sent[b] # 0 \/ b \in sending
  PROVE  Behind(b, maxEnd')
<1>1. maxEnd \in [Inputs -> 0 .. MaxEnd] /\ b.end \in Nat /\ Behind(b, maxEnd)
  BY DEF IInv, TypeOK, LeftBehind, Bucket, Ends
<1>. QED
  BY <1>1, BehindStays

(* Taking a record which completes no bucket keeps the invariant. *)
LEMMA TakeKeeps ==
  ASSUME IInv, NEW s \in Slot, TakeRefused(s) \/ TakeFill(s) \/ TakeInvalid(s)
  PROVE  IInv'
<1>1. TypeOK /\ TypeOK'
  BY StepType DEF IInv, Next
<1>2. Take(s) /\ pc' = pc /\ sending' = sending /\ sent' = sent /\ pc = "select"
  BY DEF TakeRefused, TakeFill, TakeInvalid, Take
<1>3. /\ \A i \in Inputs : maxEnd[i] <= maxEnd'[i]
      /\ s.end <= maxEnd'[s.input]
      /\ EndsFed' /\ WaitingFed'
  BY <1>2, TakeAdvances DEF IInv
<1>4. /\ maxEnd \in [Inputs -> 0 .. MaxEnd] /\ maxEnd' \in [Inputs -> 0 .. MaxEnd]
      /\ buckets \subseteq Slot
  BY <1>1 DEF TypeOK
<1>5. \A x \in buckets \cup {s} : x.end <= maxEnd'[x.input]
  <2>1. ASSUME NEW x \in buckets
        PROVE  x.end <= maxEnd'[x.input]
    <3>1. x.input \in Inputs /\ x.end \in Nat /\ x.end <= maxEnd[x.input]
      BY <1>4 DEF Slot, Ends, IInv, OpenReached
    <3>2. maxEnd[x.input] \in Nat /\ maxEnd'[x.input] \in Nat /\ maxEnd[x.input] <= maxEnd'[x.input]
      BY <1>3, <1>4, <3>1
    <3>3. \A l, m, n \in Nat : l <= m /\ m <= n => l <= n
      OBVIOUS
    <3>. QED
      BY <3>1, <3>2, <3>3
  <2>. QED
    BY <1>3, <2>1
<1>6. OpenIncomplete' /\ OpenReached' /\ EvictedBehind' /\ OpenAhead'
  <2>1. CASE TakeRefused(s)
    <3>1. Evict(buckets, maxEnd', [metered EXCEPT !["capped"] = @ + 1])
      BY <2>1 DEF TakeRefused
    <3>. QED
      BY <1>3, <1>4, <1>5, <3>1, TurnKeeps DEF IInv, OpenIncomplete
  <2>2. CASE TakeFill(s)
    <3>1. Evict(buckets \cup {s}, maxEnd', metered) /\ ~Completes(s)
      BY <2>2 DEF TakeFill
    <3>2. \A b \in Bucket : FilledBy(buckets \cup {s}, b) # Inputs
      BY <3>1, FillIsIncomplete DEF IInv
    <3>. QED
      BY <1>3, <1>4, <1>5, <3>1, <3>2, TurnKeeps
  <2>3. CASE TakeInvalid(s)
    <3>1. /\ Evict(WithoutBucket(BucketOf(s)), maxEnd', [metered EXCEPT !["invalid"] = @ + 1])
          /\ WithoutBucket(BucketOf(s)) \subseteq buckets
      BY <2>3 DEF TakeInvalid, WithoutBucket
    <3>2. \A b \in Bucket : FilledBy(WithoutBucket(BucketOf(s)), b) # Inputs
      BY WithoutIsIncomplete, BucketType DEF IInv
    <3>. QED
      BY <1>3, <1>4, <1>5, <3>1, <3>2, TurnKeeps
  <2>. QED
    BY <2>1, <2>2, <2>3
<1>7. LeftBehind'
  BY <1>2, <1>3, <1>4, LeftStays DEF LeftBehind
<1>8. SendingOne'
  BY <1>2 DEF SendingOne, IInv
<1>9. SentOnce'
  BY <1>2, <1>8 DEF SentOnce, IInv, SendingOne, Member
<1>. QED
  BY <1>1, <1>3, <1>6, <1>7, <1>8, <1>9 DEF IInv

(* The other inputs of a bucket that completes had filled their slots, so  *)
(* it was ahead of the ends and neither sent nor evicted, and is behind    *)
(* them now.                                                               *)
LEMMA CompleteKeeps ==
  ASSUME IInv, NEW s \in Slot, TakeComplete(s)
  PROVE  IInv'
<1>. DEFINE b == BucketOf(s)
<1>1. TypeOK /\ TypeOK'
  BY StepType DEF IInv, Next
<1>2. /\ Take(s) /\ Completes(s) /\ pc = "select" /\ pc' = "send" /\ sending' = {b}
      /\ sent' = sent /\ evicted' = evicted /\ buckets' = WithoutBucket(b)
  BY DEF TakeComplete, Take
<1>3. /\ \A i \in Inputs : maxEnd[i] <= maxEnd'[i]
      /\ s.end <= maxEnd'[s.input]
      /\ EndsFed' /\ WaitingFed'
  BY <1>2, TakeAdvances DEF IInv
<1>4. /\ maxEnd \in [Inputs -> 0 .. MaxEnd] /\ maxEnd' \in [Inputs -> 0 .. MaxEnd]
      /\ buckets \subseteq Slot /\ b \in Bucket /\ b.end = s.end /\ s.input \in Inputs /\ s.end \in Nat
  <2>1. b \in Bucket /\ b.end = s.end
    BY BucketType, SlotAtBucket
  <2>2. s.input \in Inputs /\ s.end \in Nat
    BY DEF Slot, Ends
  <2>. HIDE DEF b
  <2>. QED
    BY <1>1, <2>1, <2>2 DEF TypeOK
<1>5. ASSUME NEW x \in buckets
      PROVE  x.end <= maxEnd'[x.input]
  <2>1. x.input \in Inputs /\ x.end \in Nat /\ x.end <= maxEnd[x.input]
    BY <1>4 DEF Slot, Ends, IInv, OpenReached
  <2>2. maxEnd[x.input] \in Nat /\ maxEnd'[x.input] \in Nat /\ maxEnd[x.input] <= maxEnd'[x.input]
    BY <1>3, <1>4, <2>1
  <2>3. \A l, m, n \in Nat : l <= m /\ m <= n => l <= n
    OBVIOUS
  <2>. QED
    BY <2>1, <2>2, <2>3
<1>6. \A i \in Inputs : i = s.input \/ SlotAt(i, b) \in buckets
  <2>. SUFFICES ASSUME NEW i \in Inputs, i # s.input
                PROVE  SlotAt(i, b) \in buckets
    OBVIOUS
  <2>1. PICK x \in buckets \cup {s} : BucketOf(x) = b /\ x.input = i
    BY <1>2 DEF Completes, FilledBy
  <2>. QED
    BY <1>4, <2>1, SlotAtBucket
<1>7. Behind(b, maxEnd')
  <2>. SUFFICES ASSUME NEW i \in Inputs
                PROVE  b.end <= maxEnd'[i]
    BY DEF Behind
  <2>1. CASE i = s.input
    BY <1>3, <1>4, <2>1
  <2>2. CASE SlotAt(i, b) \in buckets
    BY <1>4, <1>5, <2>2, SlotAtBucket
  <2>. QED
    BY <1>6, <2>1, <2>2
<1>8. LeftBehind'
  <2>1. \A c \in Bucket : sent[c] # 0 => Behind(c, maxEnd')
    BY <1>3, <1>4, LeftStays
  <2>. QED
    BY <1>2, <1>7, <2>1 DEF LeftBehind
<1>9. SentOnce'
  <2>. SUFFICES ASSUME Cardinality(Inputs) > 1
                PROVE  /\ \A c \in Bucket : sent[c] + Member(c, {b}) <= 1
                       /\ b \notin Open(evicted)
    BY <1>2 DEF SentOnce, Member, Open
  <2>1. PICK j \in Inputs : j # s.input
    <3>1. Cardinality({s.input}) = 1
      BY FS_Singleton
    <3>. QED
      BY <1>4, <3>1
  <2>2. ~Behind(b, maxEnd)
    <3>1. SlotAt(j, b) \in buckets /\ SlotAt(j, b).end = b.end
      BY <1>4, <1>6, <2>1, SlotAtBucket
    <3>2. ~Behind(SlotAt(j, b), maxEnd)
      BY <1>2, <3>1 DEF IInv, OpenAhead
    <3>. QED
      BY <3>1, <3>2 DEF Behind
  <2>3. sent[b] = 0
    BY <1>4, <2>2 DEF IInv, LeftBehind
  <2>4. b \notin Open(evicted)
    <3>. SUFFICES ASSUME NEW x \in evicted, BucketOf(x) = b
                  PROVE  FALSE
      BY DEF Open
    <3>1. x \in Slot /\ x.end = b.end /\ Behind(x, maxEnd)
      BY <1>1, SlotAtBucket DEF IInv, TypeOK, EvictedBehind
    <3>. QED
      BY <2>2, <3>1 DEF Behind
  <2>5. \A c \in Bucket : sent[c] \in Nat /\ sent[c] + Member(c, sending) <= 1 /\ sending = {}
    BY <1>1, <1>2 DEF IInv, SentOnce, SendingOne, TypeOK
  <2>6. ASSUME NEW c \in Bucket
        PROVE  sent[c] + Member(c, {b}) <= 1
    BY <2>3, <2>5 DEF Member
  <2>. QED
    BY <2>4, <2>6
<1>10. OpenIncomplete' /\ OpenReached' /\ OpenAhead' /\ SendingOne'
  <2>1. OpenIncomplete'
    BY <1>2, <1>4, WithoutIsIncomplete DEF IInv, OpenIncomplete
  <2>2. OpenReached'
    BY <1>2, <1>5 DEF OpenReached, WithoutBucket
  <2>. QED
    BY <1>2, <1>4, <2>1, <2>2 DEF OpenAhead, SendingOne
<1>11. EvictedBehind'
  <2>. SUFFICES ASSUME NEW x \in evicted
                PROVE  Behind(x, maxEnd')
    BY <1>2 DEF EvictedBehind
  <2>1. x.end \in Nat /\ Behind(x, maxEnd)
    BY <1>1 DEF IInv, TypeOK, EvictedBehind, Slot, Ends
  <2>. QED
    BY <1>3, <1>4, <2>1, BehindStays
<1>. QED
  BY <1>1, <1>3, <1>8, <1>9, <1>10, <1>11 DEF IInv

(* Sending a bucket moves it from the one being sent to the sent. *)
LEMMA SendDoneKeeps ==
  ASSUME IInv, SendDone
  PROVE  IInv'
<1>1. TypeOK /\ TypeOK'
  BY StepType DEF IInv, Next
<1>2. PICK b \in Bucket : sending = {b}
  BY DEF SendDone, IInv, SendingOne
<1>3. /\ sent' = [sent EXCEPT ![b] = @ + 1] /\ sending' = {} /\ pc' = "select"
      /\ fed' = fed /\ merged' = merged /\ maxEnd' = maxEnd
      /\ Evict(buckets, maxEnd, metered)
  BY <1>2 DEF SendDone
<1>4. maxEnd \in [Inputs -> 0 .. MaxEnd] /\ buckets \subseteq Slot /\ sent \in [Bucket -> Nat]
  BY <1>1 DEF TypeOK
<1>5. \A i \in Inputs : maxEnd[i] <= maxEnd'[i]
  BY <1>3, <1>4
<1>6. OpenIncomplete' /\ OpenReached' /\ EvictedBehind' /\ OpenAhead'
  BY <1>3, <1>4, <1>5, TurnKeeps DEF IInv, OpenIncomplete, OpenReached
<1>7. LeftBehind'
  <2>1. \A c \in Bucket : sent'[c] # 0 => sent[c] # 0 \/ c \in sending
    BY <1>2, <1>3, <1>4
  <2>. QED
    BY <1>3, <2>1 DEF LeftBehind, IInv, Behind
<1>8. SentOnce'
  <2>1. ASSUME NEW c \in Bucket, sent[c] + Member(c, sending) <= 1
        PROVE  sent'[c] + Member(c, {}) <= 1
    <3>1. sent'[c] = sent[c] + Member(c, sending)
      BY <1>2, <1>3, <1>4 DEF Member
    <3>2. sent[c] \in Nat /\ Member(c, {}) = 0
      BY <1>4 DEF Member
    <3>. QED
      BY <2>1, <3>1, <3>2 DEF Member
  <2>. QED
    BY <1>3, <2>1 DEF SentOnce, IInv, Member
<1>9. SendingOne' /\ WaitingFed' /\ EndsFed'
  BY <1>3 DEF SendingOne, WaitingFed, EndsFed, FedBy, IInv
<1>. QED
  BY <1>1, <1>6, <1>7, <1>8, <1>9 DEF IInv

(* Every step keeps the invariant. *)
LEMMA StepKeeps ==
  ASSUME IInv, [Next]_vars
  PROVE  IInv'
<1>1. TypeOK'
  BY StepType DEF IInv
<1>2. ASSUME buckets' = buckets, maxEnd' = maxEnd, evicted' = evicted, sent' = sent,
             sending' = sending, pc' = pc \/ pc' = "done", WaitingFed', EndsFed'
      PROVE  IInv'
  <2>1. OpenIncomplete' /\ OpenReached' /\ OpenAhead' /\ EvictedBehind'
    BY <1>2 DEF IInv, OpenIncomplete, OpenReached, OpenAhead, EvictedBehind, Behind
  <2>2. LeftBehind' /\ SentOnce' /\ SendingOne'
    BY <1>2 DEF IInv, LeftBehind, SentOnce, SendingOne, Behind, Member
  <2>. QED
    BY <1>1, <1>2, <2>1, <2>2 DEF IInv
<1>3. ASSUME fed' = fed, merged' = merged, maxEnd' = maxEnd
      PROVE  WaitingFed' /\ EndsFed'
  BY <1>3 DEF IInv, WaitingFed, EndsFed, FedBy
<1>4. CASE \E i \in Inputs : ForwarderEnds(i)
  BY <1>2, <1>3, <1>4 DEF ForwarderEnds
<1>5. ASSUME NEW i \in Inputs, NEW b \in Bucket, Forward(i, b)
      PROVE  IInv'
  <2>1. WaitingFed' /\ EndsFed'
    BY <1>5, ForwardFeeds DEF IInv
  <2>. QED
    BY <1>2, <1>5, <2>1 DEF Forward
<1>6. CASE SendFails \/ JoinEnds
  BY <1>2, <1>3, <1>6 DEF SendFails, JoinEnds
<1>7. CASE UNCHANGED vars
  BY <1>2, <1>3, <1>7 DEF vars
<1>. QED
  BY <1>4, <1>5, <1>6, <1>7, TakeKeeps, CompleteKeeps, SendDoneKeeps DEF Next

(* The invariant holds at the start. *)
LEMMA InitInductive == Init => IInv
<1>. SUFFICES ASSUME Init PROVE IInv
  OBVIOUS
<1>1. TypeOK /\ merged = << >> /\ buckets = {} /\ sending = {} /\ evicted = {}
      /\ pc = "select" /\ sent = [b \in Bucket |-> 0] /\ maxEnd = [i \in Inputs |-> 0]
  BY InitType DEF Init
<1>2. SendingOne /\ WaitingFed /\ EndsFed /\ OpenReached /\ LeftBehind /\ EvictedBehind /\ OpenAhead
  BY <1>1 DEF SendingOne, WaitingFed, EndsFed, OpenReached, LeftBehind, EvictedBehind, OpenAhead
<1>3. OpenIncomplete
  BY <1>1, JoinAssumption DEF OpenIncomplete, FilledBy
<1>4. SentOnce
  BY <1>1 DEF SentOnce, Open, Member
<1>. QED
  BY <1>1, <1>2, <1>3, <1>4 DEF IInv

(* The invariant holds in every state. *)
LEMMA Inductive == Spec => []IInv
BY InitInductive, StepKeeps, PTL DEF Spec

(* A join of two inputs or more sends each (key, window) once at the most, *)
(* and none that it has evicted in part, whatever its inputs repeat and    *)
(* however they interleave.                                                *)
THEOREM SendsOnce == Spec => []SentOnce
<1>1. IInv => SentOnce
  BY DEF IInv
<1>. QED
  BY <1>1, Inductive, PTL

(* No bucket is evicted while an input has yet to begin its window: an     *)
(* eviction may come too early for the groups of the window an input is    *)
(* sending, never for a window it is yet to send.                          *)
THEOREM EvictsOnlyTheReached == Spec => []EvictedIsReached
<1>1. IInv => EvictedIsReached
  <2>. SUFFICES ASSUME IInv, NEW s \in evicted, NEW i \in Inputs
                PROVE  \E b \in FedBy(i) : s.end <= b.end
    BY DEF EvictedIsReached
  <2>1. s.end \in Nat \ {0} /\ maxEnd[i] \in Nat /\ s.end <= maxEnd[i]
    BY DEF IInv, TypeOK, Slot, Ends, EvictedBehind, Behind
  <2>2. maxEnd[i] # 0
    BY <2>1
  <2>. QED
    BY <2>1, <2>2 DEF IInv, EndsFed
<1>. QED
  BY <1>1, Inductive, PTL

-----------------------------------------------------------------------------
(* Where the records go. *)

Places(s) == {k \in DOMAIN merged : merged[k] = s}

(* How often a record waits in the merged channel. *)
Waits(s) == Cardinality(Places(s))

(* Each time a record was fed accounts for one place where it is used. *)
UsedInv ==
  \A s \in Slot :
    Waits(s) + sent[BucketOf(s)] + Member(BucketOf(s), sending) + Member(s, buckets) + Member(s, evicted)
      <= fed[s]

(* A record waits some number of times. *)
LEMMA WaitsType ==
  ASSUME TypeOK, NEW s
  PROVE  /\ Places(s) \subseteq 1 .. Len(merged)
         /\ IsFiniteSet(Places(s)) /\ Waits(s) \in Nat
<1>1. DOMAIN merged = 1 .. Len(merged) /\ Len(merged) \in Nat
  BY DEF TypeOK
<1>2. Places(s) \subseteq 1 .. Len(merged) /\ IsFiniteSet(1 .. Len(merged))
  BY <1>1, FS_Interval DEF Places
<1>. QED
  BY <1>2, FS_Subset, FS_CardinalityType DEF Waits

(* The record taken waits once less, and every other as before. *)
LEMMA TakeWaits ==
  ASSUME TypeOK, TypeOK', NEW s \in Slot, Take(s), NEW t \in Slot
  PROVE  Waits(t) = Waits(t)' + Member(t, {s}) /\ Waits(t)' \in Nat
<1>. DEFINE n == Len(merged)
            rest == Places(t) \ {1}
            back == [k \in Places(t)' |-> k + 1]
<1>1. merged \in Seq(Slot) /\ merged # << >> /\ s = Head(merged) /\ merged' = Tail(merged)
  BY DEF Take, TypeOK
<1>2. /\ n \in Nat \ {0} /\ DOMAIN merged = 1 .. n /\ s = merged[1]
      /\ DOMAIN merged' = 1 .. (n - 1)
      /\ \A k \in 1 .. (n - 1) : merged'[k] = merged[k + 1]
  BY <1>1
<1>. HIDE DEF n
<1>3. \A k : k \in Places(t)' <=> k \in 1 .. (n - 1) /\ merged[k + 1] = t
  BY <1>2 DEF Places
<1>4. \A k : k \in rest <=> k \in 2 .. n /\ merged[k] = t
  BY <1>2 DEF Places
<1>5. back \in Bijection(Places(t)', rest)
  <2>1. \A k \in Places(t)' : k \in Nat /\ back[k] \in rest
    BY <1>2, <1>3, <1>4
  <2>2. \A k, l \in Places(t)' : back[k] = back[l] => k = l
    BY <2>1
  <2>3. ASSUME NEW l \in rest
        PROVE  \E k \in Places(t)' : back[k] = l
    <3>1. l - 1 \in Places(t)' /\ (l - 1) + 1 = l
      BY <1>2, <1>3, <1>4
    <3>. QED
      BY <3>1
  <2>4. back \in Injection(Places(t)', rest)
    BY <2>1, <2>2 DEF Injection, IsInjective
  <2>5. back \in Surjection(Places(t)', rest)
    BY <2>1, <2>3 DEF Surjection
  <2>. QED
    BY <2>4, <2>5 DEF Bijection
<1>6. /\ IsFiniteSet(Places(t)) /\ Waits(t) = Cardinality(Places(t)) /\ Waits(t) \in Nat
      /\ IsFiniteSet(Places(t)') /\ Waits(t)' = Cardinality(Places(t)') /\ Waits(t)' \in Nat
  <2>1. IsFiniteSet(Places(t)')
    <3>1. Places(t)' \subseteq 1 .. (n - 1) /\ IsFiniteSet(1 .. (n - 1))
      BY <1>2, <1>3, FS_Interval
    <3>. QED
      BY <3>1, FS_Subset
  <2>. QED
    BY <2>1, WaitsType, FS_CardinalityType DEF Waits
<1>7. Waits(t)' = Cardinality(rest)
  <2>. HIDE DEF rest, back
  <2>. QED
    BY <1>5, <1>6, FS_Bijection DEF ExistsBijection
<1>8. 1 \in Places(t) <=> t = s
  BY <1>2 DEF Places
<1>9. Cardinality(rest) = IF 1 \in Places(t) THEN Cardinality(Places(t)) - 1 ELSE Cardinality(Places(t))
  BY <1>6, FS_RemoveElement
<1>. HIDE DEF rest, back
<1>. QED
  BY <1>6, <1>7, <1>8, <1>9 DEF Member

(* The record forwarded waits once more, and every other as before. *)
LEMMA ForwardWaits ==
  ASSUME TypeOK, NEW new \in Slot, merged' = Append(merged, new), NEW t \in Slot
  PROVE  Waits(t)' = Waits(t) + Member(t, {new})
<1>. DEFINE n == Len(merged)
<1>1. /\ n \in Nat /\ DOMAIN merged = 1 .. n /\ DOMAIN merged' = 1 .. (n + 1)
      /\ merged'[n + 1] = new
      /\ \A k \in 1 .. n : merged'[k] = merged[k]
  BY DEF TypeOK
<1>. HIDE DEF n
<1>2. \A k : k \in Places(t)' <=> k \in Places(t) \/ (k = n + 1 /\ t = new)
  BY <1>1 DEF Places
<1>3. n + 1 \notin Places(t)
  BY <1>1 DEF Places
<1>4. Places(t)' = IF t = new THEN Places(t) \cup {n + 1} ELSE Places(t)
  BY <1>2
<1>5. IsFiniteSet(Places(t)) /\ Waits(t) = Cardinality(Places(t)) /\ Waits(t)' = Cardinality(Places(t)')
      /\ Waits(t) \in Nat
  BY WaitsType DEF Waits
<1>6. Cardinality(Places(t) \cup {n + 1}) = Cardinality(Places(t)) + 1
  BY <1>3, <1>5, FS_AddElement
<1>. QED
  BY <1>4, <1>5, <1>6 DEF Member

(* An eviction leaves each of the slots open or evicted, not both. *)
LEMMA EvictPlaces ==
  ASSUME NEW slots, slots \subseteq Slot, NEW ends \in [Inputs -> 0 .. MaxEnd], NEW counts,
         Evict(slots, ends, counts), NEW t
  PROVE  Member(t, buckets') + Member(t, evicted') <= Member(t, slots) + Member(t, evicted)
<1>1. /\ buckets' = {s \in slots : ~Behind(s, ends)}
      /\ evicted' = evicted \cup {s \in slots : Behind(s, ends)}
  BY EvictSplits
<1>2. CASE t \notin slots
  <2>1. t \notin buckets' /\ (t \in evicted' <=> t \in evicted)
    BY <1>1, <1>2
  <2>. QED
    BY <1>2, <2>1 DEF Member
<1>3. CASE t \in slots /\ Behind(t, ends)
  <2>1. t \notin buckets' /\ t \in evicted'
    BY <1>1, <1>3
  <2>. QED
    BY <1>3, <2>1 DEF Member
<1>4. CASE t \in slots /\ ~Behind(t, ends)
  <2>1. t \in buckets' /\ (t \in evicted' <=> t \in evicted)
    BY <1>1, <1>4
  <2>. QED
    BY <1>4, <2>1 DEF Member
<1>. QED
  BY <1>2, <1>3, <1>4

(* What a slot figures in is a natural number. *)
LEMMA UsesType ==
  ASSUME TypeOK, NEW s \in Slot
  PROVE  /\ Waits(s) \in Nat /\ sent[BucketOf(s)] \in Nat /\ fed[s] \in Nat
         /\ \A x, S : Member(x, S) \in {0, 1}
BY WaitsType, BucketType DEF TypeOK, Member

(* Every step keeps the uses of a record within what was fed. *)
LEMMA StepUses ==
  ASSUME IInv, IInv', UsedInv, [Next]_vars
  PROVE  UsedInv'
<1>. TypeOK /\ TypeOK'
  BY DEF IInv
<1>1. ASSUME UNCHANGED <<fed, merged, buckets, sending, sent, evicted>>
      PROVE  UsedInv'
  BY <1>1 DEF UsedInv, Waits, Places, Member
<1>2. CASE \E i \in Inputs : ForwarderEnds(i)
  BY <1>1, <1>2 DEF ForwarderEnds
<1>3. ASSUME NEW i \in Inputs, NEW b \in Bucket, Forward(i, b)
      PROVE  UsedInv'
  <2>. DEFINE new == SlotAt(i, b)
  <2>1. /\ \A t \in Slot : fed'[t] = IF t = new THEN fed[t] + 1 ELSE fed[t]
        /\ merged' = Append(merged, new) /\ new \in Slot
        /\ buckets' = buckets /\ sending' = sending /\ sent' = sent /\ evicted' = evicted
    BY <1>3, ForwardFeeds DEF IInv, Forward
  <2>. HIDE DEF new
  <2>. SUFFICES ASSUME NEW t \in Slot
                PROVE  Waits(t)' + sent[BucketOf(t)] + Member(BucketOf(t), sending)
                         + Member(t, buckets) + Member(t, evicted) <= fed'[t]
    BY <2>1 DEF UsedInv, Member
  <2>2. Waits(t)' = Waits(t) + Member(t, {new}) /\ fed'[t] = fed[t] + Member(t, {new})
    <3>1. fed[t] \in Nat
      BY UsesType
    <3>. QED
      BY <2>1, <3>1, ForwardWaits DEF Member
  <2>3. \A m, v, w, x, y, z, f \in Nat : v + w + x + y + z <= f => (v + m) + w + x + y + z <= f + m
    OBVIOUS
  <2>4. Waits(t) + sent[BucketOf(t)] + Member(BucketOf(t), sending) + Member(t, buckets)
          + Member(t, evicted) <= fed[t]
    BY DEF UsedInv
  <2>5. \A x, S : Member(x, S) \in Nat
    BY UsesType
  <2>. QED
    BY <2>2, <2>3, <2>4, <2>5, UsesType
<1>4. ASSUME NEW s \in Slot, TakeRefused(s) \/ TakeFill(s) \/ TakeInvalid(s)
      PROVE  UsedInv'
  <2>1. /\ Take(s) /\ sending' = sending /\ sent' = sent /\ fed' = fed
        /\ maxEnd' \in [Inputs -> 0 .. MaxEnd]
    BY <1>4 DEF TakeRefused, TakeFill, TakeInvalid, Take, TypeOK
  <2>2. PICK slots, counts : slots \subseteq buckets \cup {s} /\ Evict(slots, maxEnd', counts)
    <3>1. WithoutBucket(BucketOf(s)) \subseteq buckets
      BY DEF WithoutBucket
    <3>. QED
      BY <1>4, <3>1 DEF TakeRefused, TakeFill, TakeInvalid
  <2>3. slots \subseteq Slot
    BY <2>2 DEF TypeOK
  <2>. SUFFICES ASSUME NEW t \in Slot
                PROVE  Waits(t)' + sent[BucketOf(t)] + Member(BucketOf(t), sending)
                         + Member(t, buckets') + Member(t, evicted') <= fed[t]
    BY <2>1 DEF UsedInv, Member
  <2>4. Member(t, buckets') + Member(t, evicted') <= Member(t, slots) + Member(t, evicted)
    BY <2>1, <2>2, <2>3, EvictPlaces
  <2>5. Member(t, slots) <= Member(t, buckets) + Member(t, {s})
    BY <2>2 DEF Member
  <2>6. Waits(t) = Waits(t)' + Member(t, {s}) /\ Waits(t)' \in Nat
    BY <2>1, TakeWaits
  <2>7. Waits(t) + sent[BucketOf(t)] + Member(BucketOf(t), sending) + Member(t, buckets)
          + Member(t, evicted) <= fed[t]
    BY DEF UsedInv
  <2>8. \A m, w, x, y, bb, b, e, ee, l, f \in Nat :
          bb + ee <= l + e /\ l <= b + m /\ (w + m) + x + y + b + e <= f => w + x + y + bb + ee <= f
    OBVIOUS
  <2>9. \A x, S : Member(x, S) \in Nat
    BY UsesType
  <2>10. (Waits(t)' + Member(t, {s})) + sent[BucketOf(t)] + Member(BucketOf(t), sending)
           + Member(t, buckets) + Member(t, evicted) <= fed[t]
    BY <2>6, <2>7
  <2>11. sent[BucketOf(t)] \in Nat /\ fed[t] \in Nat
    BY UsesType
  <2>. QED
    BY <2>4, <2>5, <2>6, <2>8, <2>9, <2>10, <2>11
<1>5. ASSUME NEW s \in Slot, TakeComplete(s)
      PROVE  UsedInv'
  <2>. DEFINE b == BucketOf(s)
  <2>1. /\ Take(s) /\ Completes(s) /\ sending = {} /\ sending' = {b}
        /\ sent' = sent /\ fed' = fed /\ evicted' = evicted /\ buckets' = WithoutBucket(b)
    BY <1>5 DEF TakeComplete, Take, IInv, SendingOne
  <2>. SUFFICES ASSUME NEW t \in Slot
                PROVE  Waits(t)' + sent[BucketOf(t)] + Member(BucketOf(t), {b})
                         + Member(t, buckets') + Member(t, evicted) <= fed[t]
    BY <2>1 DEF UsedInv, Member
  <2>2. Waits(t) = Waits(t)' + Member(t, {s}) /\ Waits(t)' \in Nat
    BY <2>1, TakeWaits
  <2>3. Member(BucketOf(t), {b}) + Member(t, buckets') <= Member(t, {s}) + Member(t, buckets)
    <3>1. CASE BucketOf(t) # b
      <4>1. t \in buckets' <=> t \in buckets
        BY <2>1, <3>1 DEF WithoutBucket
      <4>. QED
        BY <3>1, <4>1 DEF Member
    <3>2. CASE BucketOf(t) = b
      <4>1. t \notin buckets'
        BY <2>1, <3>2 DEF WithoutBucket
      <4>2. PICK x \in buckets \cup {s} : BucketOf(x) = b /\ x.input = t.input
        BY <2>1 DEF Completes, FilledBy, Slot
      <4>3. x \in Slot
        BY DEF TypeOK
      <4>4. x = t
        BY <3>2, <4>2, <4>3, SlotIsPair
      <4>. QED
        BY <3>2, <4>1, <4>2, <4>4 DEF Member
    <3>. QED
      BY <3>1, <3>2
  <2>4. Waits(t) + sent[BucketOf(t)] + Member(BucketOf(t), sending) + Member(t, buckets)
          + Member(t, evicted) <= fed[t]
    BY DEF UsedInv
  <2>5. Member(BucketOf(t), sending) = 0
    BY <2>1 DEF Member
  <2>6. \A m, w, x, yy, bb, b1, e, f \in Nat :
          yy + bb <= m + b1 /\ (w + m) + x + 0 + b1 + e <= f => w + x + yy + bb + e <= f
    OBVIOUS
  <2>7. \A x, S : Member(x, S) \in Nat
    BY UsesType
  <2>8. (Waits(t)' + Member(t, {s})) + sent[BucketOf(t)] + 0
           + Member(t, buckets) + Member(t, evicted) <= fed[t]
    BY <2>2, <2>4, <2>5
  <2>9. sent[BucketOf(t)] \in Nat /\ fed[t] \in Nat
    BY UsesType
  <2>. HIDE DEF b
  <2>. QED
    BY <2>2, <2>3, <2>6, <2>7, <2>8, <2>9
<1>6. CASE SendDone
  <2>1. PICK b \in Bucket : sending = {b}
    BY <1>6 DEF SendDone, IInv, SendingOne
  <2>2. /\ sent' = [sent EXCEPT ![b] = @ + 1] /\ sending' = {}
        /\ fed' = fed /\ merged' = merged
        /\ Evict(buckets, maxEnd, metered) /\ maxEnd \in [Inputs -> 0 .. MaxEnd]
        /\ buckets \subseteq Slot /\ sent \in [Bucket -> Nat]
    BY <1>6, <2>1 DEF SendDone, TypeOK
  <2>. SUFFICES ASSUME NEW t \in Slot
                PROVE  Waits(t) + sent'[BucketOf(t)] + Member(BucketOf(t), {})
                         + Member(t, buckets') + Member(t, evicted') <= fed[t]
    BY <2>2 DEF UsedInv, Member, Waits, Places
  <2>3. Member(t, buckets') + Member(t, evicted') <= Member(t, buckets) + Member(t, evicted)
    BY <2>2, EvictPlaces
  <2>4. sent'[BucketOf(t)] = sent[BucketOf(t)] + Member(BucketOf(t), sending)
    <3>1. BucketOf(t) \in Bucket /\ sent[BucketOf(t)] \in Nat
      BY BucketType, UsesType
    <3>. QED
      BY <2>1, <2>2, <3>1 DEF Member
  <2>5. Waits(t) + sent[BucketOf(t)] + Member(BucketOf(t), sending) + Member(t, buckets)
          + Member(t, evicted) <= fed[t]
    BY DEF UsedInv
  <2>6. Member(BucketOf(t), {}) = 0
    BY DEF Member
  <2>7. \A w, x, y, b1, bb, e, ee, f \in Nat :
          bb + ee <= b1 + e /\ w + x + y + b1 + e <= f => w + (x + y) + 0 + bb + ee <= f
    OBVIOUS
  <2>8. \A x, S : Member(x, S) \in Nat
    BY UsesType
  <2>. QED
    BY <2>3, <2>4, <2>5, <2>6, <2>7, <2>8, UsesType
<1>7. CASE SendFails \/ JoinEnds \/ UNCHANGED vars
  BY <1>1, <1>7 DEF SendFails, JoinEnds, vars
<1>. QED
  BY <1>2, <1>3, <1>4, <1>5, <1>6, <1>7 DEF Next

(* A join sends whole buckets of what it was fed: a bucket goes downstream *)
(* at most as often as each of its inputs fed it, and a record in it that  *)
(* came once is in no open bucket and in none that was evicted.            *)
THEOREM RecordsAreUsedOnce == Spec => []UsedOnce
<1>1. Init => UsedInv
  <2>. SUFFICES ASSUME Init, NEW s \in Slot
                PROVE  Waits(s) + sent[BucketOf(s)] + Member(BucketOf(s), sending)
                         + Member(s, buckets) + Member(s, evicted) <= fed[s]
    BY DEF UsedInv
  <2>1. Places(s) = {}
    BY DEF Init, Places
  <2>2. Waits(s) = 0
    BY <2>1, FS_EmptySet DEF Waits
  <2>3. /\ sent[BucketOf(s)] = 0 /\ fed[s] = 0
        /\ Member(BucketOf(s), sending) = 0 /\ Member(s, buckets) = 0 /\ Member(s, evicted) = 0
    BY BucketType DEF Init, Member
  <2>. QED
    BY <2>2, <2>3
<1>2. TypeOK /\ UsedInv => UsedOnce
  <2>. SUFFICES ASSUME TypeOK, UsedInv, NEW i \in Inputs, NEW b \in Bucket
                PROVE  sent[b] + Member(b, sending) + Member(SlotAt(i, b), buckets)
                         + Member(SlotAt(i, b), evicted) <= fed[SlotAt(i, b)]
    BY DEF UsedOnce
  <2>. DEFINE s == SlotAt(i, b)
  <2>1. s \in Slot /\ BucketOf(s) = b
    BY SlotAtBucket
  <2>. HIDE DEF s
  <2>2. Waits(s) + sent[b] + Member(b, sending) + Member(s, buckets) + Member(s, evicted) <= fed[s]
    BY <2>1 DEF UsedInv
  <2>3. \A v, w, x, y, z, f \in Nat : v + w + x + y + z <= f => w + x + y + z <= f
    OBVIOUS
  <2>4. Waits(s) \in Nat /\ sent[b] \in Nat /\ fed[s] \in Nat /\ \A x, S : Member(x, S) \in Nat
    BY <2>1, UsesType
  <2>5. sent[b] + Member(b, sending) + Member(s, buckets) + Member(s, evicted) <= fed[s]
    BY <2>2, <2>3, <2>4
  <2>. QED
    BY <2>5 DEF s
<1>3. IInv => TypeOK
  BY DEF IInv
<1>. QED
  BY <1>1, <1>2, <1>3, InitInductive, StepKeeps, StepUses, PTL DEF Spec

-----------------------------------------------------------------------------
(* Accounting. *)

(* Sets of slots are finite. *)
LEMMA FiniteSlots ==
  ASSUME NEW slots, slots \subseteq Slot
  PROVE  IsFiniteSet(slots) /\ Cardinality(slots) \in Nat
BY FiniteData, FS_Subset, FS_CardinalityType

(* A join has at least one input. *)
LEMMA InputsCounted == Cardinality(Inputs) \in Nat \ {0}
<1>1. Cardinality(Inputs) \in Nat
  BY FS_CardinalityType, JoinAssumption
<1>2. Cardinality(Inputs) # 0
  BY FS_EmptySet, JoinAssumption
<1>. QED
  BY <1>1, <1>2

(* The size of a finite set less a part of it. *)
LEMMA CardinalityWithout ==
  ASSUME NEW S, IsFiniteSet(S), NEW T, T \subseteq S
  PROVE  /\ IsFiniteSet(S \ T) /\ Cardinality(S \ T) \in Nat
         /\ Cardinality(S \ T) = Cardinality(S) - Cardinality(T)
<1>1. S \cap T = T
  OBVIOUS
<1>. QED
  BY <1>1, FS_Difference, FS_CardinalityType

(* Each of the buckets evicted has a slot filled and one that is not, so   *)
(* the slots they take with them are at least one and fewer than all each. *)
LEMMA StaleSlots ==
  ASSUME NEW slots, slots \subseteq Slot,
         \A b \in Bucket : FilledBy(slots, b) # Inputs,
         NEW stale, stale \subseteq Open(slots)
  PROVE  LET removed == {s \in slots : BucketOf(s) \in stale}
             n == Cardinality(Inputs)
         IN  /\ Cardinality(stale) \in Nat
             /\ Cardinality(removed) \in Nat
             /\ Cardinality({s \in slots : BucketOf(s) \notin stale})
                  = Cardinality(slots) - Cardinality(removed)
             /\ Cardinality(stale) <= Cardinality(removed)
             /\ Cardinality(removed) <= (n - 1) * Cardinality(stale)
<1>. DEFINE removed == {s \in slots : BucketOf(s) \in stale}
            rest == {s \in slots : BucketOf(s) \notin stale}
            all == Inputs \X stale
            pair == [s \in removed |-> <<s.input, BucketOf(s)>>]
            there == {pair[s] : s \in removed}
            absent == all \ there
            n == Cardinality(Inputs)
<1>1. /\ stale \subseteq Bucket /\ IsFiniteSet(stale) /\ Cardinality(stale) \in Nat
      /\ IsFiniteSet(slots) /\ IsFiniteSet(removed)
      /\ Cardinality(slots) \in Nat /\ Cardinality(removed) \in Nat
  BY OpenType, FiniteSlots
<1>2. Cardinality(rest) = Cardinality(slots) - Cardinality(removed)
  <2>1. rest = slots \ removed /\ removed \subseteq slots
    OBVIOUS
  <2>. HIDE DEF rest, removed
  <2>. QED
    BY <1>1, <2>1, CardinalityWithout
<1>3. Cardinality(stale) <= Cardinality(removed)
  <2>. DEFINE f == [s \in removed |-> BucketOf(s)]
  <2>1. \A b \in stale : \E s \in removed : f[s] = b
    BY DEF Open
  <2>2. f \in Surjection(removed, stale)
    BY <2>1 DEF Surjection
  <2>. QED
    BY <1>1, <2>2, FS_Surjection
<1>4. /\ IsFiniteSet(all) /\ Cardinality(all) = n * Cardinality(stale)
      /\ Cardinality(all) \in Nat /\ n \in Nat \ {0}
  BY <1>1, FS_Product, FS_CardinalityType, InputsCounted, JoinAssumption
<1>5. \A s, t \in removed : pair[s] = pair[t] => s = t
  BY SlotIsPair
<1>6. there \subseteq all /\ pair \in Bijection(removed, there)
  <2>1. \A s \in removed : pair[s] \in all
    BY DEF Slot
  <2>2. pair \in Injection(removed, there)
    BY <1>5 DEF Injection, IsInjective
  <2>3. pair \in Surjection(removed, there)
    BY DEF Surjection
  <2>. QED
    BY <2>1, <2>2, <2>3 DEF Bijection
<1>7. Cardinality(there) = Cardinality(removed)
  BY <1>1, <1>6, FS_Bijection DEF ExistsBijection
<1>8. /\ IsFiniteSet(absent) /\ Cardinality(absent) \in Nat
      /\ Cardinality(absent) = Cardinality(all) - Cardinality(removed)
  <2>. HIDE DEF all, there, removed
  <2>. QED
    BY <1>4, <1>6, <1>7, CardinalityWithout
<1>9. Cardinality(stale) <= Cardinality(absent)
  <2>. DEFINE g == [p \in absent |-> p[2]]
  <2>1. ASSUME NEW b \in stale
        PROVE  \E p \in absent : g[p] = b
    <3>1. FilledBy(slots, b) \subseteq Inputs /\ FilledBy(slots, b) # Inputs
      BY <1>1 DEF FilledBy, Slot
    <3>2. PICK i \in Inputs : i \notin FilledBy(slots, b)
      BY <3>1
    <3>3. <<i, b>> \notin there
      BY <3>2 DEF FilledBy
    <3>. QED
      BY <3>3
  <2>2. g \in Surjection(absent, stale)
    BY <2>1 DEF Surjection
  <2>. QED
    BY <1>8, <2>2, FS_Surjection
<1>. HIDE DEF removed, rest, all, pair, there, absent, n
<1>10. (n - 1) * Cardinality(stale) = n * Cardinality(stale) - Cardinality(stale)
  BY <1>1, <1>4
<1>11. Cardinality(removed) <= (n - 1) * Cardinality(stale)
  BY <1>1, <1>4, <1>8, <1>9, <1>10
<1>. QED
  BY <1>1, <1>2, <1>3, <1>11 DEF removed, rest, n

(* A complete bucket takes one slot of each input with it. *)
LEMMA WholeSlots ==
  ASSUME buckets \subseteq Slot, NEW s \in Slot, s \notin buckets, Completes(s)
  PROVE  Cardinality(WithoutBucket(BucketOf(s))) + Cardinality(Inputs) = Cardinality(buckets) + 1
<1>. DEFINE b == BucketOf(s)
            slots == buckets \cup {s}
            whole == {x \in slots : BucketOf(x) = b}
            f == [x \in whole |-> x.input]
<1>1. /\ IsFiniteSet(slots) /\ IsFiniteSet(whole) /\ IsFiniteSet(buckets)
      /\ Cardinality(slots) \in Nat /\ Cardinality(whole) \in Nat /\ Cardinality(buckets) \in Nat
  BY FiniteSlots
<1>2. Inputs = {x.input : x \in whole}
  BY DEF Completes, FilledBy
<1>3. \A x, y \in whole : f[x] = f[y] => x = y
  BY SlotIsPair
<1>4. f \in Bijection(whole, Inputs)
  <2>1. f \in Injection(whole, Inputs)
    BY <1>2, <1>3 DEF Injection, IsInjective
  <2>2. f \in Surjection(whole, Inputs)
    BY <1>2 DEF Surjection
  <2>. QED
    BY <2>1, <2>2 DEF Bijection
<1>5. Cardinality(Inputs) = Cardinality(whole)
  BY <1>1, <1>4, FS_Bijection DEF ExistsBijection
<1>6. WithoutBucket(b) = slots \ whole /\ whole \subseteq slots
  BY DEF WithoutBucket
<1>7. Cardinality(WithoutBucket(b)) = Cardinality(slots) - Cardinality(whole)
  BY <1>1, <1>6, CardinalityWithout
<1>8. Cardinality(slots) = Cardinality(buckets) + 1
  BY <1>1, FS_AddElement
<1>. QED
  BY <1>1, <1>5, <1>7, <1>8

(* What an eviction changes in the counts. *)
LEMMA EvictCounts ==
  ASSUME NEW slots, slots \subseteq Slot,
         \A b \in Bucket : FilledBy(slots, b) # Inputs,
         NEW ends,
         NEW counts \in [DropReason -> Nat],
         Evict(slots, ends, counts)
  PROVE  \E k, r \in Nat :
           /\ k <= r /\ r <= (Cardinality(Inputs) - 1) * k
           /\ Cardinality(buckets') = Cardinality(slots) - r
           /\ metered'["incomplete"] = counts["incomplete"] + k
           /\ metered'["capped"] = counts["capped"]
           /\ metered'["invalid"] = counts["invalid"]
<1>. DEFINE stale == {b \in Open(slots) : b.end <= Least(ends)}
            removed == {s \in slots : BucketOf(s) \in stale}
            n == Cardinality(Inputs)
<1>1. /\ buckets' = {s \in slots : BucketOf(s) \notin stale}
      /\ metered' = [counts EXCEPT !["incomplete"] = @ + Cardinality(stale)]
      /\ stale \subseteq Open(slots)
  <2>1. slots \ removed = {s \in slots : BucketOf(s) \notin stale}
    OBVIOUS
  <2>. QED
    BY <2>1 DEF Evict
<1>. HIDE DEF stale
<1>2. /\ Cardinality(stale) \in Nat
      /\ Cardinality(removed) \in Nat
      /\ Cardinality(buckets') = Cardinality(slots) - Cardinality(removed)
      /\ Cardinality(stale) <= Cardinality(removed)
      /\ Cardinality(removed) <= (n - 1) * Cardinality(stale)
  BY <1>1, StaleSlots
<1>. HIDE DEF removed
<1>3. /\ metered'["incomplete"] = counts["incomplete"] + Cardinality(stale)
      /\ metered'["capped"] = counts["capped"]
      /\ metered'["invalid"] = counts["invalid"]
  BY <1>1 DEF DropReason
<1>. QED
  BY <1>2, <1>3

(* What the join still holds, has refused or lost to a record that came    *)
(* again, and the buckets it finished.                                     *)
Held == Len(merged) + metered["capped"] + Cardinality(buckets) + replaced

Finished == Total(sent) + Cardinality(sending) + metered["invalid"]

(* The accounts balance: of `total` records, `inc` buckets were evicted,   *)
(* with at least one record and fewer than n of them each.                 *)
Balanced(total, n, held, finished, inc) ==
  /\ total >= held + n * finished + inc
  /\ total <= held + n * finished + (n - 1) * inc

CountInv ==
  /\ IsFiniteSet(Copies(fed)) /\ IsFiniteSet(Copies(sent))
  /\ Balanced(Total(fed), Cardinality(Inputs), Held, Finished, metered["incomplete"])

(* One more of one makes one more of all. *)
LEMMA TotalGrows ==
  ASSUME NEW D, NEW f \in [D -> Nat], IsFiniteSet(Copies(f)), NEW x \in D,
         NEW g, g = [f EXCEPT ![x] = @ + 1]
  PROVE  /\ IsFiniteSet(Copies(g))
         /\ Total(f) \in Nat /\ Total(g) = Total(f) + 1
<1>. DEFINE new == <<x, f[x] + 1>>
<1>1. /\ Copies(f) \subseteq D \X Nat
      /\ \A y \in D, k \in Nat : <<y, k>> \in Copies(f) <=> 1 <= k /\ k <= f[y]
  BY DEF Copies
<1>2. /\ Copies(g) \subseteq D \X Nat
      /\ \A y \in D, k \in Nat : <<y, k>> \in Copies(g) <=> 1 <= k /\ k <= g[y]
  BY DEF Copies
<1>3. \A y \in D : f[y] \in Nat /\ g[y] = IF y = x THEN f[y] + 1 ELSE f[y]
  OBVIOUS
<1>4. new \notin Copies(f) /\ new \in D \X Nat
  BY <1>1, <1>3
<1>5. \A k, m \in Nat : k <= m + 1 <=> k <= m \/ k = m + 1
  OBVIOUS
<1>6. ASSUME NEW y \in D, NEW k \in Nat
      PROVE  <<y, k>> \in Copies(g) <=> <<y, k>> \in Copies(f) \/ <<y, k>> = new
  <2>1. CASE y = x
    <3>1. g[y] = f[y] + 1 /\ f[y] \in Nat /\ (<<y, k>> = new <=> k = f[y] + 1)
      BY <1>3, <2>1
    <3>2. 1 <= f[y] + 1
      BY <3>1
    <3>. QED
      BY <1>1, <1>2, <1>5, <3>1, <3>2
  <2>2. CASE y # x
    BY <1>1, <1>2, <1>3, <2>2
  <2>. QED
    BY <2>1, <2>2
<1>. HIDE DEF new
<1>7. Copies(g) = Copies(f) \cup {new}
  <2>1. ASSUME NEW p \in D \X Nat
        PROVE  p \in Copies(g) <=> p \in Copies(f) \/ p = new
    <3>1. p[1] \in D /\ p[2] \in Nat /\ p = <<p[1], p[2]>>
      OBVIOUS
    <3>. QED
      BY <1>6, <3>1, Zenon
  <2>. QED
    BY <1>1, <1>2, <1>4, <2>1, Zenon
<1>8. /\ IsFiniteSet(Copies(f) \cup {new})
      /\ Cardinality(Copies(f) \cup {new}) = Cardinality(Copies(f)) + 1
  BY <1>4, FS_AddElement
<1>9. Cardinality(Copies(f)) \in Nat
  BY FS_CardinalityType
<1>. QED
  BY <1>7, <1>8, <1>9 DEF Total

(* Evicting k buckets with r records, at least one and fewer than n of *)
(* them each, keeps the accounts.                                      *)
LEMMA BalancedEvict ==
  ASSUME NEW total \in Nat, NEW n \in Nat \ {0}, NEW held \in Nat, NEW finished \in Nat,
         NEW inc \in Nat, NEW k \in Nat, NEW r \in Nat,
         k <= r, r <= (n - 1) * k,
         Balanced(total, n, held, finished, inc)
  PROVE  Balanced(total, n, held - r, finished, inc + k)
<1>1. /\ (n - 1) * (inc + k) = (n - 1) * inc + (n - 1) * k
      /\ (n - 1) * inc \in Nat /\ (n - 1) * k \in Nat /\ n * finished \in Nat
  OBVIOUS
<1>. QED
  BY <1>1 DEF Balanced

(* A bucket is finished: n records leave what is held for one more of the  *)
(* finished.                                                               *)
LEMMA BalancedFinish ==
  ASSUME NEW total \in Nat, NEW n \in Nat \ {0}, NEW held \in Nat, NEW finished \in Nat,
         NEW inc \in Nat,
         Balanced(total, n, held, finished, inc)
  PROVE  Balanced(total, n, held - n, finished + 1, inc)
<1>1. /\ n * (finished + 1) = n * finished + n
      /\ n * finished \in Nat /\ (n - 1) * inc \in Nat
  OBVIOUS
<1>. QED
  BY <1>1 DEF Balanced

(* A record that enters and is held keeps the accounts. *)
LEMMA BalancedFeed ==
  ASSUME NEW total \in Nat, NEW n \in Nat \ {0}, NEW held \in Nat, NEW finished \in Nat,
         NEW inc \in Nat,
         Balanced(total, n, held, finished, inc)
  PROVE  Balanced(total + 1, n, held + 1, finished, inc)
<1>1. n * finished \in Nat /\ (n - 1) * inc \in Nat
  OBVIOUS
<1>. QED
  BY <1>1 DEF Balanced

(* Every figure of the accounts is a natural number. *)
LEMMA CountsType ==
  ASSUME TypeOK
  PROVE  /\ Len(merged) \in Nat /\ replaced \in Nat
         /\ Cardinality(buckets) \in Nat /\ Cardinality(sending) \in Nat
         /\ metered["capped"] \in Nat /\ metered["invalid"] \in Nat
         /\ metered["incomplete"] \in Nat
         /\ Held \in Nat
         /\ CountInv => Total(fed) \in Nat /\ Total(sent) \in Nat /\ Finished \in Nat
<1>1. Cardinality(buckets) \in Nat /\ Cardinality(sending) \in Nat
  BY FiniteData, FS_Subset, FS_CardinalityType DEF TypeOK
<1>2. /\ Len(merged) \in Nat /\ replaced \in Nat
      /\ metered["capped"] \in Nat /\ metered["invalid"] \in Nat
      /\ metered["incomplete"] \in Nat
  BY DEF TypeOK, DropReason
<1>3. CountInv => Total(fed) \in Nat /\ Total(sent) \in Nat
  BY FS_CardinalityType DEF CountInv, Total
<1>4. \A u, v, w, x \in Nat : u + v + w + x \in Nat /\ u + v + w \in Nat
  OBVIOUS
<1>5. Held \in Nat
  BY <1>1, <1>2, <1>4, Zenon DEF Held
<1>6. CountInv => Finished \in Nat
  BY <1>1, <1>2, <1>3, <1>4, Zenon DEF Finished
<1>. QED
  BY <1>1, <1>2, <1>3, <1>5, <1>6

(* Taking a record makes the channel shorter by one. *)
LEMMA TakeShortens ==
  ASSUME TypeOK, NEW s \in Slot, Take(s)
  PROVE  /\ Len(merged) \in Nat \ {0} /\ Len(merged') = Len(merged) - 1
         /\ fed' = fed /\ sent' = sent /\ pc = "select"
         /\ s \notin buckets => replaced' = replaced
         /\ s \in buckets => replaced' = replaced + 1
<1>1. merged \in Seq(Slot) /\ merged # << >> /\ merged' = Tail(merged) /\ replaced \in Nat
  BY DEF Take, TypeOK
<1>. QED
  BY <1>1 DEF Take

(* One more record has been fed, and it waits in the channel. *)
LEMMA ForwardCounts ==
  ASSUME TypeOK, CountInv, NEW i \in Inputs, NEW b \in Bucket, Forward(i, b)
  PROVE  CountInv'
<1>1. /\ fed \in [Slot -> Nat] /\ SlotAt(i, b) \in Slot /\ merged \in Seq(Slot)
      /\ fed' = [fed EXCEPT ![SlotAt(i, b)] = @ + 1]
      /\ merged' = Append(merged, SlotAt(i, b))
  BY SlotAtBucket DEF Forward, TypeOK
<1>2. IsFiniteSet(Copies(fed')) /\ Total(fed') = Total(fed) + 1
  BY <1>1, TotalGrows DEF CountInv
<1>3. Len(merged') = Len(merged) + 1
  BY <1>1
<1>4. buckets' = buckets /\ sending' = sending /\ sent' = sent /\ metered' = metered
      /\ replaced' = replaced
  BY DEF Forward
<1>5. Held' = Held + 1 /\ Finished' = Finished
  <2>. DEFINE w == Len(merged)
              x == metered["capped"]
              y == Cardinality(buckets)
  <2>1. w \in Nat /\ x \in Nat /\ y \in Nat /\ replaced \in Nat
    BY CountsType
  <2>2. Held = w + x + y + replaced /\ Held' = (w + 1) + x + y + replaced
    BY <1>3, <1>4 DEF Held
  <2>3. Finished' = Finished
    BY <1>4 DEF Finished
  <2>. HIDE DEF w, x, y
  <2>. QED
    BY <2>1, <2>2, <2>3
<1>6. Balanced(Total(fed) + 1, Cardinality(Inputs), Held + 1, Finished, metered["incomplete"])
  BY CountsType, InputsCounted, BalancedFeed DEF CountInv
<1>. QED
  BY <1>2, <1>4, <1>5, <1>6 DEF CountInv

(* A turn of the loop that ends in an eviction.  Before it, `held` records *)
(* were held or refused and `finished` buckets were finished, counting the *)
(* slots this turn evicts from.                                            *)
LEMMA TurnCounts ==
  ASSUME TypeOK, TypeOK',
         NEW slots, slots \subseteq Slot,
         \A b \in Bucket : FilledBy(slots, b) # Inputs,
         NEW ends,
         NEW counts \in [DropReason -> Nat],
         Evict(slots, ends, counts),
         fed' = fed, IsFiniteSet(Copies(sent)'),
         CountInv,
         counts["incomplete"] = metered["incomplete"],
         Len(merged') + counts["capped"] + Cardinality(slots) + replaced' \in Nat,
         Total(sent)' + Cardinality(sending') + counts["invalid"] \in Nat,
         Balanced(Total(fed), Cardinality(Inputs),
                  Len(merged') + counts["capped"] + Cardinality(slots) + replaced',
                  Total(sent)' + Cardinality(sending') + counts["invalid"],
                  metered["incomplete"])
  PROVE  CountInv'
<1>1. PICK k \in Nat, r \in Nat :
           /\ k <= r /\ r <= (Cardinality(Inputs) - 1) * k
           /\ Cardinality(buckets') = Cardinality(slots) - r
           /\ metered'["incomplete"] = counts["incomplete"] + k
           /\ metered'["capped"] = counts["capped"]
           /\ metered'["invalid"] = counts["invalid"]
  BY EvictCounts
<1>. DEFINE held == Len(merged') + counts["capped"] + Cardinality(slots) + replaced'
            finished == Total(sent)' + Cardinality(sending') + counts["invalid"]
<1>2. Total(fed)' = Total(fed) /\ Copies(fed)' = Copies(fed) /\ Total(fed) \in Nat
  BY CountsType DEF Total, Copies
<1>3. Balanced(Total(fed), Cardinality(Inputs), held - r, finished, metered["incomplete"] + k)
  <2>1. held \in Nat /\ finished \in Nat
        /\ Balanced(Total(fed), Cardinality(Inputs), held, finished, metered["incomplete"])
    OBVIOUS
  <2>. HIDE DEF held, finished
  <2>. QED
    BY <1>1, <1>2, <2>1, BalancedEvict, InputsCounted, CountsType
<1>4. Held' = held - r /\ Finished' = finished
  <2>1. /\ Len(merged') \in Nat /\ counts["capped"] \in Nat /\ Cardinality(slots) \in Nat
        /\ replaced' \in Nat
    <3>1. Len(merged') \in Nat /\ replaced' \in Nat
      BY DEF TypeOK
    <3>2. counts["capped"] \in Nat
      BY DEF DropReason
    <3>3. Cardinality(slots) \in Nat
      BY FiniteSlots
    <3>. QED
      BY <3>1, <3>2, <3>3
  <2>. DEFINE v == Len(merged')
              w == counts["capped"]
              x == Cardinality(slots)
              y == replaced'
  <2>2. held = v + w + x + y
    OBVIOUS
  <2>3. Held' = v + w + (x - r) + y
    BY <1>1 DEF Held
  <2>4. Held' = held - r
    <3>1. v \in Nat /\ w \in Nat /\ x \in Nat /\ y \in Nat /\ r \in Nat
      BY <2>1
    <3>. HIDE DEF held, v, w, x, y
    <3>. QED
      BY <2>2, <2>3, <3>1
  <2>. QED
    BY <1>1, <2>4 DEF Finished
<1>. HIDE DEF held, finished
<1>. QED
  BY <1>1, <1>2, <1>3, <1>4 DEF CountInv

(* Every step keeps the accounts. *)
LEMMA StepCounts ==
  ASSUME IInv, CountInv, [Next]_vars
  PROVE  CountInv'
<1>. DEFINE total == Total(fed)
            n == Cardinality(Inputs)
            inc == metered["incomplete"]
            capped == metered["capped"]
            invalid == metered["invalid"]
            waits == Len(merged)
            open == Cardinality(buckets)
            left == Total(sent) + Cardinality(sending)
<1>. /\ TypeOK /\ TypeOK'
  BY StepType DEF IInv
<1>a. /\ total \in Nat /\ n \in Nat \ {0} /\ inc \in Nat
      /\ Held \in Nat /\ Finished \in Nat
      /\ Balanced(total, n, Held, Finished, inc)
  BY CountsType, InputsCounted DEF CountInv
<1>b. /\ waits \in Nat /\ open \in Nat /\ capped \in Nat /\ invalid \in Nat /\ left \in Nat
      /\ replaced \in Nat /\ inc \in Nat
      /\ Held = waits + capped + open + replaced
      /\ Finished = left + invalid
  <2>1. /\ waits \in Nat /\ open \in Nat /\ capped \in Nat /\ invalid \in Nat
        /\ replaced \in Nat /\ inc \in Nat
    BY CountsType
  <2>2. left \in Nat
    <3>1. Total(sent) \in Nat /\ Cardinality(sending) \in Nat
      BY CountsType
    <3>. QED
      BY <3>1
  <2>3. Held = waits + capped + open + replaced
    BY DEF Held
  <2>4. Finished = left + invalid
    BY DEF Finished
  <2>. QED
    BY <2>1, <2>2, <2>3, <2>4
<1>c. /\ buckets \subseteq Slot /\ \A b \in Bucket : FilledBy(buckets, b) # Inputs
      /\ metered \in [DropReason -> Nat] /\ sending \subseteq Bucket
  BY DEF IInv, OpenIncomplete, TypeOK
<1>d. ASSUME NEW s \in Slot, s \in buckets
      PROVE  BucketOf(s) \in Open(buckets) /\ ~Completes(s)
  <2>1. buckets \cup {s} = buckets /\ BucketOf(s) \in Bucket
    BY <1>d, BucketType
  <2>. QED
    BY <1>c, <1>d, <2>1 DEF Open, Completes
<1>. HIDE DEF total, n, inc, capped, invalid, waits, open, left
<1>1. ASSUME fed' = fed, merged' = merged, buckets' = buckets, sending' = sending,
             sent' = sent, metered' = metered, replaced' = replaced
      PROVE  CountInv'
  BY <1>1 DEF CountInv, Held, Finished, Total, Copies
<1>2. ASSUME NEW i \in Inputs, ForwarderEnds(i)
      PROVE  CountInv'
  BY <1>1, <1>2 DEF ForwarderEnds
<1>3. ASSUME NEW i \in Inputs, NEW b \in Bucket, Forward(i, b)
      PROVE  CountInv'
  BY <1>3, ForwardCounts
<1>4. ASSUME NEW s \in Slot, Take(s)
      PROVE  /\ Len(merged') = waits - 1 /\ waits \in Nat \ {0}
             /\ fed' = fed /\ sent' = sent /\ IsFiniteSet(Copies(sent)')
             /\ Total(sent)' = Total(sent)
             /\ s \notin buckets => replaced' = replaced
             /\ s \in buckets => replaced' = replaced + 1
  BY <1>4, TakeShortens DEF waits, CountInv, Total, Copies
<1>5. ASSUME NEW s \in Slot, TakeRefused(s)
      PROVE  CountInv'
  <2>. DEFINE counts == [metered EXCEPT !["capped"] = @ + 1]
  <2>1. /\ Take(s) /\ Evict(buckets, maxEnd', counts) /\ sending' = sending /\ s \notin buckets
    BY <1>5, <1>d DEF TakeRefused, Refused
  <2>2. /\ counts \in [DropReason -> Nat] /\ counts["capped"] = capped + 1
        /\ counts["incomplete"] = inc /\ counts["invalid"] = invalid
    BY <1>c DEF DropReason, inc, capped, invalid
  <2>. HIDE DEF counts
  <2>3. /\ Len(merged') + counts["capped"] + Cardinality(buckets) + replaced' = Held
        /\ Total(sent)' + Cardinality(sending') + counts["invalid"] = Finished
    <3>1. (waits - 1) + (capped + 1) + open + replaced = Held
      BY <1>b
    <3>2. replaced' = replaced /\ Len(merged') = waits - 1
      BY <1>4, <2>1
    <3>3. Total(sent)' + Cardinality(sending') = left
      BY <1>4, <2>1 DEF left
    <3>. QED
      BY <1>b, <2>2, <3>1, <3>2, <3>3 DEF open
  <2>. QED
    BY <1>4, <2>1, <2>2, <2>3, <1>a, <1>c, TurnCounts DEF total, n, inc
<1>6. ASSUME NEW s \in Slot, TakeFill(s)
      PROVE  CountInv'
  <2>. DEFINE slots == buckets \cup {s}
              size == Cardinality(slots)
  <2>1. Take(s) /\ Evict(slots, maxEnd', metered) /\ sending' = sending
    BY <1>6 DEF TakeFill
  <2>2. slots \subseteq Slot
    BY <1>c
  <2>3. size + replaced' = open + replaced + 1 /\ size \in Nat /\ replaced' \in Nat
    <3>1. CASE s \in buckets
      <4>1. slots = buckets
        BY <3>1
      <4>2. replaced' = replaced + 1
        BY <1>4, <2>1, <3>1
      <4>3. size = open
        BY <4>1 DEF open
      <4>. QED
        BY <1>b, <4>2, <4>3
    <3>2. CASE s \notin buckets
      <4>1. IsFiniteSet(buckets)
        BY <1>c, FiniteSlots
      <4>2. size = open + 1
        BY <3>2, <4>1, FS_AddElement DEF open
      <4>3. replaced' = replaced
        BY <1>4, <2>1, <3>2
      <4>. QED
        BY <1>b, <4>2, <4>3
    <3>. QED
      BY <3>1, <3>2
  <2>4. \A b \in Bucket : FilledBy(slots, b) # Inputs
    BY <1>6, FillIsIncomplete DEF IInv, TakeFill
  <2>. HIDE DEF slots
  <2>5. /\ Len(merged') + metered["capped"] + Cardinality(slots) + replaced' = Held
        /\ Total(sent)' + Cardinality(sending') + metered["invalid"] = Finished
    <3>1. \A w, c, o, r, z, q \in Nat : z + q = o + r + 1 => (w - 1) + c + z + q = w + c + o + r
      OBVIOUS
    <3>2. (waits - 1) + capped + size + replaced' = Held
      <4>. HIDE DEF size
      <4>1. \A z, q \in Nat : z + q = open + replaced + 1 => (waits - 1) + capped + z + q = Held
        BY <1>b, <3>1
      <4>. QED
        BY <2>3, <4>1
    <3>3. Total(sent)' + Cardinality(sending') = left
      BY <1>4, <2>1 DEF left
    <3>. QED
      BY <1>4, <1>b, <2>1, <3>2, <3>3 DEF capped, invalid
  <2>. QED
    BY <1>4, <2>1, <2>2, <2>4, <2>5, <1>a, <1>c, TurnCounts DEF total, n, inc
<1>7. ASSUME NEW s \in Slot, Take(s), Completes(s)
      PROVE  LET size == Cardinality(WithoutBucket(BucketOf(s)))
             IN  /\ Len(merged') + capped + size + replaced' = Held - n
                 /\ size \in Nat /\ Held - n \in Nat
  <2>. DEFINE size == Cardinality(WithoutBucket(BucketOf(s)))
  <2>1. s \notin buckets
    BY <1>7, <1>d
  <2>2. size + n = open + 1
    BY <1>7, <1>c, <2>1, WholeSlots DEF n, open
  <2>3. size \in Nat
    BY <1>c, FiniteSlots DEF WithoutBucket
  <2>. HIDE DEF size
  <2>4. \A w, c, o, r, z, m \in Nat : w # 0 /\ z + m = o + 1 =>
          (w - 1) + c + z + r = (w + c + o + r) - m /\ (w - 1) + c + z + r \in Nat
    OBVIOUS
  <2>5. (waits - 1) + capped + size + replaced = Held - n /\ (waits - 1) + capped + size + replaced \in Nat
    BY <1>4, <1>7, <1>a, <1>b, <2>2, <2>3, <2>4
  <2>. QED
    BY <1>4, <1>7, <2>1, <2>3, <2>5 DEF size
<1>8. ASSUME NEW s \in Slot, TakeComplete(s)
      PROVE  CountInv'
  <2>1. /\ Take(s) /\ Completes(s) /\ buckets' = WithoutBucket(BucketOf(s))
        /\ sending' = {BucketOf(s)} /\ metered' = metered /\ sending = {}
    BY <1>8 DEF TakeComplete, Take, IInv, SendingOne
  <2>2. Held' = Held - n
    BY <1>7, <2>1 DEF Held, capped
  <2>3. Finished' = Finished + 1
    <3>1. Cardinality(sending) = 0 /\ Cardinality(sending') = 1
      BY <2>1, FS_EmptySet, FS_Singleton
    <3>2. Total(sent) \in Nat /\ invalid \in Nat
      BY <1>b, CountsType
    <3>3. Finished' = Total(sent) + 1 + invalid /\ Finished = Total(sent) + 0 + invalid
      BY <1>4, <2>1, <3>1 DEF Finished, invalid
    <3>. QED
      BY <3>2, <3>3
  <2>4. Balanced(total, n, Held - n, Finished + 1, inc)
    BY <1>a, BalancedFinish
  <2>5. Total(fed)' = total /\ IsFiniteSet(Copies(fed)')
    BY <1>4, <2>1 DEF total, Total, Copies, CountInv
  <2>. QED
    BY <1>4, <2>1, <2>2, <2>3, <2>4, <2>5 DEF CountInv, n, inc
<1>9. ASSUME NEW s \in Slot, TakeInvalid(s)
      PROVE  CountInv'
  <2>. DEFINE counts == [metered EXCEPT !["invalid"] = @ + 1]
              slots == WithoutBucket(BucketOf(s))
  <2>1. /\ Take(s) /\ Completes(s) /\ Evict(slots, maxEnd', counts) /\ sending' = sending
    BY <1>9 DEF TakeInvalid
  <2>2. /\ counts \in [DropReason -> Nat] /\ counts["capped"] = capped
        /\ counts["incomplete"] = inc /\ counts["invalid"] = invalid + 1
    BY <1>c DEF DropReason, inc, capped, invalid
  <2>. HIDE DEF counts
  <2>3. slots \subseteq Slot /\ \A b \in Bucket : FilledBy(slots, b) # Inputs
    BY <1>c, BucketType, WithoutIsIncomplete DEF IInv, WithoutBucket
  <2>4. Len(merged') + capped + Cardinality(slots) + replaced' = Held - n /\ Held - n \in Nat
    BY <1>7, <2>1
  <2>. HIDE DEF slots
  <2>5. Total(sent)' + Cardinality(sending') + counts["invalid"] = Finished + 1
    <3>1. Total(sent)' + Cardinality(sending') = left
      BY <1>4, <2>1 DEF left
    <3>. QED
      BY <1>b, <2>2, <3>1
  <2>6. Balanced(total, n, Held - n, Finished + 1, inc) /\ Finished + 1 \in Nat
    BY <1>a, BalancedFinish
  <2>7. Len(merged') + counts["capped"] + Cardinality(slots) + replaced' = Held - n
    BY <2>2, <2>4
  <2>8. counts["incomplete"] = metered["incomplete"] /\ fed' = fed /\ IsFiniteSet(Copies(sent)')
    BY <1>4, <2>1, <2>2 DEF inc
  <2>9. Balanced(Total(fed), Cardinality(Inputs),
                 Len(merged') + counts["capped"] + Cardinality(slots) + replaced',
                 Total(sent)' + Cardinality(sending') + counts["invalid"],
                 metered["incomplete"])
    BY <2>5, <2>6, <2>7 DEF total, n, inc
  <2>. QED
    BY <2>1, <2>2, <2>3, <2>4, <2>5, <2>6, <2>7, <2>8, <2>9, TurnCounts
<1>10. CASE SendDone
  <2>1. PICK b \in Bucket : sending = {b}
    BY <1>10 DEF SendDone, IInv, SendingOne
  <2>2. /\ sent' = [sent EXCEPT ![b] = @ + 1] /\ sending' = {} /\ merged' = merged /\ fed' = fed
        /\ Evict(buckets, maxEnd', metered) /\ replaced' = replaced /\ sent \in [Bucket -> Nat]
    BY <1>10, <2>1 DEF SendDone, TypeOK
  <2>3. IsFiniteSet(Copies(sent)') /\ Total(sent)' = Total(sent) + 1 /\ Total(sent) \in Nat
    <3>1. IsFiniteSet(Copies(sent')) /\ Total(sent') = Total(sent) + 1 /\ Total(sent) \in Nat
      BY <2>2, TotalGrows DEF CountInv
    <3>. QED
      BY <3>1 DEF Copies, Total
  <2>4. Cardinality(sending) = 1 /\ Cardinality(sending') = 0
    BY <2>1, <2>2, FS_Singleton, FS_EmptySet
  <2>5. /\ Len(merged') + metered["capped"] + Cardinality(buckets) + replaced' = Held
        /\ Total(sent)' + Cardinality(sending') + metered["invalid"] = Finished
    <3>1. Len(merged') + metered["capped"] + Cardinality(buckets) + replaced' = Held
      BY <2>2 DEF Held
    <3>2. Finished = Total(sent) + 1 + invalid
      BY <2>4 DEF Finished, invalid
    <3>3. Total(sent)' + Cardinality(sending') + invalid = (Total(sent) + 1) + 0 + invalid
      BY <2>3, <2>4
    <3>. QED
      BY <1>b, <2>3, <3>1, <3>2, <3>3 DEF invalid
  <2>. QED
    BY <2>2, <2>3, <2>5, <1>a, <1>c, TurnCounts DEF total, n, inc
<1>11. CASE SendFails \/ JoinEnds
  BY <1>1, <1>11 DEF SendFails, JoinEnds
<1>12. CASE UNCHANGED vars
  BY <1>1, <1>12 DEF vars
<1>. QED
  BY <1>2, <1>3, <1>5, <1>6, <1>8, <1>9, <1>10, <1>11, <1>12 DEF Next

(* Nothing has been fed at the start, and nothing is held. *)
LEMMA InitCounts == Init => CountInv
<1>. SUFFICES ASSUME Init PROVE CountInv
  OBVIOUS
<1>1. /\ fed = [s \in Slot |-> 0] /\ merged = << >> /\ buckets = {} /\ sending = {}
      /\ sent = [b \in Bucket |-> 0] /\ metered = [d \in DropReason |-> 0] /\ replaced = 0
  BY DEF Init
<1>2. Copies(fed) = {} /\ Copies(sent) = {}
  BY <1>1 DEF Copies
<1>3. /\ IsFiniteSet(Copies(fed)) /\ IsFiniteSet(Copies(sent))
      /\ Total(fed) = 0 /\ Total(sent) = 0
  BY <1>2, FS_EmptySet DEF Total
<1>4. Held = 0 /\ Finished = 0 /\ metered["incomplete"] = 0
  BY <1>1, <1>3, FS_EmptySet DEF Held, Finished, DropReason
<1>. QED
  BY <1>3, <1>4, InputsCounted DEF CountInv, Balanced

(* Every record taken from an input is refused, open, sent, unreduced,     *)
(* evicted or replaced by one that came again: meters and output account   *)
(* for all but the replaced, whatever the number of inputs.                *)
THEOREM NothingUnaccounted == Spec => []Accounted
<1>1. CountInv => Accounted
  BY DEF CountInv, Balanced, Accounted, Held, Finished
<1>2. Spec => [](IInv /\ CountInv)
  BY InitInductive, StepKeeps, InitCounts, StepCounts, PTL DEF Spec
<1>. QED
  BY <1>1, <1>2, PTL

=============================================================================
