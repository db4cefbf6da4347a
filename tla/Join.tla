-------------------------------- MODULE Join --------------------------------
(***************************************************************************)
(* The join transform: a forwarder task per input tags records with the    *)
(* input they came from and merges them into one bounded channel; the      *)
(* node's loop aligns them into buckets, one per (labels, window), sends a *)
(* bucket once every input has filled its slot, and evicts what the join   *)
(* watermark has passed.                                                   *)
(*                                                                         *)
(* A window is named by its end: `validate` gives the inputs the same      *)
(* size, so the end determines the start.  A record is [input, end, key],  *)
(* and `buckets` is the set of filled slots: a bucket exists in the code   *)
(* exactly when it has a slot filled, and its values are those records'.   *)
(*                                                                         *)
(* Any input may feed any record any number of times: a window with an     *)
(* idle timeout fires again, and an edge over NATS redelivers.  Only the   *)
(* orderly inputs, windows without an idle timeout over an edge that       *)
(* delivers once, feed each record once and windows in order.              *)
(***************************************************************************)
EXTENDS WindowOutput, Sequences, FiniteSets

CONSTANTS
  Inputs,     \* the upstream nodes
  Orderly,    \* those that feed each record once and windows in order
  Keys,       \* the group_by labels
  MaxGroups,  \* max_groups; more than every (key, window) is "unset"
  Reduces,    \* whether the join has a `value` expression, which may fail
  MergedCap,  \* capacity of the merged channel (1024 in the code)
  MaxEnd,     \* bound: the last window's end
  MaxFed      \* bound: how many records the inputs feed in all

ASSUME JoinAssumption ==
  /\ IsFiniteSet(Inputs) /\ Inputs # {}
  /\ Orderly \subseteq Inputs
  /\ IsFiniteSet(Keys)
  /\ MaxGroups \in Nat \ {0}
  /\ Reduces \in BOOLEAN
  /\ MergedCap \in Nat \ {0}
  /\ MaxEnd \in Nat
  /\ MaxFed \in Nat

VARIABLES
  fed,      \* history: how often each record has been merged by its forwarder
  live,     \* the inputs whose forwarder is running
  merged,   \* the merged channel
  buckets,  \* the filled slots
  maxEnd,   \* for each input, the newest window end it has reached
  pc,       \* where the loop is: "select", "send" (a full bucket) or "done"
  sending,  \* the complete bucket being sent
  sent,     \* history: how often each bucket has gone downstream
  metered,  \* records and buckets dropped so far, by reason
  evicted,  \* history: the slots evicted
  replaced  \* history: how many records a later one of the same slot replaced

vars == <<fed, live, merged, buckets, maxEnd, pc, sending, sent, metered, evicted, replaced>>

Ends == 1 .. MaxEnd

Bucket == [end : Ends, key : Keys]
Slot == [input : Inputs, end : Ends, key : Keys]

DropReason == {"capped", "invalid", "incomplete"}

BucketOf(s) == [end |-> s.end, key |-> s.key]

SlotAt(i, b) == [input |-> i, end |-> b.end, key |-> b.key]

(* The buckets with one of these slots. *)
Open(slots) == {BucketOf(s) : s \in slots}

FilledBy(slots, b) == {s.input : s \in {x \in slots : BucketOf(x) = b}}

(* The join watermark: the least of the inputs' newest window ends. *)
Least(ends) == CHOOSE m \in {ends[i] : i \in Inputs} : \A i \in Inputs : m <= ends[i]

Copies(f) == UNION {{x} \X (1 .. f[x]) : x \in DOMAIN f}

(* How many there are of all, f giving how many of each. *)
Total(f) == Cardinality(Copies(f))

TypeOK ==
  /\ fed \in [Slot -> Nat]
  /\ live \subseteq Inputs
  /\ merged \in Seq(Slot) /\ Len(merged) <= MergedCap
  /\ buckets \subseteq Slot
  /\ maxEnd \in [Inputs -> 0 .. MaxEnd]
  /\ pc \in {"select", "send", "done"}
  /\ sending \in SUBSET Bucket
  /\ sent \in [Bucket -> Nat]
  /\ metered \in [DropReason -> Nat]
  /\ evicted \subseteq Slot
  /\ replaced \in Nat

Init ==
  /\ fed = [s \in Slot |-> 0]
  /\ live = Inputs
  /\ merged = << >>
  /\ buckets = {}
  /\ maxEnd = [i \in Inputs |-> 0]
  /\ pc = "select"
  /\ sending = {}
  /\ sent = [b \in Bucket |-> 0]
  /\ metered = [d \in DropReason |-> 0]
  /\ evicted = {}
  /\ replaced = 0

-----------------------------------------------------------------------------
(* The forwarders. *)

FedBy(i) == {b \in Bucket : fed[SlotAt(i, b)] > 0}

(* What recv may answer: anything, unless the input is orderly. *)
MayArrive(i, b) ==
  /\ i \in Orderly => MayFollow(FedBy(i), b)
  /\ Total(fed) < MaxFed

(* Faulty variant: the merged channel has no bound. *)
ForwardUnbounded(i, b) ==
  /\ i \in live
  /\ pc # "done"
  /\ MayArrive(i, b)
  /\ fed' = [fed EXCEPT ![SlotAt(i, b)] = @ + 1]
  /\ merged' = Append(merged, SlotAt(i, b))
  /\ UNCHANGED <<live, buckets, maxEnd, pc, sending, sent, metered, evicted, replaced>>

(* recv answers a record and it is put on the merged channel. *)
Forward(i, b) ==
  /\ i \in live
  /\ pc # "done"
  /\ Len(merged) < MergedCap
  /\ MayArrive(i, b)
  /\ fed' = [fed EXCEPT ![SlotAt(i, b)] = @ + 1]
  /\ merged' = Append(merged, SlotAt(i, b))
  /\ UNCHANGED <<live, buckets, maxEnd, pc, sending, sent, metered, evicted, replaced>>

(* recv answers None, or the loop is gone and the put fails. *)
ForwarderEnds(i) ==
  /\ i \in live
  /\ live' = live \ {i}
  /\ UNCHANGED <<fed, merged, buckets, maxEnd, pc, sending, sent, metered, evicted, replaced>>

-----------------------------------------------------------------------------
(* The loop. *)

(* Faulty variant: a bucket of the window at the watermark stays. *)
EvictPast(slots, ends, counts) ==
  LET stale == {b \in Open(slots) : b.end < Least(ends)}
      gone == {s \in slots : BucketOf(s) \in stale}
  IN  /\ buckets' = slots \ gone
      /\ metered' = [counts EXCEPT !["incomplete"] = @ + Cardinality(stale)]
      /\ evicted' = evicted \cup gone

(* Faulty variant: one of the inputs being past a window is enough. *)
EvictReachedByOne(slots, ends, counts) ==
  LET stale == {b \in Open(slots) : \E i \in Inputs : b.end <= ends[i]}
      gone == {s \in slots : BucketOf(s) \in stale}
  IN  /\ buckets' = slots \ gone
      /\ metered' = [counts EXCEPT !["incomplete"] = @ + Cardinality(stale)]
      /\ evicted' = evicted \cup gone

(* Evict every bucket of a window all inputs have reached. *)
Evict(slots, ends, counts) ==
  LET stale == {b \in Open(slots) : b.end <= Least(ends)}
      gone == {s \in slots : BucketOf(s) \in stale}
  IN  /\ buckets' = slots \ gone
      /\ metered' = [counts EXCEPT !["incomplete"] = @ + Cardinality(stale)]
      /\ evicted' = evicted \cup gone

(* Take a record off the merged channel: its input has reached its window. *)
(* If its slot is filled already, it takes the place of what filled it.    *)
Take(s) ==
  /\ pc = "select"
  /\ merged # << >>
  /\ s = Head(merged)
  /\ merged' = Tail(merged)
  /\ maxEnd' = [maxEnd EXCEPT ![s.input] = IF @ >= s.end THEN @ ELSE s.end]
  /\ replaced' = replaced + (IF s \in buckets THEN 1 ELSE 0)
  /\ UNCHANGED <<fed, live, sent>>

Refused(s) == BucketOf(s) \notin Open(buckets) /\ Cardinality(Open(buckets)) >= MaxGroups

Completes(s) == FilledBy(buckets \cup {s}, BucketOf(s)) = Inputs

(* Faulty variant: a refused record is not metered. *)
TakeRefusedSilently(s) ==
  /\ Take(s)
  /\ Refused(s)
  /\ Evict(buckets, maxEnd', metered)
  /\ UNCHANGED <<pc, sending>>

(* It would open a bucket and the node is at its cap. *)
TakeRefused(s) ==
  /\ Take(s)
  /\ Refused(s)
  /\ Evict(buckets, maxEnd', [metered EXCEPT !["capped"] = @ + 1])
  /\ UNCHANGED <<pc, sending>>

(* It fills a slot of a bucket that still waits for another input. *)
TakeFill(s) ==
  /\ Take(s)
  /\ ~Refused(s)
  /\ ~Completes(s)
  /\ Evict(buckets \cup {s}, maxEnd', metered)
  /\ UNCHANGED <<pc, sending>>

(* Faulty variant: a complete bucket stays open. *)
WithBucket(b) == buckets

WithoutBucket(b) == {x \in buckets : BucketOf(x) # b}

(* It completes a bucket, which is reduced and goes to the send. *)
TakeComplete(s) ==
  /\ Take(s)
  /\ ~Refused(s)
  /\ Completes(s)
  /\ buckets' = WithoutBucket(BucketOf(s))
  /\ sending' = {BucketOf(s)}
  /\ pc' = "send"
  /\ UNCHANGED <<metered, evicted>>

(* It completes a bucket whose expression cannot be evaluated. *)
TakeInvalid(s) ==
  /\ Take(s)
  /\ ~Refused(s)
  /\ Completes(s)
  /\ Reduces
  /\ Evict(WithoutBucket(BucketOf(s)), maxEnd', [metered EXCEPT !["invalid"] = @ + 1])
  /\ UNCHANGED <<pc, sending>>

(* The downstream has taken the record; the turn of the loop goes on. *)
SendDone ==
  /\ pc = "send"
  /\ \E b \in sending : sent' = [sent EXCEPT ![b] = @ + 1]
  /\ sending' = {}
  /\ pc' = "select"
  /\ Evict(buckets, maxEnd, metered)
  /\ UNCHANGED <<fed, live, merged, maxEnd, replaced>>

(* The downstream is gone: the loop returns. *)
SendFails ==
  /\ pc = "send"
  /\ pc' = "done"
  /\ UNCHANGED <<fed, live, merged, buckets, maxEnd, sending, sent, metered, evicted, replaced>>

(* Faulty variant: wait for the open buckets to complete. *)
JoinEndsComplete ==
  /\ pc = "select"
  /\ live = {}
  /\ merged = << >>
  /\ buckets = {}
  /\ pc' = "done"
  /\ UNCHANGED <<fed, live, merged, buckets, maxEnd, sending, sent, metered, evicted, replaced>>

(* Every forwarder has ended and the channel is empty: the loop returns, and *)
(* the open buckets go with it.                                              *)
JoinEnds ==
  /\ pc = "select"
  /\ live = {}
  /\ merged = << >>
  /\ pc' = "done"
  /\ UNCHANGED <<fed, live, merged, buckets, maxEnd, sending, sent, metered, evicted, replaced>>

Next ==
  \/ \E i \in Inputs : ForwarderEnds(i) \/ \E b \in Bucket : Forward(i, b)
  \/ \E s \in Slot : TakeRefused(s) \/ TakeFill(s) \/ TakeComplete(s) \/ TakeInvalid(s)
  \/ SendDone \/ SendFails \/ JoinEnds

Spec == Init /\ [][Next]_vars

TakeAny == \E s \in Slot : TakeRefused(s) \/ TakeFill(s) \/ TakeComplete(s) \/ TakeInvalid(s)

(* The loop runs while it can, its downstream takes what it sends or goes  *)
(* away.  When an input ends is the upstream's business.                   *)
FairSpec == Spec /\ WF_vars(TakeAny) /\ WF_vars(SendDone) /\ WF_vars(JoinEnds)

-----------------------------------------------------------------------------
(* Properties. *)

Member(x, S) == IF x \in S THEN 1 ELSE 0

(* A bucket is sent at most once, and never after part of it was evicted,  *)
(* even if its records come again in any order: the inputs' newest ends    *)
(* that go with its completion or eviction also evict, before the turn     *)
(* ends, what reopens it.  With one input a record completes its bucket    *)
(* alone, and each time it comes.                                          *)
SentOnce ==
  Cardinality(Inputs) > 1 =>
    /\ \A b \in Bucket : sent[b] + Member(b, sending) <= 1
    /\ sending \cap Open(evicted) = {}

(* What came once is used once: a record in a bucket that has been sent,   *)
(* or is being sent, is in no other that was sent, is open or was evicted. *)
UsedOnce ==
  \A i \in Inputs, b \in Bucket :
    sent[b] + Member(b, sending) + Member(SlotAt(i, b), buckets) + Member(SlotAt(i, b), evicted)
      <= fed[SlotAt(i, b)]

(* A bucket is evicted only when every input has fed a record of its       *)
(* window or a later one, however the records of the inputs interleave on  *)
(* the merged channel.                                                     *)
EvictedIsReached == \A s \in evicted, i \in Inputs : \E b \in FedBy(i) : s.end <= b.end

(* Every record taken is refused, in an open bucket, in a bucket sent or   *)
(* that could not be reduced, in an evicted one, or was replaced by one    *)
(* that came again: the meters and the output account for all but the      *)
(* replaced.  An evicted bucket is metered once, whatever the number of    *)
(* its slots that were filled.                                             *)
Accounted ==
  LET n == Cardinality(Inputs)
      kept == Len(merged) + metered["capped"] + Cardinality(buckets) + replaced
                + n * (Total(sent) + Cardinality(sending) + metered["invalid"])
  IN  /\ Total(fed) >= kept + metered["incomplete"]
      /\ Total(fed) <= kept + (n - 1) * metered["incomplete"]

(* The documentation's reading of an eviction: one of the inputs had no    *)
(* data for that key and window.                                           *)
IncompleteMeansAbsent ==
  \A s \in evicted : \E i \in Inputs : BucketOf(s) \notin FedBy(i)

(* When every input has ended the loop drains the channel and ends.        *)
JoinDrains == live = {} ~> pc = "done"

=============================================================================
