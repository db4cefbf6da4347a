----------------------------- MODULE LeaseProofs -----------------------------
(***************************************************************************)
(* Proofs about the lease, for any set of processes and any TTL of at      *)
(* least three ticks.                                                      *)
(***************************************************************************)
EXTENDS Lease, TLAPS

(* A renewal is due no later than a third of the TTL after the last. *)
LEMMA RenewalsInATtl ==
  /\ Ttl \in Nat
  /\ RenewEvery \in Nat
  /\ RenewEvery > 0
  /\ 3 * RenewEvery <= Ttl
  /\ Ttl > 0
BY LeaseAssumption DEF RenewEvery

(* Every variable keeps its type: in particular the age of the key stays   *)
(* under the TTL, and no timer runs past its due time.                     *)
THEOREM TypeCorrect == Spec => []TypeOK
<1>1. Init => TypeOK
  <2> SUFFICES ASSUME Init PROVE TypeOK
    OBVIOUS
  <2>1. age \in 0 .. Ttl - 1
    BY RenewalsInATtl DEF Init
  <2>2. due \in [Procs -> 0 .. RenewEvery] /\ missed \in [Procs -> 0 .. 2]
    BY RenewalsInATtl DEF Init
  <2>3. pc \in [Procs -> States] /\ starts \in 0 .. MaxStarts
    BY LeaseAssumption DEF Init, States
  <2> QED BY <2>1, <2>2, <2>3 DEF Init, TypeOK
<1>2. TypeOK /\ [Next]_vars => TypeOK'
  <2> SUFFICES ASSUME TypeOK, [Next]_vars PROVE TypeOK'
    OBVIOUS
  <2> USE DEF TypeOK
  <2> DEFINE Step(p) == \/ Start(p) \/ Claiming(p) \/ ClaimUnanswered(p)
                        \/ Renew(p) \/ Finish(p) \/ Release(p) \/ Die(p) \/ Link(p)
  <2>1. ASSUME NEW p \in Procs, Step(p) PROVE TypeOK'
    <3>1. CASE Start(p)
      BY <3>1, LeaseAssumption DEF Start, Goto, States
    <3>2. CASE Claiming(p)
      BY <3>2, LeaseAssumption, RenewalsInATtl DEF Claiming, Connect, OpenBucket, OpenFails,
         Claim, ClaimFails, Look, Goto, Write, States
    <3>3. CASE ClaimUnanswered(p)
      BY <3>3, LeaseAssumption, RenewalsInATtl DEF ClaimUnanswered, Goto, Write, States
    <3>4. CASE Renew(p)
      <4>1. CASE p \in up
        BY <3>4, <4>1, LeaseAssumption, RenewalsInATtl DEF Renew, Write
      <4>2. CASE p \notin up
        BY <3>4, <4>2, RenewalsInATtl DEF Renew
      <4> QED BY <4>1, <4>2
    <3>5. CASE Finish(p) \/ Release(p) \/ Die(p) \/ Link(p)
      BY <3>5, LeaseAssumption, RenewalsInATtl DEF Finish, Release, Die, Link, Goto, States
    <3> QED BY <2>1, <3>1, <3>2, <3>3, <3>4, <3>5
  <2>2. CASE Tick
    <3>1. due' \in [Procs -> 0 .. RenewEvery]
      BY <2>2, RenewalsInATtl DEF Tick, Running
    <3>2. owner' \in Procs \cup {NoOne} /\ age' \in 0 .. Ttl - 1
      <4>1. CASE owner # NoOne /\ age + 1 = Ttl
        BY <2>2, <4>1, RenewalsInATtl DEF Tick
      <4>2. CASE ~(owner # NoOne /\ age + 1 = Ttl)
        <5>1. owner' = owner /\ age' = IF owner = NoOne THEN 0 ELSE age + 1
          BY <2>2, <4>2 DEF Tick
        <5> QED BY <4>2, <5>1, RenewalsInATtl
      <4> QED BY <4>1, <4>2
    <3>3. lapsed' \in BOOLEAN
      BY <2>2, Zenon DEF Tick
    <3> QED BY <2>2, <3>1, <3>2, <3>3 DEF Tick
  <2>3. CASE UNCHANGED vars
    BY <2>3 DEF vars
  <2> QED BY <2>1, <2>2, <2>3 DEF Next
<1> QED BY <1>1, <1>2, PTL DEF Spec

-----------------------------------------------------------------------------
(* While no lease has lapsed, the process that runs, or has yet to release, *)
(* has its key in the bucket: the strengthening that makes exclusion       *)
(* inductive, for a claim succeeds only on an absent key.                  *)
THEOREM HoldersHaveTheKey == Spec => []HolderHasKey
<1>1. Init => HolderHasKey
  BY DEF Init, HolderHasKey, Holding
<1>2. TypeOK /\ HolderHasKey /\ [Next]_vars => HolderHasKey'
  <2> SUFFICES ASSUME TypeOK, HolderHasKey, [Next]_vars, ~lapsed' PROVE \A q \in Holding' : owner' = q
    BY DEF HolderHasKey
  <2> USE DEF TypeOK, Holding
  <2>0. ~lapsed
    BY DEF Next, vars, Start, Claiming, Connect, OpenBucket, OpenFails, Claim, ClaimUnanswered,
       ClaimFails, Look, Renew, Finish, Release, Die, Link, Tick
  <2>1. \A q \in Holding : owner = q /\ owner # NoOne
    BY <2>0, LeaseAssumption DEF HolderHasKey
  <2>2. ASSUME NEW p \in Procs,
               \/ Start(p) \/ Connect(p) \/ OpenBucket(p) \/ OpenFails(p) \/ ClaimFails(p)
               \/ Look(p) \/ Finish(p) \/ Die(p) \/ Link(p)
        PROVE  \A q \in Holding' : owner' = q
    BY <2>1, <2>2 DEF Start, Connect, OpenBucket, OpenFails, ClaimFails, Look, Finish, Die, Link,
       Goto
  <2>3. ASSUME NEW p \in Procs, Claim(p) \/ ClaimUnanswered(p)
        PROVE  \A q \in Holding' : owner' = q
    BY <2>1, <2>3 DEF Claim, ClaimUnanswered, Goto, Write
  <2>4. ASSUME NEW p \in Procs, Renew(p)
        PROVE  \A q \in Holding' : owner' = q
    BY <2>1, <2>4 DEF Renew, Write
  <2>5. ASSUME NEW p \in Procs, Release(p)
        PROVE  \A q \in Holding' : owner' = q
    BY <2>1, <2>5 DEF Release, Goto
  <2>6. CASE Tick
    <3>1. pc' = pc
      BY <2>6 DEF Tick
    <3>2. CASE owner # NoOne /\ age + 1 = Ttl
      <4>1. lapsed' = (lapsed \/ owner \in Holding)
        BY <2>6, <3>2, Zenon DEF Tick
      <4>2. owner \notin Holding
        BY <4>1
      <4> QED BY <2>1, <3>1, <4>2
    <3>3. CASE ~(owner # NoOne /\ age + 1 = Ttl)
      BY <2>1, <2>6, <3>1, <3>3 DEF Tick
    <3> QED BY <3>2, <3>3
  <2>7. CASE UNCHANGED vars
    BY <2>1, <2>7 DEF vars
  <2> QED BY <2>2, <2>3, <2>4, <2>5, <2>6, <2>7 DEF Next, Claiming
<1> QED BY <1>1, <1>2, TypeCorrect, PTL DEF Spec

(* Two processes run with one index only after one of them has run on past *)
(* the end of its lease.                                                   *)
THEOREM IndexIsExclusive == Spec => []ExclusiveUnlessLapsed
<1>1. HolderHasKey => ExclusiveUnlessLapsed
  BY DEF HolderHasKey, ExclusiveUnlessLapsed, Holding, Running
<1> QED BY <1>1, HoldersHaveTheKey, PTL

-----------------------------------------------------------------------------
(* The key of a process that runs is no older than the renewals it missed  *)
(* and its timer account for.                                              *)
Accounted(p) ==
  /\ missed[p] = 0 => age <= due[p]
  /\ missed[p] = 1 => age <= RenewEvery + due[p]

KeyAge == \A p \in Running : owner = p => Accounted(p)

(* The renewal interval and the timer bound the age of the key. *)
LEMMA KeyAgeBounded == Spec => []KeyAge
<1>1. Init => KeyAge
  BY DEF Init, KeyAge, Running
<1>2. TypeOK /\ KeyAge /\ [Next]_vars => KeyAge'
  <2> SUFFICES ASSUME TypeOK, KeyAge, [Next]_vars,
                      NEW q \in Procs, pc'[q] = "running", owner' = q
               PROVE  Accounted(q)'
    BY DEF KeyAge, Running, TypeOK, Next, vars, Start, Claiming, Connect, OpenBucket, OpenFails, Claim,
       ClaimUnanswered, ClaimFails, Look, Renew, Finish, Release, Die, Link, Tick, Goto
  <2> USE DEF TypeOK
  <2>0. pc[q] = "running" /\ owner = q => Accounted(q)
    BY DEF KeyAge, Running
  <2>1. ASSUME NEW p \in Procs,
               \/ Start(p) \/ Connect(p) \/ OpenBucket(p) \/ OpenFails(p) \/ ClaimFails(p)
               \/ Look(p) \/ Finish(p) \/ Die(p) \/ Link(p)
        PROVE  Accounted(q)'
    <3>1. pc[q] = "running" /\ UNCHANGED <<owner, age, due, missed>>
      BY <2>1 DEF Start, Connect, OpenBucket, OpenFails, ClaimFails, Look, Finish, Die, Link, Goto
    <3> QED BY <2>0, <3>1 DEF Accounted
  <2>2. ASSUME NEW p \in Procs, Claim(p)
        PROVE  Accounted(q)'
    BY <2>2 DEF Claim, Write, Accounted
  <2>3. ASSUME NEW p \in Procs, ClaimUnanswered(p)
        PROVE  Accounted(q)'
    BY <2>3 DEF ClaimUnanswered, Write, Goto
  <2>4. ASSUME NEW p \in Procs, Renew(p)
        PROVE  Accounted(q)'
    <3>1. CASE p \in up
      BY <2>4, <3>1 DEF Renew, Write, Accounted
    <3>2. CASE p \notin up /\ p = q
      <4>1. owner = q /\ age' = age /\ due[q] = RenewEvery /\ due'[q] = 0
        BY <2>4, <3>2 DEF Renew
      <4>2. missed'[q] = IF missed[q] < 2 THEN missed[q] + 1 ELSE missed[q]
        BY <2>4, <3>2 DEF Renew
      <4>3. missed[q] \in 0 .. 2 /\ age \in Nat /\ pc[q] = "running"
        BY <2>4, <3>2, RenewalsInATtl DEF Renew
      <4> QED BY <2>0, <4>1, <4>2, <4>3, RenewalsInATtl DEF Accounted
    <3>3. CASE p \notin up /\ p # q
      BY <2>0, <2>4, <3>3 DEF Renew, Accounted
    <3> QED BY <3>1, <3>2, <3>3
  <2>5. ASSUME NEW p \in Procs, Release(p)
        PROVE  Accounted(q)'
    BY <2>5, LeaseAssumption DEF Release
  <2>6. CASE Tick
    <3>1. owner = q /\ pc[q] = "running" /\ missed' = missed /\ due'[q] = due[q] + 1 /\ age' = age + 1
      BY <2>6, LeaseAssumption DEF Tick
    <3>2. missed[q] \in 0 .. 2 /\ age \in Nat /\ due[q] \in Nat
      BY RenewalsInATtl
    <3> QED BY <2>0, <3>1, <3>2, RenewalsInATtl DEF Accounted
  <2>7. CASE UNCHANGED vars
    BY <2>0, <2>7 DEF vars, Accounted
  <2> QED BY <2>1, <2>2, <2>3, <2>4, <2>5, <2>6, <2>7 DEF Next, Claiming
<1> QED BY <1>1, <1>2, TypeCorrect, PTL DEF Spec

(* A lease lapses under a process that runs only after two renewals in a   *)
(* row that did not arrive: a third of the TTL, twice, and the timer's     *)
(* next third leave room for one.                                          *)
THEOREM OneMissNeverLapses == Spec => OneMissIsHarmless
<1> DEFINE Harmless == lapsed' /\ ~lapsed /\ owner \in Running => missed[owner] >= 2
<1>1. TypeOK /\ KeyAge /\ [Next]_vars => [Harmless]_vars
  <2> SUFFICES ASSUME TypeOK, KeyAge, Next, lapsed', ~lapsed, owner \in Running
               PROVE  missed[owner] >= 2
    BY DEF Harmless
  <2>1. Tick
    BY DEF Next, Start, Claiming, Connect, OpenBucket, OpenFails, Claim, ClaimUnanswered,
       ClaimFails, Look, Renew, Finish, Release, Die, Link
  <2>2. age + 1 = Ttl /\ due[owner] < RenewEvery
    BY <2>1 DEF Tick
  <2>3. Accounted(owner)
    BY DEF KeyAge
  <2>4. missed[owner] \in 0 .. 2 /\ due[owner] \in Nat /\ age \in Nat
    BY RenewalsInATtl DEF TypeOK, Running
  <2> QED BY <2>2, <2>3, <2>4, RenewalsInATtl DEF Accounted
<1> QED BY <1>1, TypeCorrect, KeyAgeBounded, PTL DEF Spec, OneMissIsHarmless

=============================================================================
