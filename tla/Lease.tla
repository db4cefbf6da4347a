-------------------------------- MODULE Lease --------------------------------
(***************************************************************************)
(* The lease on one worker index (ADR-0016): processes that were given the *)
(* same index claim its key in a bucket whose entries expire, renew it     *)
(* while they run, and delete it when they end.  The bucket is external:   *)
(* create succeeds only on an absent key, put and delete always succeed,   *)
(* and an entry older than the TTL is gone.  Each process has its own      *)
(* connection, which comes and goes.                                       *)
(***************************************************************************)
EXTENDS Naturals

CONSTANTS
  Procs,       \* the processes started with this index
  NoOne,       \* no holder
  Ttl,         \* LEASE_TTL in ticks
  MaxStarts    \* bound: starts of processes

ASSUME LeaseAssumption ==
  /\ NoOne \notin Procs
  /\ Ttl \in Nat /\ Ttl \div 3 > 0
  /\ MaxStarts \in Nat

VARIABLES
  pc,      \* where each process is
  up,      \* the processes that reach NATS
  owner,   \* whose value the key holds, or NoOne when there is no key
  age,     \* ticks since the key was written
  due,     \* of each process: ticks since its renewal timer last fired
  starts,  \* starts of processes so far
  lapsed,  \* history: a key expired that a process was still holding
  missed   \* of each process, history: renewals in a row that did not arrive, up to 2

vars == <<pc, up, owner, age, due, starts, lapsed, missed>>

(* Faulty variant: a renewal every TTL. *)
RenewAtExpiry == Ttl

(* LEASE_TTL / 3 *)
RenewEvery == Ttl \div 3

States == {"down", "connecting", "opening", "claiming", "looking", "running",
           "releasing", "refused"}

TypeOK ==
  /\ pc \in [Procs -> States]
  /\ up \subseteq Procs
  /\ owner \in Procs \cup {NoOne}
  /\ age \in 0 .. Ttl - 1
  /\ due \in [Procs -> 0 .. RenewEvery]
  /\ starts \in 0 .. MaxStarts
  /\ lapsed \in BOOLEAN
  /\ missed \in [Procs -> 0 .. 2]

Init ==
  /\ pc = [p \in Procs |-> "down"]
  /\ up = Procs
  /\ owner = NoOne
  /\ age = 0
  /\ due = [p \in Procs |-> 0]
  /\ starts = 0
  /\ lapsed = FALSE
  /\ missed = [p \in Procs |-> 0]

Goto(p, state) == pc' = [pc EXCEPT ![p] = state]

Running == {p \in Procs : pc[p] = "running"}

(* Those that may still write the key or delete it. *)
Holding == {p \in Procs : pc[p] \in {"running", "releasing"}}

-----------------------------------------------------------------------------
(* Startup: connect, open the bucket, create the key. *)

Start(p) ==
  /\ pc[p] \in {"down", "refused"}
  /\ starts < MaxStarts
  /\ starts' = starts + 1
  /\ Goto(p, "connecting")
  /\ UNCHANGED <<up, owner, age, due, lapsed, missed>>

(* Nats::connect waits for the server. *)
Connect(p) ==
  /\ pc[p] = "connecting"
  /\ p \in up
  /\ Goto(p, "opening")
  /\ UNCHANGED <<up, owner, age, due, starts, lapsed, missed>>

(* workers_kv gets the bucket, or creates it, or gets what another created. *)
OpenBucket(p) ==
  /\ pc[p] = "opening"
  /\ p \in up
  /\ Goto(p, "claiming")
  /\ UNCHANGED <<up, owner, age, due, starts, lapsed, missed>>

(* When all three fail, so does the run. *)
OpenFails(p) ==
  /\ pc[p] = "opening"
  /\ p \notin up
  /\ Goto(p, "refused")
  /\ UNCHANGED <<up, owner, age, due, starts, lapsed, missed>>

Write(p) == owner' = p /\ age' = 0

(* Faulty variant: the key is put, not created. *)
ClaimAnyway(p) ==
  /\ pc[p] = "claiming"
  /\ p \in up
  /\ Write(p)
  /\ Goto(p, "running")
  /\ due' = [due EXCEPT ![p] = 0]
  /\ missed' = [missed EXCEPT ![p] = 0]
  /\ UNCHANGED <<up, starts, lapsed>>

(* The key is created: the renewal task starts, its first tick taken. *)
Claim(p) ==
  /\ pc[p] = "claiming"
  /\ p \in up
  /\ owner = NoOne
  /\ Write(p)
  /\ Goto(p, "running")
  /\ due' = [due EXCEPT ![p] = 0]
  /\ missed' = [missed EXCEPT ![p] = 0]
  /\ UNCHANGED <<up, starts, lapsed>>

(* The key is created and the answer lost. *)
ClaimUnanswered(p) ==
  /\ pc[p] = "claiming"
  /\ p \in up
  /\ owner = NoOne
  /\ Write(p)
  /\ Goto(p, "looking")
  /\ UNCHANGED <<up, due, starts, lapsed, missed>>

(* create fails, for the key is there or NATS is not. *)
ClaimFails(p) ==
  /\ pc[p] = "claiming"
  /\ owner # NoOne \/ p \notin up
  /\ Goto(p, "looking")
  /\ UNCHANGED <<up, owner, age, due, starts, lapsed, missed>>

(* A key that can be read is a conflict; anything else is tried again. *)
Look(p) ==
  /\ pc[p] = "looking"
  /\ Goto(p, IF p \in up /\ owner # NoOne THEN "refused" ELSE "claiming")
  /\ UNCHANGED <<up, owner, age, due, starts, lapsed, missed>>

-----------------------------------------------------------------------------
(* The renewal task, and the end of the run. *)

(* The timer fires: the key is put, whatever it holds; a failure is logged. *)
Renew(p) ==
  /\ pc[p] = "running"
  /\ due[p] = RenewEvery
  /\ due' = [due EXCEPT ![p] = 0]
  /\ IF p \in up
     THEN Write(p) /\ missed' = [missed EXCEPT ![p] = 0]
     ELSE /\ missed' = [missed EXCEPT ![p] = IF @ < 2 THEN @ + 1 ELSE @]
          /\ UNCHANGED <<owner, age>>
  /\ UNCHANGED <<pc, up, starts, lapsed>>

(* The run returns, and the guard is dropped. *)
Finish(p) ==
  /\ pc[p] = "running"
  /\ Goto(p, "releasing")
  /\ UNCHANGED <<up, owner, age, due, starts, lapsed, missed>>

(* The task deletes the key, whoever's it is by now ... *)
Release(p) ==
  /\ pc[p] = "releasing"
  /\ p \in up
  /\ owner' = NoOne
  /\ age' = 0
  /\ Goto(p, "down")
  /\ UNCHANGED <<up, due, starts, lapsed, missed>>

(* ... unless it cannot, or the process has ended first, or dies anywhere. *)
Die(p) ==
  /\ pc[p] # "down"
  /\ Goto(p, "down")
  /\ UNCHANGED <<up, owner, age, due, starts, lapsed, missed>>

-----------------------------------------------------------------------------
(* Time and the network. *)

Link(p) ==
  /\ up' = IF p \in up THEN up \ {p} ELSE up \cup {p}
  /\ UNCHANGED <<pc, owner, age, due, starts, lapsed, missed>>

(* Faulty variant: the bucket has no TTL. *)
TickForever ==
  /\ \A p \in Running : due[p] < RenewEvery
  /\ due' = [p \in Procs |-> IF pc[p] = "running" THEN due[p] + 1 ELSE due[p]]
  /\ UNCHANGED <<pc, up, owner, age, starts, lapsed, missed>>

(* Faulty variant: the clock runs past a timer that is due. *)
TickUnserved ==
  /\ due' = [p \in Procs |-> IF pc[p] = "running" THEN due[p] + 1 ELSE due[p]]
  /\ UNCHANGED <<pc, up, owner, age, starts, lapsed, missed>>

(* A timer that is due is served before the clock advances.  A key as old   *)
(* as the TTL expires; the process it was of may still hold on to it.      *)
Tick ==
  /\ \A p \in Running : due[p] < RenewEvery
  /\ due' = [p \in Procs |-> IF pc[p] = "running" THEN due[p] + 1 ELSE due[p]]
  /\ IF owner # NoOne /\ age + 1 = Ttl
     THEN owner' = NoOne /\ age' = 0 /\ lapsed' = (lapsed \/ owner \in Holding)
     ELSE /\ age' = IF owner = NoOne THEN 0 ELSE age + 1
          /\ UNCHANGED <<owner, lapsed>>
  /\ UNCHANGED <<pc, up, starts, missed>>

-----------------------------------------------------------------------------

Claiming(p) ==
  \/ Connect(p) \/ OpenBucket(p) \/ OpenFails(p)
  \/ Claim(p) \/ ClaimFails(p) \/ Look(p)

Next ==
  \/ \E p \in Procs :
       \/ Start(p) \/ Claiming(p) \/ ClaimUnanswered(p)
       \/ Renew(p) \/ Finish(p) \/ Release(p) \/ Die(p) \/ Link(p)
  \/ Tick

Spec == Init /\ [][Next]_vars

(* The tasks of a process run when they can, the clock advances, and the   *)
(* answer to a create that is tried for ever is not lost every time.       *)
Fairness ==
  /\ WF_vars(Tick)
  /\ \A p \in Procs : WF_vars(Claiming(p)) /\ SF_vars(Claim(p)) /\ WF_vars(Renew(p))

FairSpec == Spec /\ Fairness

-----------------------------------------------------------------------------
(* Properties. *)

(* ADR-0016 needs each index held by exactly one worker.  Two processes run *)
(* with it only after one of them has run on past the end of its lease,    *)
(* which the renewal task only logs.                                       *)
ExclusiveUnlessLapsed == lapsed \/ \A p, q \in Running : p = q

(* A process that runs, or is about to release, has its key in the bucket  *)
(* until a lease lapses: no claim, refusal, release or death of another    *)
(* process takes it away.                                                  *)
HolderHasKey == lapsed \/ \A p \in Holding : owner = p

(* Renewing at a third of the TTL, a worker can miss one renewal, and all  *)
(* but a third of the period after it, and still keep its lease.           *)
OneMissIsHarmless == [][lapsed' /\ ~lapsed /\ owner \in Running => missed[owner] >= 2]_vars

(* The key of a process that died or was refused goes, by the TTL at last, *)
(* so that its index can be claimed again.                                 *)
DeadKeyFrees ==
  \A p \in Procs : owner = p /\ pc[p] \in {"down", "refused"}
                     ~> owner # p \/ pc[p] \notin {"down", "refused"}

=============================================================================
