------------------------------ MODULE Partition ------------------------------
(***************************************************************************)
(* How an edge of the NATS backend is split: a record goes to a partition, *)
(* by the hash of its key or in turn, and each partition to one worker.    *)
(* The hash (FNV-1a over the bytes of the key) is left open: all that is   *)
(* used of it is that it is a function of the key.                         *)
(***************************************************************************)
EXTENDS Naturals

CONSTANTS
  Keys,        \* the values of the key fields of a record
  Hash,        \* the 64-bit hash of a key
  Partitions,  \* partitions of a stream, fixed for its life
  Workers,     \* worker processes that share them
  Keyed,       \* whether the edge feeds a node that keeps state by key
  CursorRange  \* size of the type of the round-robin cursor (2^32 in the code)

(* PartitionConfig::validate *)
ValidConfig(partitions, workers, index) ==
  /\ partitions # 0
  /\ workers # 0
  /\ index < workers
  /\ workers <= partitions

ASSUME PartitionAssumption ==
  /\ Hash \in [Keys -> Nat]
  /\ Partitions \in Nat /\ Workers \in Nat
  /\ ValidConfig(Partitions, Workers, 0)
  /\ Keyed \in BOOLEAN
  /\ CursorRange \in Nat \ {0}

Parts == 0 .. Partitions - 1

Indexes == 0 .. Workers - 1

(* The partitions worker `index` binds. *)
Owned(index) == {p \in Parts : p % Workers = index}

(* Where a record goes, and the cursor after it. *)
Route(key, cursor) == IF Keyed THEN Hash[key] % Partitions ELSE cursor % Partitions

NextCursor(cursor) == IF Keyed THEN cursor ELSE (cursor + 1) % CursorRange

=============================================================================
