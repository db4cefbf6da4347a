----------------------------- MODULE MCNatsEdge -----------------------------
(* An edge of two partitions, of which another worker has one; of the keys *)
(* of this worker's partition, one is of records that do not decode.       *)
EXTENDS NatsEdge

CONSTANTS kOther, kOwn, kBad

MCKeys == {kOther, kOwn, kBad}
MCHash == [k \in MCKeys |-> CASE k = kOther -> 6 [] k = kOwn -> 9 [] k = kBad -> 15]
MCUndecodable == [n : {1, 2}, key : {kBad}]

=============================================================================
