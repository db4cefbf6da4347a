----------------------------- MODULE MCPipeline -----------------------------
(* A small graph for TLC: s1 -> w -> j -> out, s2 -> j, and s3, which       *)
(* nobody reads.  w keeps what it receives until its input closes, j has    *)
(* two inputs.                                                              *)
EXTENDS Pipeline

CONSTANTS s1, s2, s3, w, j, out

MCSources == {s1, s2, s3}
MCTransforms == {w, j}
MCSinks == {out}
MCMaxRecords == [s \in MCSources |-> 1]
MCFeeds == [p \in {s1, s2, w, j} |->
              CASE p = s1 -> w [] p = s2 -> j [] p = w -> j [] p = j -> out]

=============================================================================
