------------------------------- MODULE MCLease -------------------------------
(* Two processes with the same index. *)
EXTENDS Lease

CONSTANTS p1, p2

MCProcs == {p1, p2}

=============================================================================
