------------------------------ MODULE MCWindow ------------------------------
(* A small instance of Window for TLC. *)
EXTENDS Window

CONSTANTS a, b  \* group_by tuples

MCGroups == {a, b}

=============================================================================
