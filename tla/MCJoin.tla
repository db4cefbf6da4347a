------------------------------- MODULE MCJoin -------------------------------
(* Small instances of Join for TLC. *)
EXTENDS Join, TLC

CONSTANTS
  hi, lo,  \* upstream windows
  a, b     \* labels

MCInputs == {hi, lo}
MCKeys == {a, b}

=============================================================================
