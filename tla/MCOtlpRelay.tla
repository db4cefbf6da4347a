----------------------------- MODULE MCOtlpRelay -----------------------------
(* Two clients for TLC: one sends a gauge before its counter, the other a   *)
(* point that is left out before a gauge.                                  *)
EXTENDS OtlpRelay

CONSTANTS c1, c2

MCClients == {c1, c2}
MCShape == [c \in MCClients |-> IF c = c1 THEN <<"plain", "sum">> ELSE <<"ignored", "plain">>]
MCMaxExports == [c \in MCClients |-> IF c = c1 THEN 2 ELSE 1]
MCThree == [c \in MCClients |-> 3]

=============================================================================
