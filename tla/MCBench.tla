------------------------------ MODULE MCBench ------------------------------
(* Instances of Bench for TLC. *)
EXTENDS Bench, TLC

CONSTANTS a, b

Pair     == {a, b}
JustB    == {b}
Nobody   == {}

TwoCases == <<{a, b}, {a, b}>>
LateJoin == <<{a}, {a, b}>>     \* b takes part in the second case only
Alone    == <<{b}, {b}>>
=============================================================================
