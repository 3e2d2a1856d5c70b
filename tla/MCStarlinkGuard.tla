-------------------------- MODULE MCStarlinkGuard --------------------------
(* Small timers in the order of the real ones: trigger < confirm = pause <
   cooldown; one delay increase on each side of every comparison. *)
EXTENDS StarlinkGuard

SomeDelays == {-1, 0, 1, 2}
=============================================================================
