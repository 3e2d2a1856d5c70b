----------------------------- MODULE MCWsServer -----------------------------
(* One connection that sends, one that comes and goes, and the timer of one
   test. *)
EXTENDS WsServer
CONSTANTS a, b

TwoConns == {a, b}
OneEach  == [t \in {a, b, Timer} |-> IF t = b THEN 0 ELSE 1]
=============================================================================
