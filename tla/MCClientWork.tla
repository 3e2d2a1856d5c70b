---------------------------- MODULE MCClientWork ----------------------------
(* A client without a dish whose cases have commands or not, and one with a
   dish and pings whose cases have none. *)
EXTENDS ClientWork

TwoSetups == {[dish |-> FALSE, ping |-> FALSE, cmds |-> TRUE],
              [dish |-> TRUE, ping |-> TRUE, cmds |-> FALSE]}
=============================================================================
