---------------------------- MODULE MCSignalling ----------------------------
(* A sender "a", a receiver "b", and a client of an earlier case. *)
EXTENDS Signalling

TwoPeers   == {"a", "b"}
Bystander  == {"old"}
=============================================================================
