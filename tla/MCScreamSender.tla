--------------------------- MODULE MCScreamSender ---------------------------
(* The one video stream of a Pion case. *)
EXTENDS ScreamSender
CONSTANT video

OneStream == {video}
=============================================================================
