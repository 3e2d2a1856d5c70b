------------------------- MODULE MCReconfigDetector -------------------------
(* A scale on which a second is two intervals, and two periods of which one is
   twice the other. *)
EXTENDS ReconfigDetector

TwoPeriods == {2, 4}
=============================================================================
