-------------------------- MODULE MCStatCollection --------------------------
(* A Pion case whose connection comes back once, or a case with one reader of
   another process's output. *)
EXTENDS StatCollection
CONSTANTS t1, t2, r1

TwoTickers == {t1, t2}
OneReader  == {r1}
=============================================================================
