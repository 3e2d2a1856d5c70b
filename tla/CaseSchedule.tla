---------------------------- MODULE CaseSchedule ----------------------------
(***************************************************************************)
(* What the orchestrator promises about the cases of cases.json: they run  *)
(* one at a time, in the order of the file, each exactly once, and each    *)
(* goes through configuration, test and collection before the next one is  *)
(* configured.  The orchestrator may die instead at any moment (log.Fatal  *)
(* or a panic); it never skips, repeats or reorders a case.                *)
(***************************************************************************)
EXTENDS Naturals

CONSTANT Cases   \* how many cases cases.json lists

VARIABLES case,  \* the case the bench is working on, 0 once it has died
          phase  \* "configure", "test", "collect", "finished" or "aborted"

absVars == <<case, phase>>

AbsInit == case = 1 /\ phase = "configure"

Begin   == phase = "configure" /\ phase' = "test" /\ UNCHANGED case
Expire  == phase = "test" /\ phase' = "collect" /\ UNCHANGED case
Advance == /\ phase = "collect" /\ case < Cases
           /\ phase' = "configure" /\ case' = case + 1
Finish  == /\ phase = "collect" /\ case = Cases
           /\ phase' = "finished" /\ UNCHANGED case
Abort   == case' = 0 /\ phase' = "aborted"

AbsNext == Begin \/ Expire \/ Advance \/ Finish \/ Abort

AbsSpec == AbsInit /\ [][AbsNext]_absVars
=============================================================================
