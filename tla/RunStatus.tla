------------------------------ MODULE RunStatus ------------------------------
(***************************************************************************)
(* The five run statuses and how runner/index.ts derives one from what the *)
(* session and the oracle reported.  An outcome is what runSingleRun       *)
(* returns, abstracted to the fields the status and the budget depend on.  *)
(***************************************************************************)
EXTENDS Integers

CONSTANT TasksTotal   \* tasks the oracle reports; the schema wants one at least

ASSUME RunStatusAssumption == TasksTotal \in Nat \ {0}

Statuses ==
    {"completed_passed", "completed_failed", "partially_completed", "timeout", "error"}

\* cost: a non-positive cost stands for the readings recordRun ignores (NaN,
\* infinite, negative).  overflow: more tokens than max_tokens_per_run.
OutcomeSet ==
    [cost : Int, overflow : BOOLEAN, sessionTimedOut : BOOLEAN,
     oracleTimedOut : BOOLEAN, tasksPassed : 0..TasksTotal]

DeriveStatus(o) ==
    IF o.sessionTimedOut \/ o.oracleTimedOut
    THEN "timeout"
    ELSE CASE o.tasksPassed = TasksTotal -> "completed_passed"
           [] o.tasksPassed = 0 -> "completed_failed"
           [] OTHER -> "partially_completed"
=============================================================================
