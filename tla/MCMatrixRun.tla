----------------------------- MODULE MCMatrixRun -----------------------------
(***************************************************************************)
(* Instances of MatrixRun.  Profiles and scenarios: the entries with odd   *)
(* and even numbers use two profiles and all share one scenario, so that   *)
(* loads are both shared and separate.                                     *)
(***************************************************************************)
EXTENDS MatrixRun

CONSTANTS profileA, profileB, scenario

MCDefs       == {profileA, profileB, scenario}
MCProfileOf  == [i \in Items |-> IF i % 2 = 1 THEN profileA ELSE profileB]
MCScenarioOf == [i \in Items |-> scenario]

AnOutcome(cost, overflow, sessionTimedOut, oracleTimedOut, tasksPassed) ==
    [cost |-> cost, overflow |-> overflow, sessionTimedOut |-> sessionTimedOut,
     oracleTimedOut |-> oracleTimedOut, tasksPassed |-> tasksPassed]

\* One unit, two units, and a reading the tracker ignores.
BudgetOutcomes ==
    {AnOutcome(1, FALSE, FALSE, FALSE, 2), AnOutcome(2, FALSE, FALSE, FALSE, 0),
     AnOutcome(-1, FALSE, TRUE, FALSE, 1)}

\* A passing run, an overflow, a run that times out with every task passed, and
\* a reading the tracker ignores.
FaultOutcomes ==
    {AnOutcome(1, FALSE, FALSE, FALSE, 2), AnOutcome(2, TRUE, FALSE, FALSE, 0),
     AnOutcome(2, FALSE, FALSE, TRUE, 2), AnOutcome(-1, FALSE, TRUE, FALSE, 1)}

AllStages ==
    {"setup", "onRunStart", "load", "skip_init", "skip_summary", "mkdir", "config",
     "prepare", "session", "evaluate", "measure", "summary", "release", "unwind",
     "catch", "close"}
=============================================================================
