---------------------------- MODULE BudgetedMatrix ----------------------------
(***************************************************************************)
(* What runAll promises about an experiment, without files, lanes or       *)
(* caches: every entry of the matrix gets one verdict, at most Width runs  *)
(* are under way at once, no run is started once the recorded cost has     *)
(* reached the cap, and the experiment is closed over a full set of        *)
(* verdicts.                                                               *)
(***************************************************************************)
EXTENDS Integers, FiniteSets

CONSTANTS
    Entries,   \* the matrix
    Width,     \* runs under way at once
    Cap,       \* recorded cost at which no further run is started
    MaxCost    \* bound on the cost of one run

VARIABLES
    verdict,   \* "waiting", "running", "completed", "failed" or "skipped"
    recorded,  \* cost of the completed runs
    tripped,   \* the cap has been reached
    closed     \* the experiment's manifest may be written

vars == <<verdict, recorded, tripped, closed>>

Are(v) == {i \in Entries : verdict[i] = v}

Init ==
    /\ verdict = [i \in Entries |-> "waiting"]
    /\ recorded = 0
    /\ tripped = FALSE
    /\ closed = FALSE

Start ==
    /\ ~tripped
    /\ \E batch \in SUBSET Are("waiting") :
          /\ Cardinality(Are("running") \cup batch) <= Width
          /\ verdict' = [i \in Entries |-> IF i \in batch THEN "running" ELSE verdict[i]]
    /\ UNCHANGED <<recorded, tripped, closed>>

Complete(i, cost) ==
    /\ verdict[i] = "running"
    /\ verdict' = [verdict EXCEPT ![i] = "completed"]
    /\ recorded' = recorded + cost
    /\ tripped' = (tripped \/ recorded' >= Cap)
    /\ UNCHANGED closed

\* A run fails, or its entry is given up before it could run.
Fail(i) ==
    /\ verdict[i] \in {"waiting", "running"}
    /\ verdict' = [verdict EXCEPT ![i] = "failed"]
    /\ UNCHANGED <<recorded, tripped, closed>>

Skip(i) ==
    /\ verdict[i] = "waiting"
    /\ tripped
    /\ verdict' = [verdict EXCEPT ![i] = "skipped"]
    /\ UNCHANGED <<recorded, tripped, closed>>

Close ==
    /\ ~closed
    /\ Are("waiting") \cup Are("running") = {}
    /\ closed' = TRUE
    /\ UNCHANGED <<verdict, recorded, tripped>>

Next ==
    \/ Start \/ Close
    \/ \E i \in Entries : Fail(i) \/ Skip(i) \/ \E cost \in 0..MaxCost : Complete(i, cost)

Spec == Init /\ [][Next]_vars
=============================================================================
