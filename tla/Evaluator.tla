------------------------------ MODULE Evaluator ------------------------------
(***************************************************************************)
(* evaluateRun of evaluator/index.ts over runOracle of evaluator/oracle.ts: *)
(* the oracle's script runs in a process group of its own with whatever    *)
(* processes it starts, prints a marker for each task, and is ended by two *)
(* timers; what it printed becomes the verdict on the run.                 *)
(*                                                                         *)
(* The promise of the child settles when the script has ended and its      *)
(* standard output is closed, which every process that inherited it keeps  *)
(* open, in whatever group it is: a helper may leave the script's group    *)
(* (setsid, setpgid; the script leads a session and cannot).  The          *)
(* operating system and execa are modelled from how oracle.ts relies on    *)
(* them.                                                                   *)
(***************************************************************************)
EXTENDS Naturals, Sequences, FiniteSets

CONSTANTS
    Tasks,         \* the declared task ids
    Regressions,   \* ids of regression markers
    Noise,         \* ids of markers the scenario does not declare
    Helpers,       \* processes the script may start
    MaxLines,      \* bound: markers printed in one behaviour
    Absent         \* no verdict yet

ASSUME EvaluatorAssumption ==
    /\ Tasks # {} /\ IsFiniteSet(Tasks)   \* the schema wants one task id at least
    /\ MaxLines \in Nat

VARIABLES
    phase,     \* "access", "running", "over" or "threw"
    script,    \* the direct child: "none", "running" or "ended"
    exitCode,  \* of the script; KilledCode if a signal ended it
    helper,    \* helper[h]: "none", "attached" (to stdout), "detached" or "ended"
    outside,   \* the helpers that have left the script's process group
    stdout,    \* the markers execa has read so far
    lost,      \* execa gave up on the output: too much of it, or a broken stream
    timer,     \* how many timers have fired: execa's, then the group's
    timedOut,  \* execa's verdict on the child
    verdict    \* the EvaluationResult

world == <<script, exitCode, helper, outside, stdout, lost>>
vars == <<phase, world, timer, timedOut, verdict>>

Status == INSTANCE RunStatus WITH TasksTotal <- Cardinality(Tasks)

Codes      == {0, 1}
KilledCode == 2        \* stands for the missing exit code of a killed child
Markers    == [id : Tasks \cup Regressions \cup Noise, passed : BOOLEAN]

Alive    == {h \in Helpers : helper[h] \in {"attached", "detached"}}
Attached == {h \in Alive : helper[h] = "attached"}

-----------------------------------------------------------------------------
Init ==
    /\ phase = "access"
    /\ script = "none" /\ exitCode = KilledCode
    /\ helper = [h \in Helpers |-> "none"]
    /\ outside = {} /\ stdout = <<>> /\ lost = FALSE
    /\ timer = 0 /\ timedOut = FALSE
    /\ verdict = Absent

\* The script is missing or not executable.
AccessFails ==
    /\ phase = "access"
    /\ phase' = "threw"
    /\ UNCHANGED <<world, timer, timedOut, verdict>>

\* The child is spawned and the group's timer armed in the same turn.  A
\* child that cannot be spawned is one that has ended without a code.
Spawn ==
    /\ phase = "access"
    /\ phase' = "running"
    /\ script' \in {"running", "ended"}
    /\ UNCHANGED <<exitCode, helper, outside, stdout, lost, timer, timedOut, verdict>>

StartHelper(h, io) ==
    /\ script = "running" /\ helper[h] = "none"
    /\ helper' = [helper EXCEPT ![h] = io]
    /\ UNCHANGED <<phase, script, exitCode, outside, stdout, lost, timer, timedOut, verdict>>

LeaveGroup(h) ==
    /\ h \in Alive \ outside
    /\ outside' = outside \cup {h}
    /\ UNCHANGED <<phase, script, exitCode, helper, stdout, lost, timer, timedOut, verdict>>

\* What is printed once execa has given up nobody reads.
Emit(marker) ==
    /\ script = "running" \/ Attached # {}
    /\ Len(stdout) < MaxLines /\ ~lost
    /\ stdout' = Append(stdout, marker)
    /\ UNCHANGED <<phase, script, exitCode, helper, outside, lost, timer, timedOut, verdict>>

\* More output than execa's buffer takes, or a stream that breaks.
OutputLost ==
    /\ phase = "running" /\ ~lost
    /\ script = "running" \/ Attached # {}
    /\ lost' = TRUE
    /\ UNCHANGED <<phase, script, exitCode, helper, outside, stdout, timer, timedOut, verdict>>

ScriptExits(code) ==
    /\ script = "running"
    /\ script' = "ended" /\ exitCode' = code
    /\ UNCHANGED <<phase, helper, outside, stdout, lost, timer, timedOut, verdict>>

HelperExits(h) ==
    /\ h \in Alive
    /\ helper' = [helper EXCEPT ![h] = "ended"]
    /\ UNCHANGED <<phase, script, exitCode, outside, stdout, lost, timer, timedOut, verdict>>

\* Mutated form: the clock stops when the script exits.
TimeoutFiresOnScript ==
    /\ phase = "running" /\ timer = 0
    /\ timer' = 1 /\ timedOut' = (script = "running")
    /\ \/ script' = "ended" /\ UNCHANGED exitCode
       \/ UNCHANGED <<script, exitCode>>
    /\ UNCHANGED <<phase, helper, outside, stdout, lost, verdict>>

\* execa's timeout: SIGTERM to the direct child, which may handle it.
TimeoutFires ==
    /\ phase = "running" /\ timer = 0
    /\ timer' = 1 /\ timedOut' = TRUE
    /\ \/ script' = "ended" /\ UNCHANGED exitCode
       \/ UNCHANGED <<script, exitCode>>
    /\ UNCHANGED <<phase, helper, outside, stdout, lost, verdict>>

\* Mutated form: the signal goes to the child instead of its group.
ChildKillFires ==
    /\ phase = "running" /\ timer = 1
    /\ timer' = 2
    /\ script' = "ended"
    /\ UNCHANGED <<phase, exitCode, helper, outside, stdout, lost, timedOut, verdict>>

\* A quarter of a second later SIGKILL goes to the script's group, unless the
\* child's promise has settled and cleared this timer.  It comes before
\* execa's own SIGKILL to the child, which therefore finds nothing to kill.
\* A helper that has left the group is not reached.
GroupKillFires ==
    /\ phase = "running" /\ timer = 1
    /\ timer' = 2
    /\ script' = "ended"
    /\ helper' = [h \in Helpers |-> IF h \in Alive \ outside THEN "ended" ELSE helper[h]]
    /\ UNCHANGED <<phase, exitCode, outside, stdout, lost, timedOut, verdict>>

-----------------------------------------------------------------------------
\* The markers of some ids, each at the line it was printed on.
Collect(lines, ids) == [n \in {l \in DOMAIN lines : lines[l].id \in ids} |-> lines[n]]

\* Mutated form: any id that is not a regression's counts as a task.
PerTaskUndeclared(lines) == Collect(lines, (Tasks \cup Noise) \ Regressions)

\* parseOracleStdout: a regression marker is never a task's, whatever the
\* scenario declares, and what is not declared is not looked at.
PerTask(lines)    == Collect(lines, Tasks \ Regressions)
Regression(lines) == Collect(lines, Regressions)
Count(results)    == Cardinality(DOMAIN results)
Passes(results)   == Cardinality({n \in DOMAIN results : results[n].passed})

\* Too many or too few task lines; the lines of a timeout are partial.
Malformed(results) == ~timedOut /\ Count(results) # Cardinality(Tasks)

\* execa calls a result failed, whatever the exit code, when it lost output.
Evaluation(lines) ==
    [passed     |-> ~timedOut /\ exitCode = 0 /\ ~lost,
     timedOut   |-> timedOut,
     perTask    |-> PerTask(lines),
     regression |-> Regression(lines)]

\* The child's promise has settled: the timer is cleared, and the output parsed
\* and judged, all in one turn.
Judge ==
    /\ IF Malformed(PerTask(stdout))
       THEN phase' = "threw" /\ UNCHANGED verdict
       ELSE phase' = "over" /\ verdict' = Evaluation(stdout)
    /\ UNCHANGED <<world, timer, timedOut>>

\* Mutated form: the child's "exit" is taken for its "close".
SettleOnExit == phase = "running" /\ script = "ended" /\ Judge

\* The script has ended, and its output is closed or has been given up.
Settle ==
    /\ phase = "running" /\ script = "ended" /\ (Attached = {} \/ lost)
    /\ Judge

Next ==
    \/ AccessFails \/ Spawn \/ TimeoutFires \/ GroupKillFires \/ Settle \/ OutputLost
    \/ \E h \in Helpers : \/ HelperExits(h) \/ LeaveGroup(h)
                          \/ \E io \in {"attached", "detached"} : StartHelper(h, io)
    \/ \E marker \in Markers : Emit(marker)
    \/ \E code \in Codes : ScriptExits(code)

\* Timers fire and promises settle.  Nothing makes the script, a helper or
\* their output come to an end.
Fairness ==
    WF_vars(Spawn) /\ WF_vars(TimeoutFires) /\ WF_vars(GroupKillFires) /\ WF_vars(Settle)

Spec == Init /\ [][Next]_vars /\ Fairness

-----------------------------------------------------------------------------
Judged == verdict # Absent

\* The status runSingleRun derives, for a session that did not time out.  It
\* compares with the number of task lines, which is Cardinality(Tasks) unless
\* the oracle timed out.
RunStatusOf(v) ==
    Status!DeriveStatus([sessionTimedOut |-> FALSE, oracleTimedOut |-> v.timedOut,
                         tasksPassed |-> Passes(v.perTask)])

\* Results for some ids, by line.
Results(ids) == UNION {[found -> [id : ids, passed : BOOLEAN]] : found \in SUBSET (1..MaxLines)}

\* The lines of one task, and whether some task has more than one.
AnswersOf(results, task) == {n \in DOMAIN results : results[n].id = task}
Repeats(results) ==
    \E m, n \in DOMAIN results : m # n /\ results[m].id = results[n].id

\* Type invariant of the evaluation.
TypeOK ==
    /\ phase \in {"access", "running", "over", "threw"}
    /\ script \in {"none", "running", "ended"}
    /\ exitCode \in Codes \cup {KilledCode}
    /\ helper \in [Helpers -> {"none", "attached", "detached", "ended"}]
    /\ outside \subseteq Helpers /\ lost \in BOOLEAN
    /\ stdout \in Seq(Markers) /\ Len(stdout) <= MaxLines
    /\ timer \in 0..2 /\ timedOut \in BOOLEAN
    /\ Judged => /\ verdict.passed \in BOOLEAN /\ verdict.timedOut \in BOOLEAN
                 /\ verdict.perTask \in Results(Tasks)
                 /\ verdict.regression \in Results(Regressions)

\* The verdict is taken from everything execa ever reads of the oracle's
\* processes; who outlives it holds none of their output, unless execa gave up on
\* the output, and that is no pass.  (Of the whole group nobody outlives the
\* second timer, but a process that left the group may.)
VerdictReadsAllOutput ==
    Judged => /\ verdict.perTask = PerTask(stdout)
              /\ verdict.regression = Regression(stdout)
              /\ lost => ~verdict.passed
              /\ ~lost => Attached = {}
              /\ timer = 2 => Alive \subseteq outside

\* A run counted as completed, in whole, in part or not at all, was judged by
\* an oracle that no timer cut short and that printed as many task lines as there
\* are tasks, so that a task without a line is only ever hidden by a second line
\* of another; where a timer fired, the run is a timeout, whatever was printed.
CompletedIsCounted ==
    Judged => /\ RunStatusOf(verdict) # "timeout" =>
                     /\ timer = 0 /\ Count(verdict.perTask) = Cardinality(Tasks)
                     /\ \/ \A t \in Tasks : AnswersOf(verdict.perTask, t) # {}
                        \/ Repeats(verdict.perTask)
              /\ timer > 0 => RunStatusOf(verdict) = "timeout" /\ ~verdict.passed

\* "A finished compound oracle must emit exactly the declared task ids [...] A
\* mismatch is a malformed oracle and a hard-stop signal" (evaluator/index.ts:176):
\* an oracle that is judged and did not time out has one line for each task.
ExactlyTheDeclaredIds ==
    Judged /\ ~verdict.timedOut =>
        \A t \in Tasks : Cardinality(AnswersOf(verdict.perTask, t)) = 1

\* The oracle's promise settles, although its script may hang, ignore SIGTERM
\* or leave processes behind that keep standard output open, unless one of those
\* has left the script's group and never lets go of it: that one the group's kill
\* does not reach, and the run, with its lane, waits for ever.
OracleSettles ==
    <>(phase \in {"over", "threw"}) \/ <>[](Attached \cap outside # {})

=============================================================================
