-------------------------- MODULE Evaluator_proofs --------------------------
(***************************************************************************)
(* The verdict on a run, for any oracle: any number of declared tasks, of  *)
(* helper processes and of lines they print.                               *)
(***************************************************************************)
EXTENDS Evaluator, SequenceTheorems, FiniteSetTheorems, TLAPS

-----------------------------------------------------------------------------
(***************************************************************************)
(* That a verdict was taken from all of the output is not inductive: it    *)
(* takes that nobody is left who could print, that nothing fires once the  *)
(* promise has settled, and that the second timer leaves nobody of the     *)
(* script's group alive.                                                   *)
(***************************************************************************)
\* Nothing runs before the child has been spawned, and no timer has fired.
NothingBeforeSpawn ==
    phase = "access" => script = "none" /\ timer = 0 /\ verdict = Absent

\* execa reports a timeout if and only if its timer has fired.
TimerTells == timedOut <=> timer > 0

\* Nobody of the group survives its kill, and nobody is left to start another.
KillIsFinal ==
    timer = 2 => script = "ended" /\ Alive \subseteq outside

\* Once the promise has settled nobody is heard; without a verdict before.
SettledIsQuiet ==
    /\ phase = "over" => script = "ended" /\ (Attached = {} \/ lost) /\ ~Malformed(PerTask(stdout))
                         /\ verdict = Evaluation(stdout)
    /\ phase # "over" => verdict = Absent

\* The types without that of the verdict.
StateTypeOK ==
    /\ phase \in {"access", "running", "over", "threw"}
    /\ script \in {"none", "running", "ended"}
    /\ exitCode \in Codes \cup {KilledCode}
    /\ helper \in [Helpers -> {"none", "attached", "detached", "ended"}]
    /\ outside \subseteq Helpers /\ lost \in BOOLEAN
    /\ stdout \in Seq(Markers) /\ Len(stdout) <= MaxLines
    /\ timer \in 0..2 /\ timedOut \in BOOLEAN

IInv == StateTypeOK /\ NothingBeforeSpawn /\ TimerTells /\ KillIsFinal /\ SettledIsQuiet

-----------------------------------------------------------------------------
(* What is collected from the output *)

\* What is collected for some ids is about those ids, whatever was printed.
LEMMA CollectTyped ==
    ASSUME NEW lines \in Seq(Markers), Len(lines) <= MaxLines, NEW ids, NEW all, ids \subseteq all
    PROVE  Collect(lines, ids) \in Results(all)
<1> DEFINE found == {l \in DOMAIN lines : lines[l].id \in ids}
<1>1. DOMAIN lines = 1..Len(lines) /\ Len(lines) \in Nat
  OBVIOUS
<1>2. found \in SUBSET (1..MaxLines)
  BY <1>1, EvaluatorAssumption
<1>3. ASSUME NEW n \in found
      PROVE  lines[n] \in [id : all, passed : BOOLEAN]
  <2>1. lines[n] \in Markers /\ lines[n].id \in all
    BY <1>1, <1>3
  <2> QED
    BY <2>1 DEF Markers
<1>4. Collect(lines, ids) \in [found -> [id : all, passed : BOOLEAN]]
  BY <1>3 DEF Collect
<1> HIDE DEF found
<1> QED
  BY <1>2, <1>4 DEF Results

\* What is collected is on finitely many lines.
LEMMA CollectFinite ==
    ASSUME NEW lines \in Seq(Markers), NEW ids
    PROVE  /\ IsFiniteSet(DOMAIN Collect(lines, ids))
           /\ \A n \in DOMAIN Collect(lines, ids) : Collect(lines, ids)[n].id \in ids
<1>1. DOMAIN lines = 1..Len(lines) /\ Len(lines) \in Nat
  OBVIOUS
<1>2. IsFiniteSet(1..Len(lines))
  BY <1>1, FS_Interval
<1>3. DOMAIN Collect(lines, ids) \subseteq 1..Len(lines)
  BY <1>1 DEF Collect
<1> QED
  BY <1>2, <1>3, FS_Subset DEF Collect

\* As many lines as tasks, and no two of one task: a line of every task.
LEMMA Pigeonhole ==
    ASSUME NEW lines \in Seq(Markers), Count(PerTask(lines)) = Cardinality(Tasks),
           ~Repeats(PerTask(lines)), NEW t \in Tasks
    PROVE  AnswersOf(PerTask(lines), t) # {}
<1> DEFINE results == PerTask(lines)
           found == DOMAIN results
           answered == {results[n].id : n \in found}
           Id == [n \in found |-> results[n].id]
<1>1. IsFiniteSet(found) /\ \A n \in found : results[n].id \in Tasks
  BY CollectFinite DEF PerTask
<1>2. \A m, n \in found : results[m].id = results[n].id => m = n
  BY DEF Repeats
<1> HIDE DEF results, found
<1>3. Id \in Injection(found, answered)
  BY <1>2 DEF Injection, IsInjective
<1>4. Id \in Surjection(found, answered)
  BY DEF Surjection
<1>5. Id \in Bijection(found, answered)
  BY <1>3, <1>4 DEF Bijection
<1>6. ExistsBijection(found, answered)
  BY <1>5 DEF ExistsBijection
<1>7. IsFiniteSet(answered) /\ Cardinality(answered) = Cardinality(found)
  BY <1>1, <1>6, FS_Bijection
<1>8. answered \subseteq Tasks
  BY <1>1
<1>9. Cardinality(found) = Cardinality(Tasks)
  BY DEF Count, results, found
<1>10. answered = Tasks
  BY <1>7, <1>8, <1>9, EvaluatorAssumption, FS_Subset
<1>11. PICK n \in found : results[n].id = t
  BY <1>10
<1> QED
  BY <1>11 DEF AnswersOf, results, found

-----------------------------------------------------------------------------
\* Before the oracle is looked for there is nothing to judge.
LEMMA InitIInv == Init => IInv
<1> SUFFICES ASSUME Init PROVE IInv
  OBVIOUS
<1>1. stdout \in Seq(Markers) /\ Len(stdout) <= MaxLines
  BY EvaluatorAssumption DEF Init
<1>2. /\ phase = "access" /\ script = "none" /\ exitCode = KilledCode /\ timer = 0
      /\ timedOut = FALSE /\ helper \in [Helpers -> {"none", "attached", "detached", "ended"}]
      /\ outside = {} /\ lost = FALSE
  BY DEF Init
<1>3. timedOut \in BOOLEAN /\ exitCode \in Codes \cup {KilledCode} /\ timer \in 0..2
      /\ lost \in BOOLEAN /\ outside \subseteq Helpers
  <2>1. timedOut \in BOOLEAN /\ exitCode \in Codes \cup {KilledCode} /\ lost \in BOOLEAN
    BY <1>2, Zenon
  <2>2. timer \in 0..2 /\ outside \subseteq Helpers
    BY <1>2, SMT
  <2> QED BY <2>1, <2>2
<1>4. StateTypeOK
  BY <1>1, <1>2, <1>3, Zenon DEF StateTypeOK
<1> QED
  BY <1>4 DEF Init, IInv, NothingBeforeSpawn, TimerTells, KillIsFinal, SettledIsQuiet

\* Where nobody who may be heard is started, and no output and no verdict is
\* changed, what has settled stays so.
LEMMA StaysQuiet ==
    ASSUME SettledIsQuiet, phase = "over" => script' = "ended",
           Attached = {} => Attached' = {}, lost => lost',
           UNCHANGED <<phase, verdict>>,
           phase = "over" => UNCHANGED <<exitCode, stdout, timedOut, lost>>
    PROVE  SettledIsQuiet'
<1>1. CASE phase = "over"
  <2>1. Malformed(PerTask(stdout))' <=> Malformed(PerTask(stdout))
    BY <1>1 DEF Malformed, PerTask, Collect
  <2>2. Evaluation(stdout)' = Evaluation(stdout)
    BY <1>1 DEF Evaluation, PerTask, Regression, Collect
  <2> QED BY <1>1, <2>1, <2>2 DEF SettledIsQuiet
<1>2. CASE phase # "over"
  BY <1>2 DEF SettledIsQuiet
<1> QED BY <1>1, <1>2

\* What the oracle's processes do: they start, leave the group, print and exit,
\* and none of them is there to be heard when the promise has settled.
LEMMA OracleActs ==
    ASSUME IInv,
           \/ \E h \in Helpers : \/ HelperExits(h) \/ LeaveGroup(h)
                                 \/ \E io \in {"attached", "detached"} : StartHelper(h, io)
           \/ \E marker \in Markers : Emit(marker)
           \/ \E code \in Codes : ScriptExits(code)
           \/ OutputLost
    PROVE  IInv'
<1> USE DEF IInv
<1>1. ASSUME NEW h \in Helpers, HelperExits(h) PROVE IInv'
  <2>1. /\ helper' = [helper EXCEPT ![h] = "ended"]
        /\ UNCHANGED <<phase, script, exitCode, outside, stdout, lost, timer, timedOut, verdict>>
    BY <1>1 DEF HelperExits
  <2>2. Alive' \subseteq Alive /\ Attached' \subseteq Attached
    BY <2>1 DEF StateTypeOK, Alive, Attached
  <2>3. StateTypeOK' /\ NothingBeforeSpawn' /\ TimerTells' /\ KillIsFinal'
    BY <2>1, <2>2 DEF StateTypeOK, NothingBeforeSpawn, TimerTells, KillIsFinal
  <2>4. SettledIsQuiet'
    BY <2>1, <2>2, StaysQuiet DEF SettledIsQuiet
  <2> QED BY <2>3, <2>4
<1>2. ASSUME NEW h \in Helpers, NEW io \in {"attached", "detached"}, StartHelper(h, io) PROVE IInv'
  <2>1. /\ helper' = [helper EXCEPT ![h] = io] /\ script = "running"
        /\ UNCHANGED <<phase, script, exitCode, outside, stdout, lost, timer, timedOut, verdict>>
    BY <1>2 DEF StartHelper
  <2>2. StateTypeOK' /\ NothingBeforeSpawn' /\ TimerTells' /\ KillIsFinal'
    BY <2>1 DEF StateTypeOK, NothingBeforeSpawn, TimerTells, KillIsFinal
  <2>3. SettledIsQuiet'
    BY <2>1 DEF SettledIsQuiet
  <2> QED BY <2>2, <2>3
<1>3. ASSUME NEW marker \in Markers, Emit(marker) PROVE IInv'
  <2>1. /\ script = "running" \/ Attached # {}
        /\ stdout' = Append(stdout, marker) /\ Len(stdout) < MaxLines /\ ~lost
        /\ UNCHANGED <<phase, script, exitCode, helper, outside, lost, timer, timedOut, verdict>>
    BY <1>3 DEF Emit
  <2>2. stdout' \in Seq(Markers) /\ Len(stdout') <= MaxLines
    <3>1. stdout \in Seq(Markers)
      BY DEF StateTypeOK
    <3>2. stdout' \in Seq(Markers) /\ Len(stdout') = Len(stdout) + 1 /\ Len(stdout) \in Nat
      BY <2>1, <3>1, AppendProperties
    <3> QED
      BY <2>1, <3>2, EvaluatorAssumption
  <2>3. Alive' = Alive
    BY <2>1 DEF Alive
  <2>4. StateTypeOK' /\ NothingBeforeSpawn' /\ TimerTells' /\ KillIsFinal'
    BY <2>1, <2>2, <2>3 DEF StateTypeOK, NothingBeforeSpawn, TimerTells, KillIsFinal
  <2>5. SettledIsQuiet'
    BY <2>1 DEF SettledIsQuiet
  <2> QED BY <2>4, <2>5
<1>4. ASSUME NEW code \in Codes, ScriptExits(code) PROVE IInv'
  <2>1. Alive' = Alive
    BY <1>4 DEF ScriptExits, Alive
  <2> QED
    BY <1>4, <2>1
    DEF ScriptExits, StateTypeOK, NothingBeforeSpawn, TimerTells, KillIsFinal, SettledIsQuiet
<1>5. ASSUME NEW h \in Helpers, LeaveGroup(h) PROVE IInv'
  <2>1. /\ outside' = outside \cup {h} /\ h \in Alive
        /\ UNCHANGED <<phase, script, exitCode, helper, stdout, lost, timer, timedOut, verdict>>
    BY <1>5 DEF LeaveGroup
  <2>2. Alive' = Alive /\ Attached' = Attached
    BY <2>1 DEF Alive, Attached
  <2>3. StateTypeOK' /\ NothingBeforeSpawn' /\ TimerTells' /\ KillIsFinal'
    BY <2>1, <2>2 DEF StateTypeOK, NothingBeforeSpawn, TimerTells, KillIsFinal
  <2>4. SettledIsQuiet'
    BY <2>1, <2>2, StaysQuiet DEF SettledIsQuiet
  <2> QED BY <2>3, <2>4
<1>6. ASSUME OutputLost PROVE IInv'
  <2>1. /\ lost' = TRUE /\ phase = "running"
        /\ UNCHANGED <<phase, script, exitCode, helper, outside, stdout, timer, timedOut, verdict>>
    BY <1>6 DEF OutputLost
  <2>2. Alive' = Alive
    BY <2>1 DEF Alive
  <2>3. lost' \in BOOLEAN
    BY <2>1, Zenon
  <2>4. StateTypeOK' /\ NothingBeforeSpawn' /\ TimerTells' /\ KillIsFinal' /\ SettledIsQuiet'
    BY <2>1, <2>2, <2>3
    DEF StateTypeOK, NothingBeforeSpawn, TimerTells, KillIsFinal, SettledIsQuiet
  <2> QED BY <2>4
<1> QED
  BY <1>1, <1>2, <1>3, <1>4, <1>5, <1>6

\* What the runner does: spawn, two timers, and the turn of the verdict.
LEMMA RunnerActs ==
    ASSUME IInv, AccessFails \/ Spawn \/ TimeoutFires \/ GroupKillFires \/ Settle
    PROVE  IInv'
<1> USE DEF IInv
<1>1. CASE AccessFails \/ Spawn
  <2>1. Alive' = Alive
    BY <1>1 DEF AccessFails, Spawn, world, Alive
  <2> QED
    BY <1>1, <2>1
    DEF AccessFails, Spawn, world, StateTypeOK, NothingBeforeSpawn, TimerTells, KillIsFinal,
        SettledIsQuiet
<1>2. CASE TimeoutFires
  <2>1. /\ phase = "running" /\ timer' = 1 /\ timedOut' = TRUE /\ script' \in {script, "ended"}
        /\ UNCHANGED <<phase, exitCode, helper, outside, stdout, lost, verdict>>
    BY <1>2 DEF TimeoutFires
  <2>2. timedOut' \in BOOLEAN /\ timer' \in 0..2
    <3>1. timedOut' \in BOOLEAN
      BY <2>1, Zenon
    <3> QED BY <2>1, <3>1
  <2> QED
    BY <2>1, <2>2 DEF StateTypeOK, NothingBeforeSpawn, TimerTells, KillIsFinal, SettledIsQuiet
<1>3. CASE GroupKillFires
  <2>1. /\ phase = "running" /\ timer = 1 /\ timer' = 2 /\ script' = "ended"
        /\ helper' = [h \in Helpers |-> IF h \in Alive \ outside THEN "ended" ELSE helper[h]]
        /\ UNCHANGED <<phase, exitCode, outside, stdout, lost, timedOut, verdict>>
    BY <1>3 DEF GroupKillFires
  <2>2. Alive' \subseteq outside
    BY <2>1 DEF Alive
  <2>3. helper' \in [Helpers -> {"none", "attached", "detached", "ended"}]
    BY <2>1 DEF StateTypeOK
  <2> QED
    BY <2>1, <2>2, <2>3
    DEF StateTypeOK, NothingBeforeSpawn, TimerTells, KillIsFinal, SettledIsQuiet
<1>4. CASE Settle
  <2>1. /\ phase = "running" /\ script = "ended" /\ (Attached = {} \/ lost)
        /\ UNCHANGED <<script, exitCode, helper, outside, stdout, lost, timer, timedOut>>
        /\ \/ phase' = "threw" /\ verdict' = verdict
           \/ ~Malformed(PerTask(stdout)) /\ phase' = "over" /\ verdict' = Evaluation(stdout)
    BY <1>4 DEF Settle, Judge, world
  <2>2. Alive' = Alive
    BY <2>1 DEF Alive
  <2>3. StateTypeOK' /\ NothingBeforeSpawn' /\ TimerTells' /\ KillIsFinal'
    BY <2>1, <2>2 DEF StateTypeOK, NothingBeforeSpawn, TimerTells, KillIsFinal
  <2>4. /\ Attached' = Attached
        /\ Malformed(PerTask(stdout))' <=> Malformed(PerTask(stdout))
        /\ Evaluation(stdout)' = Evaluation(stdout)
    BY <2>1, <2>2 DEF Attached, Malformed, Evaluation
  <2>5. SettledIsQuiet'
    BY <2>1, <2>4 DEF SettledIsQuiet
  <2> QED BY <2>3, <2>5
<1> QED
  BY <1>1, <1>2, <1>3, <1>4

\* The strengthened invariant holds in every reachable state.
THEOREM Inductive == Spec => []IInv
<1>1. IInv /\ [Next]_vars => IInv'
  <2> SUFFICES ASSUME IInv, [Next]_vars PROVE IInv'
    OBVIOUS
  <2>1. CASE Next
    BY <2>1, OracleActs, RunnerActs DEF Next
  <2>2. CASE UNCHANGED vars
    BY <2>2
    DEF vars, world, IInv, StateTypeOK, NothingBeforeSpawn, TimerTells, KillIsFinal, SettledIsQuiet,
        Alive, Attached, Malformed, Evaluation
  <2> QED BY <2>1, <2>2
<1> QED
  BY InitIInv, <1>1, PTL DEF Spec

\* Every reachable state is typed, the results of a verdict by their ids.
THEOREM TypeCorrect == Spec => []TypeOK
<1>1. IInv => TypeOK
  <2> SUFFICES ASSUME IInv PROVE TypeOK
    OBVIOUS
  <2>1. StateTypeOK
    BY DEF IInv
  <2>2. ASSUME Judged
        PROVE  /\ verdict.passed \in BOOLEAN /\ verdict.timedOut \in BOOLEAN
               /\ verdict.perTask \in Results(Tasks)
               /\ verdict.regression \in Results(Regressions)
    <3>1. verdict = Evaluation(stdout)
      BY <2>2 DEF IInv, SettledIsQuiet, Judged
    <3>2. PerTask(stdout) \in Results(Tasks) /\ Regression(stdout) \in Results(Regressions)
      BY <2>1, CollectTyped DEF StateTypeOK, PerTask, Regression
    <3> QED
      BY <2>1, <3>1, <3>2 DEF Evaluation, StateTypeOK
  <2> QED
    BY <2>1, <2>2 DEF TypeOK, StateTypeOK
<1> QED
  BY <1>1, Inductive, PTL

\* No verdict is taken from a part of what is read of the oracle's processes,
\* and who outlives the group's kill has left the group.
THEOREM NothingIsPrintedLater == Spec => []VerdictReadsAllOutput
<1>1. IInv => VerdictReadsAllOutput
  <2> SUFFICES ASSUME IInv, Judged
               PROVE  /\ verdict.perTask = PerTask(stdout)
                      /\ verdict.regression = Regression(stdout)
                      /\ lost => ~verdict.passed
                      /\ ~lost => Attached = {}
                      /\ timer = 2 => Alive \subseteq outside
    BY DEF VerdictReadsAllOutput
  <2>1. verdict = Evaluation(stdout) /\ (Attached = {} \/ lost)
    BY DEF IInv, SettledIsQuiet, Judged
  <2>2. /\ verdict.perTask = PerTask(stdout) /\ verdict.regression = Regression(stdout)
        /\ lost => ~verdict.passed
    BY <2>1 DEF Evaluation
  <2> QED
    BY <2>1, <2>2 DEF IInv, KillIsFinal
<1> QED
  BY <1>1, Inductive, PTL

\* What counts as completed was not cut short by a timer and has as many answers
\* as there are tasks; none is missing unless another is given twice.
THEOREM CompletedMeansCounted == Spec => []CompletedIsCounted
<1>1. IInv => CompletedIsCounted
  <2> SUFFICES ASSUME IInv, Judged
               PROVE  /\ RunStatusOf(verdict) # "timeout" =>
                            /\ timer = 0 /\ Count(verdict.perTask) = Cardinality(Tasks)
                            /\ \/ \A t \in Tasks : AnswersOf(verdict.perTask, t) # {}
                               \/ Repeats(verdict.perTask)
                      /\ timer > 0 => RunStatusOf(verdict) = "timeout" /\ ~verdict.passed
    BY DEF CompletedIsCounted
  <2>1. verdict = Evaluation(stdout) /\ ~Malformed(PerTask(stdout))
    BY DEF IInv, SettledIsQuiet, Judged
  <2>2. /\ verdict.timedOut = timedOut /\ verdict.perTask = PerTask(stdout)
        /\ timedOut => ~verdict.passed
    BY <2>1 DEF Evaluation
  <2>3. timedOut => RunStatusOf(verdict) = "timeout"
    BY <2>2 DEF RunStatusOf, Status!DeriveStatus
  <2>4. timer \in 0..2 /\ (timedOut <=> timer > 0) /\ stdout \in Seq(Markers)
    BY DEF IInv, StateTypeOK, TimerTells
  <2>5. ASSUME ~timedOut
        PROVE  timer = 0 /\ Count(verdict.perTask) = Cardinality(Tasks)
    BY <2>1, <2>2, <2>4, <2>5 DEF Malformed
  <2>6. ASSUME ~timedOut
        PROVE  \/ \A t \in Tasks : AnswersOf(verdict.perTask, t) # {}
               \/ Repeats(verdict.perTask)
    BY <2>2, <2>4, <2>5, <2>6, Pigeonhole
  <2> QED
    BY <2>2, <2>3, <2>4, <2>5, <2>6
<1> QED
  BY <1>1, Inductive, PTL
=============================================================================
