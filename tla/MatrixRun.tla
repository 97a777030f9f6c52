------------------------------ MODULE MatrixRun ------------------------------
(***************************************************************************)
(* runAll of runner/index.ts: the whole matrix of an experiment.  The lanes *)
(* of RunPool take the entries; each entry passes the budget gate, waits   *)
(* for its profile and its scenario, goes through the stages of            *)
(* runSingleRun and leaves its artifacts in its run directory; when every  *)
(* lane has exited the manifest and the aggregated tables are written.     *)
(*                                                                         *)
(* An action is what one entry does between two awaits, with the file      *)
(* operation it was waiting for.  Every await may reject; the places where *)
(* that happens are the stages in FaultPoints, and at most MaxFaults       *)
(* failures happen in one behaviour.                                       *)
(***************************************************************************)
EXTENDS RunPool, RunStatus

CONSTANTS
    Defs,          \* ids of profiles and scenarios
    ProfileOf,     \* ProfileOf[i], ScenarioOf[i]: the definitions entry i needs
    ScenarioOf,
    Cap,           \* environment.max_total_cost_usd
    MaxCost,       \* bound on the cost of one session
    Outcomes,      \* outcomes a session and its oracle may have
    Emit,          \* analysis.emit
    FaultPoints,   \* stages at which an await may reject
    MaxFaults,     \* bound: failures in one behaviour
    Absent         \* no value yet, or no such file

ASSUME MatrixAssumption ==
    /\ Total > 0   \* the schema wants a level for every factor
    /\ ProfileOf \in [Items -> Defs]
    /\ ScenarioOf \in [Items -> Defs]
    /\ Cap \in Nat \ {0}
    /\ MaxCost \in Nat
    /\ Outcomes \subseteq {o \in OutcomeSet : o.cost <= MaxCost}
    /\ Emit \subseteq {"csv", "jsonl"}
    /\ MaxFaults \in Nat
    /\ Absent \notin Statuses /\ Absent \notin Outcomes

VARIABLES
    phase,       \* where runAll is
    stage,       \* stage[i]: the await entry i is at
    cache,       \* cache[d]: the promise profileCache or scenarioCache holds
    outcome,     \* outcome[i]: what the session and the oracle reported
    failure,     \* failure[i]: name of the error entry i is unwinding with
    disk,        \* disk[i]: the run directory
    report,      \* report[i]: the slot of `reports`
    cumulative,  \* BudgetTracker: _cumulativeCostUsd
    aborted,     \* BudgetTracker: _aborted
    manifest,    \* manifest.yaml: Absent or the status of every run
    tables,      \* tables[t]: Absent or the row of every run in results.<t>
    torn,        \* which of these files a failed write left half done
    faults,      \* failures so far
    spent        \* history: cost of the sessions of entries that are done

entryVars  == <<stage, cache, outcome, failure, disk, report>>
budgetVars == <<cumulative, aborted, spent>>
closeVars  == <<manifest, tables, torn>>
vars == <<phase, poolVars, entryVars, budgetVars, closeVars, faults>>

-----------------------------------------------------------------------------
Stages ==
    {"todo", "skip_init", "skip_summary", "profile", "await_profile",
     "await_scenario", "mkdir", "config", "prepare", "session", "evaluate",
     "measure", "summary", "release", "unwind", "catch", "done", "missed"}

\* Past the budget gate with a session to run and not yet accounted for.
PaidStages ==
    {"profile", "await_profile", "await_scenario", "mkdir", "config", "prepare",
     "session", "evaluate", "measure", "summary", "release", "unwind", "catch"}

ErrorNames ==
    {"BudgetExceededError", "TokenOverflowError", "LoadError", "RunError", "PoolMissError"}

\* Which columns of its row in a table a run fills.
Rows == [cell : BOOLEAN, usage : BOOLEAN, tests : BOOLEAN, metrics : BOOLEAN]

Tables == UNION {[dirs -> Rows] : dirs \in SUBSET Items}

\* Absent is none of the values it stands in for.
ASSUME AbsentAssumption ==
    /\ Absent \notin ErrorNames
    /\ Absent \notin [status : Statuses, error : ErrorNames \cup {Absent}]
    /\ Absent \notin [Items -> Statuses]
    /\ Absent \notin Tables

FileStates == {"none", "torn", "whole"}

\* A plain write that stops half way leaves no JSON that parses, but it may
\* leave YAML that does: a clipped config.yaml ends inside or after its last
\* required key, repetition, a torn one before it.
ConfigStates == FileStates \cup {"clipped"}

Directories ==
    [dir : BOOLEAN, config : ConfigStates, tests : FileStates, metrics : FileStates,
     summary : Statuses \cup {Absent}]

EmptyDir ==
    [dir |-> FALSE, config |-> "none", tests |-> "none", metrics |-> "none", summary |-> Absent]

Succeeded(status) == [status |-> status, error |-> Absent]
Failed(error)     == [status |-> "error", error |-> error]

MayFail(s) == s \in FaultPoints /\ faults < MaxFaults

Goto(i, s) == stage' = [stage EXCEPT ![i] = s]

\* The entry's report is stored; onRunEnd, which only prints, is left out.
Report(i, r) ==
    /\ report' = [report EXCEPT ![i] = r]
    /\ Goto(i, "done")

-----------------------------------------------------------------------------
Init ==
    /\ PoolInit
    /\ phase = "setup"
    /\ stage = [i \in Items |-> "todo"]
    /\ cache = [d \in Defs |-> "absent"]
    /\ outcome = [i \in Items |-> Absent]
    /\ failure = [i \in Items |-> Absent]
    /\ disk = [i \in Items |-> EmptyDir]
    /\ report = [i \in Items |-> Absent]
    /\ cumulative = 0 /\ aborted = FALSE /\ spent = 0
    /\ manifest = Absent
    /\ tables = [t \in {"csv", "jsonl"} |-> Absent]
    /\ torn = {}
    /\ faults = 0

\* Mutated form: the gate does not look at the tracker.
GateOpen == "profile"

\* The budget gate.  A worker's first statements run in the turn that took
\* the index, so no other run can be recorded between the two.
Gate == IF aborted THEN "skip_init" ELSE "profile"

\* The bundle is initialised and the harness loaded, then the lanes open.
OpenPool ==
    /\ phase = "setup"
    /\ Launch
    /\ phase' = "pool"
    /\ stage' = [i \in Items |-> IF i <= Concurrency THEN Gate ELSE "todo"]
    /\ UNCHANGED <<cache, outcome, failure, disk, report, budgetVars, closeVars, faults>>

\* initBundle, loadHarness or the harness's register hook rejects.
SetupFails ==
    /\ phase = "setup"
    /\ MayFail("setup")
    /\ phase' = "rejected"
    /\ faults' = faults + 1
    /\ UNCHANGED <<poolVars, entryVars, budgetVars, closeVars>>

TakeEntry(l) ==
    /\ phase = "pool"
    /\ Take(l)
    /\ Goto(cursor, Gate)
    /\ UNCHANGED <<phase, cache, outcome, failure, disk, report, budgetVars, closeVars, faults>>

ReturnLane(l) ==
    /\ phase = "pool"
    /\ lane[l] \in Items
    /\ stage[lane[l]] \in {"done", "missed"}
    /\ Return(l)
    /\ UNCHANGED <<phase, entryVars, budgetVars, closeVars, faults>>

ExitLane(l) ==
    /\ phase = "pool"
    /\ Exit(l)
    /\ UNCHANGED <<phase, entryVars, budgetVars, closeVars, faults>>

\* onRunStart throws before the worker's own try: the pool swallows it and
\* the slot stays empty.
StartHookThrows(i) ==
    /\ stage[i] \in {"skip_init", "profile"}
    /\ MayFail("onRunStart")
    /\ Goto(i, "missed")
    /\ faults' = faults + 1
    /\ UNCHANGED <<phase, poolVars, cache, outcome, failure, disk, report, budgetVars, closeVars>>

-----------------------------------------------------------------------------
(* Budget already exhausted: leave a stub and report the entry as skipped. *)

SkipInit(i) ==
    /\ stage[i] = "skip_init"
    /\ disk' = [disk EXCEPT ![i].dir = TRUE, ![i].config = "whole"]
    /\ Goto(i, "skip_summary")
    /\ UNCHANGED <<phase, poolVars, cache, outcome, failure, report, budgetVars, closeVars, faults>>

SkipSummary(i) ==
    /\ stage[i] = "skip_summary"
    /\ disk' = [disk EXCEPT ![i].summary = "error"]
    /\ Report(i, Failed("BudgetExceededError"))
    /\ UNCHANGED <<phase, poolVars, cache, outcome, failure, budgetVars, closeVars, faults>>

\* What initRun may leave behind when it rejects.
PartialInit(i) ==
    {disk[i], [disk[i] EXCEPT !.dir = TRUE], [disk[i] EXCEPT !.dir = TRUE, !.config = "torn"],
     [disk[i] EXCEPT !.dir = TRUE, !.config = "clipped"]}

\* The stub is best effort: the entry is reported all the same.
SkipFails(i) ==
    /\ \/ /\ stage[i] = "skip_init" /\ MayFail("skip_init")
          /\ \E left \in PartialInit(i) : disk' = [disk EXCEPT ![i] = left]
       \/ /\ stage[i] = "skip_summary" /\ MayFail("skip_summary")
          /\ UNCHANGED disk
    /\ Report(i, Failed("BudgetExceededError"))
    /\ faults' = faults + 1
    /\ UNCHANGED <<phase, poolVars, cache, outcome, failure, budgetVars, closeVars>>

-----------------------------------------------------------------------------
(* Definitions: one promise for each id, shared by the entries that ask.   *)

\* Mutated form: a rejected promise is replaced by a new load.
RequestedRetrying(d) == [cache EXCEPT ![d] = IF @ \in {"absent", "rejected"} THEN "loading" ELSE @]

Requested(d) == [cache EXCEPT ![d] = IF @ = "absent" THEN "loading" ELSE @]

RequestProfile(i) ==
    /\ stage[i] = "profile"
    /\ cache' = Requested(ProfileOf[i])
    /\ Goto(i, "await_profile")
    /\ UNCHANGED <<phase, poolVars, outcome, failure, disk, report, budgetVars, closeVars, faults>>

RequestScenario(i) ==
    /\ stage[i] = "await_profile"
    /\ cache[ProfileOf[i]] = "ready"
    /\ cache' = Requested(ScenarioOf[i])
    /\ Goto(i, "await_scenario")
    /\ UNCHANGED <<phase, poolVars, outcome, failure, disk, report, budgetVars, closeVars, faults>>

EnterRun(i) ==
    /\ stage[i] = "await_scenario"
    /\ cache[ScenarioOf[i]] = "ready"
    /\ Goto(i, "mkdir")
    /\ UNCHANGED <<phase, poolVars, cache, outcome, failure, disk, report, budgetVars, closeVars, faults>>

DefinitionLoads(d) ==
    /\ cache[d] = "loading"
    /\ cache' = [cache EXCEPT ![d] = "ready"]
    /\ UNCHANGED <<phase, poolVars, stage, outcome, failure, disk, report, budgetVars, closeVars, faults>>

DefinitionRejects(d) ==
    /\ cache[d] = "loading"
    /\ MayFail("load")
    /\ cache' = [cache EXCEPT ![d] = "rejected"]
    /\ faults' = faults + 1
    /\ UNCHANGED <<phase, poolVars, stage, outcome, failure, disk, report, budgetVars, closeVars>>

LoadFailed(i) ==
    /\ \/ stage[i] = "await_profile" /\ cache[ProfileOf[i]] = "rejected"
       \/ stage[i] = "await_scenario" /\ cache[ScenarioOf[i]] = "rejected"
    /\ failure' = [failure EXCEPT ![i] = "LoadError"]
    /\ Goto(i, "catch")
    /\ UNCHANGED <<phase, poolVars, cache, outcome, disk, report, budgetVars, closeVars, faults>>

-----------------------------------------------------------------------------
(* runSingleRun.  Stages before "session" lie outside its try block.       *)

MakeRunDir(i) ==
    /\ stage[i] = "mkdir"
    /\ disk' = [disk EXCEPT ![i].dir = TRUE]
    /\ Goto(i, "config")
    /\ UNCHANGED <<phase, poolVars, cache, outcome, failure, report, budgetVars, closeVars, faults>>

WriteConfig(i) ==
    /\ stage[i] = "config"
    /\ disk' = [disk EXCEPT ![i].config = "whole"]
    /\ Goto(i, "prepare")
    /\ UNCHANGED <<phase, poolVars, cache, outcome, failure, report, budgetVars, closeVars, faults>>

\* Prompt, workspace, upfront context, agent pin and tracer.
Prepare(i) ==
    /\ stage[i] = "prepare"
    /\ Goto(i, "session")
    /\ UNCHANGED <<phase, poolVars, cache, outcome, failure, disk, report, budgetVars, closeVars, faults>>

\* The session resolves; the token cap is tested in the same turn, so an
\* overflowing run reaches neither the workspace copy nor the oracle.
SessionEnds(i, o) ==
    /\ stage[i] = "session"
    /\ outcome' = [outcome EXCEPT ![i] = o]
    /\ IF o.overflow
       THEN failure' = [failure EXCEPT ![i] = "TokenOverflowError"] /\ Goto(i, "unwind")
       ELSE UNCHANGED failure /\ Goto(i, "evaluate")
    /\ UNCHANGED <<phase, poolVars, cache, disk, report, budgetVars, closeVars, faults>>

\* Mutated form: the summary is written as soon as the oracle has answered.
EvaluateAndSummarise(i) ==
    /\ stage[i] = "evaluate"
    /\ disk' = [disk EXCEPT ![i].tests = "whole", ![i].summary = DeriveStatus(outcome[i])]
    /\ Goto(i, "measure")
    /\ UNCHANGED <<phase, poolVars, cache, outcome, failure, report, budgetVars, closeVars, faults>>

\* Workspace copy, oracle, tests.json.
Evaluate(i) ==
    /\ stage[i] = "evaluate"
    /\ disk' = [disk EXCEPT ![i].tests = "whole"]
    /\ Goto(i, "measure")
    /\ UNCHANGED <<phase, poolVars, cache, outcome, failure, report, budgetVars, closeVars, faults>>

\* Register hook, plugins, layer-2 metrics, metrics.json.
Measure(i) ==
    /\ stage[i] = "measure"
    /\ disk' = [disk EXCEPT ![i].metrics = "whole"]
    /\ Goto(i, "summary")
    /\ UNCHANGED <<phase, poolVars, cache, outcome, failure, report, budgetVars, closeVars, faults>>

\* summary.json, written to a sibling file and renamed into place.
Summarise(i) ==
    /\ stage[i] = "summary"
    /\ disk' = [disk EXCEPT ![i].summary = DeriveStatus(outcome[i])]
    /\ Goto(i, "release")
    /\ UNCHANGED <<phase, poolVars, cache, outcome, failure, report, budgetVars, closeVars, faults>>

\* What the file operation of each stage may leave when it rejects: a plain
\* write can stop half way, an atomic one cannot.
LeftBy(i) ==
    CASE stage[i] \in {"mkdir", "config"} -> PartialInit(i)
      [] stage[i] = "evaluate" -> {disk[i], [disk[i] EXCEPT !.tests = "torn"]}
      [] stage[i] = "measure"  -> {disk[i], [disk[i] EXCEPT !.metrics = "torn"]}
      [] OTHER -> {disk[i]}

\* A rejection goes to `finally` inside the try block, straight to the
\* caller's catch before it and from within `finally` itself.
RunFails(i) ==
    /\ stage[i] \in {"mkdir", "config", "prepare", "session", "evaluate", "measure",
                     "summary", "release", "unwind"}
    /\ MayFail(stage[i])
    /\ \E left \in LeftBy(i) : disk' = [disk EXCEPT ![i] = left]
    /\ failure' = [failure EXCEPT ![i] = "RunError"]
    /\ Goto(i, IF stage[i] \in {"session", "evaluate", "measure", "summary"} THEN "unwind" ELSE "catch")
    /\ faults' = faults + 1
    /\ UNCHANGED <<phase, poolVars, cache, outcome, report, budgetVars, closeVars>>

Unwind(i) ==
    /\ stage[i] = "unwind"
    /\ Goto(i, "catch")
    /\ UNCHANGED <<phase, poolVars, cache, outcome, failure, disk, report, budgetVars, closeVars, faults>>

-----------------------------------------------------------------------------
Billed(o) == IF o = Absent THEN 0 ELSE IF o.cost > 0 THEN o.cost ELSE 0

\* Mutated form: the tracker trips only when the cap is overrun.
RecordRunStrict(o) ==
    /\ cumulative' = cumulative + Billed(o)
    /\ aborted' = (aborted \/ cumulative' > Cap)

RecordRun(o) ==
    /\ cumulative' = cumulative + Billed(o)
    /\ aborted' = (aborted \/ cumulative' >= Cap)

\* runSingleRun returns: the cost is recorded and the report stored in the
\* turn that ends it.
Complete(i) ==
    /\ stage[i] = "release"
    /\ RecordRun(outcome[i])
    /\ spent' = spent + Billed(outcome[i])
    /\ Report(i, Succeeded(DeriveStatus(outcome[i])))
    /\ UNCHANGED <<phase, poolVars, cache, outcome, failure, disk, closeVars, faults>>

\* Mutated form: the catch trusts the summary that is already there.
CatchKeepsSummary(i) ==
    /\ stage[i] = "catch"
    /\ disk' = [disk EXCEPT ![i].dir = TRUE, ![i].summary = IF @ = Absent THEN "error" ELSE @]
    /\ Report(i, Failed(failure[i]))
    /\ spent' = spent + Billed(outcome[i])
    /\ UNCHANGED <<phase, poolVars, cache, outcome, failure, cumulative, aborted, closeVars, faults>>

\* The catch of runMatrixEntry: writeRunSummary creates the run directory if
\* it has to, and replaces whatever summary is there.  No cost is recorded.
Catch(i) ==
    /\ stage[i] = "catch"
    /\ disk' = [disk EXCEPT ![i].dir = TRUE, ![i].summary = "error"]
    /\ Report(i, Failed(failure[i]))
    /\ spent' = spent + Billed(outcome[i])
    /\ UNCHANGED <<phase, poolVars, cache, outcome, failure, cumulative, aborted, closeVars, faults>>

\* That write is best effort too.
CatchFails(i) ==
    /\ stage[i] = "catch"
    /\ MayFail("catch")
    /\ \E made \in {disk[i].dir, TRUE} : disk' = [disk EXCEPT ![i].dir = made]
    /\ Report(i, Failed(failure[i]))
    /\ spent' = spent + Billed(outcome[i])
    /\ faults' = faults + 1
    /\ UNCHANGED <<phase, poolVars, cache, outcome, failure, cumulative, aborted, closeVars>>

-----------------------------------------------------------------------------
(* Close: the manifest, then the aggregated tables the spec asks for.      *)

\* An empty slot becomes a PoolMissError report.
CloseReports ==
    /\ phase = "pool"
    /\ Launched
    /\ PoolSettled
    /\ report' = [i \in Items |-> IF report[i] = Absent THEN Failed("PoolMissError") ELSE report[i]]
    /\ phase' = "manifest"
    /\ UNCHANGED <<poolVars, stage, cache, outcome, failure, disk, budgetVars, closeVars, faults>>

WriteManifest ==
    /\ phase = "manifest"
    /\ manifest' = [i \in Items |-> report[i].status]
    /\ phase' = "emit_csv"
    /\ UNCHANGED <<poolVars, entryVars, budgetVars, tables, torn, faults>>

\* A run directory the aggregator can read: config.yaml is required and must
\* parse, the other artifacts may be missing but not torn.
Readable(d) == d.config \in {"clipped", "whole"} /\ d.tests # "torn" /\ d.metrics # "torn"

\* The cell a row belongs to is what the config.yaml says, duration and tokens come from the summary of a run that
\* was measured (the stub of an error has none), the rest from the artifacts.
RowOf(d) ==
    [cell    |-> d.config = "whole",
     usage   |-> d.summary \notin {Absent, "error"},
     tests   |-> d.tests # "none",
     metrics |-> d.metrics # "none"]

RunDirs == {i \in Items : disk[i].dir}

AllReadable == \A i \in RunDirs : Readable(disk[i])

Emitting(tag) == phase = [csv |-> "emit_csv", jsonl |-> "emit_jsonl"][tag]

AfterEmit(tag) == IF tag = "csv" THEN "emit_jsonl" ELSE "returned"

\* One emitter: every run directory gives a row, or the emitter throws and
\* runAll rejects.
EmitTable(tag) ==
    /\ Emitting(tag)
    /\ IF tag \notin Emit
       THEN phase' = AfterEmit(tag) /\ UNCHANGED tables
       ELSE IF AllReadable
       THEN /\ phase' = AfterEmit(tag)
            /\ tables' = [tables EXCEPT ![tag] = [i \in RunDirs |-> RowOf(disk[i])]]
       ELSE phase' = "rejected" /\ UNCHANGED tables
    /\ UNCHANGED <<poolVars, entryVars, budgetVars, manifest, torn, faults>>

\* A read or a write of the close rejects, and runAll with it.  These are plain
\* writes too: one that stops half way leaves a torn file, and an emitter only
\* comes to its write when it has read every directory.
CloseFails ==
    /\ MayFail("close")
    /\ \/ phase = "manifest" /\ torn' \in {torn, torn \cup {"manifest"}}
       \/ \E tag \in Emit :
             Emitting(tag) /\ torn' \in {torn, IF AllReadable THEN torn \cup {tag} ELSE torn}
    /\ phase' = "rejected"
    /\ faults' = faults + 1
    /\ UNCHANGED <<poolVars, entryVars, budgetVars, manifest, tables>>

-----------------------------------------------------------------------------
SkipStep(i) == SkipInit(i) \/ SkipSummary(i) \/ SkipFails(i)

LoadStep(i) == RequestProfile(i) \/ RequestScenario(i) \/ EnterRun(i) \/ LoadFailed(i)

RunStep(i) ==
    \/ MakeRunDir(i) \/ WriteConfig(i) \/ Prepare(i)
    \/ \E o \in Outcomes : SessionEnds(i, o)
    \/ Evaluate(i) \/ Measure(i) \/ Summarise(i) \/ Unwind(i) \/ RunFails(i)

EndStep(i) == Complete(i) \/ Catch(i) \/ CatchFails(i)

EntryStep(i) ==
    StartHookThrows(i) \/ SkipStep(i) \/ LoadStep(i) \/ RunStep(i) \/ EndStep(i)

LaneStep(l) == TakeEntry(l) \/ ReturnLane(l) \/ ExitLane(l)

LoadSettles(d) == DefinitionLoads(d) \/ DefinitionRejects(d)

CloseStep ==
    \/ CloseReports \/ WriteManifest \/ CloseFails
    \/ \E tag \in {"csv", "jsonl"} : EmitTable(tag)

Next ==
    \/ OpenPool \/ SetupFails \/ CloseStep
    \/ \E l \in Lanes : LaneStep(l)
    \/ \E i \in Items : EntryStep(i)
    \/ \E d \in Defs : LoadSettles(d)

\* Every await settles: file operations return, the oracle and the upfront
\* commands have timeouts, and a harness honours the timeout it is given.
Fairness ==
    /\ WF_vars(OpenPool) /\ WF_vars(CloseStep)
    /\ \A l \in Lanes : WF_vars(LaneStep(l))
    /\ \A i \in Items : WF_vars(EntryStep(i))
    /\ \A d \in Defs : WF_vars(LoadSettles(d))

Spec == Init /\ [][Next]_vars /\ Fairness

-----------------------------------------------------------------------------
Paid == {i \in Items : stage[i] \in PaidStages}

\* The pool has settled; runAll rejects before it opens or after it closes.
Closed ==
    \/ phase \in {"manifest", "emit_csv", "emit_jsonl", "returned"}
    \/ phase = "rejected" /\ Launched

Needs(i) == {ProfileOf[i], ScenarioOf[i]}

\* Type invariant of the matrix loop.
TypeOK ==
    /\ PoolTypeOK
    /\ phase \in {"setup", "pool", "manifest", "emit_csv", "emit_jsonl", "returned", "rejected"}
    /\ stage \in [Items -> Stages]
    /\ cache \in [Defs -> {"absent", "loading", "ready", "rejected"}]
    /\ outcome \in [Items -> Outcomes \cup {Absent}]
    /\ failure \in [Items -> ErrorNames \cup {Absent}]
    /\ disk \in [Items -> Directories]
    /\ report \in [Items -> [status : Statuses, error : ErrorNames \cup {Absent}] \cup {Absent}]
    /\ cumulative \in Nat /\ aborted \in BOOLEAN /\ spent \in Nat
    /\ manifest \in [Items -> Statuses] \cup {Absent}
    /\ tables \in [{"csv", "jsonl"} -> Tables \cup {Absent}]
    /\ torn \subseteq {"manifest", "csv", "jsonl"}
    /\ faults \in 0..MaxFaults

\* The recorded cost overshoots the cap by less than what the runs under way
\* at the trip can cost: the documented trade-off of budget.ts.
CostBounded == cumulative < Cap + Concurrency * MaxCost

\* After the trip at most parallelism - 1 runs are still under way, whatever
\* order lanes, loads and sessions settle in.
OvershootBounded == aborted => Cardinality(Paid) <= Concurrency - 1

\* Every slot of the reports is filled by the worker of its entry by the time
\* the pool resolves; only a throwing onRunStart leaves one to PoolMissError.
SlotsFilled ==
    Closed => \A i \in Items :
        /\ stage[i] \in {"done", "missed"}
        /\ report[i].error = "PoolMissError" => stage[i] = "missed"

\* summary.json is written last: one that claims an outcome stands beside the
\* complete artifacts it summarises, at every moment, so a process that dies
\* at any await leaves no run that looks complete and is not.
SummaryLast ==
    \A i \in Items : disk[i].summary \notin {Absent, "error"} =>
        disk[i].config = "whole" /\ disk[i].tests = "whole" /\ disk[i].metrics = "whole"

\* The summaries tell the truth of the manifest.  A run the manifest does not
\* list as an error is complete on disk with the same status in its summary,
\* however many operations failed; and if at most one failed, no summary.json
\* contradicts the manifest, also when that was the clean-up after it was written.
SummariesAgree ==
    manifest # Absent => \A i \in Items :
        /\ manifest[i] # "error" =>
              /\ disk[i].summary = manifest[i]
              /\ disk[i].config = "whole" /\ disk[i].tests = "whole"
              /\ disk[i].metrics = "whole"
        /\ faults <= 1 => disk[i].summary \in {Absent, manifest[i]}

FullRow == [cell |-> TRUE, usage |-> TRUE, tests |-> TRUE, metrics |-> TRUE]

\* The aggregated tables tell the story of the manifest.  A run the manifest
\* does not list as an error has a row with all its columns, so a run without a
\* row, or with one that lacks a measurement or cannot be placed in its cell, is
\* an error there; if at most one operation failed, no run the manifest calls an
\* error is reported with a duration and tokens; the tables agree with each
\* other; and where runAll returned, nothing the spec asks for is missing or
\* torn.
TablesSound ==
    /\ \A tag \in {"csv", "jsonl"} : tables[tag] # Absent =>
          /\ manifest # Absent
          /\ \A i \in Items : manifest[i] # "error" =>
                i \in DOMAIN tables[tag] /\ tables[tag][i] = FullRow
          /\ faults <= 1 => \A i \in DOMAIN tables[tag] :
                tables[tag][i].usage => manifest[i] # "error"
    /\ tables["csv"] = Absent \/ tables["jsonl"] = Absent \/ tables["csv"] = tables["jsonl"]
    /\ phase = "returned" =>
          manifest # Absent /\ torn = {} /\ \A tag \in Emit : tables[tag] # Absent

\* Entries that share a definition share the verdict on it: where one failed
\* to load it, no entry that needs it completes (the cached rejection).
BrokenDefinitionFailsAll ==
    \A i \in Items : report[i] # Absent /\ report[i].error = "LoadError" =>
        \E d \in Needs(i) : \A j \in Items :
            d \in Needs(j) /\ report[j] # Absent => report[j].status = "error"

\* The experiment comes to an end.
Terminates == <>(phase \in {"returned", "rejected"})

\* What the ledger calls the state of an entry.
Verdict(i) ==
    CASE stage[i] \in {"todo", "skip_init", "skip_summary"} -> "waiting"
      [] stage[i] \in PaidStages -> "running"
      [] stage[i] = "missed" -> "failed"
      [] OTHER -> IF report[i].status # "error" THEN "completed"
                  ELSE IF report[i].error = "BudgetExceededError" THEN "skipped"
                  ELSE "failed"

Ledger == INSTANCE BudgetedMatrix WITH
    Entries  <- Items,
    Width    <- Concurrency,
    verdict  <- [i \in Items |-> Verdict(i)],
    recorded <- cumulative,
    tripped  <- aborted,
    closed   <- Closed

\* The matrix loop keeps the ledger it promises: verdicts, budget and close.
ImplementsBudgetedMatrix == Ledger!Spec

-----------------------------------------------------------------------------
(* Statements of the repository's docs and comments that the runs refute.   *)

\* "Skipped runs still emit a summary.json stub so the bundle's 'rows in CSV =
\* matrix size' contract holds" (runner/index.ts:994).
RowsEqualMatrix ==
    phase \in {"returned", "rejected"} =>
        tables["csv"] # Absent /\ DOMAIN tables["csv"] = Items

\* "a BudgetTracker stops new starts once max_total_cost_usd is exceeded"
\* (run-lifecycle.md:58): no run passes the gate when the runs that are done
\* have already cost more than the cap.
StopsStartsOverCap ==
    [][\A i \in Items : stage[i] = "todo" /\ stage'[i] = "profile" => spent <= Cap]_vars
=============================================================================
