# A TLA+ development of FACET

FACET runs an experiment: a *spec* names profiles and scenarios, the runner
expands their factors into a matrix of entries, runs every entry with an agent
harness in a git worktree of its own, lets an oracle script judge the result,
and leaves a *bundle* of run directories, a manifest and aggregated tables. This
directory holds TLA+ modules of the parts of that program where order, failure
and concurrency decide what comes out, TLC configurations that check them on
small instances, and TLAPS proofs of the properties that matter most.

Paths below are relative to the repository; `core/` stands for
`src/packages/core/src/` and `harness-pi/` for `src/packages/harness-pi/src/`.

## 1. The system

| Component | State it keeps | Operations | Module |
|---|---|---|---|
| run pool (`core/runner/pool.ts`) | a cursor shared by the lanes, the item each lane awaits | `runWithLimit` | `RunPool` |
| matrix loop (`core/runner/index.ts`, `runAll`) | the slots of `reports`, two caches of promises, the bundle | `runMatrixEntry`, the close of the experiment | `MatrixRun` |
| budget tracker (`core/runner/budget.ts`) | cumulative cost, whether the cap has tripped | `recordRun`, `aborted` | part of `MatrixRun` |
| run status (`deriveStatus`) | none | session and oracle outcome to one of five statuses | `RunStatus` |
| single run (`runSingleRun`) | a workspace handle, an agent pin, a trace file, the run's artifacts | acquire, session, oracle, metrics, summary, `finally` | `MatrixRun` (artifacts), `RunLifecycle` (resources) |
| bundle writer (`core/bundle/writer.ts`) | files | `initBundle`, `initRun`, plain and atomic writes, `writeRunSummary` | part of `MatrixRun` |
| aggregator and emitters (`core/bundle/aggregate.ts`) | none | `collectAggregatedRows` | part of `MatrixRun` |
| manifest (`core/bundle/manifest.ts`) | a file | `writeManifest`: statuses, hashes of the inputs | parts of `MatrixRun`, `Provenance` |
| inputs: spec, scenario and profile directories, presets' recorded hashes | files, the caches of definitions, a repository's first commit | the validator, the loaders, `expandMatrix`, `prepareScenarioRepo`, `facet hash-profile` | `Provenance` |
| repository lock (`core/workspace/index.ts`, `withRepoLock`) | a map of promise chains | one call for each git worktree command | `RepoLock` |
| git worktrees (the rest of that file, and the `git_worktree` strategy) | `activeWorkspaces`, exit handlers, the repository itself | prepare, destroy, clean up at exit | `Workspaces` |
| oracle and evaluator (`core/evaluator/`) | a child process, its group, two timers | `runOracle`, `parseOracleStdout`, `evaluateRun` | `Evaluator` |
| Pi adapter (`harness-pi/index.ts`) | a session, a timer, the clarification loop | `runSession` | `PiSession` |
| tracer (`core/tracer/`) and translation (`harness-pi/translate.ts`) | `trace.jsonl`, appended to by a synchronous `record` | `record`, `translatePiEvent` | `Metrics`, `Measurement` |
| layer-2 metrics (`core/evaluator/layer2.ts`) | running counters over one pass of the trace | `deriveLayer2Metrics` | `Metrics`, `Measurement` |
| metric kinds (`core/registries/metric-evaluator.ts`, `harness-pi/metric-kinds/`) | one state for each metric id | `runMetricKinds` | `Metrics` |
| factors and expansion (`core/runner/factors/`, `core/builtins/factor-kinds/`, `expandMatrix`) | none | axes, loops, `expandMatrixWithRegistry`, `resolveFirstRun` | `Factors` |
| dispatch: validator, caches by id, first-run mode, gates by scenario, registries, plugin loader | two caches, the registries of each run | `facet spec validate`, `prepareRunContext`, `runFirstRunOnly`, the look-ups of `runSingleRun`, `loadPlugins` | `Dispatch` |
| upfront context, agent pin (`core/runner/`), model and extension look-up (`harness-pi/index.ts`) | a staged directory | `prepareUpfrontContext`, `prepareAgentPin`, the beginning of `runSession` | `Dispatch`, `RunLifecycle` |
| naming and versions, the CLI's output, SDK, presets | see `PROJECT.json` | | not modelled, section 7 |

How they interact. `runAll` calls `runWithLimit` with a worker for each entry.
The lanes share the cursor, the budget tracker, the definition caches, the
`reports` array and the bundle directory; everything runs on one thread, so what
lies between two awaits is atomic and what lies across one is not. A worker asks
the gate, awaits the (shared) promises of its profile and scenario, and calls
`runSingleRun`, which prepares a workspace (sharing the scenario's repository,
and so `withRepoLock`, with other entries), hands the session to a harness, runs
the oracle, has the trace read back into metrics, writes the artifacts in a
fixed order and gives everything back in `finally`. When every lane has exited
`runAll` turns empty slots into error reports, writes the manifest and has the
emitters read the run directories back. Before all that the CLI parses the spec
and the validator reads the same directories the runs and the manifest read
later. Each run makes its own registries: the workspace strategy is looked up
before the session, then the context commands run, the agents are pinned and Pi
looks for the model; the harness and the plugins register after the oracle, and
the kinds of the metric rules are looked up and their configurations parsed
last.

What is hard, and the properties that answer it:

- **Lanes and the cursor.** Nothing is handed out twice or lost; a rejecting
  worker must not end its lane (`ImplementsBudgetedMatrix`, `SlotsFilled`,
  `Terminates`; `LanesDisjoint` is proved).
- **A budget read at the start of a run and written at its end.** The cap is
  overshot by what is under way; how far is a theorem (`CostBounded`,
  `OvershootIsBounded`).
- **Failure at any await, and the order of the artifacts.** What the summaries,
  the manifest and the tables say must be true of the files (`SummaryLast`,
  `SummariesAgree`, `TablesSound`).
- **Shared promises that reject** (`BrokenDefinitionFailsAll`).
- **A mutex made of promises** (`MutualExclusion`, `NoOvertaking`,
  `MapHoldsOnlyBusyRepos`, `ImplementsFifoMutex`).
- **Worktrees of one repository, destroyed while others are made, a process
  that may be ended at any moment, and one that follows it on what it left**
  (`WorksInItsWorkspace`, `OnlyInFlightLeftBehind`, `InitRaceHasAWinner`,
  `WholeScenario`).
- **What is acquired before and given back after a session** (`GivesBack`,
  `EveryRunEnds`).
- **Timers racing processes** in the oracle (`VerdictReadsAllOutput`,
  `CompletedIsCounted`, `OracleSettles`) and **racing promises** in the session
  (`ReportIsFinal`, `AbortedIsTold`, `SessionEnds`).
- **Numbers that pass through a trace, one counting pass, a table of handlers and
  a merge of names** before anyone sees them (`RequestsAreExplained`,
  `CountersAgree`, `RulesAgree`, `CellsAreMeasured`).
- **Files read more than once while an author edits them**: by the validator,
  the caches, every run, the commit of a scenario's repository and the manifest,
  with hashes that do not cover everything (`PinnedMeansPinned`,
  `CellsComparable`, `RefusalHasACause`).
- **A matrix expanded from whatever factors a spec has**, on two code paths, and
  again for a preview (`MatrixIsFactorial`, `PathsAgree`, `PreviewHolds`).
- **Caches keyed by ids that are not unique, registries filled run by run, and
  checks that come before or after the money is spent** (`FilesFollowIds`,
  `SameFate`, `FailuresHaveACause`, `GatesWarned`).

`PROJECT.json` lists these hazards with the line at which each one bites.

## 2. The modules

An action is what the code does between two awaits (or what the world does: a
timer, a process, a promise that settles). Actions carry the source's names
where they have one; the map in `PROJECT.json` gives the lines of each
definition. Definitions marked "Mutated form" are wrong on purpose: substituted
for the definition they stand before, they show that a property can fail.

**`RunPool`** (`pool.ts`). `cursor` is the shared index, `lane[l]` the item lane
`l` awaits. `Launch` is the loop that opens the lanes: each runs synchronously
to its first await, so the first items are handed out in one step. `Take`,
`Return` and `Exit` are the branches of a lane's loop. A rejection is the same
`Return` as a resolution, which is what swallowing it means.

**`RunStatus`** (`deriveStatus`). An outcome is reduced to the fields the status
and the budget look at.

**`MatrixRun`** (`runAll`, `runMatrixEntry`, `runSingleRun`, `budget.ts`,
`writer.ts`, `aggregate.ts`) extends both. `stage[i]` is the await entry `i` is
at; `cache[d]` the promise of a definition; `disk[i]` the run directory with the
state of each artifact (none, torn, whole; a `config.yaml` may also be
`clipped`: cut inside its last required value, so that the emitter still parses
it) and the status its summary claims; `report[i]` the slot; `torn` the files of
the close that a failed write left half done. Every await may reject:
`RunFails`, `SkipFails`, `CatchFails`, `CloseFails`, `DefinitionRejects`,
`SetupFails` and `StartHookThrows` say where control goes and what the file
operation leaves. A plain write, of an artifact, the manifest or a table, may
leave a torn file; a summary, written beside and renamed, may not. A table is a
function from the directories it lists to rows, and `RowOf` says of which files
a row has its cell, its usage, its tests and its metrics. `spent` is a history
variable: what the sessions cost, whether or not `recordRun` was reached.

**`BudgetedMatrix`** is the promise `MatrixRun` implements: a ledger of verdicts
with at most `Width` runs under way, none started after the trip, and a close
over a full ledger. `ImplementsBudgetedMatrix` gives the refinement mapping.

**`RepoLock`** (`withRepoLock`). `previous[c]` is the call whose chained promise
`c` awaits, `repoQueues` the map, `settled` the chained promises that have
resolved. `Settle` is a microtask and so a step of its own. **`FifoMutex`** is
the abstract lock, with a queue for each key and fairness of its own. The
mapping to it, `Queues`, puts the unfinished calls of a key (`Held`) in the order
of their tickets (`InOrder`).

**`Workspaces`** (`prepareScenarioRepo`, `createGitWorktree`,
`destroyWorkspace`, `registerCleanup`) instantiates `RepoLock` with two calls
for each run, one to add the worktree and one to remove it. A git command starts
and ends in separate steps; commands that write the same lock file make each
other fail. `ProcessEnds` is a signal or the end of the program, at any state.
Its handlers try to remove every recorded workspace, swallow what fails and
forget the workspace all the same; the history variable `unremoved` keeps what
they left on disk. A git command under way outlives it (`OrphanEnds`), and
`Restart` is a later `facet run` on the same directories, with the maps of a new
process and the runs that were not begun. A repository is absent, without a
commit (empty or with files staged), or has a commit, with the scenario's files
or `hollow`, since the commit is made with `--allow-empty`.

**`RunLifecycle`** (`runSingleRun`) extends `Workspaces` with the awaits between
acquiring and giving back: upfront context, agent pin, tracer, session, results,
`finally`.

**`Evaluator`** (`oracle.ts`, `evaluator/index.ts`). The script and its helper
processes print, exit or hang as they please; execa's timer ends the script, the
group's timer everything. `Settle` is the child's promise, the parsing and the
verdict in one turn; it waits for the script's end and for every process that
still holds standard output, unless execa gave up on the output (`OutputLost`:
too much of it, or a broken stream). A helper may leave the script's process
group (`LeaveGroup`), and then the second timer's signal does not reach it. The
results keep the line each marker was printed on.

**`PiSession`** (`harness-pi/index.ts`). The prompt, the abort and the shutdown
handlers are promises that settle in any order or, for the prompt, never. It has
every step of a session but the emission of an event.

**`Metrics`** (`translate.ts`, `layer2.ts`, `metric-kinds.ts`,
`metric-evaluator.ts`, the rows of `aggregate.ts`) is a module of operators: an
event becomes a line, a line changes the counters (`Count`), the counters become
the framework's metrics (`BuildResult`), the rules fold over the events
(`RunMetricKinds`), and the two are merged into `metrics.json` (`FlattenLayer2`)
and into a row (`Row`); `Spread` is the code's object spread, in which the later
object wins. An event is a record of what any reader looks at.

**`Measurement`** extends both: `Emit` is an event the agent emits while
`PiSession` may hear one, so that it reaches the loop's flags and the trace in
one step; once the session has resolved `ReadLine` and `Derive` are
`deriveLayer2Metrics`, with the running `counters` and the `events` it keeps for
the rules. The declarative reading of a trace, as sets of positions,
is in its properties, and the code's one pass is checked against it after every
line.

**`Provenance`** (`validator/index.ts`, `expandMatrix`, the definition loaders,
`prepareScenarioRepo`, `manifest.ts`, `cli/`). The content of a directory is the
number of the edit that made it, and the constant `Digest` says which contents
hash alike: an edit may be taken back, or touch only what `hashDirectory` skips
(`.git`, `node_modules`, links and whatever else is no regular file) while the
loaders read it. `tree` is the content now, `recorded` a preset's written hash.
`CheckRepo`, `InitRepo`, `AddFiles`, `Commit` and `AddWorktree` are the awaits
between which other runs and the author may come; `repo`, `index` and `head` are
what git keeps of a scenario meanwhile. `Validate` and `HashNext` read one
directory at a time, an entry reads its definitions through `cache` and
everything else from `tree`; `read[i][k]` is what entry `i` read as input `k`.
The author's steps (`Edit`, `SaveSpec`, `HashProfile`) interleave with all of
them, and one `facet run` follows the other on the same files. `checked` is a
history of what the validator saw.

**`Factors`** (`factors/index.ts`, `expandMatrix`, the four factor kinds,
`resolveFirstRun`) is a module of operators over a spec: `LoopOrder` gives the
axes of the nested loops, `Nest` is one more loop inside the others, `Product`
nests a list of axes, `expandMatrix` numbers the cells; `Axis` and
`ParamCombinations` fold over the factors as `collectFactorAxes` and
`buildModelParamCombinations` do; `expandMatrixWithRegistry` makes drafts of the
product over all factors by folding `Apply`. `OfKind` are the positions of the
factors of a kind. `IsFullFactorial` says what an expansion should be without
following the loops.

**`Dispatch`** extends it with the commands (`SpecValidate`; `Prepare`, `Expand`,
`Finish`, once for `--single` and once for the matrix) and with the look-ups of a
run, one action for each place where it may be refused: the profile, the
scenario, the prompt, the strategy, the commands of the upfront context, the
pinned agents, the model, the extensions, and after the session the plugins one
after the other and the metric rules (`RulesResolve`: a kind that is registered
and a configuration that its schema takes). `facet spec validate` prints warnings and
looks for binaries; the validation before a run does neither.
`given[i]` is what run `i` was given and how it ended, `registered[i]` its
registries. Profiles, scenarios and plugins are constants: what their files
declare. The caches hold a directory for each id, and the two requests are made
in the order of the code: profiles in the order of the lanes, scenarios whenever
a profile has arrived.

Composition: `Dispatch` extends `Factors`; `MatrixRun` extends `RunPool` and
`RunStatus`; `RunLifecycle` extends `Workspaces`, which instantiates `RepoLock`;
`Measurement` extends `PiSession` and `Metrics`; `Evaluator` instantiates
`RunStatus`. `MC*` modules give the constants; the theorems are in
`MatrixRun_proofs` (of `RunPool` as well), `RepoLock_proofs`,
`RunLifecycle_proofs` (of `Workspaces` as well), `Evaluator_proofs`,
`Measurement_proofs` (of `PiSession` and `Metrics` as well), `Provenance_proofs`
and `Dispatch_proofs` (of `Factors` as well); `FoldFacts` has what two of them
need of folds and of numbers.

## 3. The runs

| Run | Instance | What it shows |
|---|---|---|
| `repo_lock` | four calls, three of them on one repository | exclusion, the clean-up of the map, no starvation, and that the chain implements `FifoMutex` with its fairness |
| `matrix_faults` | three entries, two lanes, cap 2, costs of 1, 2 and an unusable reading, any two awaits reject, both emitters, torn and clipped files | the experiment ends, how far recorded cost passes the cap, and reports, summaries, manifest, tables and the ledger are true |
| `run_lifecycle` | two runs of one scenario, one pinned, two failures, a fresh or an existing repository, a process ended at any state and a second one after it | intact workspaces made of the whole scenario, who wins a raced initialisation, what a run gives back, what exit handlers that may fail leave |
| `evaluator` | two tasks, a regression marker, an undeclared one, two helpers that may leave the group, three lines | the verdict is of all output that is read, has as many answers as tasks or is a timeout, and is made unless a process outside the group holds the output for ever |
| `session_metrics` | one session with the three fallbacks of the code, at most four events of eleven kinds, four profiles of rules, a known and an unknown context window | what a session reports is final and true of the timeout, and always comes; the trace explains its clarification requests, the metrics are what the trace says when it is looked at as a whole, and the row shows them |
| `provenance` | two experiments, one scenario whose second edit takes back the first, a preset with an edit the hash does not cover, a profile the validator skips, two changes by the author, two runs that may make the repository at once | what a pinned hash in a bundle is worth, that the cells of a matrix stay comparable, and why accepted inputs are refused |
| `design` | thirty specs over sixteen profiles, two scenarios and four plugins, validated or not, previewed or not, two lanes | the matrix is the full factorial of its axes, both expansions agree where they are meant to, a preview is worth its money, and what a run is given and refused for follows from its files and not from the schedule |

Five runs refute a statement of the repository's docs or comments; the trace TLC
prints is the scenario in the finding:

| Run | Statement | What the code does |
|---|---|---|
| `rows_short` | skipped and failed runs keep "rows in CSV = matrix size" (`core/runner/index.ts:994`) | an entry whose definition does not load gets a directory with a summary and no `config.yaml`; the emitter throws on it and no table is written |
| `overflow_unbilled` | no new starts once the cap is exceeded (`docs/reference/run-lifecycle.md:58`) | a session that ran and whose run then failed (token cap, oracle, metrics) is never recorded |
| `oracle_ids` | a finished oracle "must emit exactly the declared task ids", a mismatch "is a malformed oracle and a hard-stop signal" (`core/evaluator/index.ts:176`) | the number of lines is compared, so two lines for one of two tasks pass and the run is counted as completed |
| `workspace_leak` | the handle's cleanup runs from the `finally` block (`core/runner/index.ts:523`) | failures between the workspace and the `try`, or of the pin's cleanup, skip it |
| `stale_code` | a run under the wrong hash "would silently produce results tagged with the wrong hash" (`core/validator/index.ts:214`) | a scenario's code is committed once; after an edit and a new pin the runs work on the old commit and the manifest records the new hash |

Differences met on the way that no run is spent on: `writeRunArtifact` is a
plain write although `docs/reference/run-lifecycle.md:64` and
`docs/packages/core.md:56` call the artifacts atomic; the initialisation of a
fresh repository is five git commands outside the mutex that
`docs/packages/core.md:80` says controls concurrency, so two runs may collide on
git's lock file (`InitRaceHasAWinner` says that one of them gets through) or
each commit the code it finds (`CellsComparable` has the exception); the exit
handlers forget a workspace whether or not they could remove it
(`core/workspace/index.ts:190-214`, `OnlyInFlightLeftBehind` has the exception);
a process that leaves the oracle's group is not reached by the kill of which
`core/evaluator/oracle.ts:70` says that every descendant is torn down, and one
that holds standard output keeps the run and its lane waiting for ever
(`OracleSettles` has the exception); the aggregator treats a missing
`summary.json` as a row with empty cells; a CSV is written only when
`analysis.emit` asks for it; a helper of the oracle that holds no output
survives when the script dies of SIGTERM before the group's timer;
`docs/reference/reproducibility.md:26`, `docs/packages/presets.md:72` and
`core/cli/hash-profile.ts:10` say that a preset's recorded hash is compared with
the live directory, while `checkPresetCompatibility` compares it with the hash
in the spec and nothing hashes the directory before the manifest does (so
`PinnedMeansPinned` needs the manifest's hash too);
`docs/reference/run-lifecycle.md:69` says the manifest's hashes are "recomputed
and verified at close", and they are recomputed; the validator reads only the
last `extension_select` and `prompt_swap` factor where `collectFactorAxes`
appends them all (`RefusalHasACause` names it as a cause); a pinned hash whose
directory cannot be hashed is accepted with a warning; metric rules of one id
share one state, so that each event reaches it once for each of them and their
values add up, where `core/registries/metric-evaluator.ts:5` says that each rule
has a private state and `core/runner/extensions.ts:412` that the second value
would overwrite the first (the model has the shared state, and `RulesAgree`
speaks only of rules whose id no other rule has); a rule that has the name of a
framework metric or of a column takes its place in `metrics.json` and in the
tables, where `core/evaluator/layer2.ts:39` says that every run gets the
framework's metrics whatever its profile (`CellsAreMeasured` states which cells
it takes), and one named `tool_calls_per_type` makes the aggregator throw; a
scenario's repository left without a commit, by a failed initialisation or a
process ended in one, is taken as ready by every later run and refuses every
worktree until its `.git` is deleted.

Of the design of an experiment: plugins are said to register before the spec is
parsed and to add strategies, factor kinds and evaluator layers
(`core/spec/schema.ts:33-39`, `docs/guides/extending.md:56`,
`docs/reference/run-lifecycle.md:37`, `docs/architecture.md:88`); they are
imported in every run, after its oracle, and of what they register only metric
kinds are consulted. A strategy that only a plugin registers therefore fails
every run, with an error that advises to register it by a plugin
(`core/runner/index.ts:516`); `core/spec/schema.ts:67-72` promises an
`unknown-workspace-strategy` and a preflight in the validator, and neither
exists. "The two paths produce the same output for the four core kinds"
(`core/runner/factors/index.ts:12`) holds with one factor of each kind
(`PathsAgree`); with two of a kind one path adds where the other multiplies.
`facet run --single` runs the first cell without its model parameters, and a
failing one writes no tables although downstream tools may "rely on the files
existing whenever a Result Bundle is produced" (`core/runner/index.ts:877`).
"The CSV is always written" (`core/runner/index.ts:886`), and it is written if
its tag is there. The tables have no column for model parameters, so the cells
of a parameter sweep have rows that differ by their run ids alone
(`MatrixIsFactorial` says that no other cells do). Where two levels share an id,
both cells get the files of one of them; for scenarios the lanes decide which
(`FilesFollowIds`). Two profile levels of one id run with the first one's files,
and the validator keeps its manifests by id too (`core/validator/index.ts:472`),
so `binary-missing` is about the second one's (`GatesWarned` has the exception,
which the proof of it brought to light: no spec that was checked had two such
levels until the proof could not be finished without it).
`core/cli/index.ts:46` says that warnings are printed whatever the verdict;
`facet run` validates as well and prints none, and it passes
`checkBinaries: false`.

Of what a run prepares: the agent pin refuses a run whose provider is missing
from the user's `models.json` (`core/runner/agent-pin.ts:53`), so a pinned
profile in a matrix over providers may lose a whole model level that no
validation looked at; the preflight counts names that end in `.md`, the pin
regular files, so a directory of symbolic links passes the one and fails the
other; the validator looks for a script of the upfront context in the profile
(`core/validator/index.ts:493`), and the command runs in the workspace unless
`cwd` says otherwise; that command's error is dropped and only its exit code is
read (`core/runner/upfront-context.ts:59`), so output cut at the buffer's limit
of a command that had already exited with 0 would be taken as whole.
`FailuresHaveACause` lists these.

**Bounds, and why they are enough.** Entries, lanes and calls interact through
one cursor, one tracker and one queue for each repository: two lanes with a third
entry show a lane that goes on while another is busy and a trip with a run under
way and an entry behind it, three calls on one key show a call that is neither
first nor last in the chain. Two failures
are the least that separate "no false completion" (any number) from "summary and
manifest agree" (one). Three printed lines are one more than the declared tasks,
so a run can answer too little, exactly and too much. Two helpers allow one that
holds the output open and one that does not. Four events are the least for a
file read, edited twice and read again, and for a request with events before and
after it; a request needs one, so all three fallbacks and the refused fourth
occur. In `Provenance` two
changes (`MaxChanges`) are an edit and a new pin, an edit between any two of
the readings and another after them, or an edit that is taken back; the two
entries are of one scenario, so they race to make its repository with an edit
between their commits; two experiments (`MaxExperiments`) are the
least in which a repository outlives one; its initial states declare the
placeholder, the present hash and a future one. One restart (`MaxRestarts`) is a
process on what another left; two runs are then one that was cut off and one
that inherits. The specs of `MCDispatch` have at most two levels on an axis and
six cells, which is enough for two factors of a kind, a param swept twice, an id
used twice on either cache, a gate that covers one scenario, a plugin that
clashes with the harness or with another plugin, and each way to be refused;
each is one initial state; so are a context command, pinned agents, a model and
an extension that fail in some cells and hold in others, and a metric rule of a
known kind whose configuration is refused. The theorems remove the bounds
for what they state. `CHECK_DEADLOCK FALSE` is set throughout because every one of
these systems ends: the experiment returns, the calls are over, the verdict is
made. That nothing stops early is what the liveness properties say.

**Fairness.** All of it is weak fairness of a promise that settles, a timer that
fires, or a lane that runs on: the event loop runs what is ready. It is *not*
assumed that a prompt, an oracle's script or its helpers come to an end, nor
that a call is ever made, a run started or a process ended; `OracleSettles` and
`SessionEnds` hold without it because the timers do their work (but for the
process that left the oracle's group, which `OracleSettles` names). `MatrixRun`
does assume that every await of an entry settles, which for the two that could
hang is what `Evaluator` and `PiSession` establish: the oracle's but for a
process outside its group that never lets go, the session's if its abort
settles. A task under `withRepoLock` is a git command, taken to end.

## 4. What is proved

`tlapm` checks every theorem for all values of the constants under the named
assumptions of the modules: the schema wants a level for each factor, a task and
a positive cap, a session costs at most `MaxCost` (`PoolAssumption`,
`RunStatusAssumption`, `MatrixAssumption`, `EvaluatorAssumption`,
`InputsAssumption`, `SpecsAssumption`); a spec names
directories and plugins that exist, and what a plugin or a profile lists is a
list (`SpecsAssumption`, `ProfilesAssumption`, `PluginsAssumption`,
`RulesAssumption`); a translated event has the fields of its type
(`EventsAssumption`); bounds are numbers, maps of runs, calls and entries are
maps, and stand-ins for "no value" are no values (the same, and
`AbsentAssumption`, `RepoLockAssumption`, `WorkspacesAssumption`,
`RunLifecycleAssumption`, `PiSessionAssumption`, `MetricsAssumption`,
`MeasurementAssumption`, `FilesAssumption`). Lanes, entries, faults, calls,
repositories, restarts, helpers, lines, fallbacks, events, rules, specs and files
are unbounded. TLC evaluates each assumption on the instances.

**`FoldFacts`.** The folds of the community modules are recursive functions on
sets of positions. `FoldMade` shows that such a function exists, `FoldRuns` that
its values on `1..0`, `1..1`, `1..2`, ... are those of a loop over the list, and
`Induct` is induction as a fact about sets of numbers: what a loop keeps can then
be shown step by step, without a theorem that quantifies over operators.

**`MatrixRun_proofs`.** First the pool: `PoolIInv` adds to `LanesDisjoint` and
`ExitOnlyWhenDrained` that the cursor is at most `Total + 1` plus the number of
lanes that have exited: without it the cursor's range is not inductive, because
each exit advances it once more. Every step of the matrix is a step of the pool
or leaves it alone (`StepsOfPool`), so this carries over. The invariant is

    IInv == TypeOK /\ PoolIInv /\ Accounted /\ ReportsKept /\ BudgetKept /\ ArtifactsKept
            /\ GateKept /\ SummariesKept /\ LoadsKept /\ CloseKept /\ OutputsKept

- `Accounted`: an entry waits exactly if the cursor has not reached it, and an
  entry under way is held by a lane. It bounds the runs under way by the lanes.
- `BudgetKept`: before the trip recorded cost is below the cap; after it, cost
  plus `MaxCost` for every paid run still under way is below the cap plus
  `MaxCost` for every lane. `CostBounded` is not inductive without the second
  part: runs under way may still add to it, and their number only shrinks after
  the trip (`BudgetShrinks`), each completion trading one run for its cost.
- `ReportsKept`, `GateKept`: a done entry has its report, an error names only its
  own, and nothing is skipped before the trip.
- `ArtifactsKept`: what a stage implies about the files before it, and that no
  summary exists before its stage; `SummaryLast` follows.
- `SummariesKept`: the summary on disk against the report. An entry in `unwind` or
  `catch` has a summary only if something failed after it was written, which is
  the first of two failures; the second is the one that keeps `catch` from
  replacing it.
- `LoadsKept`: an entry past its definitions found both promises fulfilled, and a
  `LoadError` names a rejected one; that a settled promise stays settled makes
  the entries that share it agree.
- `CloseKept`: the manifest is the reports', and a table has the rows that the
  files of the directories give (`RowsOfDirs`); they do not change any more.
- `OutputsKept`: nothing is torn unless `runAll` rejects, and where the close has
  come to says which tables are there.

From it: `TypeCorrect`, `EntriesHandedOutOnce`, `DrainedBeforeExit`,
`CostIsBounded`, `OvershootIsBounded`, `SlotsAreFilled`, `SummaryIsLast`,
`SummariesAgreeAlways`, `TablesAreSound`, `BrokenDefinitionFails`.
`SummaryIsLast` also says what a crash at any await leaves behind, since it is a
statement about every state. `KeepsTheLedger` is the refinement of
`BudgetedMatrix`: a step takes entries under way (and then the gate was open), or
gives one its verdict, or closes, or stutters in the ledger. It needs `Accounted`
for the width, `ReportsKept` for the verdicts that are given once, and `GateKept`
for the start that comes before the trip.

**`RepoLock_proofs`.** The invariant says that tickets grow along a chain, that
a settled promise belongs to a call that has left, that a call's predecessor is
the youngest of the older calls of its key (`ChainIsTight`), and that the map
points at the last call of its key while one waits or runs. From it:
`Exclusion`, `NoOvertaking` and `MapBounded`. `ChainIsFifoMutex` is the safety
half of the refinement: under the mapping of `ImplementsFifoMutex` every step of
the chain is a step of `FifoMutex` or leaves it alone. The queue of a key is the
sequence of its unfinished calls by ticket; the lemmas `OrderIs`, `LastInOrder`
and `FirstInOrder` say that it lists each of them once and that one more with the
highest ticket is appended, and one with the lowest is the head. They need the
unfinished calls to be finitely many (`FinitelyMany`), which holds because
tickets differ and the clock bounds them, though the calls to come may be
infinitely many. Who asks has the highest ticket; who enters has the lowest, or a
rival ahead of it would still be in the chain; who leaves has, since it entered.

**`RunLifecycle_proofs`.** For any number of runs, repositories, failures and
processes that follow an ended one.

    IInv  == TypeOK /\ WsInv /\ RunInv
    WsInv == WsTypeOK /\ RepositoryInv /\ LockFilesHeld /\ RaceGoesOn /\ RecordInv

- `RepositoryInv`: how far a repository is when a run is about to issue a command,
  whatever the other runs and the commands of ended processes made of it
  (`CommandsInOrder`), and that the commit which may be empty never is
  (`NeverHollow`). `WholeScenario` is its consequence for the worktrees.
- `LockFilesHeld`, `RaceGoesOn`: a lock file belongs to a command under way, so
  the run that fails on it leaves one behind that goes on; while nothing else
  fails a repository is untouched, being made, or ready with a user on its way.
- `RecordInv`: what the exit handlers find. A worktree on disk is recorded or the
  answer to its `worktree add` is outstanding, or it is of an ended process whose
  handlers could not remove it (`UnremovedLost`).
- `RunInv`: where `runSingleRun` stands says where its workspace stands and what
  else it holds.

From it: `TypeCorrect`, `NoPartialScenario`, `RaceHasAWinner`,
`NothingLeftBehind`, `WorksWhereItShould`, `GivesEverythingBack`. A step of a
run changes only its own part of the state (`OthersStay`, `OthersRun`), so each
conjunct is shown for a run's own part once, and each action only says what it
does to that.

**`Evaluator_proofs`.** For any number of tasks, helpers and lines. A verdict is
of all output because nobody is left to print once the promise has settled, or
execa has stopped reading (`SettledIsQuiet`), which takes that the second timer
leaves nobody of the group (`KillIsFinal`) and that a timeout is told if and only
if a timer has fired (`TimerTells`). From it: `TypeCorrect`,
`NothingIsPrintedLater` and `CompletedMeansCounted`. That as many lines as tasks
miss a task only if some task has two is a pigeonhole argument (`Pigeonhole`). The
types of the results need what `Collect` returns
for any output (`CollectTyped`).

**`Provenance_proofs`.** For every `Digest`. The numbers of contents only grow, so
a reading with a floor and a ceiling lies between two contents that are known
without following the edits between. `Past` says that everything read is at most
the present content; `Vouched` and `Floor` that what the validator compared is at
most everything read after it; `Order` that what the manifest records is at least
everything read before it. Where the manifest shows the pinned hash, floor and
ceiling have that hash: `PinnedTrusted`, with the edit that was taken back as the
case between them. `AllPassed` carries the validator's verdicts to the loop, and
with `Vouched` gives `RefusalsExplained`; `Shared` says that a definition is what
the cache holds. For code, `Repos` says how far a repository is when a run is
about to issue a command, and that its commit is the code its runs have unless two
of them found no repository (`RepoRace`): `ComparableCells`. What one
step of an entry does to the readings is one lemma (`EntryEffect`), so that the
invariant is shown for a reading and not for each of the entry's actions.

**`Measurement_proofs`.** Who ends a session's race, and whether its loop outlives
it, depends on which of three promises settles first. `PromptKept` says that a
prompt outlives the race only after the timer has fired, which is what keeps the
loop from prompting again; `TimerKept` that no timer is armed outside the race,
and that an abort is the timer's; `ReadingKept` that what was read is still so.
From it: `SessionTypeCorrect`, `ReadingsAreFinal` and `AbortIsReported`.

The measuring is added in three layers.

- `MInv` has the types of the trace and the counters, and `FlagsTold`: there is a
  line, the first or an `agent_start`, from which the two flags of the
  clarification loop can be told, for tools that were called after it unset one
  and a text set the other. `RequestsExplained` follows. `MeasurementTypeCorrect`
  needs that an edit is never counted before its turn (`EditInTime`).
- `CountersTold`: what the running counters hold after `read` lines, as
  cardinalities and sums over the lines read. Each kind of line moves each of the
  sets by its own position or not at all (`With`), so a step of the pass is a step
  of the sets. `CountersTellTheTrace` follows. A sum over a set, which the model
  defines by a fold in an arbitrary order, is shown independent of that order
  first (`SumStep`, `SumSplit`, `SumRaised`).
- `RInv` adds that the kept events say to each rule what the lines say
  (`EventsTold`) and that a metric is made of a session that is over
  (`MetricsMade`). What the dispatch of events to rules computes is shown by
  induction along the fold (`FoldMade`, `DispatchCounts`, `RunCounts`): the state
  of an id is the sum of what its counting rules saw, and 1 or 0 for a depth; for
  an id that one rule has, that is what the rule matches.
  `RulesCountTheTrace` and `CellsShowTheMetrics` follow.

The inductions here are over numbers, as an inductive set of them and a
recursive function over a finite domain; no theorem quantifies over operators.

**`Dispatch_proofs`.** For every set of specs, files, plugins and keys. `TInv`
has the types, what a plan is (`PlanOK`) and that an entry waits exactly if it
has no profile; `TypeCorrect` rests on what `LoopOrder`, `Product` and
`expandMatrix` return for any spec.
`CachesOK` ties what a run was given to the cache under its id, and a filled
profile cache to the first level with that id: lanes take entries in order and
ask in the turn they take them, so the first level asks first, whatever happens
later. From it `SharedFiles`. That fates agree is not inductive, since it
compares runs only at their ends: `FateOf` computes from a run's files what it
will end with, `OnItsWay` says that a run at each stage has passed what comes
before it, with its registries those of the harness and the plugins loaded so
far (`Upto`), and `FatesOK` that a run that ended has its `FateOf`. As `FateOf`
reads nothing of the schedule, `FatesAgree` follows. `PlanIs` keeps that the
spec was accepted and the plan is its expansion, and `GivenOK` what a run has
been given at each stage; with `FatesOK` they give `CausesKnown` (what the
validator accepts is not refused, and what is refused has a cause it does not
look at) and `WarningsTold`. `PreviewsHold` compares a preview with a run of
another plan: `PreviewOK` says that the preview is what the first entry
of the matrix is `Foreseen` to end with, and the fate of that entry is the same
function of the same files, unless another entry has filled the cache under its
id. `MatrixIsWhole` is about the expansion alone: the nested loops list each
combination of levels `repetitions` times, and two cells with the same row are
the same but for their parameters.

What the assumptions say of a spec is what the schema says of it: arrays, a level
for each factor, a known type. That an axis then holds the levels of its kind
(`AxisHolds`) and what the parameters are (`ParamsRun`) is proved of the folds.

`PathsAgreeAlways` compares the two expansions of a spec through coordinates: both
are made of one value from each of four lists, and a tuple of four positions says
which (`Coordinates`: every tuple, once). One more loop over `L` values
multiplies one list by `L`; it keeps every tuple (`CoordinatesKept`), and keeps
them in the order of nested loops, `Place`, if the lists behind it have one value
only (`PlacesKept`). The cells of the first scenario are such loops over the axes,
in order (`FirstReached`, `CellsPlaced`). The drafts are loops over the factors in
the order of the spec; `ListsAre` is the invariant of that loop, on the four lists
so far: the list of parameters is that of the matrix, the others hold levels of
their kinds, are the levels of the factor where there is one, and have one value
where there is none yet. It gives the three claims: levels of the kind, so every
draft is a cell; the same lists with one factor of each kind, so both count the
same tuples; and factors in the order of the loops multiply only the last list
with more than one value, so both are in place.

**Only model-checked.** Liveness is out of the prover's reach: `Terminates`,
`EveryRunEnds`, `OracleSettles`, `SessionEnds`, and of `ImplementsFifoMutex` the
fairness of the abstract lock. Each other property that a passing run checks is
a theorem. `LanesDisjoint`, `OvershootBounded` and
`FirstComeFirstServed` are proved and not run: the refinements
`ImplementsBudgetedMatrix` and `ImplementsFifoMutex` check them on the
instances.

## 5. What is abstracted

Ids, prompts, traces and file contents are values or three-valued states;
formatting, logging and printing are left out (`onRunEnd` only prints;
`onRunStart` is kept as a step that may throw). Cost is an integer, and a
non-positive one stands for the readings `recordRun` ignores. `git`, execa,
the operating system and the Pi agent are external and modelled from how the
code relies on them: a git command takes `config.lock` or `index.lock` and fails
if it is taken; a child's promise settles when the child has ended and its output
is closed or execa has given it up; `session.prompt` may settle before or after
`session.abort`. An abort that rejects (`harness-pi/index.ts:330`) ends the race
as one that resolves does, and leaves a rejection that nobody handles, on which
node ends the process by default; that it rejects is not modelled. The
workspace copy, the plugins and the metrics are one await each of a run in
`MatrixRun`; `Measurement` is the metrics' own. There, shares of a context window
are compared as tokens, a turn bills one fixed amount, and a tool's result is
marked or not. Writes of the trace that fail, the tracer's own validation of its
registry, foreign or old traces, the quoting of a CSV and the metrics a profile
declares without a trace are left out.

`Workspaces` takes git to clean up after itself: a command that is killed and
leaves its lock file behind is not modelled, nor an end of the process that runs
no handler (SIGKILL), after which every recorded worktree stays. The worktrees
and branches an ended process leaves have fresh ids and are in nobody's way.

`Dispatch` keeps the files as they are (`Provenance` edits them) and takes a
session, its oracle and its workspace to succeed (`MatrixRun` and `RunLifecycle`
fail them); what a plugin's own metric kind throws while it counts is left out.
A profile is what its files declare: whether `tools.yaml` and `SYSTEM.md` can be
read, the tools and their gates, the keys of `extensions.yaml` with malformed
values, its metric rules with their kinds and whether the kind's schema takes
their configuration (the same schema, whichever plugin registers the kind), its
extensions and whether Pi can load them, its context commands with the scenarios
in which they fail, its agents and its binaries. A context command does the same
in every run on one scenario: one that beats its timeout in some runs only would
be refused in the others. `--no-binaries` is not used. Plugins register what
they register whenever they are called.

`Provenance` says nothing of what a hash does not cover: two contents with one
hash are told apart by the loaders and not by `PinnedMeansPinned`. Its git
commands do not fail by themselves but through `RunFails`, which ends a run at
any of them, and the two commands that configure a new repository are part of
its `git init`; how initialisations block each other is in `Workspaces`. One
directory is read in one step; prompt, model and parameter axes read nothing of
their own and are left out; an id names one directory (ids used twice are in
`Dispatch`); a `code_dir` stays what it is. What the validator, the loaders and
the runner refuse is three sets of contents (`Refused`, `Unchecked`,
`Unhashable`); an API key that is not set and warnings made into errors are
`Refuse`.

## 6. Running the checks

    tlc -config MCMatrixRun_faults.cfg MCMatrixRun     # and so on for each run
    tlapm MatrixRun_proofs.tla                         # and the other *_proofs, FoldFacts

Every passing run ends within three minutes on two workers.

## 7. What is left

What is left to the prover is liveness alone. The next component to model would be
the cells of the aggregate: a bundle read back by the aggregator gives the
statuses that the manifest lists.

**Not modelled.** `bundle/naming.ts` and `runner/version.ts` format data and
compare versions without state; the SDK is interfaces and identity helpers;
presets and examples are data. Field-by-field parsing (`spec/schema.ts`, the
shapes in `runner/extensions.ts`) is a schema library's work: what it refuses is
a constant. Module resolution (`harness-loader.ts`, `profile-package/loader.ts`)
is a question to the file system with one answer.
