------------------------------- MODULE Dispatch -------------------------------
(***************************************************************************)
(* What the cells of a matrix are given and by whom they are refused: the  *)
(* validator before the first run, the caches of runAll, which are keyed   *)
(* by the ids of the spec, and the dispatch inside a run: the prompt, the  *)
(* workspace strategy, the upfront context, the pinned agents, the model   *)
(* and the extensions come before the session is paid for, the plugins and *)
(* metric rules after it.  One user may check the spec with `facet spec    *)
(* validate`, try the first cell with `facet run --single` and then run    *)
(* the matrix.                                                             *)
(*                                                                         *)
(* The files do not change here (Provenance has that); what a run does in  *)
(* its workspace and session is in RunLifecycle and PiSession.             *)
(***************************************************************************)
EXTENDS Factors

CONSTANTS
    Specs,          \* the specs a user may have written
    ProfileFiles,   \* the directory behind every profile ref
    ScenarioFiles,  \* the directory behind every scenario ref
    PluginModules,  \* what the module behind every plugin ref registers
    Keys,           \* the providers whose API key is set
    OnPath,         \* the binaries on PATH
    UserModels,     \* the providers in ~/.pi/agent/models.json, if there is one
    PiModels,       \* the models Pi finds, as <<provider, id>>
    None            \* nothing loaded yet, or no preview

ASSUME FilesAssumption ==
    /\ None \notin DOMAIN ProfileFiles \cup DOMAIN ScenarioFiles
    /\ None \notin {"profile", "prompt", "strategy", "context", "pin", "model",
                    "extension", "plugin", "rule", "ok", "OK", "FAIL"}

\* tools.yaml lists at least one tool, and a directory of agents is as prepareAgentPin
\* finds it.
ASSUME ProfilesAssumption ==
    \A p \in DOMAIN ProfileFiles :
        /\ ProfileFiles[p].readable => DOMAIN ProfileFiles[p].tools # {}
        /\ ProfileFiles[p].agents # None =>
              ProfileFiles[p].agents.entries \in {"files", "links", "none"}

\* What a module registers is a list.
ASSUME PluginsAssumption ==
    \A r \in DOMAIN PluginModules : PluginModules[r] # None =>
        Len(PluginModules[r]) \in Nat /\ DOMAIN PluginModules[r] = 1..Len(PluginModules[r])

IsArray(x) == x \in Seq(Range(x))

\* The schema: a factor has at least one level and, if it has a type, one of four; and
\* the directories and plugins that a spec names are there.
ASSUME SpecsAssumption ==
    \A s \in Specs :
        /\ IsArray(s.factors) /\ IsArray(s.scenarios) /\ IsArray(s.plugins)
        /\ \A k \in DOMAIN s.plugins : s.plugins[k] \in DOMAIN PluginModules
        /\ s.repetitions \in Nat \ {0}
        /\ \A m \in DOMAIN s.scenarios : s.scenarios[m].ref \in DOMAIN ScenarioFiles
        /\ \A k \in DOMAIN s.factors : LET factor == s.factors[k] IN
              /\ IsArray(factor.levels) /\ factor.levels # <<>>
              /\ HasType(factor) => TypeOf(factor) \in Required \cup {"model_param"}
              /\ IsA(factor, "extension_select") =>
                    \A m \in DOMAIN factor.levels :
                        factor.levels[m].ref \in DOMAIN ProfileFiles

VARIABLES
    spec,           \* the parsed spec.yaml
    phase,          \* where the command is
    call,           \* "single" or "matrix"
    verdict,        \* what facet spec validate said, if it was asked
    warnings,       \* its tools-scenario-not-covered: <<profile level, scenario id>>
    plan,           \* the entries of the call
    stage,          \* where every entry is
    profileCache,   \* profileCache and scenarioCache of runAll, by id
    scenarioCache,
    given,          \* what every run was given
    registered,     \* the registries of every run, as <<registry, id>>
    preview         \* what facet run --single ended with

command == <<spec, phase, call, verdict, warnings, plan, preview>>
caches  == <<profileCache, scenarioCache>>
vars    == <<command, stage, caches, given, registered>>

Pending    == {"waiting", "scenario", "dispatch", "context", "pin", "session", "compose",
               "measure"}
Stages     == Pending \cup {"ended"}
Causes     == {"profile", "prompt", "strategy", "context", "pin", "model", "extension",
               "plugin", "rule"}
InFlight   == {i \in DOMAIN plan : stage[i] \in Pending \ {"waiting"}}
Parallel   == IF call = "single" THEN 1 ELSE spec.parallelism
Profiles    == DOMAIN ProfileFiles
Scenarios   == DOMAIN ScenarioFiles
ProfileIds  == {plan[i].profile : i \in DOMAIN plan}
ScenarioIds == {plan[i].scenario : i \in DOMAIN plan}

\* A run that has read nothing: no directories, no tools, no session.
Nothing == [profile |-> None, scenario |-> None, extensions |-> <<>>, context |-> <<>>,
            tools |-> <<>>, sessions |-> 0, loaded |-> 0, fate |-> None]

-----------------------------------------------------------------------------
(* The files of profiles: tools.yaml, extensions.yaml.                      *)

Ungated(gate) == gate.scenarios = None
\* What applies to a scenario, each entry at its place in the declaration.
AppliesTo(gate, scenarioId) == Ungated(gate) \/ scenarioId \in gate.scenarios
Applying(gates, scenarioId) ==
    [k \in {m \in DOMAIN gates : AppliesTo(gates[m], scenarioId)} |-> gates[k]]
ToolsFor(ref, scenarioId)      == Applying(ProfileFiles[ref].tools, scenarioId)
ExtensionsFor(ref, scenarioId) == Applying(ProfileFiles[ref].extensions, scenarioId)
ContextFor(ref, scenarioId)    == Applying(ProfileFiles[ref].upfront, scenarioId)
BinariesFor(ref, scenarioId) ==
    LET needs == Applying(ProfileFiles[ref].binaries, scenarioId)
    IN  {needs[k].binary : k \in DOMAIN needs}

\* register() of harness-pi: it skips what is registered already, and leaves
\* out the contributions when it is given no registry for them.
PiKinds == {"tool_call_count", "tool_result_marker_count", "tool_call_max_depth"}
PiContributions == {"pinned_agents", "language_servers"}
HarnessRegisters ==
    {"metricKind"} \X PiKinds \cup {"extensionsContribution"} \X PiContributions

\* composeExtensionsYamlSchema: a key is checked if it is universal or was
\* contributed by the harness during setup; other keys pass through.
UniversalKeys ==
    {"extensions", "upfront_context", "constraints", "requires_binaries",
     "requires_binaries_per_scenario", "metrics", "tool_owner"}
CheckedKeys == UniversalKeys \cup PiContributions
ExtensionsParse(ref) == ProfileFiles[ref].badKeys \cap CheckedKeys = {}

\* loadProfileDefinition: tools.yaml and SYSTEM.md, then extensions.yaml.
ProfileLoads(ref) == ProfileFiles[ref].readable /\ ExtensionsParse(ref)

-----------------------------------------------------------------------------
(* validateSpec.                                                            *)

\* The levels of a factor replace those of an earlier one of its kind.
LastLevels(s, type) ==
    LET ks == OfKind(s.factors, type)
    IN  IF ks = {} THEN <<>> ELSE s.factors[Max(ks)].levels

\* Mutated form: a required prompt may be declared by any scenario.
PromptsSomewhere(s) ==
    \A k \in DOMAIN LastLevels(s, "prompt_swap") : \E m \in DOMAIN s.scenarios :
        LastLevels(s, "prompt_swap")[k].id \in ScenarioFiles[s.scenarios[m].ref].prompts

\* scenario-missing-prompt
PromptsDeclared(s) ==
    \A k \in DOMAIN LastLevels(s, "prompt_swap"), m \in DOMAIN s.scenarios :
        LastLevels(s, "prompt_swap")[k].id \in ScenarioFiles[s.scenarios[m].ref].prompts

\* profile-extensions-invalid; tools.yaml and SYSTEM.md are left to the runner.
ExtensionsValid(s) ==
    \A k \in DOMAIN LastLevels(s, "extension_select") :
        ExtensionsParse(LastLevels(s, "extension_select")[k].ref)

\* upfront-command-missing and upfront-script-missing, whatever the scenario: a
\* script is looked for in the profile, wherever the command will run.
ContextThere(s) ==
    \A k \in DOMAIN LastLevels(s, "extension_select") :
        LET items == ProfileFiles[LastLevels(s, "extension_select")[k].ref].upfront
        IN  \A m \in DOMAIN items : ~items[m].missing

\* pinned-agents-empty, the preflight of harness-pi: any name that ends in .md.
AgentsThere(s) ==
    \A k \in DOMAIN LastLevels(s, "extension_select") :
        LET agents == ProfileFiles[LastLevels(s, "extension_select")[k].ref].agents
        IN  agents # None => agents.entries # "none"

\* binary-missing.  The manifests are kept by level id: with two levels of one
\* id, the second's is read for both.
ManifestOf(s, id) ==
    LET levels == LastLevels(s, "extension_select")
        k == CHOOSE n \in DOMAIN levels : /\ levels[n].id = id
                                          /\ \A m \in DOMAIN levels :
                                                levels[m].id = id => m <= n
    IN  levels[k].ref
BinariesThere(s) ==
    /\ \A m \in DOMAIN s.scenarios : ScenarioFiles[s.scenarios[m].ref].binaries \subseteq OnPath
    /\ \A k \in DOMAIN LastLevels(s, "extension_select"), m \in DOMAIN s.scenarios :
          BinariesFor(ManifestOf(s, LastLevels(s, "extension_select")[k].id), s.scenarios[m].id)
              \subseteq OnPath

LastProfiles(s) ==
    {LastLevels(s, "extension_select")[k] : k \in DOMAIN LastLevels(s, "extension_select")}
ScenarioIdsOf(s) == {s.scenarios[m].id : m \in DOMAIN s.scenarios}

\* Mutated form: a warning only if every tool of the profile has a gate for
\* another scenario of the spec.
CoveredIfOneApplies(s) ==
    {w \in LastProfiles(s) \X ScenarioIdsOf(s) :
        /\ ProfileFiles[w[1].ref].readable
        /\ \A id \in ScenarioIdsOf(s) : ToolsFor(w[1].ref, id) = <<>>}

\* tools-scenario-not-covered: <<level, scenario id>>, for profiles with a gate.
NotCovered(s) ==
    {w \in LastProfiles(s) \X ScenarioIdsOf(s) :
        LET tools == ProfileFiles[w[1].ref].tools
        IN  /\ ProfileFiles[w[1].ref].readable
            /\ \E k \in DOMAIN tools : ~Ungated(tools[k])
            /\ ToolsFor(w[1].ref, w[2]) = <<>>}

\* collectProviders: every level of every model_swap factor.
ProvidersOf(s) ==
    LET levels == Axis(s.factors, "model_swap")
    IN  {levels[k].provider : k \in DOMAIN levels}

Valid(s) == /\ PromptsDeclared(s) /\ ExtensionsValid(s)
            /\ ContextThere(s) /\ AgentsThere(s)

-----------------------------------------------------------------------------
(* The command.                                                             *)

\* z.preprocess and the discriminated union: every factor has a type.
Parses(s) == \A k \in DOMAIN s.factors : HasType(s.factors[k])

Init ==
    /\ spec \in Specs
    /\ phase = "idle" /\ call = "matrix" /\ plan = <<>>
    /\ verdict = None /\ warnings = {}
    /\ stage = <<>> /\ profileCache = <<>> /\ scenarioCache = <<>>
    /\ given = <<>> /\ registered = <<>>
    /\ preview = None

\* facet spec validate prints the warnings whatever the verdict.
SpecValidate ==
    /\ phase = "idle" /\ verdict = None
    /\ verdict' = IF Parses(spec) /\ Valid(spec) /\ BinariesThere(spec) THEN "OK" ELSE "FAIL"
    /\ warnings' = IF Parses(spec) THEN NotCovered(spec) ELSE {}
    /\ UNCHANGED <<spec, phase, call, plan, stage, caches, given, registered, preview>>

\* prepareRunContext: parse, validate without looking at binaries and without a
\* word of the warnings, look for the API keys.
Prepare(c) ==
    /\ phase = "idle" \/ phase = "previewed"
    /\ c = "single" => phase = "idle"
    /\ call' = c
    /\ phase' = IF Parses(spec) /\ Valid(spec) /\ ProvidersOf(spec) \subseteq Keys
                THEN "accepted" ELSE "refused"
    /\ UNCHANGED <<spec, verdict, warnings, plan, stage, caches, given, registered, preview>>

\* The entries of runAll, or the one run of runFirstRunOnly.
Expand ==
    /\ phase = "accepted" /\ Expandable(spec)
    /\ phase' = "running"
    /\ plan' = IF call = "single" THEN <<resolveFirstRun(spec)>> ELSE expandMatrix(spec)
    /\ stage' = [i \in DOMAIN plan' |-> "waiting"]
    /\ profileCache' = [id \in ProfileIds' |-> None]
    /\ scenarioCache' = [id \in ScenarioIds' |-> None]
    /\ given' = [i \in DOMAIN plan' |-> Nothing]
    /\ registered' = [i \in DOMAIN plan' |-> {}]
    /\ UNCHANGED <<spec, call, verdict, warnings, preview>>

\* expandMatrix throws, before there is a bundle.
ExpandThrows ==
    /\ phase = "accepted" /\ ~Expandable(spec)
    /\ phase' = "refused"
    /\ UNCHANGED <<spec, call, verdict, warnings, plan, stage, caches, given, registered,
                   preview>>

\* The same fields of the run of --single and of the first run of the matrix.
Outcome(i) ==
    [prompt |-> plan[i].prompt, provider |-> plan[i].provider,
     modelId |-> plan[i].modelId, profile |-> given[i].profile,
     scenario |-> given[i].scenario, extensions |-> given[i].extensions,
     context |-> given[i].context, tools |-> given[i].tools,
     sessions |-> given[i].sessions, fate |-> given[i].fate]

Finish ==
    /\ phase = "running" /\ \A i \in DOMAIN plan : stage[i] = "ended"
    /\ IF call = "single" THEN phase' = "previewed" /\ preview' = Outcome(1)
                          ELSE phase' = "finished" /\ UNCHANGED preview
    /\ UNCHANGED <<spec, call, verdict, warnings, plan, stage, caches, given, registered>>

-----------------------------------------------------------------------------
(* A run.                                                                   *)

At(i, s) == phase = "running" /\ stage[i] = s /\ UNCHANGED command
GoTo(i, s) == stage' = [stage EXCEPT ![i] = s]
EndWith(i, fate) ==
    /\ GoTo(i, "ended")
    /\ given' = [given EXCEPT ![i].fate = fate]

\* Mutated form: every run loads the directory of its own level.
Reloaded(cache, id, ref) == ref

\* getProfile: lanes take entries in order, and ask in the turn they take them.
Cached(cache, id, ref) == IF cache[id] = None THEN ref ELSE cache[id]

RequestProfile(i) ==
    LET e   == plan[i]
        ref == Cached(profileCache, e.profile, e.profileRef)
    IN  /\ At(i, "waiting")
        /\ \A j \in DOMAIN plan : j < i => stage[j] # "waiting"
        /\ Cardinality(InFlight) < Parallel
        /\ profileCache' = [profileCache EXCEPT ![e.profile] = ref]
        /\ given' = [given EXCEPT ![i].profile = ref,
                                  ![i].fate = IF ProfileLoads(ref) THEN None ELSE "profile"]
        /\ GoTo(i, IF ProfileLoads(ref) THEN "scenario" ELSE "ended")
        /\ UNCHANGED <<scenarioCache, registered>>

\* getScenario is asked for when the profile has arrived, whenever that is.
RequestScenario(i) ==
    LET e   == plan[i]
        ref == Cached(scenarioCache, e.scenario, e.scenarioRef)
    IN  /\ At(i, "scenario")
        /\ scenarioCache' = [scenarioCache EXCEPT ![e.scenario] = ref]
        /\ given' = [given EXCEPT ![i].scenario = ref]
        /\ GoTo(i, "dispatch")
        /\ UNCHANGED <<profileCache, registered>>

\* runSingleRun up to the workspace: the prompt and the strategy (the registry
\* holds the built-in one; plugins come later).
BuiltIn == {<<"workspaceStrategy", "git_worktree">>}

NoPrompt(i) ==
    /\ At(i, "dispatch")
    /\ plan[i].prompt \notin ScenarioFiles[given[i].scenario].prompts
    /\ EndWith(i, "prompt")
    /\ UNCHANGED <<caches, registered>>

NoStrategy(i) ==
    /\ At(i, "dispatch")
    /\ plan[i].prompt \in ScenarioFiles[given[i].scenario].prompts
    /\ spec.strategy # "git_worktree"
    /\ EndWith(i, "strategy")
    /\ UNCHANGED <<caches, registered>>

Open(i) ==
    /\ At(i, "dispatch")
    /\ plan[i].prompt \in ScenarioFiles[given[i].scenario].prompts
    /\ spec.strategy = "git_worktree"
    /\ registered' = [registered EXCEPT ![i] = BuiltIn]
    /\ given' = [given EXCEPT ![i].extensions =
                    ExtensionsFor(given[i].profile, plan[i].scenario)]
    /\ GoTo(i, "context")
    /\ UNCHANGED caches

\* prepareUpfrontContext: one command after the other, in the workspace or in the
\* profile; it must exit with 0, and its output goes into the system prompt.
ContextHolds(p, s, id) ==
    \A k \in DOMAIN ContextFor(p, id) : s \notin ContextFor(p, id)[k].failsIn

AddContext(i) ==
    /\ At(i, "context")
    /\ ContextHolds(given[i].profile, given[i].scenario, plan[i].scenario)
    /\ given' = [given EXCEPT ![i].context = ContextFor(given[i].profile, plan[i].scenario)]
    /\ GoTo(i, "pin")
    /\ UNCHANGED <<caches, registered>>

ContextFails(i) ==
    /\ At(i, "context")
    /\ ~ContextHolds(given[i].profile, given[i].scenario, plan[i].scenario)
    /\ EndWith(i, "context")
    /\ UNCHANGED <<caches, registered>>

\* prepareAgentPin: regular files only, and if the profile inherits the user's
\* models.json it must know the provider of this run.
PinHolds(p, provider) ==
    LET agents == ProfileFiles[p].agents
    IN  agents # None =>
            /\ agents.entries = "files"
            /\ agents.inherits /\ UserModels # None => provider \in UserModels

PinAgents(i) ==
    /\ At(i, "pin") /\ PinHolds(given[i].profile, plan[i].provider)
    /\ GoTo(i, "session")
    /\ UNCHANGED <<caches, given, registered>>

PinFails(i) ==
    /\ At(i, "pin") /\ ~PinHolds(given[i].profile, plan[i].provider)
    /\ EndWith(i, "pin")
    /\ UNCHANGED <<caches, registered>>

\* runSession of harness-pi finds the model, then loads the extensions, then
\* opens the session that costs.
ModelFound(provider, modelId) == <<provider, modelId>> \in PiModels
ExtensionsLoad(p, id) ==
    \A k \in DOMAIN ExtensionsFor(p, id) : ExtensionsFor(p, id)[k].loads

NoModel(i) ==
    /\ At(i, "session") /\ ~ModelFound(plan[i].provider, plan[i].modelId)
    /\ EndWith(i, "model")
    /\ UNCHANGED <<caches, registered>>

NoExtension(i) ==
    /\ At(i, "session") /\ ModelFound(plan[i].provider, plan[i].modelId)
    /\ ~ExtensionsLoad(given[i].profile, plan[i].scenario)
    /\ EndWith(i, "extension")
    /\ UNCHANGED <<caches, registered>>

RunSession(i) ==
    /\ At(i, "session") /\ ModelFound(plan[i].provider, plan[i].modelId)
    /\ ExtensionsLoad(given[i].profile, plan[i].scenario)
    /\ given' = [given EXCEPT ![i].tools = ToolsFor(given[i].profile, plan[i].scenario),
                              ![i].sessions = @ + 1]
    /\ GoTo(i, "compose")
    /\ UNCHANGED <<caches, registered>>

\* The harness's hook, on the registries of this run.
RegisterHarness(i) ==
    /\ At(i, "compose")
    /\ registered' = [registered EXCEPT ![i] = @ \cup HarnessRegisters]
    /\ GoTo(i, "measure")
    /\ UNCHANGED <<caches, given>>

\* loadPlugins, one plugin after the other; a registry refuses an id it has.
NextPlugin(i) == PluginModules[spec.plugins[given[i].loaded + 1]]
Registers(adds) == {adds[k] : k \in DOMAIN adds}
Conflicts(i, adds) ==
    \/ Registers(adds) \cap registered[i] # {}
    \/ \E k, m \in DOMAIN adds : k # m /\ adds[k] = adds[m]

\* Mutated form: one set of registries for the process.
LoadPluginShared(i) ==
    /\ At(i, "measure") /\ given[i].loaded < Len(spec.plugins)
    /\ NextPlugin(i) # None /\ ~Conflicts(i, NextPlugin(i))
    /\ registered' = [j \in DOMAIN plan |-> registered[j] \cup Registers(NextPlugin(i))]
    /\ given' = [given EXCEPT ![i].loaded = @ + 1]
    /\ UNCHANGED <<caches, stage>>

LoadPlugin(i) ==
    /\ At(i, "measure") /\ given[i].loaded < Len(spec.plugins)
    /\ NextPlugin(i) # None /\ ~Conflicts(i, NextPlugin(i))
    /\ registered' = [registered EXCEPT ![i] = @ \cup Registers(NextPlugin(i))]
    /\ given' = [given EXCEPT ![i].loaded = @ + 1]
    /\ UNCHANGED <<caches, stage>>

\* The import fails, there is no register function, or it throws.
PluginFails(i) ==
    /\ At(i, "measure") /\ given[i].loaded < Len(spec.plugins)
    /\ NextPlugin(i) # None => Conflicts(i, NextPlugin(i))
    /\ EndWith(i, "plugin")
    /\ UNCHANGED <<caches, registered>>

\* resolveRules, before any event is read: the kind of every rule is looked up, and the
\* rest of the rule is parsed with the configSchema of the kind's handler.
RulesResolve(i) ==
    \A rule \in ProfileFiles[given[i].profile].rules :
        <<"metricKind", rule.kind>> \in registered[i] /\ rule.fits

Measure(i) ==
    /\ At(i, "measure") /\ given[i].loaded = Len(spec.plugins)
    /\ EndWith(i, IF RulesResolve(i) THEN "ok" ELSE "rule")
    /\ UNCHANGED <<caches, registered>>

RunStep(i) == \/ RequestProfile(i) \/ RequestScenario(i) \/ NoPrompt(i)
              \/ NoStrategy(i) \/ Open(i) \/ AddContext(i) \/ ContextFails(i)
              \/ PinAgents(i) \/ PinFails(i) \/ NoModel(i) \/ NoExtension(i)
              \/ RunSession(i) \/ RegisterHarness(i)
              \/ LoadPlugin(i) \/ PluginFails(i) \/ Measure(i)
Next == \/ SpecValidate
        \/ \E c \in {"single", "matrix"} : Prepare(c)
        \/ Expand \/ ExpandThrows \/ Finish
        \/ \E i \in DOMAIN plan : RunStep(i)
Spec == Init /\ [][Next]_vars

-----------------------------------------------------------------------------
\* Everything a plugin or the harness may register.
Known == BuiltIn \cup HarnessRegisters
           \cup UNION {Registers(adds) :
                         adds \in {PluginModules[r] : r \in DOMAIN PluginModules} \ {None}}
Lists(For(_, _)) == {<<>>} \cup {For(r, id) : r \in Profiles, id \in ScenarioIds}
Given ==
    [profile : Profiles \cup {None}, scenario : Scenarios \cup {None},
     extensions : Lists(ExtensionsFor), context : Lists(ContextFor), tools : Lists(ToolsFor),
     sessions : Nat, loaded : Nat, fate : Causes \cup {None, "ok"}]

TypeOK ==
    /\ spec \in Specs
    /\ phase \in {"idle", "accepted", "refused", "running", "previewed", "finished"}
    /\ call \in {"single", "matrix"}
    /\ verdict \in {None, "OK", "FAIL"}
    /\ stage \in [DOMAIN plan -> Stages]
    /\ profileCache \in [ProfileIds -> Profiles \cup {None}]
    /\ scenarioCache \in [ScenarioIds -> Scenarios \cup {None}]
    /\ given \in [DOMAIN plan -> Given]
    /\ registered \in [DOMAIN plan -> SUBSET Known]
    /\ \A i \in DOMAIN plan : given[i].fate = None <=> stage[i] # "ended"

\* The matrix of an accepted spec is the full factorial of its axes: no cell is
\* left out, none runs more often than its levels are listed, whatever factors
\* repeat a kind or a param; and where ids are unique on every axis, rows of the
\* results table that read the same are runs of the same files and model: they
\* differ at most in the model parameters, for which there is no column.
MatrixIsFactorial ==
    phase = "running" /\ call = "matrix" =>
        /\ IsFullFactorial(spec, plan)
        /\ (/\ IdsUnique(spec.scenarios)
            /\ \A type \in Required : IdsUnique(Axis(spec.factors, type))) =>
              \A i, j \in DOMAIN plan : RowOf(plan[i]) = RowOf(plan[j]) =>
                 [plan[i] EXCEPT !.runId = j, !.params = plan[j].params] = plan[j]

\* "The two paths produce the same output for the four core kinds": they do, as
\* bags of cells, for a spec with one factor of each required kind, and in the
\* same order if its factors come in the order of the loops.  With two factors of
\* one kind the registry path multiplies where the matrix adds, and its drafts
\* are some of the cells of the matrix.
PathsAgree ==
    phase = "running" /\ call = "matrix" =>
        LET fs     == spec.factors
            drafts == expandMatrixWithRegistry(fs)
            perScenario == Len(plan) \div Len(spec.scenarios)
            cells  == [n \in 1..(perScenario \div spec.repetitions) |->
                          DraftOf(plan[(n - 1) * spec.repetitions + 1])]
            OneEach == \A type \in Required : Cardinality(OfKind(fs, type)) = 1
            Rank(f) == CASE TypeOf(f) = "prompt_swap" -> 1
                         [] TypeOf(f) = "extension_select" -> 2
                         [] TypeOf(f) = "model_swap" -> 3
                         [] OTHER -> 4
            InOrder == \A k, m \in DOMAIN fs : k < m => Rank(fs[k]) <= Rank(fs[m])
        IN  /\ \A n \in DOMAIN drafts : Count(drafts[n], cells) > 0
            /\ OneEach => \A n \in DOMAIN cells :
                             Count(cells[n], drafts) = Count(cells[n], cells)
            /\ OneEach /\ InOrder => drafts = cells

\* Runs that carry one id on an axis have the same files, whoever asked first.
\* For a profile these are the files of the first level with that id, on every
\* schedule; for a scenario, whose request waits for the profile, of some level
\* with that id.  Where an id is unique a run has the files of its own cell.
FilesFollowIds ==
    \A i, j \in DOMAIN plan :
        /\ plan[i].profile = plan[j].profile /\ given[i].profile # None =>
             /\ given[j].profile \in {None, given[i].profile}
             /\ (\A k \in DOMAIN plan : k < j => plan[k].profile # plan[j].profile)
                  => given[i].profile = plan[j].profileRef
        /\ plan[i].scenario = plan[j].scenario /\ given[i].scenario # None =>
             given[j].scenario \in {None, given[i].scenario}
        /\ given[i].scenario # None => \E k \in DOMAIN plan :
             plan[k].scenario = plan[i].scenario /\ plan[k].scenarioRef = given[i].scenario

\* A factor that a later one of its kind replaced: the validator never looked.
Replaced(ref) ==
    \A k \in DOMAIN LastLevels(spec, "extension_select") :
        LastLevels(spec, "extension_select")[k].ref # ref

\* What can be wrong with the files of a run: what the validator does not check, or
\* did not see.
FilesCause(i) ==
    LET fate == given[i].fate
        p    == given[i].profile
    IN  /\ fate = "profile" => ~ProfileFiles[p].readable \/ Replaced(p)
        /\ fate = "prompt" =>
             \A k \in DOMAIN LastLevels(spec, "prompt_swap") :
                LastLevels(spec, "prompt_swap")[k].id # plan[i].prompt
        /\ fate = "context" => \E k \in DOMAIN ContextFor(p, plan[i].scenario) :
             LET item == ContextFor(p, plan[i].scenario)[k]
             IN  given[i].scenario \in item.failsIn /\ (item.missing => Replaced(p))
        /\ fate = "pin" =>
             \/ Replaced(p)
             \/ ProfileFiles[p].agents.entries = "links"
             \/ ProfileFiles[p].agents.inherits /\ plan[i].provider \notin UserModels

\* A plugin that no run of the spec can load.
Unloadable(k) ==
    LET adds    == PluginModules[spec.plugins[k]]
        earlier == {PluginModules[spec.plugins[m]] : m \in 1..(k - 1)} \ {None}
        taken   == BuiltIn \cup HarnessRegisters \cup UNION {Registers(e) : e \in earlier}
    IN  \/ adds = None
        \/ Registers(adds) \cap taken # {}
        \/ Cardinality(Registers(adds)) < Len(adds)

\* A metric kind of a profile that nothing registers.
UnknownKind(kind) ==
    /\ kind \notin PiKinds
    /\ \A k \in DOMAIN spec.plugins :
          <<"metricKind", kind>> \notin Registers(PluginModules[spec.plugins[k]])

\* What is unknown to Pi or to the registries, and what it has cost.
ServiceCause(i) ==
    LET fate == given[i].fate
    IN  /\ fate = "model" => \A j \in DOMAIN plan :
             plan[j].provider = plan[i].provider /\ plan[j].modelId = plan[i].modelId
               => given[j].sessions = 0
        /\ fate = "plugin" => \E k \in DOMAIN spec.plugins : Unloadable(k)
        /\ fate = "rule" => \E rule \in ProfileFiles[given[i].profile].rules :
             UnknownKind(rule.kind) \/ ~rule.fits
        /\ fate \in {"ok", "plugin", "rule"} => spec.strategy = "git_worktree"
        /\ fate # None => (given[i].sessions = 1 <=> fate \in {"ok", "plugin", "rule"})
        /\ given[i].sessions > 0 => plan[i].provider \in Keys

\* Which runs of an accepted experiment are refused at their dispatch.  What the
\* validator checks is never refused later; what it does not see is: the files
\* and prompts of a factor that a later one of its kind replaced, tools.yaml and
\* SYSTEM.md, any strategy but git_worktree, context commands that fail in the
\* workspace, agents that are not regular files or whose provider the user's
\* models.json does not know, models and extensions unknown to Pi, plugins, and
\* metric rules of a kind nobody registers or with a configuration that their kind
\* refuses.  Only the last two cost a session, and a model that Pi does not know
\* costs none in the whole matrix.
FailuresHaveACause == \A i \in DOMAIN plan : FilesCause(i) /\ ServiceCause(i)

\* Runs share a process, caches and modules, yet none changes what another one
\* ends with: runs with the same files, scenario id, prompt and model end alike,
\* whichever came first and however their steps interleaved.
SameFate ==
    \A i, j \in DOMAIN plan :
        /\ given[i].fate # None /\ given[j].fate # None
        /\ given[i].profile = given[j].profile
        /\ given[i].scenario = given[j].scenario /\ plan[i].scenario = plan[j].scenario
        /\ plan[i].prompt = plan[j].prompt
        /\ plan[i].provider = plan[j].provider /\ plan[i].modelId = plan[j].modelId
        => given[i].fate = given[j].fate

\* A preview is worth its money: after facet run --single the first run of the
\* matrix has the same prompt, files, extensions, context, tools, model and fate.
\* The exception is a scenario id used twice, where another cell may fill the
\* cache first; and model parameters are not previewed.
PreviewHolds ==
    phase = "finished" /\ preview # None /\ IdsUnique(spec.scenarios)
        => Outcome(1) = preview

\* What facet spec validate has not said is no surprise in a paid session.  One
\* without tools has a profile that lists none for its scenario, and was warned
\* of; after an OK the binaries of its scenario are on PATH, and so are those of
\* its profile.  The validator is blind to a profile whose factor was replaced by
\* a later one; and of two levels with one id it has read the binaries of the
\* second, while the runs have the files of the first.
GatesWarned ==
    \A i \in DOMAIN plan :
        verdict # None /\ given[i].sessions > 0 =>
            /\ given[i].tools = <<>> =>
                  \/ \E w \in warnings :
                        w[1].ref = given[i].profile /\ w[2] = plan[i].scenario
                  \/ Replaced(given[i].profile)
            /\ verdict = "OK" =>
                  /\ ScenarioFiles[given[i].scenario].binaries \subseteq OnPath
                  /\ \/ BinariesFor(given[i].profile, plan[i].scenario) \subseteq OnPath
                     \/ Replaced(given[i].profile)
                     \/ \E k, m \in DOMAIN LastLevels(spec, "extension_select") :
                          LET levels == LastLevels(spec, "extension_select")
                          IN  /\ levels[k].ref = given[i].profile /\ levels[k].id = levels[m].id
                              /\ levels[m].ref # given[i].profile
=============================================================================
