------------------------------ MODULE MCDispatch ------------------------------
(***************************************************************************)
(* Instances of Dispatch: a directory of profiles, scenarios and plugins,  *)
(* and specs over it, one or two for each way in which a spec can be       *)
(* unusual.  The files that are right have one tool for every scenario.    *)
(***************************************************************************)
EXTENDS Dispatch, TLC

Tool(name)       == [name |-> name, scenarios |-> None]
Gated(name, ids) == [name |-> name, scenarios |-> ids]
Files(tools, rules) ==
    [readable |-> TRUE, tools |-> tools, badKeys |-> {}, rules |-> rules,
     extensions |-> <<>>, upfront |-> <<>>, agents |-> None, binaries |-> <<>>]
Rule(kind, fits) == [kind |-> kind, fits |-> fits]
Usable == Files(<<Tool("read")>>, {})
Extension(entry, ids, loads) == [entry |-> entry, scenarios |-> ids, loads |-> loads]
Upfront(header, ids, missing, failsIn) ==
    [header |-> header, scenarios |-> ids, missing |-> missing, failsIn |-> failsIn]
Agents(entries, inherits) == [entries |-> entries, inherits |-> inherits]

MCProfileFiles ==
    ("plain" :> Usable)
 @@ ("counting" :> Files(<<Tool("read"), Gated("graph", {"s1"})>>,
                         {Rule("tool_call_count", TRUE)}))
 @@ ("gated" :> Files(<<Gated("lens", {"s1"})>>, {}))
 @@ ("custom" :> Files(<<Tool("read")>>, {Rule("diff_size", TRUE)}))
 @@ ("noConfig" :> Files(<<Tool("read")>>,
                         {Rule("tool_call_count", TRUE), Rule("tool_call_max_depth", FALSE)}))
 @@ ("noSystem" :> [Usable EXCEPT !.readable = FALSE])
 @@ ("badAgents" :> [Usable EXCEPT !.badKeys = {"pinned_agents"}])
 @@ ("badNote" :> [Usable EXCEPT !.badKeys = {"x_note"}])
 @@ ("docs" :> [Usable EXCEPT !.upfront = <<Upfront("map", {"s1"}, FALSE, {"two"})>>,
                              !.extensions = <<Extension("lsp", {"s1"}, TRUE)>>])
 @@ ("fragile" :> [Usable EXCEPT !.upfront = <<Upfront("map", {"s1", "s2"}, FALSE, {"two"})>>])
 @@ ("noScript" :> [Usable EXCEPT !.upfront = <<Upfront("map", {"s1"}, TRUE, {"one"})>>])
 @@ ("agents" :> [Usable EXCEPT !.agents = Agents("files", TRUE)])
 @@ ("linked" :> [Usable EXCEPT !.agents = Agents("links", FALSE)])
 @@ ("noAgents" :> [Usable EXCEPT !.agents = Agents("none", FALSE)])
 @@ ("noExtension" :> [Usable EXCEPT !.extensions = <<Extension("lsp", {"s2"}, FALSE)>>])
 @@ ("linter" :> [Usable EXCEPT !.binaries = <<[binary |-> "ruff", scenarios |-> {"s1", "s2"}]>>])

MCScenarioFiles ==
    ("one" :> [prompts |-> {"p1", "p2"}, binaries |-> {"node"}])
 @@ ("two" :> [prompts |-> {"p1"}, binaries |-> {"node", "python3"}])

MCPiModels == {<<"openrouter", "m1">>, <<"anthropic", "m2">>}

MCPluginModules ==
    ("kinds" :> << <<"metricKind", "diff_size">>, <<"workspaceStrategy", "docker">> >>)
 @@ ("clash" :> << <<"metricKind", "tool_call_count">> >>)
 @@ ("again" :> << <<"metricKind", "diff_size">> >>)
 @@ ("missing" :> None)

Prompts(ids) ==
    [id |-> "prompt_id", levels |-> [k \in DOMAIN ids |-> [id |-> ids[k]]]]
Level(id, ref) == [id |-> id, ref |-> ref]
ProfileFactor(levels) == [id |-> "profile", levels |-> levels]
Model(id, provider) == [id |-> id, provider |-> provider, model_id |-> id]
Models(levels) == [id |-> "model", levels |-> levels]
OneModel == Models(<<Model("m1", "openrouter")>>)
ParamFactor(param, values) ==
    [id |-> "sweep", type |-> "model_param", param |-> param,
     levels |-> [k \in DOMAIN values |-> [id |-> "l", value |-> values[k]]]]

ASpec(factors, scenarios) ==
    [factors |-> factors, scenarios |-> scenarios, repetitions |-> 1, parallelism |-> 2,
     strategy |-> "git_worktree", plugins |-> <<>>]
One == <<Level("s1", "one")>>
OneTwo == <<Level("s1", "one"), Level("s2", "two")>>
Same(refs) == ProfileFactor([k \in DOMAIN refs |-> Level(refs[k], refs[k])])
Usual(refs) == <<Prompts(<<"p1">>), Same(refs), OneModel>>

\* The order of factors and repetitions; two factors of a kind; parameters.
Shapes ==
    {[ASpec(Usual(<<"plain", "counting">>), One) EXCEPT !.repetitions = 2],
     ASpec(<<OneModel, Same(<<"plain", "counting">>), Prompts(<<"p1", "p2">>)>>, One),
     ASpec(<<Prompts(<<"p1">>), Same(<<"noSystem">>), OneModel, Prompts(<<"p1">>),
             Same(<<"plain", "badNote">>)>>, One),
     ASpec(<<Prompts(<<"p2", "p3">>), Same(<<"plain">>), OneModel,
             Prompts(<<"p1">>)>>, OneTwo),
     ASpec(Usual(<<"plain">>) \o <<ParamFactor("t", <<1, 2>>), ParamFactor("t", <<3, 4>>)>>,
           One),
     ASpec(Usual(<<"counting">>) \o <<ParamFactor("t", <<1, 2>>),
                                      ParamFactor("top_p", <<3>>)>>, One),
     ASpec(<<Prompts(<<"p1">>), Same(<<"plain">>),
             Models(<<Model("m1", "openrouter"), Model("m2", "anthropic")>>)>>, One)}

\* Files that are wrong or odd, ids used twice, plugins, and specs refused.
Oddities ==
    {ASpec(Usual(<<"gated", "noSystem">>), OneTwo),
     ASpec(Usual(<<"badAgents">>), One),
     ASpec(<<Prompts(<<"p2">>), Same(<<"plain">>), OneModel>>, OneTwo),
     ASpec(<<Prompts(<<"p1">>), Same(<<"plain">>),
             Models(<<Model("m1", "acme")>>)>>, One),
     ASpec(<<Prompts(<<"p1">>), OneModel>>, One),
     ASpec(<<Prompts(<<"p1">>), ProfileFactor(<<Level("e", "plain"), Level("e", "noSystem")>>),
             OneModel>>, One),
     ASpec(<<Prompts(<<"p1", "p2">>),
             ProfileFactor(<<Level("e", "gated"), Level("f", "counting")>>), OneModel,
             Prompts(<<"p1">>)>>, <<Level("s1", "one"), Level("s1", "two")>>),
     [ASpec(Usual(<<"plain">>), OneTwo) EXCEPT !.strategy = "docker", !.plugins = <<"kinds">>],
     [ASpec(Usual(<<"plain", "custom">>), One)
         EXCEPT !.plugins = <<"kinds">>, !.repetitions = 2],
     [ASpec(Usual(<<"custom", "plain">>), One) EXCEPT !.plugins = <<"kinds", "again">>],
     [ASpec(Usual(<<"custom", "plain">>), One) EXCEPT !.plugins = <<"clash">>],
     [ASpec(Usual(<<"plain">>), One) EXCEPT !.plugins = <<"missing">>],
     ASpec(Usual(<<"custom", "plain", "counting">>), One),
     ASpec(Usual(<<"noConfig", "counting">>), One)}

\* What stands between an accepted run and its session.
TwoModels == Models(<<Model("m1", "openrouter"), Model("m2", "anthropic")>>)
Preparations ==
    {ASpec(Usual(<<"docs", "fragile">>), OneTwo),
     ASpec(Usual(<<"noScript">>), One),
     ASpec(<<Same(<<"noScript", "noAgents", "linter">>)>> \o Usual(<<"plain">>), One),
     ASpec(<<Prompts(<<"p1">>), Same(<<"agents", "linked">>), TwoModels>>, One),
     ASpec(Usual(<<"noAgents">>), One),
     ASpec(<<Prompts(<<"p1">>), Same(<<"plain">>),
             Models(<<Model("m9", "openrouter"), Model("m1", "openrouter")>>)>>, One),
     ASpec(Usual(<<"noExtension", "linter">>), OneTwo),
     ASpec(<<Prompts(<<"p1">>), ProfileFactor(<<Level("e", "linter"), Level("e", "plain")>>),
             OneModel>>, <<Level("s2", "one")>>),
     ASpec(<<ProfileFactor(<<Level("e", "linter")>>), Prompts(<<"p1">>),
             ProfileFactor(<<Level("f", "linter"), Level("f", "plain")>>), OneModel>>,
           <<Level("s2", "one")>>)}

MCSpecs == Shapes \cup Oddities \cup Preparations
=============================================================================
