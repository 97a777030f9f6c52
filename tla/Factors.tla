------------------------------- MODULE Factors -------------------------------
(***************************************************************************)
(* From the varying factors of a spec to the cells of its matrix: the      *)
(* axes of runner/factors, the loops of expandMatrix, and the second way   *)
(* to the same cells, expandMatrixWithRegistry, which dispatches on the    *)
(* registered factor kinds.                                                *)
(*                                                                         *)
(* A spec is a record with its factors, its scenarios and the number of    *)
(* repetitions; a factor has a type and levels, and a model_param factor   *)
(* the name of its param.  A run id is the number of its entry.            *)
(***************************************************************************)
EXTENDS Naturals, Sequences, FiniteSets, SequencesExt

Required == {"prompt_swap", "extension_select", "model_swap"}

\* LEGACY_ID_TO_TYPE: a factor without a type has that of its id.
LegacyType ==
    [prompt_id |-> "prompt_swap", profile |-> "extension_select", model |-> "model_swap"]
HasType(factor) ==
    "type" \in DOMAIN factor \/ factor.id \in DOMAIN LegacyType
TypeOf(factor) ==
    IF "type" \in DOMAIN factor THEN factor.type ELSE LegacyType[factor.id]

IsA(factor, type) == HasType(factor) /\ TypeOf(factor) = type
OfKind(factors, type) == {k \in DOMAIN factors : IsA(factors[k], type)}

\* collectFactorAxes: the levels of all factors of one kind, in their order.
Axis(factors, type) ==
    LET Push(axis, factor) ==
            IF IsA(factor, type) THEN axis \o factor.levels ELSE axis
    IN  FoldLeft(Push, <<>>, factors)

\* One more loop inside the others: every value of the axis with every partial
\* combination, the new loop fastest.
Nest(Combine(_, _), partials, axis) ==
    [n \in 1..(Len(partials) * Len(axis)) |->
        Combine(partials[((n - 1) \div Len(axis)) + 1], axis[((n - 1) % Len(axis)) + 1])]
Extend(partials, axis) == Nest(Append, partials, axis)

\* Nested loops over a sequence of axes.
Product(axes) == FoldLeft(Extend, << <<>> >>, axes)

NoParams == [p \in {} |-> 0]

\* An object literal that spreads a partial record and sets one more key.
Bind(params, p, v) ==
    [q \in DOMAIN params \cup {p} |-> IF q = p THEN v ELSE params[q]]
\* Mutated form: a param that is bound already keeps its value.
WithNewParam(combos, factor) ==
    LET BindNew(params, level) ==
            IF factor.param \in DOMAIN params THEN params
            ELSE Bind(params, factor.param, level.value)
    IN  Nest(BindNew, combos, factor.levels)

\* buildModelParamCombinations: one loop for every model_param factor.
WithParam(combos, factor) ==
    LET BindLevel(params, level) == Bind(params, factor.param, level.value)
    IN  Nest(BindLevel, combos, factor.levels)
ParamCombinations(factors) ==
    LET Sweep(combos, factor) ==
            IF IsA(factor, "model_param") THEN WithParam(combos, factor) ELSE combos
    IN  FoldLeft(Sweep, <<NoParams>>, factors)

\* Repetitions are numbered from 1.
RepetitionAxis(n) == [k \in 1..n |-> k]

\* Mutated form: the loop over repetitions runs once too often.
LoopsRunOver(s) ==
    << s.scenarios, Axis(s.factors, "prompt_swap"), Axis(s.factors, "extension_select"),
       Axis(s.factors, "model_swap"), ParamCombinations(s.factors),
       RepetitionAxis(s.repetitions + 1) >>

LoopOrder(s) ==
    << s.scenarios, Axis(s.factors, "prompt_swap"), Axis(s.factors, "extension_select"),
       Axis(s.factors, "model_swap"), ParamCombinations(s.factors),
       RepetitionAxis(s.repetitions) >>

\* expandMatrix throws unless there is a factor of each required kind and a
\* scenario.
Expandable(s) ==
    /\ \A type \in Required : OfKind(s.factors, type) # {}
    /\ s.scenarios # <<>>

EntryOf(n, c) ==
    [runId |-> n, scenario |-> c[1].id, scenarioRef |-> c[1].ref, prompt |-> c[2].id,
     profile |-> c[3].id, profileRef |-> c[3].ref, model |-> c[4].id,
     provider |-> c[4].provider, modelId |-> c[4].model_id,
     params |-> c[5], repetition |-> c[6]]

\* The six loops of expandMatrix.
Cells(s) ==
    LET a == LoopOrder(s)
    IN  Extend(Extend(Extend(Extend(Extend(Extend(<< <<>> >>, a[1]), a[2]), a[3]), a[4]),
               a[5]), a[6])

expandMatrix(s) ==
    LET cells == Cells(s)
    IN  [n \in 1..Len(cells) |-> EntryOf(n, cells[n])]

-----------------------------------------------------------------------------
(* expandMatrixWithRegistry, with the four built-in factor kinds.           *)

EmptyDraft == [promptId |-> "", profileId |-> "", profileRef |-> "",
               modelLevelId |-> "", provider |-> "", modelInternalId |-> "",
               harnessParams |-> NoParams]

\* Every value of an axis carries the factor it comes from.
AxisValues(factor) ==
    [k \in 1..Len(factor.levels) |-> [factor |-> factor, level |-> factor.levels[k]]]

\* FactorKindHandler.apply of the four kinds: each overwrites its fields.
Apply(draft, value) ==
    LET l == value.level
        type == TypeOf(value.factor)
    IN  CASE type = "prompt_swap"      -> [draft EXCEPT !.promptId = l.id]
          [] type = "extension_select" -> [draft EXCEPT !.profileId = l.id,
                                                        !.profileRef = l.ref]
          [] type = "model_swap"       -> [draft EXCEPT !.modelLevelId = l.id,
                                                        !.provider = l.provider,
                                                        !.modelInternalId = l.model_id]
          [] type = "model_param"      -> [draft EXCEPT !.harnessParams =
                                              Bind(@, value.factor.param, l.value)]

expandMatrixWithRegistry(factors) ==
    LET combos == Product([k \in 1..Len(factors) |-> AxisValues(factors[k])])
    IN  [n \in 1..Len(combos) |-> FoldLeft(Apply, EmptyDraft, combos[n])]

\* What the two expansions have in common.
DraftOf(e) ==
    [promptId |-> e.prompt, profileId |-> e.profile, profileRef |-> e.profileRef,
     modelLevelId |-> e.model, provider |-> e.provider, modelInternalId |-> e.modelId,
     harnessParams |-> e.params]

\* Mutated form: the first levels of the last factors, which are those the
\* validator has checked.
FirstChecked(s) ==
    LET first(type) == s.factors[Max(OfKind(s.factors, type))].levels[1]
    IN  EntryOf(1, << s.scenarios[1], first("prompt_swap"), first("extension_select"),
                      first("model_swap"), NoParams, 1 >>)

\* resolveFirstRun: the first cell, of which runFirstRunOnly makes a run; the
\* model parameters are not among the fields it takes.
resolveFirstRun(s) == [expandMatrix(s)[1] EXCEPT !.params = NoParams]

-----------------------------------------------------------------------------
(* What the expansion promises.                                             *)

Count(x, seq) == Cardinality({n \in DOMAIN seq : seq[n] = x})

\* Full factorial: every combination of levels is a cell once for every
\* position its levels have on their axes, and the repetitions of one cell are
\* numbered 1 to n in consecutive runs.
IsFullFactorial(s, cells) ==
    LET axes == << s.scenarios, Axis(s.factors, "prompt_swap"),
                   Axis(s.factors, "extension_select"), Axis(s.factors, "model_swap"),
                   ParamCombinations(s.factors) >>
        size == Len(axes[1]) * Len(axes[2]) * Len(axes[3]) * Len(axes[4]) * Len(axes[5])
    IN  /\ Len(cells) = size * s.repetitions
        /\ \A n \in DOMAIN cells :
             /\ cells[n].runId = n
             /\ cells[n].repetition = ((n - 1) % s.repetitions) + 1
             /\ n % s.repetitions # 0 =>
                  cells[n + 1] = [cells[n] EXCEPT !.runId = n + 1,
                                                  !.repetition = @ + 1]
        /\ \A a \in DOMAIN axes[1], b \in DOMAIN axes[2], c \in DOMAIN axes[3],
              d \in DOMAIN axes[4], e \in DOMAIN axes[5], r \in 1..s.repetitions :
             \E n \in DOMAIN cells :
                cells[n] = EntryOf(n, <<axes[1][a], axes[2][b], axes[3][c], axes[4][d],
                                        axes[5][e], r>>)

\* The static columns of a row of the results table that name its cell.
RowOf(e) == <<e.prompt, e.profile, e.model, e.scenario, e.repetition>>

\* Two positions of an axis that carry one id.
IdsUnique(axis) ==
    \A k, m \in DOMAIN axis : axis[k].id = axis[m].id => k = m
=============================================================================
