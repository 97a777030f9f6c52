------------------------------- MODULE Metrics -------------------------------
(***************************************************************************)
(* What becomes of an event of the agent: translate.ts turns it into an    *)
(* event of FACET, the tracer into a line of trace.jsonl, layer2.ts into   *)
(* the framework's metrics and metric-evaluator.ts, with the kinds that    *)
(* harness-pi registers, into the metrics a profile declares; flattened    *)
(* into metrics.json they become cells of the aggregated tables.           *)
(*                                                                         *)
(* An event is a record of what any reader looks at; None stands for what  *)
(* it does not carry.  `marked` tells whether the text of a tool's result  *)
(* holds a marker of the rules, `plain` whether JSON can render it.        *)
(***************************************************************************)
EXTENDS SequencesExt

CONSTANTS Tools, Paths, None

ASSUME MetricsAssumption ==
    /\ {"read", "write", "edit", "bash"} \subseteq Tools
    /\ None \notin Tools \cup Paths \cup Nat
    /\ IsFiniteSet(Paths)   \* those that the calls of a session name

Blank == [type |-> "other", tool |-> None, path |-> None, input |-> None,
          output |-> None, marked |-> FALSE, plain |-> TRUE]

Meta == [Blank EXCEPT !.type = "_meta"]

TraceEventTypes == {"agent_start", "turn_start", "turn_end", "tool_execution_start",
                    "tool_execution_end", "message_text_delta"}

IsTraceEvent(line) == line.type \in TraceEventTypes

\* An update of a message is kept if it is a delta of its text ("text_delta");
\* events without an equivalent ("other") are dropped.
Translate(event) ==
    IF event.type = "other" THEN None
    ELSE IF event.type = "text_delta" THEN [event EXCEPT !.type = "message_text_delta"]
    ELSE event

\* What JSON cannot render leaves a line that no reader counts.
Line(event) == IF event.plain THEN event ELSE [Blank EXCEPT !.type = "__tracer_error__"]

-----------------------------------------------------------------------------
NewCounters ==
    [ toolCallsTotal   |-> 0,
      toolCallsPerType |-> [t \in Tools |-> 0],
      filesReadUnique  |-> {},
      firstWriteSeen   |-> FALSE,
      turnsToFirstEdit |-> None,
      writeEditCount   |-> [p \in Paths |-> 0],
      bashCommands     |-> 0,
      tokensInTotal    |-> 0,
      tokensOutTotal   |-> 0,
      tokensInUpfront  |-> None,
      perTurnInput     |-> <<>>,
      currentTurn      |-> 0 ]

Edits(line) == line.tool \in {"write", "edit"}

\* Mutated form: files read after the first edit count too.
ExploresAtAnyTime(c, line) == line.tool = "read" /\ line.path # None

\* A file that is read before the first edit.
Explores(c, line) == line.tool = "read" /\ ~c.firstWriteSeen /\ line.path # None

Bump(tally, key) == [tally EXCEPT ![key] = @ + 1]

HandleToolStart(c, line) ==
    IF line.tool = None THEN c
    ELSE [c EXCEPT
        !.toolCallsTotal = @ + 1,
        !.toolCallsPerType = Bump(@, line.tool),
        !.bashCommands = IF line.tool = "bash" THEN @ + 1 ELSE @,
        !.filesReadUnique = IF Explores(c, line) THEN @ \cup {line.path} ELSE @,
        !.firstWriteSeen = @ \/ Edits(line),
        !.turnsToFirstEdit =
            IF Edits(line) /\ ~c.firstWriteSeen THEN Max({c.currentTurn, 1}) ELSE @,
        !.writeEditCount =
            IF Edits(line) /\ line.path # None THEN Bump(@, line.path) ELSE @]

HandleTurnEnd(c, line) ==
    [c EXCEPT
        !.perTurnInput = IF line.input = None THEN @ ELSE Append(@, line.input),
        !.tokensInTotal = IF line.input = None THEN @ ELSE @ + line.input,
        !.tokensInUpfront = IF @ = None THEN line.input ELSE @,
        !.tokensOutTotal = IF line.output = None THEN @ ELSE @ + line.output]

\* One line of the trace, as deriveLayer2Metrics reads it.
Count(c, line) ==
    CASE line.type = "turn_start" -> [c EXCEPT !.currentTurn = @ + 1]
      [] line.type = "tool_execution_start" -> HandleToolStart(c, line)
      [] line.type = "turn_end" -> HandleTurnEnd(c, line)
      [] OTHER -> c

\* The framework's metrics, under their names in metrics.json.  Shares of the
\* context window are kept as tokens of a window that is known: the largest
\* turn, and the sum over the turns with their number.
BuildResult(c, window, requests) ==
    LET known == window > 0 /\ c.perTurnInput # <<>> IN
    [ tool_calls_total             |-> c.toolCallsTotal,
      tool_calls_per_type          |->
          [t \in {x \in Tools : c.toolCallsPerType[x] > 0} |-> c.toolCallsPerType[t]],
      files_read_unique            |-> Cardinality(c.filesReadUnique),
      turns_to_first_edit          |-> c.turnsToFirstEdit,
      repeated_file_edits          |->
          MapThenSumSet(LAMBDA p : Max({c.writeEditCount[p], 1}) - 1, Paths),
      clarification_requests_count |-> requests,
      bash_commands_count          |-> c.bashCommands,
      tokens_in_total              |-> c.tokensInTotal,
      tokens_out_total             |-> c.tokensOutTotal,
      tokens_in_upfront            |-> IF c.tokensInUpfront = None THEN 0 ELSE c.tokensInUpfront,
      context_window_size          |-> window,
      context_utilization_max_pct  |-> IF known THEN Max(ToSet(c.perTurnInput)) ELSE 0,
      context_utilization_avg_pct  |->
          IF known THEN <<c.tokensInTotal, Len(c.perTurnInput)>> ELSE <<0, 1>> ]

-----------------------------------------------------------------------------
(* The rules of a profile: sequences of records [id, kind, tools].         *)

MetricKinds == {"tool_call_count", "tool_call_max_depth", "tool_result_marker_count"}

\* Every kind has a handler, and every configuration agrees with its schema.
Resolves(rules) == \A i \in DOMAIN rules : rules[i].kind \in MetricKinds /\ rules[i].tools # {}

Consumes(kind) ==
    IF kind = "tool_result_marker_count" THEN "tool_execution_end" ELSE "tool_execution_start"

Matches(rule, event) ==
    /\ event.type = Consumes(rule.kind) /\ event.tool \in rule.tools
    /\ rule.kind = "tool_result_marker_count" => event.marked

Evaluate(rule, event, state) ==
    IF ~Matches(rule, event) THEN state
    ELSE IF rule.kind = "tool_call_max_depth" THEN Max({state, 1})
    ELSE state + 1

\* Mutated form: an event type keeps only the last of its subscribers.
DispatchLast(rules, states, event) ==
    LET subs == SelectSeq(rules, LAMBDA rule : Consumes(rule.kind) = event.type)
        rule == subs[Len(subs)]
    IN  IF subs = <<>> THEN states
        ELSE [states EXCEPT ![rule.id] = Evaluate(rule, event, @)]

\* The subscribers of an event, in the order of the rules.  The states are
\* kept by id: rules that share an id share one, though every rule is said to
\* have a private one (metric-evaluator.ts:5).
Dispatch(rules, states, event) ==
    FoldLeft(LAMBDA s, rule : [s EXCEPT ![rule.id] = Evaluate(rule, event, @)], states, rules)

RuleIds(rules) == {rules[i].id : i \in DOMAIN rules}

RunMetricKinds(rules, events) ==
    FoldLeft(LAMBDA s, event : Dispatch(rules, s, event), [id \in RuleIds(rules) |-> 0], events)

\* {...base, ...top}
Spread(base, top) ==
    [key \in DOMAIN base \cup DOMAIN top |-> IF key \in DOMAIN top THEN top[key] ELSE base[key]]

\* In metrics.json a metric of the profile takes the place of one of the
\* framework that has its name.
FlattenLayer2(framework, profile) == Spread(framework, profile)

-----------------------------------------------------------------------------
(* One row of the aggregated tables.                                       *)

FrameworkKeys == DOMAIN BuildResult(NewCounters, 0, 0)

MetricColumns == FrameworkKeys \ {"tool_calls_per_type", "tokens_in_total", "tokens_out_total"}

StaticColumns ==
    MetricColumns \cup
    {"run_id", "prompt_id", "profile", "model", "scenario", "repetition", "tests_passed",
     "exit_code", "duration_ms", "tokens_in", "tokens_out", "tasks_passed",
     "regression_tests_passed", "regression_tests_total"}

\* The schema of the aggregator wants a record for the calls by type; a number
\* there, which only a rule of that name can bring, makes it throw.
Parses(rules) == "tool_calls_per_type" \notin RuleIds(rules)

\* Mutated form: every number of metrics.json becomes a column.
RowWithFrameworkKeys(values, bundle) ==
    LET fixed == [c \in StaticColumns |-> IF c \in MetricColumns THEN values[c] ELSE bundle[c]]
    IN  Spread(fixed, [key \in DOMAIN values \ {"tool_calls_per_type"} |-> values[key]])

\* `bundle` gives what config.yaml, summary.json and tests.json hold for the
\* columns that are not metrics.  What metrics.json has beyond the framework's
\* keys becomes a column, or takes the place of one.
Row(values, bundle) ==
    LET fixed == [c \in StaticColumns |-> IF c \in MetricColumns THEN values[c] ELSE bundle[c]]
    IN  Spread(fixed, [key \in DOMAIN values \ FrameworkKeys |-> values[key]])
=============================================================================
