----------------------------- MODULE Measurement -----------------------------
(***************************************************************************)
(* From a session to its metrics: every event the agent emits in a session *)
(* (PiSession) is translated and written to the trace; when the session is *)
(* over runSingleRun has deriveLayer2Metrics read the trace line by line   *)
(* and writes metrics.json, from which the row of the run is made.         *)
(*                                                                         *)
(* The trace is a fresh file: bundles are never reused.  record() is       *)
(* synchronous, so a line is written by the step that hears its event.     *)
(***************************************************************************)
EXTENDS PiSession, Metrics

CONSTANTS
    PiEvents,   \* events the agent may emit
    Profiles,   \* rules profiles may declare
    Windows,    \* context windows of models; 0 if Pi does not know it
    MaxEvents   \* bound on the events of a session

ASSUME MeasurementAssumption == Windows \subseteq Nat /\ MaxEvents \in Nat

\* What an event carries is picked by the translation, field by field and by its
\* type; only the arguments of a call are passed on whole, whatever they are.
ASSUME EventsAssumption ==
    \A e \in PiEvents :
        /\ e \in [type : (TraceEventTypes \ {"message_text_delta"}) \cup {"text_delta", "other"},
                 tool : Tools \cup {None}, path : Paths \cup {None}, input : Nat \cup {None},
                 output : Nat \cup {None}, marked : BOOLEAN, plain : BOOLEAN]
        /\ ~e.plain => e.type = "tool_execution_start"
        /\ Translate(e) = None => e.type = "other"

\* The rules of a profile are a list.
ASSUME RulesAssumption ==
    \A rules \in Profiles : Len(rules) \in Nat /\ DOMAIN rules = 1..Len(rules)

VARIABLES
    trace,      \* the lines of trace.jsonl
    read,       \* lines that deriveLayer2Metrics has read
    events,     \* those of them that it keeps for the rules of the profile
    counters,   \* its running counters
    metrics     \* metrics.json with the rules and the window it was made for, or None

measures == <<trace, read, events, counters, metrics>>
vars == <<sessionVars, measures>>

Init ==
    /\ SessionInit
    /\ trace = <<Meta>>
    /\ read = 0 /\ events = <<>>
    /\ counters = NewCounters
    /\ metrics = None

\* What the clarification loop makes of an event.
Notice(event) ==
    CASE event.type = "agent_start" -> "start"
      [] event.type = "tool_execution_start" -> "tool"
      [] event.type = "text_delta" -> "text"
      [] OTHER -> "other"

\* The loop's listener hears an event and passes it on to the tracer.
Emit(event) ==
    /\ Len(trace) <= MaxEvents
    /\ Hear(Notice(event))
    /\ trace' = IF Translate(event) = None THEN trace ELSE Append(trace, Line(Translate(event)))
    /\ UNCHANGED <<read, events, counters, metrics>>

\* The session has resolved.  A run that fails on its token cap or in its
\* oracle stops here, and so does one whose session was rejected.
Measuring == stage = "over" /\ result.kind = "session" /\ metrics = None

ReadLine ==
    /\ Measuring /\ read < Len(trace)
    /\ read' = read + 1
    /\ events' = IF IsTraceEvent(trace[read + 1]) THEN Append(events, trace[read + 1]) ELSE events
    /\ counters' = Count(counters, trace[read + 1])
    /\ UNCHANGED <<sessionVars, trace, metrics>>

\* The rules of the profile are resolved before the first event is dispatched;
\* if one does not resolve the derivation throws, and there is no metrics.json.
MetricsOf(rules, window) ==
    IF Resolves(rules)
    THEN FlattenLayer2(BuildResult(counters, window, result.requests),
                       RunMetricKinds(rules, events))
    ELSE None

\* The profile and the model are those of the run; they matter only now.
Derive ==
    /\ Measuring /\ read = Len(trace)
    /\ \E rules \in Profiles, window \in Windows :
           metrics' = [rules |-> rules, window |-> window, values |-> MetricsOf(rules, window)]
    /\ UNCHANGED <<sessionVars, trace, read, events, counters>>

Next ==
    \/ SessionStep /\ UNCHANGED measures
    \/ \E event \in PiEvents : Emit(event)
    \/ ReadLine
    \/ Derive

\* Timers fire; abort and the shutdown handlers settle.  A prompt need not,
\* and the agent need not say anything.
Fairness ==
    /\ WF_vars(TimerFires /\ UNCHANGED measures)
    /\ WF_vars(AbortSettles /\ UNCHANGED measures)
    /\ WF_vars(ShutDown /\ UNCHANGED measures)

Spec == Init /\ [][Next]_vars /\ Fairness

-----------------------------------------------------------------------------
\* Type invariant of a session and its metrics.
TypeOK ==
    /\ SessionTypeOK
    /\ trace \in Seq({Meta, [Blank EXCEPT !.type = "__tracer_error__"]} \cup
                     {Translate(e) : e \in PiEvents})
    /\ Len(trace) \in 1..(MaxEvents + 1)
    /\ read \in 0..Len(trace) /\ Len(events) <= read
    /\ counters.perTurnInput \in Seq(Nat)
    /\ counters.filesReadUnique \subseteq Paths
    /\ counters.turnsToFirstEdit \in (1..Max({1, counters.currentTurn})) \cup {None}
    /\ metrics = None \/ (metrics.rules \in Profiles /\ metrics.window \in Windows)

\* The trace explains what clarification_requests_count says: whenever the
\* loop prompts again, the agent has said something and called no tool since
\* it last started ("between two agent_start events", harness-pi/index.ts:135).
RequestsAreExplained ==
    [][ requests' > requests =>
          \E s \in 1..Len(trace) :
            /\ trace[s].type \in {"_meta", "agent_start"}
            /\ \A i \in (s + 1)..Len(trace) :
                   trace[i].type \notin {"agent_start", "tool_execution_start"}
            /\ \E i \in (s + 1)..Len(trace) : trace[i].type = "message_text_delta" ]_vars

\* After every line, the counters of the one pass are what the lines read so
\* far say when they are looked at as a whole.
CountersAgree ==
    LET Lines(type) == {i \in 1..read : trace[i].type = type}
        calls == {i \in Lines("tool_execution_start") : trace[i].tool # None}
        edits == {i \in calls : Edits(trace[i])}
        early == {i \in 1..read : \A e \in edits : i < e}
        inputs == {i \in Lines("turn_end") : trace[i].input # None}
        m == BuildResult(counters, 1, 0)
    IN  /\ m.tool_calls_total = Cardinality(calls)
        /\ m.tool_calls_per_type =
               [t \in {trace[i].tool : i \in calls} |-> Cardinality({i \in calls : trace[i].tool = t})]
        /\ m.bash_commands_count = Cardinality({i \in calls : trace[i].tool = "bash"})
        /\ m.files_read_unique = Cardinality(
               {trace[i].path : i \in {j \in calls \cap early : trace[j].tool = "read"}} \ {None})
        /\ m.turns_to_first_edit =
               IF edits = {} THEN None
               ELSE Max({1, Cardinality(early \cap Lines("turn_start"))})
        /\ m.repeated_file_edits = Cardinality(
               {i \in edits : trace[i].path # None /\
                   \E j \in edits : j < i /\ trace[j].path = trace[i].path})
        /\ m.tokens_in_total = MapThenSumSet(LAMBDA i : trace[i].input, inputs)
        /\ m.tokens_in_upfront = IF inputs = {} THEN 0 ELSE trace[Min(inputs)].input
        /\ m.context_utilization_avg_pct[1] <=
               m.context_utilization_avg_pct[2] * m.context_utilization_max_pct

\* A metric of the profile is what its rule counts in the trace, or 1 or 0 if
\* the rule asks for a depth, whatever other rules there are and whichever of
\* them look at the same events: the states of different ids are private.  (Rules
\* that share an id share a state, and the property says nothing of them.)
RulesAgree ==
    metrics # None /\ metrics.values # None =>
        LET rules == metrics.rules
            Hits(k) == {i \in DOMAIN trace : IsTraceEvent(trace[i]) /\ Matches(rules[k], trace[i])}
            Alone(k) == \A l \in DOMAIN rules \ {k} : rules[l].id # rules[k].id
        IN  \A k \in DOMAIN rules : Alone(k) =>
                metrics.values[rules[k].id] =
                    IF rules[k].kind # "tool_call_max_depth" THEN Cardinality(Hits(k))
                    ELSE IF Hits(k) # {} THEN 1 ELSE 0

\* The row of a run shows what was measured: only a rule takes the place of a
\* column or of a metric of the framework, and only the one of its name; the
\* other rules, and nothing else, become columns of their own.
CellsAreMeasured ==
    metrics # None /\ metrics.values # None /\ Parses(metrics.rules) =>
        LET ids == RuleIds(metrics.rules)
            bundle == [c \in StaticColumns |-> <<"bundle", c>>]
            framework == BuildResult(counters, metrics.window, prompts - 1)
            row == Row(metrics.values, bundle)
        IN  /\ DOMAIN row = StaticColumns \cup (ids \ FrameworkKeys)
            /\ \A c \in MetricColumns \ ids : row[c] = framework[c]
            /\ \A c \in StaticColumns \ (MetricColumns \cup ids) : row[c] = bundle[c]
            /\ \A c \in ids \cap DOMAIN row : row[c] = metrics.values[c]
=============================================================================
