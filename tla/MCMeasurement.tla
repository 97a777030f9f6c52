---------------------------- MODULE MCMeasurement ----------------------------
\* Constants of the runs of Measurement.
EXTENDS Measurement

Of(type) == [Blank EXCEPT !.type = type]
Call(tool, path) == [Of("tool_execution_start") EXCEPT !.tool = tool, !.path = path]

MCTools == {"read", "write", "edit", "bash", "query"}

\* An agent that reads, edits, runs commands, asks and is billed; one of its
\* calls cannot be rendered as JSON.
MCPiEvents ==
    { Of("agent_start"), Of("turn_start"), Of("text_delta"), Of("other"),
      [Of("turn_end") EXCEPT !.input = 2, !.output = 1],
      Call("read", "a"), Call("write", "a"), Call("edit", None), Call("bash", None),
      [Call("query", None) EXCEPT !.plain = FALSE],
      [Of("tool_execution_end") EXCEPT !.tool = "bash", !.marked = TRUE] }

Rule(id, kind, tools) == [id |-> id, kind |-> kind, tools |-> tools]

MCProfiles ==
    { \* one rule of each kind, and one that takes the name of a column
      <<Rule("warnings", "tool_result_marker_count", {"bash"}),
        Rule("depth", "tool_call_max_depth", {"bash", "read"}),
        Rule("tokens_in", "tool_call_count", {"read"})>>,
      \* two rules of one id, and one that takes the name of a metric
      <<Rule("calls", "tool_call_count", {"bash", "read"}),
        Rule("calls", "tool_call_count", {"read"}),
        Rule("tokens_in_total", "tool_call_count", {"write"})>>,
      \* a kind that nobody registered, and a metric that is not a number
      <<Rule("x", "turn_latency", {"bash"})>>,
      <<Rule("tool_calls_per_type", "tool_call_count", {"bash"})>> }
=============================================================================
