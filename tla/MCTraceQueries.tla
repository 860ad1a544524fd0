----------------------------- MODULE MCTraceQueries -----------------------------
EXTENDS TraceQueries

Session(source, agent, run, started, duration, outcome) ==
    [source |-> source, agent |-> agent, run |-> run, started |-> started,
     duration |-> duration, outcome |-> outcome]

Model(session, model, started, index, input, output, cache) ==
    [session |-> session, model |-> model, started |-> started, index |-> index,
     input_tokens |-> input, output_tokens |-> output, cache |-> cache]

Tool(session, tool, started, index, status) ==
    [session |-> session, tool |-> tool, started |-> started, index |-> index, status |-> status]

MCRunSource == <<1, 2, 1>>

\* Two days of two instants: a session at midnight, one without a date
MCSessionRow ==
    <<Session(1, 1, 1, 1, 5, "completed"),
      Session(1, Null, 1, 2, Null, "error"),
      Session(2, 1, 2, Null, 7, Null)>>

\* Calls without tokens, with half of them, without a model or a date
MCModelCallRow ==
    <<Model(1, 1, 1, 0, 3, 2, 1),
      Model(1, Null, Null, 1, Null, 4, Null),
      Model(1, 1, 1, 2, 5, Null, 0),
      Model(2, 2, 2, 0, Null, Null, Null),
      Model(3, 1, Null, 0, 4, 1, Null)>>

MCToolCallRow ==
    <<Tool(1, 1, 1, 0, "ok"),
      Tool(1, 2, 2, 1, "error"),
      Tool(2, 1, 2, 0, "unknown"),
      Tool(1, 1, Null, 2, "unknown"),
      Tool(3, 2, 2, 0, "error")>>

\* The calls of session 1 are spread over three batches, of two runs
MCBatches ==
    {[sessions |-> {1}, model_calls |-> {1}, tool_calls |-> {2}],
     [sessions |-> {}, model_calls |-> {2}, tool_calls |-> {1}],
     [sessions |-> {}, model_calls |-> {3}, tool_calls |-> {4}],
     [sessions |-> {2}, model_calls |-> {4}, tool_calls |-> {3}],
     [sessions |-> {3}, model_calls |-> {5}, tool_calls |-> {5}]}

NoFilter ==
    [source |-> Null, agent |-> Null, model |-> Null, tool |-> Null,
     run |-> Null, from |-> Null, to |-> Null, outcome |-> Null]

Only(column, value) == [NoFilter EXCEPT ![column] = value]

\* Each filter on its own, and some two together
MCFilters ==
    {NoFilter, Only("source", 1), Only("agent", 1), Only("model", 1), Only("tool", 1),
     Only("tool", 2), Only("run", 1), Only("from", 2), Only("to", 1), Only("outcome", "error"),
     [Only("tool", 2) EXCEPT !.model = 1], [Only("model", 1) EXCEPT !.to = 1],
     [Only("source", 2) EXCEPT !.tool = 2], [Only("from", 2) EXCEPT !.to = 2]}
================================================================================
