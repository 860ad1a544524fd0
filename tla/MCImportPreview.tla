---------------------------- MODULE MCImportPreview ----------------------------
(* Files and mappings for ImportPreview: names are short, so that every       *)
(* character of a path can be told apart.                                     *)
EXTENDS ImportPreview

TheSecret == <<"sk-", "k1", "k2">>

Object(members) == <<"object", members>>
List(items) == <<"list", items>>
T(words) == <<"text", words>>
Word(w) == T(<<w>>)
Num(n) == <<"int", n>>

\* An object with one-letter names
O1(a, v) == Object(<<a>> :> v)
O2(a, v, b, w) == Object(<<a>> :> v @@ <<b>> :> w)
O3(a, v, b, w, c, x) == Object(<<a>> :> v @@ <<b>> :> w @@ <<c>> :> x)

\* Sessions with calls: some without a name, some out of range, one session refused
Traces == <<
    O3("i", Word("x"), "o", T(<<"OK", " ">>),
       "c", List(<<O2("n", Word("read"), "d", <<"float", 1500>>), O2("n", Word(" "), "d", Null),
                   O3("n", Word("write"), "d", Word("7"), "q", Num(0))>>)),
    O2("i", Num(12), "c", Null),
    O2("i", Null, "c", List(<<O1("n", Word("read"))>>)),
    O2("i", Word("x"), "c", List(<<>>))>>

\* A list that is none, elements that are no objects, values of other types
Mixed == <<
    O2("i", <<"float", 1500>>, "c", O1("n", Word("read"))),
    O2("i", <<"bool", TRUE>>, "c", List(<<Null, Word("read")>>)),
    O3("i", Word("x"), "o", Word("odd"),
       "c", List(<<O2("n", <<"bool", TRUE>>, "d", Num(2)), O2("n", Num(7), "d", <<"infinity">>),
                   O2("n", Word("read"), "d", <<"float", 2500>>)>>))>>

\* Names that are not identifiers, a name that reads like a path, nested lists
OddNames == <<
    Object(<<"a", ".", "b">> :> Num(1) @@ <<"a">> :> O1("b", Num(2))
           @@ <<"a", Quote>> :> Num(7) @@ <<"a", Backslash>> :> O1("b", Word("x"))
           @@ <<"0", "a">> :> Num(1) @@ <<"a", "0">> :> Num(2) @@ <<>> :> Word("x")),
    Object(<<"l">> :> List(<<List(<<Num(1), Num(2)>>), List(<<>>)>>)
           @@ <<"]">> :> List(<<Object(<<"[", "]">> :> Word("x")), Null>>)
           @@ <<"a">> :> O1("b", Null))>>

\* Secrets in values and in names, and names that read like a redacted one
Secrets == <<
    Object(TheSecret :> T(<<"w", "sk-", "k1", "k2", "w">>)
           @@ <<"[REDACTED]">> :> T(<<"w", "w", "w", "sk-", "k1", "k2">>)
           @@ <<"[REDACTED]", "#", "|", "|">> :> List(<<Word("w"), T(TheSecret), T(TheSecret)>>)
           @@ <<"a">> :> O1("b", O1("a", O1("b", T(TheSecret)))))>>

\* Rows read before and after one that is refused, more than are shown
Long == <<
    O2("i", Word("x"), "c", List(<<O2("n", Null, "d", Num(1)), O2("n", Word("read"), "d", Num(2)),
                                   O2("n", Word("write"), "d", Num(7))>>)),
    O3("i", Word("y"), "o", Word("1970-01-01T00:00:01Z"), "c", List(<<O1("n", Word("X"))>>)),
    O3("i", Word(" "), "o", Word("12"), "c", Num(1))>>

MCFiles == {Traces, Mixed, OddNames, Secrets, Long, <<>>}

MCValues ==
    {Null} \cup {node.value : node \in UNION {Nodes(record) : record \in UNION {Range(f) : f \in MCFiles}}}

--------------------------------------------------------------------------------

Path(name) == <<"$", ".", name>>
InCalls(name) == <<"$", ".", "c", "[", "]", ".", name>>

Rule(target, path, required, operators) ==
    [target |-> target, source |-> path, required |-> required, operators |-> operators]
Entity(target, natural_key, iterate, fields) ==
    [target |-> target, natural_key |-> natural_key, iterate |-> iterate, fields |-> fields]

Id(required, operators) == Rule("external_id", Path("i"), required, operators)

CastTo(to) == [op |-> "cast", to |-> to]
CastOrNull(to) == [op |-> "cast", to |-> to, on_error |-> "null"]
Convert(from, to) == [op |-> "unit_convert", from |-> from, to |-> to]
Outcomes(mode) == [op |-> "map_values", table |-> (<<"ok">> :> Word("completed")), on_unknown |-> mode]

SessionOf(fields) == Entity("session", {"external_id"}, <<>>, fields)
Plain == SessionOf(<<Id(TRUE, <<>>)>>)
Tools(iterate, fields) == Entity("tool_call", {"sequence_index"}, iterate, fields)
Named == Rule("tool_name", Path("n"), FALSE, <<>>)
With(operators) == <<SessionOf(<<Id(TRUE, operators)>>)>>

Accepted == {
    <<SessionOf(<<Id(TRUE, <<>>),
                  Rule("outcome", Path("o"), FALSE,
                       <<[op |-> "trim"], [op |-> "lower"], Outcomes("null")>>)>>),
      Tools(Path("c"), <<Named, Rule("duration_ms", Path("d"), FALSE, <<Convert("s", "ms")>>)>>)>>,
    <<SessionOf(<<Id(TRUE, <<CastTo("string"), [op |-> "upper"]>>),
                  Rule("outcome", Path("o"), FALSE, <<Outcomes("reject")>>)>>),
      Tools(Append(Path("c"), "[") \o <<"]">>,
            <<Rule("tool_name", InCalls("n"), TRUE, <<>>),
              Rule("duration_ms", InCalls("d"), FALSE, <<CastOrNull("integer")>>)>>)>>,
    <<SessionOf(<<Id(FALSE, <<>>), Rule("agent_name", Path("o"), FALSE, <<>>)>>),
      Tools(Path("c"), <<Named, Rule("sequence_index", Path("q"), FALSE, <<CastTo("integer")>>),
                         Rule("started_at", Path("d"), FALSE,
                              <<[op |-> "parse_datetime", format |-> "unix_millis"]>>),
                         Rule("duration_ms", Path("d"), FALSE, <<>>)>>)>>,
    <<Entity("session", {"external_id"}, Path("c"), <<Rule("external_id", InCalls("n"), FALSE, <<>>)>>),
      Entity("model_call", {"sequence_index"}, Path("c"),
             <<Rule("model_name", Path("n"), FALSE, <<>>),
               Rule("provider_name", Path("n"), FALSE,
                    <<[op |-> "coalesce", sources |-> <<Path("q"), Path("n")>>], CastTo("string")>>),
               Rule("input_tokens", Path("d"), FALSE, <<Convert("kb", "b")>>)>>)>>,
    <<SessionOf(<<Id(TRUE, <<[op |-> "hash", algorithm |-> "sha256",
                              sources |-> <<Path("i"), Path("o")>>]>>),
                  Rule("started_at", Path("o"), FALSE, <<[op |-> "parse_datetime", format |-> "iso8601"]>>),
                  Rule("ended_at", Path("o"), FALSE, <<[op |-> "parse_datetime", format |-> "unix_seconds"]>>),
                  Rule("outcome", Path("i"), FALSE,
                       <<CastOrNull("boolean"), [op |-> "default", value |-> Word("unknown")]>>)>>),
      Entity("model_call", {"sequence_index"}, <<>>,
             <<Rule("sequence_index", Path("i"), TRUE, <<CastTo("float"), Convert("ms", "s")>>),
               Rule("status", Path("o"), FALSE,
                    <<[op |-> "map_values", table |-> <<>>, on_unknown |-> "constant",
                       constant |-> Word("ok")]>>),
               Rule("stop_reason", Path("i"), FALSE,
                    <<[op |-> "concat", sources |-> <<Path("i"), Path("o")>>, separator |-> <<" ">>]>>),
               Rule("error_code", Path("o"), FALSE, <<[op |-> "json_passthrough"]>>)>>)>>,
    <<Plain, Tools(Path("c"), <<Named, Rule("status", Path("d"), FALSE, <<Outcomes("passthrough")>>)>>)>>,
    \* two entities of one kind, each over a list
    <<Plain, Tools(Path("c"), <<Named>>), Tools(Path("l"), <<Named>>)>>,
    \* several sessions in a record, of which one is refused
    <<Entity("session", {"external_id"}, Path("c"), <<Rule("external_id", Path("n"), TRUE, <<>>)>>)>>,
    \* a value that is supplied, and refused; a record that is read whole, or as a list
    <<SessionOf(<<Id(TRUE, <<[op |-> "default", value |-> Word("x")]>>),
                  Rule("duration_ms", Path("o"), FALSE,
                       <<[op |-> "default", value |-> Word("x")], CastTo("integer")>>),
                  Rule("agent_name", <<"$">>, FALSE, <<>>)>>),
      Tools(<<"$">>, <<Named>>)>>,
    \* calls without a session
    <<Tools(Path("c"), <<Named>>)>>,
    \* a session that needs no identifier
    <<Entity("session", {"outcome"}, <<>>, <<Rule("outcome", Path("o"), FALSE, <<>>)>>)>>}

\* Parameters that are null: where there is nothing, and where there is a value
Nothing == Path("z")
WithNull(operator) ==
    <<SessionOf(<<Id(TRUE, <<>>),
                  Rule("agent_name", Path("i"), FALSE, <<operator>>),
                  Rule("outcome", Nothing, TRUE, <<[op |-> "trim"], operator, [op |-> "lower"]>>)>>),
      Tools(Path("c"), <<Named, Rule("status", Path("d"), FALSE, <<operator>>)>>)>>

NullOperators == {
    [op |-> "coalesce", sources |-> NullParameter],
    [op |-> "concat", sources |-> NullParameter],
    [op |-> "concat", sources |-> <<Nothing, Path("q")>>, separator |-> NullParameter],
    [op |-> "concat", sources |-> <<Path("i"), Nothing>>, separator |-> NullParameter],
    [op |-> "hash", algorithm |-> "sha256", sources |-> NullParameter],
    [op |-> "hash", algorithm |-> NullParameter, sources |-> <<Nothing>>],
    [op |-> "cast", to |-> NullParameter, on_error |-> "null"],
    [op |-> "cast", to |-> "integer", on_error |-> NullParameter],
    [op |-> "parse_datetime", format |-> NullParameter, timezone |-> "Paris"],
    [op |-> "parse_datetime", format |-> "iso8601", timezone |-> NullParameter],
    [op |-> "map_values", table |-> NullParameter, on_unknown |-> "passthrough"],
    [op |-> "map_values", table |-> <<>>, on_unknown |-> NullParameter],
    [op |-> "default", value |-> Null],
    [op |-> "regex_extract", pattern |-> NullParameter, group |-> 3],
    [op |-> "json_passthrough", max_bytes |-> NullParameter],
    Convert(NullParameter, "b"), Convert("MIN", "MS")}

WithNulls == {WithNull(operator) : operator \in NullOperators}

WithRegex == With(<<[op |-> "regex_extract", pattern |-> 1, group |-> 1]>>)

Invalid == {
    <<SessionOf(<<Rule("external_id", InCalls("n"), FALSE, <<>>)>>)>>,
    <<Plain, Tools(<<"$", ".", "c", "[", "0", "]">>, <<Named>>)>>,
    <<SessionOf(<<Id(TRUE, <<>>), Rule("duration_ms", Path("d"), TRUE, <<[op |-> "unit_convert", to |-> "ms"]>>)>>)>>,
    <<Plain, Tools(Path("c"), <<Named, Rule("agent_name", Path("n"), FALSE, <<>>)>>)>>,
    <<Plain, Tools(<<>>, <<Named>>)>>,
    <<Entity("session", {}, <<>>, <<Id(TRUE, <<>>)>>)>>,
    <<Entity("agent", {"external_id"}, <<>>, <<Id(TRUE, <<>>)>>)>>,
    <<Entity("session", {"outcome"}, <<>>, <<Id(TRUE, <<>>)>>)>>,
    With(<<[op |-> "evaluate"]>>),
    With(<<[op |-> "cast", to |-> "date"]>>),
    With(<<[op |-> "cast", to |-> "string", as |-> "text"]>>),
    With(<<Convert("s", "b")>>),
    With(<<[op |-> "parse_datetime", format |-> Malformed]>>),
    With(<<[op |-> "parse_datetime", format |-> "iso8601", timezone |-> "Paris"]>>),
    With(<<Convert(Malformed, "ms")>>),
    With(<<[op |-> "regex_extract", pattern |-> 1, group |-> NullParameter]>>),
    With(<<[op |-> "map_values", table |-> <<>>, on_unknown |-> "constant"]>>),
    With(<<[op |-> "coalesce", sources |-> <<>>]>>),
    With(<<[op |-> "coalesce", sources |-> <<InCalls("n")>>]>>),
    With(<<[op |-> "regex_extract", pattern |-> 0, group |-> 1]>>)}

MCMappings == Accepted \cup WithNulls \cup Invalid \cup {WithRegex}

MCLetters == {"a", "b", "c", "d", "i", "l", "n", "o", "q", "z"}
================================================================================
